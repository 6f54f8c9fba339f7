--------------------------- MODULE MigrationsProofs ---------------------------
(***************************************************************************)
(* Proofs about Migrations and Deployment: what the files leave behind, in *)
(* any number of runs at once, and the pool's life.                        *)
(***************************************************************************)
EXTENDS Deployment, Integers, TLAPS

RunnerType ==
  /\ catalog \in SUBSET Facts
  /\ draft \in [Runners -> [add : SUBSET Facts, drop : SUBSET Facts]]
  /\ file \in [Runners -> 0 .. LastFile]
  /\ line \in [Runners -> 1 .. 8]
  /\ result \in [Runners -> {"none", "ok", "failed"}]
  /\ runs \in 0 .. MaxRuns

\* An open transaction touches the object of its file only.
DraftsTheirOwn ==
  \A m \in Runners :
    \A x \in draft[m].add \cup draft[m].drop : Running(m) /\ x[2] = On(file[m])

\* It has dropped something only between DROP POLICY and CREATE POLICY.
DropsAreReplaced ==
  \A m \in Runners : draft[m].drop # {} =>
    /\ file[m] \in 2 .. LastFile - 1 /\ line[m] = 6
    /\ draft[m].drop = {<<"policy", On(file[m])>>}

\* What its statements so far were for is there, for itself.
StatementsHold ==
  \A m \in Runners : Running(m) =>
    \A i \in DOMAIN Script(file[m]) :
      i < line[m] /\ Script(file[m])[i] \notin {"index", "drop"}
        => <<Script(file[m])[i], On(file[m])>> \in Seen(m)

\* What its files so far were for is there, for everyone.
FilesHold ==
  \A m \in Runners, f \in 1 .. LastFile :
    f < file[m] \/ result[m] = "ok" =>
      \A i \in DOMAIN Script(f) :
        Script(f)[i] \notin {"index", "drop"} => <<Script(f)[i], On(f)>> \in catalog

RunnerInv ==
  /\ RunnerType
  /\ DraftsTheirOwn
  /\ DropsAreReplaced
  /\ StatementsHold
  /\ FilesHold
  /\ Protected

-----------------------------------------------------------------------------
(* The files. *)

Statements == {"role", "grant", "table", "index", "rls", "forced", "drop", "policy"}

\* A file is one of three.
LEMMA Shapes ==
  ASSUME NEW f \in 1 .. LastFile
  PROVE  /\ LastFile \in Nat /\ LastFile >= 2
         /\ f = 1 => Script(f) = <<"role", "grant">>
         /\ f = LastFile => Script(f) = <<"table", "grant">>
         /\ f \in 2 .. LastFile - 1 =>
              Script(f) = <<"table", "index", "rls", "forced", "drop", "policy", "grant">>
  <1>1. LastFile \in Nat /\ LastFile >= 2
    BY MigrationsAssumption DEF LastFile
  <1> QED BY <1>1 DEF Script

LEMMA Entries ==
  ASSUME NEW f \in 1 .. LastFile
  PROVE  /\ Len(Script(f)) \in {2, 7}
         /\ DOMAIN Script(f) = 1 .. Len(Script(f))
         /\ \A i \in DOMAIN Script(f) : Script(f)[i] \in Statements
  <1>1. CASE f = 1
    <2>1. Script(f) = <<"role", "grant">>
      BY <1>1, Shapes
    <2> QED BY <2>1 DEF Statements
  <1>2. CASE f = LastFile
    <2>1. Script(f) = <<"table", "grant">>
      BY <1>2, Shapes
    <2> QED BY <2>1 DEF Statements
  <1>3. CASE f \in 2 .. LastFile - 1
    <2>1. Script(f) = <<"table", "index", "rls", "forced", "drop", "policy", "grant">>
      BY <1>3, Shapes
    <2> QED BY <2>1 DEF Statements
  <1> QED BY <1>1, <1>2, <1>3, Shapes

\* The file of a tenant table is its own: no other file is on that table.
LEMMA OwnFile ==
  ASSUME NEW f \in DOMAIN TenantTables, NEW g \in 1 .. LastFile, On(g) = TenantTables[f]
  PROVE  g = f + 1 /\ g \in 2 .. LastFile - 1
  BY MigrationsAssumption DEF On, LastFile

LEMMA Places ==
  ASSUME NEW f \in 1 .. LastFile, NEW i \in DOMAIN Script(f)
  PROVE  /\ Script(f)[i] = "drop" => f \in 2 .. LastFile - 1 /\ i = 5
         /\ f \in 2 .. LastFile - 1 => (i = 6 <=> Script(f)[i] = "policy")
  <1>1. CASE f = 1
    <2>1. Script(f) = <<"role", "grant">>
      BY <1>1, Shapes
    <2> QED BY <2>1, <1>1
  <1>2. CASE f = LastFile
    <2>1. Script(f) = <<"table", "grant">>
      BY <1>2, Shapes
    <2> QED BY <2>1, <1>2, Shapes
  <1>3. CASE f \in 2 .. LastFile - 1
    <2>1. Script(f) = <<"table", "index", "rls", "forced", "drop", "policy", "grant">>
      BY <1>3, Shapes
    <2> QED BY <2>1, <1>3
  <1> QED BY <1>1, <1>2, <1>3, Shapes

\* A whole file of a tenant table leaves its guards.
LEMMA GuardsAreScripted ==
  ASSUME NEW f \in 2 .. LastFile - 1,
         \A i \in DOMAIN Script(f) :
           Script(f)[i] \notin {"index", "drop"} => <<Script(f)[i], On(f)>> \in catalog'
  PROVE  Guards(On(f)) \subseteq catalog'
  <1>0. f \in 1 .. LastFile
    BY MigrationsAssumption DEF LastFile
  <1>1. Script(f) = <<"table", "index", "rls", "forced", "drop", "policy", "grant">>
    BY <1>0, Shapes
  <1>2. /\ 3 \in DOMAIN Script(f) /\ Script(f)[3] = "rls"
        /\ 4 \in DOMAIN Script(f) /\ Script(f)[4] = "forced"
        /\ 6 \in DOMAIN Script(f) /\ Script(f)[6] = "policy"
    BY <1>1
  <1> QED BY <1>2 DEF Guards

-----------------------------------------------------------------------------
(* The steps of a runner. *)

LEMMA Where ==
  ASSUME RunnerType, NEW m \in Runners, Running(m)
  PROVE  /\ file[m] \in 1 .. LastFile
         /\ line[m] \in Nat /\ line[m] >= 1
         /\ ~AtEnd(m) => line[m] \in DOMAIN Script(file[m]) /\ Do(m) \in Statements
         /\ On(file[m]) \in Objects
  <1>1. file[m] \in 1 .. LastFile
    BY MigrationsAssumption DEF RunnerType, Running, LastFile
  <1>2. /\ Len(Script(file[m])) \in {2, 7}
        /\ DOMAIN Script(file[m]) = 1 .. Len(Script(file[m]))
        /\ \A i \in DOMAIN Script(file[m]) : Script(file[m])[i] \in Statements
    BY <1>1, Entries
  <1>3. line[m] \in Nat /\ line[m] >= 1
    BY DEF RunnerType
  <1>4. ~AtEnd(m) => line[m] \in DOMAIN Script(file[m])
    BY <1>2, <1>3 DEF AtEnd
  <1> QED BY <1>1, <1>2, <1>3, <1>4 DEF Do, Objects

LEMMA ExecKeeps ==
  ASSUME RunnerInv, NEW m \in Runners, Exec(m)
  PROVE  RunnerInv'
  <1> DEFINE obj == On(file[m])
  <1> DEFINE pol == <<"policy", obj>>
  <1>1. /\ Running(m) /\ ~AtEnd(m)
        /\ line' = [line EXCEPT ![m] = @ + 1]
        /\ UNCHANGED <<catalog, file, result, runs>>
    BY DEF Exec
  <1>2. /\ file[m] \in 1 .. LastFile /\ line[m] \in DOMAIN Script(file[m])
        /\ Do(m) \in Statements /\ obj \in Objects
    BY <1>1, Where DEF RunnerInv
  <1>3. RunnerType
    BY DEF RunnerInv
  <1>4. \/ /\ Do(m) = "index" \/ Skips(m)
           /\ draft' = draft
        \/ /\ Do(m) = "drop"
           /\ draft' = [draft EXCEPT ![m] = [add |-> @.add \ {pol}, drop |-> @.drop \cup {pol}]]
        \/ /\ Do(m) \notin {"index", "drop"}
           /\ draft' = [draft EXCEPT ![m] = [add |-> @.add \cup {Fact(m)},
                                             drop |-> @.drop \ {Fact(m)}]]
    <2>1. CASE Do(m) = "index" \/ Skips(m)
      BY <2>1 DEF Exec
    <2>2. CASE Do(m) = "drop"
      <3>1. ~(Do(m) = "index" \/ Skips(m))
        BY <2>2 DEF Skips
      <3> QED BY <2>2, <3>1 DEF Exec
    <2>3. CASE ~(Do(m) = "index" \/ Skips(m)) /\ Do(m) # "drop"
      BY <2>3 DEF Exec
    <2> QED BY <2>1, <2>2, <2>3
  <1>5. Fact(m) = <<Do(m), obj>>
    BY DEF Fact
  <1>6. \A q \in Runners : q # m => draft'[q] = draft[q] /\ line'[q] = line[q]
    BY <1>1, <1>3, <1>4 DEF RunnerType
  <1>7. /\ Do(m) = "drop" => file[m] \in 2 .. LastFile - 1 /\ line[m] = 5
        /\ file[m] \in 2 .. LastFile - 1 => (line[m] = 6 <=> Do(m) = "policy")
    BY <1>2, Places DEF Do
  <1>8. /\ line'[m] = line[m] + 1
        /\ file'[m] = file[m]
        /\ line[m] \in Int
    BY <1>1, <1>3 DEF RunnerType
  <1>9. RunnerType'
    <2>1. line[m] + 1 \in 1 .. 8
      <3>1. line[m] \in 1 .. 7
        BY <1>2, Entries
      <3> QED BY <3>1
    <2>2. line' \in [Runners -> 1 .. 8]
      BY <2>1, <1>1, <1>3 DEF RunnerType
    <2>3. Do(m) \notin {"index", "drop"} => Fact(m) \in Facts
      BY <1>2, <1>5 DEF Facts, Statements
    <2>4. pol \in Facts
      BY <1>2 DEF Facts
    <2>5. draft' \in [Runners -> [add : SUBSET Facts, drop : SUBSET Facts]]
      BY <2>3, <2>4, <1>3, <1>4 DEF RunnerType
    <2> QED BY <2>2, <2>5, <1>1, <1>3 DEF RunnerType
  <1>10. DraftsTheirOwn'
    <2> SUFFICES ASSUME NEW q \in Runners, NEW x \in (draft[q].add \cup draft[q].drop)'
                 PROVE  (Running(q) /\ x[2] = On(file[q]))'
      BY DEF DraftsTheirOwn
    <2>1. CASE q # m
      BY <2>1, <1>1, <1>6 DEF RunnerInv, DraftsTheirOwn, Running
    <2>2. CASE q = m
      <3>1. x \in draft[m].add \cup draft[m].drop \/ x = pol \/ x = Fact(m)
        BY <2>2, <1>3, <1>4 DEF RunnerType
      <3>2. x[2] = obj
        BY <3>1, <1>5 DEF RunnerInv, DraftsTheirOwn
      <3> QED BY <2>2, <3>2, <1>1, <1>8 DEF Running
    <2> QED BY <2>1, <2>2
  <1>11. DropsAreReplaced'
    <2> SUFFICES ASSUME NEW q \in Runners, draft'[q].drop # {}
                 PROVE  /\ file'[q] \in 2 .. LastFile - 1 /\ line'[q] = 6
                        /\ draft'[q].drop = {<<"policy", On(file'[q])>>}
      BY DEF DropsAreReplaced
    <2>1. CASE q # m
      BY <2>1, <1>1, <1>6 DEF RunnerInv, DropsAreReplaced
    <2>2. CASE q = m
      <3>1. draft[m].drop # {} =>
              Do(m) = "policy" /\ line[m] = 6 /\ draft[m].drop = {pol}
        BY <1>7 DEF RunnerInv, DropsAreReplaced
      <3>2. CASE Do(m) = "drop"
        <4>1. draft[m].drop = {}
          BY <3>1, <3>2
        <4>2. draft'[m].drop = {pol}
          BY <4>1, <3>2, <1>3, <1>4 DEF RunnerType, Skips
        <4> QED BY <4>2, <3>2, <2>2, <1>7, <1>8
      <3>3. CASE Do(m) # "drop"
        <4>1. draft'[m].drop = {}
          <5>1. CASE draft[m].drop = {}
            BY <5>1, <3>3, <1>3, <1>4 DEF RunnerType
          <5>2. CASE draft[m].drop # {}
            <6>1. Do(m) = "policy" /\ draft[m].drop = {pol} /\ Fact(m) = pol
              BY <5>2, <3>1, <1>5
            <6>2. ~Skips(m)
              BY <6>1 DEF Skips
            <6> QED BY <6>1, <6>2, <1>3, <1>4 DEF RunnerType
          <5> QED BY <5>1, <5>2
        <4> QED BY <4>1, <2>2
      <3> QED BY <3>2, <3>3
    <2> QED BY <2>1, <2>2
  <1>12. StatementsHold'
    <2> SUFFICES ASSUME NEW q \in Runners, Running(q)',
                        NEW i \in DOMAIN Script(file'[q]), i < line'[q],
                        Script(file'[q])[i] \notin {"index", "drop"}
                 PROVE  <<Script(file'[q])[i], On(file'[q])>> \in Seen(q)'
      BY DEF StatementsHold
    <2>1. CASE q # m
      BY <2>1, <1>1, <1>6 DEF RunnerInv, StatementsHold, Seen, Running
    <2>2. CASE q = m
      <3> DEFINE x == <<Script(file[m])[i], obj>>
      <3>0. i \in Int /\ i \in DOMAIN Script(file[m])
        BY <2>2, <1>2, <1>8, Entries
      <3>1. i < line[m] \/ i = line[m]
        BY <3>0, <2>2, <1>8
      <3>2. i < line[m] => x \in Seen(m)
        BY <2>2, <1>1, <1>8 DEF RunnerInv, StatementsHold
      <3>3. i = line[m] => x = Fact(m) /\ Do(m) \notin {"index", "drop"}
        BY <2>2, <1>5, <1>8 DEF Do
      <3>4. CASE draft' = draft /\ (Do(m) = "index" \/ Skips(m))
        <4>1. Seen(m)' = Seen(m)
          BY <3>4, <1>1 DEF Seen
        <4>2. x \in Seen(m)
          BY <3>1, <3>2, <3>3, <3>4 DEF Skips
        <4> QED BY <4>1, <4>2, <2>2, <1>8
      <3>5. CASE /\ Do(m) = "drop"
                 /\ draft' = [draft EXCEPT ![m] = [add |-> @.add \ {pol},
                                                   drop |-> @.drop \cup {pol}]]
        <4>1. Seen(m) \ {pol} \subseteq Seen(m)'
          BY <3>5, <1>1, <1>3 DEF Seen, RunnerType
        <4>2. i < line[m]
          BY <3>1, <3>3, <3>5
        <4>3. Script(file[m])[i] # "policy"
          BY <4>2, <3>0, <3>5, <1>2, <1>7, Places
        <4>4. x # pol
          BY <4>3
        <4> QED BY <4>1, <4>2, <4>4, <3>2, <2>2, <1>8
      <3>6. CASE /\ Do(m) \notin {"index", "drop"}
                 /\ draft' = [draft EXCEPT ![m] = [add |-> @.add \cup {Fact(m)},
                                                   drop |-> @.drop \ {Fact(m)}]]
        <4>1. Seen(m) \cup {Fact(m)} \subseteq Seen(m)'
          BY <3>6, <1>1, <1>3 DEF Seen, RunnerType
        <4> QED BY <4>1, <3>1, <3>2, <3>3, <2>2, <1>8
      <3> QED BY <3>4, <3>5, <3>6, <1>4
    <2> QED BY <2>1, <2>2
  <1>13. FilesHold'
    BY <1>1 DEF RunnerInv, FilesHold
  <1>14. Protected'
    BY <1>1 DEF RunnerInv, Protected
  <1> QED BY <1>9, <1>10, <1>11, <1>12, <1>13, <1>14 DEF RunnerInv

LEMMA CommitKeeps ==
  ASSUME RunnerInv, NEW m \in Runners, CommitFile(m)
  PROVE  RunnerInv'
  <1> DEFINE f == file[m]
  <1>1. RunnerType
    BY DEF RunnerInv
  <1>2. /\ Running(m) /\ AtEnd(m)
        /\ catalog' = Seen(m)
        /\ draft' = [draft EXCEPT ![m] = NoDraft]
        /\ line' = [line EXCEPT ![m] = 1]
        /\ runs' = runs
        /\ \/ /\ f = LastFile
              /\ file' = [file EXCEPT ![m] = 0] /\ result' = [result EXCEPT ![m] = "ok"]
           \/ /\ f # LastFile
              /\ file' = [file EXCEPT ![m] = f + 1] /\ result' = result
    BY DEF CommitFile, EndTransaction
  <1>3. f \in 1 .. LastFile /\ LastFile \in Nat
    BY <1>1, <1>2, Where, Shapes
  <1>4. draft[m].drop = {}
    <2>1. f \in 2 .. LastFile - 1 => line[m] > 7
      <3>1. f \in 2 .. LastFile - 1 => Len(Script(f)) = 7
        <4> SUFFICES ASSUME f \in 2 .. LastFile - 1
                     PROVE  Len(Script(f)) = 7
          OBVIOUS
        <4>1. Script(f) = <<"table", "index", "rls", "forced", "drop", "policy", "grant">>
          BY <1>3, Shapes
        <4> QED BY <4>1
      <3> QED BY <3>1, <1>2 DEF AtEnd
    <2> QED BY <2>1 DEF RunnerInv, DropsAreReplaced
  <1>5. catalog' = catalog \cup draft[m].add
    BY <1>2, <1>4 DEF Seen
  <1>6. \A i \in DOMAIN Script(f) :
          Script(f)[i] \notin {"index", "drop"} => <<Script(f)[i], On(f)>> \in catalog'
    <2> SUFFICES ASSUME NEW i \in DOMAIN Script(f), Script(f)[i] \notin {"index", "drop"}
                 PROVE  <<Script(f)[i], On(f)>> \in catalog'
      OBVIOUS
    <2>1. i \in Nat /\ i <= Len(Script(f)) /\ Len(Script(f)) \in Nat
      BY <1>3, Entries
    <2>2. line[m] \in Nat /\ line[m] > Len(Script(f))
      BY <1>1, <1>2, Where DEF AtEnd
    <2>3. i < line[m]
      BY <2>1, <2>2
    <2> QED BY <2>3, <1>2 DEF RunnerInv, StatementsHold
  <1>7. \A q \in Runners : q # m =>
          draft'[q] = draft[q] /\ line'[q] = line[q] /\ file'[q] = file[q] /\ result'[q] = result[q]
    BY <1>1, <1>2 DEF RunnerType
  <1>8. /\ draft'[m] = NoDraft /\ line'[m] = 1
        /\ file'[m] = 0 \/ file'[m] = f + 1
        /\ result'[m] = "ok" => f = LastFile \/ result[m] = "ok"
        /\ file'[m] = 0 => f = LastFile
    BY <1>1, <1>2, <1>3 DEF RunnerType
  <1>9. RunnerType'
    <2>1. catalog' \in SUBSET Facts
      BY <1>1, <1>5 DEF RunnerType
    <2>2. draft' \in [Runners -> [add : SUBSET Facts, drop : SUBSET Facts]]
      BY <1>1, <1>2 DEF RunnerType, NoDraft
    <2>3. file' \in [Runners -> 0 .. LastFile]
      BY <1>1, <1>2, <1>3 DEF RunnerType
    <2> QED BY <2>1, <2>2, <2>3, <1>1, <1>2 DEF RunnerType
  <1>10. DraftsTheirOwn' /\ DropsAreReplaced'
    <2>1. \A x \in NoDraft.add \cup NoDraft.drop : FALSE
      BY DEF NoDraft
    <2>2. NoDraft.drop = {}
      BY DEF NoDraft
    <2>3. DraftsTheirOwn'
      BY <2>1, <1>7, <1>8 DEF RunnerInv, DraftsTheirOwn, Running
    <2>4. DropsAreReplaced'
      BY <2>2, <1>7, <1>8 DEF RunnerInv, DropsAreReplaced
    <2> QED BY <2>3, <2>4
  <1>11. StatementsHold'
    <2> SUFFICES ASSUME NEW q \in Runners, Running(q)',
                        NEW i \in DOMAIN Script(file'[q]), i < line'[q],
                        Script(file'[q])[i] \notin {"index", "drop"}
                 PROVE  <<Script(file'[q])[i], On(file'[q])>> \in Seen(q)'
      BY DEF StatementsHold
    <2>1. CASE q # m
      <3>1. Seen(q) \subseteq Seen(q)'
        BY <2>1, <1>5, <1>7 DEF Seen
      <3> QED BY <2>1, <3>1, <1>7 DEF RunnerInv, StatementsHold, Running
    <2>2. CASE q = m
      <3>1. file'[m] \in 1 .. LastFile
        BY <2>2, <1>8, <1>9 DEF RunnerType, Running
      <3>2. i \in Nat /\ i >= 1
        BY <2>2, <3>1, Entries
      <3> QED BY <2>2, <3>2, <1>8
    <2> QED BY <2>1, <2>2
  <1>12. FilesHold'
    <2> SUFFICES ASSUME NEW q \in Runners, NEW g \in 1 .. LastFile,
                        g < file'[q] \/ result'[q] = "ok",
                        NEW i \in DOMAIN Script(g), Script(g)[i] \notin {"index", "drop"}
                 PROVE  <<Script(g)[i], On(g)>> \in catalog'
      BY DEF FilesHold
    <2>1. CASE g < file[q] \/ result[q] = "ok"
      BY <2>1, <1>5 DEF RunnerInv, FilesHold
    <2>2. CASE ~(g < file[q] \/ result[q] = "ok")
      <3>1. q = m
        BY <2>2, <1>7
      <3>2. g = f
        BY <3>1, <2>2, <1>3, <1>8
      <3> QED BY <3>2, <1>6
    <2> QED BY <2>1, <2>2
  <1>13. Protected'
    <2> SUFFICES ASSUME NEW g \in DOMAIN TenantTables, <<"grant", TenantTables[g]>> \in catalog'
                 PROVE  Guards(TenantTables[g]) \subseteq catalog'
      BY DEF Protected
    <2>1. CASE On(f) = TenantTables[g]
      <3>1. f \in 2 .. LastFile - 1
        BY <2>1, <1>3, OwnFile
      <3> QED BY <3>1, <2>1, <1>6, GuardsAreScripted
    <2>2. CASE On(f) # TenantTables[g]
      <3>1. <<"grant", TenantTables[g]>> \notin draft[m].add
        BY <2>2 DEF RunnerInv, DraftsTheirOwn
      <3> QED BY <3>1, <1>5 DEF RunnerInv, Protected
    <2> QED BY <2>1, <2>2
  <1> QED BY <1>9, <1>10, <1>11, <1>12, <1>13 DEF RunnerInv

LEMMA FailKeeps ==
  ASSUME RunnerInv, NEW m \in Runners, Fail(m)
  PROVE  RunnerInv'
  <1>1. RunnerType
    BY DEF RunnerInv
  <1>2. /\ draft' = [draft EXCEPT ![m] = NoDraft]
        /\ line' = [line EXCEPT ![m] = 1]
        /\ file' = [file EXCEPT ![m] = 0]
        /\ result' = [result EXCEPT ![m] = "failed"]
        /\ catalog' = catalog /\ runs' = runs
    BY DEF Fail, EndTransaction
  <1>3. \A q \in Runners : q # m =>
          draft'[q] = draft[q] /\ line'[q] = line[q] /\ file'[q] = file[q] /\ result'[q] = result[q]
    BY <1>1, <1>2 DEF RunnerType
  <1>4. draft'[m] = NoDraft /\ line'[m] = 1 /\ file'[m] = 0 /\ result'[m] = "failed"
    BY <1>1, <1>2 DEF RunnerType
  <1>5. LastFile \in Nat
    BY MigrationsAssumption DEF LastFile
  <1>6. RunnerType'
    BY <1>1, <1>2, <1>5 DEF RunnerType, NoDraft
  <1>7. DraftsTheirOwn' /\ DropsAreReplaced'
    <2>1. NoDraft.add \cup NoDraft.drop = {} /\ NoDraft.drop = {}
      BY DEF NoDraft
    <2> QED BY <2>1, <1>3, <1>4 DEF RunnerInv, DraftsTheirOwn, DropsAreReplaced, Running
  <1>8. StatementsHold'
    BY <1>2, <1>3, <1>4 DEF RunnerInv, StatementsHold, Running, Seen
  <1>9. FilesHold'
    BY <1>2, <1>3, <1>4 DEF RunnerInv, FilesHold
  <1>10. Protected'
    BY <1>2 DEF RunnerInv, Protected
  <1> QED BY <1>6, <1>7, <1>8, <1>9, <1>10 DEF RunnerInv

LEMMA StartKeeps ==
  ASSUME RunnerInv, NEW m \in Runners, StartRun(m)
  PROVE  RunnerInv'
  <1>1. RunnerType
    BY DEF RunnerInv
  <1>2. /\ ~Running(m) /\ runs < MaxRuns /\ runs' = runs + 1
        /\ draft' = draft /\ catalog' = catalog
        /\ line' = [line EXCEPT ![m] = 1]
        /\ file' = [file EXCEPT ![m] = 1]
        /\ result' = [result EXCEPT ![m] = "none"]
    BY DEF StartRun
  <1>3. \A q \in Runners : q # m =>
          line'[q] = line[q] /\ file'[q] = file[q] /\ result'[q] = result[q]
    BY <1>1, <1>2 DEF RunnerType
  <1>4. line'[m] = 1 /\ file'[m] = 1 /\ result'[m] = "none"
    BY <1>1, <1>2 DEF RunnerType
  <1>5. LastFile \in Nat /\ LastFile >= 2
    BY MigrationsAssumption DEF LastFile
  <1>6. RunnerType'
    <2>1. runs' \in 0 .. MaxRuns
      BY <1>1, <1>2, MigrationsAssumption DEF RunnerType
    <2> QED BY <2>1, <1>1, <1>2, <1>5 DEF RunnerType
  <1>7. draft[m].add \cup draft[m].drop = {} /\ draft[m].drop = {}
    BY <1>2 DEF RunnerInv, DraftsTheirOwn
  <1>8. DraftsTheirOwn' /\ DropsAreReplaced'
    BY <1>2, <1>3, <1>7 DEF RunnerInv, DraftsTheirOwn, DropsAreReplaced, Running
  <1>9. StatementsHold'
    <2> SUFFICES ASSUME NEW q \in Runners, Running(q)',
                        NEW i \in DOMAIN Script(file'[q]), i < line'[q],
                        Script(file'[q])[i] \notin {"index", "drop"}
                 PROVE  <<Script(file'[q])[i], On(file'[q])>> \in Seen(q)'
      BY DEF StatementsHold
    <2>1. CASE q # m
      BY <2>1, <1>2, <1>3 DEF RunnerInv, StatementsHold, Running, Seen
    <2>2. CASE q = m
      <3>1. i \in Nat /\ i >= 1
        BY <2>2, <1>4, <1>5, Entries
      <3> QED BY <3>1, <2>2, <1>4
    <2> QED BY <2>1, <2>2
  <1>10. FilesHold'
    BY <1>2, <1>3, <1>4 DEF RunnerInv, FilesHold
  <1>11. Protected'
    BY <1>2 DEF RunnerInv, Protected
  <1> QED BY <1>6, <1>8, <1>9, <1>10, <1>11 DEF RunnerInv

\* Every other step leaves the runners and the catalog alone.
LEMMA OthersKeep ==
  ASSUME RunnerInv, UNCHANGED <<catalog, runnerVars>>
  PROVE  RunnerInv'
  BY DEF RunnerInv, runnerVars, RunnerType, DraftsTheirOwn, DropsAreReplaced, StatementsHold,
         FilesHold, Protected, Running, Seen

LEMMA RunnersStart ==
  ASSUME DbInit
  PROVE  RunnerInv
  <1>1. LastFile \in Nat
    BY MigrationsAssumption DEF LastFile
  <1>2. RunnerType
    BY <1>1, MigrationsAssumption DEF DbInit, RunnerType, NoDraft
  <1>3. DraftsTheirOwn /\ DropsAreReplaced /\ StatementsHold
    BY DEF DbInit, DraftsTheirOwn, DropsAreReplaced, StatementsHold, NoDraft, Running
  <1>4. FilesHold
    BY DEF DbInit, FilesHold
  <1>5. Protected
    BY DEF DbInit, Protected
  <1> QED BY <1>2, <1>3, <1>4, <1>5 DEF RunnerInv

LEMMA RunnersStep ==
  ASSUME RunnerInv, [DeployNext]_deployVars
  PROVE  RunnerInv'
  <1>1. CASE UNCHANGED <<catalog, runnerVars>>
    BY <1>1, OthersKeep
  <1>2. ASSUME NEW m \in Runners, StartRun(m) PROVE RunnerInv'
    BY <1>2, StartKeeps
  <1>3. ASSUME NEW m \in Runners, Exec(m) PROVE RunnerInv'
    BY <1>3, ExecKeeps
  <1>4. ASSUME NEW m \in Runners, CommitFile(m) PROVE RunnerInv'
    BY <1>4, CommitKeeps
  <1>5. ASSUME NEW m \in Runners, Fail(m) PROVE RunnerInv'
    BY <1>5, FailKeeps
  <1>6. ASSUME NEW m \in Runners, Break(m) PROVE RunnerInv'
    BY <1>5, <1>6 DEF Break
  <1>7. CASE CreateApp \/ CreatePool \/ NoPool \/ EnterManager \/ Shutdown \/ Interrupted
             \/ Stop \/ Exit
    BY <1>1, <1>7 DEF CreateApp, CreatePool, NoPool, EnterManager, Shutdown, Interrupted, Stop,
                      Drained, ClosePool, Exit, Become, dbVars
  <1>8. ASSUME NEW c \in Clients, Accept(c) \/ Request(c) \/ Serve(c) \/ Reply(c)
        PROVE  RunnerInv'
    <2>1. c \notin Runners
      BY MigrationsAssumption
    <2> QED BY <2>1, <1>1, <1>8 DEF Accept, Request, Serve, Reply, dbVars, Begin, Work, Ask,
                                    Take, End, Break, CloseTransaction
  <1>9. CASE UNCHANGED deployVars
    BY <1>1, <1>9 DEF deployVars, dbVars
  <1> QED BY <1>2, <1>3, <1>4, <1>5, <1>6, <1>7, <1>8, <1>9 DEF DeployNext, Migrate, Apply

-----------------------------------------------------------------------------
(* The pool. *)

Pooled == Lives \ {"down", "created"}

LifeInv ==
  /\ open \in [Clients -> BOOLEAN]
  /\ life \in Lives /\ entered \in BOOLEAN
  /\ starts \in 0 .. MaxStarts /\ pools \in 0 .. starts
  /\ starts = 0 => life = "down" /\ ~entered
  /\ life = "created" => pools < starts
  /\ life \in Pooled => pools >= 1
  /\ InFlight => life \in Pooled \ {"pooled"}
  /\ waiting \subseteq Clients
  /\ waiting # {} => life \in {"serving", "draining"}
  /\ starts = 1 /\ life \notin Pooled => pools = 0
  /\ starts = 1 /\ life \in {"created", "pooled"} => ~entered

LEMMA LifeStep ==
  ASSUME LifeInv, [DeployNext]_deployVars
  PROVE  LifeInv'
  <1> USE DEF LifeInv, Lives, Pooled, InFlight
  <1>1. CASE CreateApp
    BY <1>1, StartsAssumption DEF CreateApp, dbVars, clientVars
  <1>2. CASE CreatePool \/ NoPool
    BY <1>2, StartsAssumption DEF CreatePool, NoPool, Become, dbVars, clientVars
  <1>2a. CASE EnterManager
    <2>1. /\ life = "pooled" /\ entered' = TRUE
          /\ life' = IF entered THEN "down" ELSE "serving"
          /\ starts' = starts /\ pools' = pools /\ open' = open
          /\ waiting' = {}
      BY <1>2a DEF EnterManager, Become, dbVars, clientVars
    <2>2. CASE entered = TRUE
      BY <2>1, <2>2, StartsAssumption
    <2>3. CASE entered = FALSE
      BY <2>1, <2>3, StartsAssumption
    <2> QED BY <2>2, <2>3
  <1>3. CASE Shutdown \/ Interrupted \/ Drained
    BY <1>3, StartsAssumption DEF Shutdown, Interrupted, Drained, Become, dbVars, clientVars
  <1>3a. CASE ClosePool
    BY <1>3a, StartsAssumption DEF ClosePool, Become, dbVars, clientVars
  <1>4. CASE Exit
    <2>1. open' = [c \in Clients |-> FALSE]
      BY <1>4 DEF Exit
    <2>2. open' \in [Clients -> BOOLEAN]
      BY <2>1
    <2>3. \A c \in Clients : open'[c] = FALSE
      BY <2>1
    <2>4. ~InFlight'
      BY <2>3
    <2>5. life' = "down" /\ starts' = 0 /\ pools' = 0 /\ waiting' = {}
      BY <1>4 DEF Exit
    <2>6. entered' \in BOOLEAN /\ ~entered'
      BY <1>4 DEF Exit
    <2> HIDE DEF InFlight
    <2> QED BY <2>2, <2>4, <2>5, <2>6, StartsAssumption
  <1>5. ASSUME NEW c \in Clients, Request(c) PROVE LifeInv'
    <2>1. /\ open' = [open EXCEPT ![c] = TRUE]
          /\ UNCHANGED <<life, starts, entered, pools>>
          /\ waiting' = waiting \ {c}
      BY <1>5 DEF Request, Begin
    <2>2. life \in {"serving", "draining"}
      BY <1>5 DEF Request
    <2>3. open' \in [Clients -> BOOLEAN]
      BY <2>1
    <2> HIDE DEF InFlight
    <2> QED BY <2>1, <2>2, <2>3
  <1>5a. ASSUME NEW c \in Clients, Accept(c) \/ Reply(c) PROVE LifeInv'
    <2>1. UNCHANGED <<open, life, starts, entered, pools>>
      BY <1>5a DEF Accept, Reply, dbVars, clientVars
    <2>2. InFlight' <=> InFlight
      BY <2>1
    <2>3. waiting' \subseteq Clients /\ (waiting' # {} => life \in {"serving", "draining"})
      BY <1>5a DEF Accept, Reply
    <2> HIDE DEF InFlight
    <2> QED BY <2>1, <2>2, <2>3
  <1>6. ASSUME NEW c \in Clients, CloseTransaction(c), UNCHANGED lifeVars PROVE LifeInv'
    BY <1>6 DEF CloseTransaction, lifeVars
  <1>7. ASSUME UNCHANGED <<open, lifeVars>> PROVE LifeInv'
    BY <1>7 DEF lifeVars
  <1>8. ASSUME NEW c \in Clients, Serve(c) PROVE LifeInv'
    <2>1. c \notin Runners
      BY MigrationsAssumption
    <2> QED BY <2>1, <1>6, <1>7, <1>8 DEF Serve, Work, Ask, Take, End, Break
  <1>9. ASSUME NEW m \in Runners,
               Migrate(m) \/ ((StartRun(m) \/ Fail(m)) /\ UNCHANGED lifeVars)
        PROVE  LifeInv'
    BY <1>7, <1>9 DEF Migrate, Apply, Exec, CommitFile, Break, StartRun, Fail, clientVars
  <1>10. CASE UNCHANGED deployVars
    BY <1>7, <1>10 DEF deployVars, dbVars, clientVars
  <1> QED BY <1>1, <1>2, <1>2a, <1>3, <1>3a, <1>4, <1>5, <1>5a, <1>8, <1>9, <1>10 DEF DeployNext, Stop

LEMMA LifeStart ==
  ASSUME DeployInit
  PROVE  LifeInv
  <1>1. open = [c \in Clients |-> FALSE]
    BY DEF DeployInit, DbInit
  <1>2. open \in [Clients -> BOOLEAN]
    BY <1>1
  <1>3. \A c \in Clients : open[c] = FALSE
    BY <1>1
  <1>4. ~InFlight
    BY <1>3 DEF InFlight
  <1>5. life = "down" /\ starts = 0 /\ pools = 0 /\ waiting = {}
    BY DEF DeployInit
  <1>6. entered \in BOOLEAN /\ ~entered
    BY DEF DeployInit
  <1> QED BY <1>2, <1>4, <1>5, <1>6, StartsAssumption DEF LifeInv, Lives, Pooled

-----------------------------------------------------------------------------
(* The locks. *)

LockType == locks \in [Sessions -> LockSet] /\ wish \in [Clients -> LockSet]

LEMMA NeedsLocks ==
  ASSUME RunnerType, NEW m \in Runners, Running(m), ~AtEnd(m)
  PROVE  Needs(m) \in LockSet
  <1>1. On(file[m]) \in Objects
    BY Where
  <1>2. {<<"Share", On(file[m])>>} \in LockSet /\ {<<"AccessExclusive", On(file[m])>>} \in LockSet
    BY <1>1 DEF LockSet, Modes
  <1>3. Needs(m) \in {{<<"Share", On(file[m])>>}, {<<"AccessExclusive", On(file[m])>>}, {}}
    BY DEF Needs
  <1> QED BY <1>2, <1>3 DEF LockSet

LEMMA LockStep ==
  ASSUME RunnerType, LockType, [DeployNext]_deployVars
  PROVE  LockType'
  <1> USE DEF LockType
  <1>1. {} \in LockSet /\ \A a, b \in LockSet : a \cup b \in LockSet
    BY DEF LockSet
  <1>2. ASSUME UNCHANGED <<locks, wish>> PROVE LockType'
    BY <1>2
  <1>3. CASE Exit
    BY <1>1, <1>3 DEF Exit
  <1>4. CASE CreateApp \/ CreatePool \/ NoPool \/ EnterManager \/ Shutdown \/ Interrupted \/ Stop
    BY <1>2, <1>4 DEF CreateApp, CreatePool, NoPool, EnterManager, Shutdown, Interrupted, Stop,
                      Drained, ClosePool, Become, dbVars, clientVars
  <1>5. ASSUME NEW c \in Clients, CloseTransaction(c) PROVE LockType'
    BY <1>1, <1>5 DEF CloseTransaction, Sessions
  <1>6. ASSUME NEW c \in Clients, Ask(c) PROVE LockType'
    <2>1. PICK mode \in {"AccessShare", "RowExclusive"}, t \in Objects \ {Db} :
            wish' = [wish EXCEPT ![c] = {<<mode, t>>}]
      BY <1>6 DEF Ask
    <2>2. {<<mode, t>>} \in LockSet
      BY DEF LockSet, Modes
    <2> QED BY <2>1, <2>2, <1>6 DEF Ask
  <1>7. ASSUME NEW c \in Clients, Take(c) PROVE LockType'
    BY <1>1, <1>7 DEF Take, Sessions
  <1>8. ASSUME NEW c \in Clients, Accept(c) \/ Request(c) \/ Serve(c) \/ Reply(c)
        PROVE  LockType'
    <2>1. c \notin Runners
      BY MigrationsAssumption
    <2> QED BY <2>1, <1>2, <1>5, <1>6, <1>7, <1>8 DEF Accept, Request, Reply, dbVars, clientVars,
                                                      Begin, Serve, Work, End, Break
  <1>9. ASSUME NEW m \in Runners, Exec(m) PROVE LockType'
    <2>1. Needs(m) \in LockSet
      BY <1>9, NeedsLocks DEF Exec
    <2> QED BY <2>1, <1>1, <1>9 DEF Exec, Sessions, clientVars
  <1>10. ASSUME NEW m \in Runners, Fail(m) \/ CommitFile(m) PROVE LockType'
    BY <1>1, <1>10 DEF Fail, CommitFile, EndTransaction, Sessions, clientVars
  <1>11. ASSUME NEW m \in Runners, StartRun(m) PROVE LockType'
    BY <1>2, <1>11 DEF StartRun, clientVars
  <1>12. ASSUME NEW m \in Runners, Break(m) PROVE LockType'
    BY <1>10, <1>12 DEF Break
  <1>13. CASE UNCHANGED deployVars
    BY <1>2, <1>13 DEF deployVars, dbVars, clientVars
  <1> QED BY <1>3, <1>4, <1>8, <1>9, <1>10, <1>11, <1>12, <1>13 DEF DeployNext, Migrate, Apply

-----------------------------------------------------------------------------
(* The theorems. *)

\* Every variable keeps its type: no file past the last, no lock without a table, no more
\* pools than starts.
THEOREM TypesHold == DeploySpec => []DeployTypeOK
  <1>1. DeployInit => RunnerInv /\ LifeInv
    BY RunnersStart, LifeStart DEF DeployInit
  <1>2. DeployInit => LockType
    BY DEF DeployInit, DbInit, LockType, LockSet
  <1>3. RunnerInv /\ [DeployNext]_deployVars => RunnerInv'
    BY RunnersStep
  <1>4. LifeInv /\ [DeployNext]_deployVars => LifeInv'
    BY LifeStep
  <1>5. RunnerInv /\ LockType /\ [DeployNext]_deployVars => LockType'
    BY LockStep DEF RunnerInv
  <1>6. RunnerInv /\ LifeInv /\ LockType => DeployTypeOK
    <2> SUFFICES ASSUME RunnerInv, LifeInv, LockType
                 PROVE  DeployTypeOK
      OBVIOUS
    <2>1. DbTypeOK
      BY DEF RunnerInv, RunnerType, LifeInv, LockType, DbTypeOK
    <2>2. pools \in 0 .. MaxStarts
      BY StartsAssumption DEF LifeInv
    <2> QED BY <2>1, <2>2 DEF LifeInv, DeployTypeOK
  <1> QED BY <1>1, <1>2, <1>3, <1>4, <1>5, <1>6, PTL DEF DeploySpec

\* Whatever number of runs of the script there is, at once or after each other, and wherever
\* they stop: no tenant table is granted without its guards.
THEOREM StaysProtected == DeploySpec => []Protected
  <1>1. DeployInit => RunnerInv
    BY RunnersStart DEF DeployInit
  <1>2. RunnerInv /\ [DeployNext]_deployVars => RunnerInv'
    BY RunnersStep
  <1>3. RunnerInv => Protected
    BY DEF RunnerInv
  <1> QED BY <1>1, <1>2, <1>3, PTL DEF DeploySpec

\* A run that said it was complete left everything in place, and it stays.
THEOREM SuccessIsMigrated == DeploySpec => []SuccessMeansMigrated
  <1>1. DeployInit => RunnerInv
    BY RunnersStart DEF DeployInit
  <1>2. RunnerInv /\ [DeployNext]_deployVars => RunnerInv'
    BY RunnersStep
  <1>3. RunnerInv => SuccessMeansMigrated
    BY DEF RunnerInv, FilesHold, SuccessMeansMigrated
  <1> QED BY <1>1, <1>2, <1>3, PTL DEF DeploySpec

\* No request, of any number, loses the pool to a stop of the app, whether it has its
\* connection or is still to take one.
THEOREM PoolIsKept == DeploySpec => []PoolOutlivesRequests
  <1>1. DeployInit => LifeInv
    BY LifeStart
  <1>2. LifeInv /\ [DeployNext]_deployVars => LifeInv'
    BY LifeStep
  <1>3. LifeInv => PoolOutlivesRequests
    BY DEF LifeInv, PoolOutlivesRequests, Lives, Pooled
  <1> QED BY <1>1, <1>2, <1>3, PTL DEF DeploySpec

\* An app started once leaves no pool behind, whichever way it went down.
THEOREM NothingIsLeftOpen == DeploySpec => []NothingLeftOpen
  <1>1. DeployInit => LifeInv
    BY LifeStart
  <1>2. LifeInv /\ [DeployNext]_deployVars => LifeInv'
    BY LifeStep
  <1>3. LifeInv => NothingLeftOpen
    BY DEF LifeInv, NothingLeftOpen, Lives, Pooled
  <1> QED BY <1>1, <1>2, <1>3, PTL DEF DeploySpec
=============================================================================
