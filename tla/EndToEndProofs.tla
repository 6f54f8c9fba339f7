---------------------------- MODULE EndToEndProofs ----------------------------
(***************************************************************************)
(* What a seeding run and an end-to-end run that report success have       *)
(* shown, for any number of runs, keys, owners and strangers, and any size *)
(* of a page.                                                              *)
(***************************************************************************)
EXTENDS EndToEnd, TLAPS

KeysDone == \A k \in Range(Keys) : keys[k] = "seeded"
OwnerDone(e) == e \in Range(users) /\ tenant[e] = "seeded"

\* How far a run has come: every key before the one it is at, and every owner before the
\* one it is at, is as the script wants it; an owner it updates has been seen.
Done(p) ==
  /\ step[p] = "key" =>
       /\ at[p] \in DOMAIN Keys
       /\ \A i \in DOMAIN Keys : i < at[p] => keys[Keys[i]] = "seeded"
  /\ step[p] \in {"create", "list", "update"} =>
       /\ at[p] \in DOMAIN Owners /\ KeysDone
       /\ \A i \in DOMAIN Owners : i < at[p] => OwnerDone(Owners[i])
  /\ step[p] = "update" => Owners[at[p]] \in Range(users)
  /\ step[p] = "ok" => KeysDone /\ \A i \in DOMAIN Owners : OwnerDone(Owners[i])

IInv == TypeOK /\ \A p \in Runs : Done(p)

-----------------------------------------------------------------------------
(* The list of users. *)

LEMMA OwnersListed ==
  /\ Keys \in Seq(STRING) /\ Len(Keys) \in Nat \ {0} /\ DOMAIN Keys = 1 .. Len(Keys)
  /\ Owners \in Seq(STRING) /\ Len(Owners) \in Nat \ {0} /\ DOMAIN Owners = 1 .. Len(Owners)
  /\ \A i \in DOMAIN Keys : Keys[i] \in Range(Keys)
  /\ \A i \in DOMAIN Owners : Owners[i] \in Range(Owners) /\ Owners[i] \in Emails
  BY SeedAssumption DEF Range, Emails

\* A new user comes first; everyone else stays, and nobody is there twice.
LEMMA Prepended ==
  ASSUME NEW S, NEW e \in S, NEW s \in Seq(S)
  PROVE  /\ <<e>> \o s \in Seq(S)
         /\ Range(<<e>> \o s) = {e} \cup Range(s)
         /\ IsInjective(s) /\ e \notin Range(s) => IsInjective(<<e>> \o s)
<1> DEFINE t == <<e>> \o s
<1>1. /\ t \in Seq(S) /\ Len(t) = Len(s) + 1 /\ t[1] = e
      /\ \A i \in 1 .. Len(s) : t[i + 1] = s[i]
      /\ \A i \in 2 .. Len(t) : i - 1 \in 1 .. Len(s) /\ t[i] = s[i - 1]
  OBVIOUS
<1> HIDE DEF t
<1>2. DOMAIN t = 1 .. Len(s) + 1 /\ DOMAIN s = 1 .. Len(s) /\ Len(s) \in Nat
  BY <1>1
<1>3. Range(t) = {e} \cup Range(s)
  <2>1. ASSUME NEW x \in Range(t) PROVE x \in {e} \cup Range(s)
    <3>1. PICK i \in 1 .. Len(s) + 1 : x = t[i]
      BY <1>2 DEF Range
    <3>2. CASE i # 1
      <4>1. i - 1 \in DOMAIN s /\ x = s[i - 1]
        BY <1>1, <1>2, <3>1, <3>2
      <4> QED BY <4>1 DEF Range
    <3> QED BY <1>1, <3>1, <3>2
  <2>2. ASSUME NEW x \in Range(s) PROVE x \in Range(t)
    <3>1. PICK i \in DOMAIN s : x = s[i]
      BY DEF Range
    <3>2. i + 1 \in DOMAIN t /\ t[i + 1] = x
      BY <1>1, <1>2, <3>1
    <3> QED BY <3>2 DEF Range
  <2>3. e \in Range(t)
    BY <1>1, <1>2 DEF Range
  <2> QED BY <2>1, <2>2, <2>3
<1>4. ASSUME IsInjective(s), e \notin Range(s) PROVE IsInjective(t)
  <2> SUFFICES ASSUME NEW i \in DOMAIN t, NEW j \in DOMAIN t, t[i] = t[j] PROVE i = j
    BY DEF IsInjective
  <2>1. ASSUME NEW k \in 2 .. Len(t) PROVE t[k] # e
    <3>1. k - 1 \in DOMAIN s /\ t[k] = s[k - 1]
      BY <1>1, <1>2
    <3> QED BY <1>4, <3>1 DEF Range
  <2>2. CASE i = 1 \/ j = 1
    BY <1>1, <1>2, <2>1, <2>2
  <2>3. CASE i # 1 /\ j # 1
    <3>1. i - 1 \in DOMAIN s /\ j - 1 \in DOMAIN s /\ s[i - 1] = s[j - 1]
      BY <1>1, <1>2, <2>3
    <3> QED BY <1>2, <1>4, <3>1 DEF IsInjective
  <2> QED BY <2>2, <2>3
<1> QED BY <1>1, <1>3, <1>4 DEF t

-----------------------------------------------------------------------------
(* The seeding runs. *)

\* What is seeded stays seeded, whichever run does what.
Grows ==
  /\ \A k \in Range(Keys) : /\ keys[k] = "seeded" => keys'[k] = "seeded"
                            /\ keys[k] # "none" => keys'[k] # "none"
  /\ Range(users) \subseteq Range(users')
  /\ \A e \in Emails : tenant[e] = "seeded" => tenant'[e] = "seeded"

LEMMA GrowsKeeps ==
  ASSUME Grows
  PROVE  /\ KeysDone => KeysDone'
         /\ \A i \in DOMAIN Owners : OwnerDone(Owners[i]) => OwnerDone(Owners[i])'
  BY OwnersListed DEF Grows, KeysDone, OwnerDone

\* A run that does not move loses nothing.
LEMMA WaitingRun ==
  ASSUME Grows, NEW p \in Runs, Done(p), step'[p] = step[p], at'[p] = at[p]
  PROVE  Done(p)'
<1>1. \A i \in DOMAIN Keys : keys[Keys[i]] = "seeded" => keys'[Keys[i]] = "seeded"
  BY OwnersListed DEF Grows
<1>2. \A i \in DOMAIN Owners : Owners[i] \in Range(users) => Owners[i] \in Range(users')
  BY DEF Grows
<1>3. at[p] \in DOMAIN Owners /\ Owners[at[p]] \in Range(users) => Owners[at[p]] \in Range(users')
  BY <1>2
<1> QED BY GrowsKeeps, <1>1, <1>3 DEF Done

Steps == {"idle", "key", "create", "list", "update", "ok", "failed"}

\* A run made its step, to a place it may be in, and the others stayed.
Moved(p) ==
  /\ step' \in [Runs -> Steps] /\ at' \in [Runs -> 1 .. Len(Keys) + Len(Owners)]
  /\ \A q \in Runs \ {p} : step'[q] = step[q] /\ at'[q] = at[q]
  /\ Done(p)'

TablesOK ==
  /\ keys \in [Range(Keys) -> Bindings \cup {"none"}]
  /\ users \in Seq(Emails) /\ IsInjective(users)
  /\ tenant \in [Emails -> Bindings]

LEMMA MovedIInv ==
  ASSUME IInv, NEW p \in Runs, Moved(p), Grows, TablesOK' PROVE IInv'
<1>1. TypeOK'
  BY DEF TypeOK, TablesOK, Moved, Steps
<1>2. ASSUME NEW q \in Runs \ {p} PROVE Done(q)'
  BY WaitingRun DEF IInv, Moved
<1> QED BY <1>1, <1>2 DEF IInv, Moved

LEMMA GotoMoves ==
  ASSUME TypeOK, NEW p \in Runs, NEW s \in Steps, NEW i \in 1 .. Len(Keys) + Len(Owners),
         Goto(p, s, i)
  PROVE  /\ step' \in [Runs -> Steps] /\ at' \in [Runs -> 1 .. Len(Keys) + Len(Owners)]
         /\ \A q \in Runs \ {p} : step'[q] = step[q] /\ at'[q] = at[q]
         /\ step'[p] = s /\ at'[p] = i
  BY DEF Goto, TypeOK, Steps

LEMMA FirstCalls == 1 \in 1 .. Len(Keys) + Len(Owners) /\ 1 \in DOMAIN Keys /\ 1 \in DOMAIN Owners
  BY OwnersListed

LEMMA SameTables ==
  ASSUME IInv, UNCHANGED <<keys, users, tenant>> PROVE Grows
  BY DEF Grows

LEMMA InitIInv == Init => IInv
<1> SUFFICES ASSUME Init PROVE IInv
  OBVIOUS
<1>1. users \in Seq(Emails) /\ IsInjective(users)
  <2>1. Owners \in Seq(Emails)
    BY OwnersListed
  <2>2. CASE users = Owners
    BY <2>1, <2>2, SeedAssumption
  <2>3. CASE users = <<>>
    BY <2>3 DEF IsInjective
  <2> QED BY <2>2, <2>3 DEF Init
<1>2. TypeOK
  BY <1>1, FirstCalls DEF Init, TypeOK, Bindings
<1> QED BY <1>2 DEF Init, IInv, Done

LEMMA FailedMoves == ASSUME TypeOK, NEW p \in Runs, Goto(p, "failed", 1) PROVE Moved(p)
<1>1. "failed" \in Steps
  BY DEF Steps
<1> QED BY <1>1, FirstCalls, GotoMoves DEF Moved, Done

\* With all keys and the first owners done, a run goes on to the next owner or is done.
LEMMA NextUserMoves ==
  ASSUME TypeOK, NEW p \in Runs, NEW i \in 1 .. Len(Owners) + 1, NextUser(p, i), KeysDone',
         \A j \in DOMAIN Owners : j < i => OwnerDone(Owners[j])'
  PROVE  Moved(p)
<1> {"ok", "create"} \subseteq Steps
  BY DEF Steps
<1>1. CASE i > Len(Owners)
  <2>1. \A j \in DOMAIN Owners : OwnerDone(Owners[j])'
    BY <1>1, OwnersListed
  <2>2. Goto(p, "ok", 1)
    BY <1>1 DEF NextUser
  <2> QED BY <2>1, <2>2, FirstCalls, GotoMoves DEF Moved, Done
<1>2. CASE i <= Len(Owners)
  <2>1. Goto(p, "create", i) /\ i \in DOMAIN Owners /\ i \in 1 .. Len(Keys) + Len(Owners)
    BY <1>2, OwnersListed DEF NextUser
  <2> QED BY <2>1, GotoMoves DEF Moved, Done
<1> QED BY <1>1, <1>2, OwnersListed

LEMMA StartIInv == ASSUME IInv, NEW p \in Runs, Start(p) PROVE IInv' /\ Grows
<1>1. "key" \in Steps
  BY DEF Steps
<1>2. Goto(p, "key", 1)
  BY DEF Start
<1>3. \A i \in DOMAIN Keys : ~(i < 1)
  BY OwnersListed
<1>4. Moved(p)
  BY <1>1, <1>2, <1>3, FirstCalls, GotoMoves DEF IInv, Moved, Done
<1>5. TablesOK'
  BY DEF Start, IInv, TypeOK, TablesOK
<1> QED BY <1>4, <1>5, MovedIInv, SameTables DEF Start

LEMMA SeedKeyIInv == ASSUME IInv, NEW p \in Runs, SeedKey(p) PROVE IInv' /\ Grows
<1> DEFINE i == at[p]
<1>1. /\ i \in DOMAIN Keys /\ TypeOK /\ UNCHANGED <<users, tenant>>
      /\ \A j \in DOMAIN Keys : j < i => keys[Keys[j]] = "seeded"
      /\ keys' = [keys EXCEPT ![Keys[i]] = "seeded"]
  BY DEF SeedKey, IInv, Done
<1>2. TablesOK' /\ Grows
  BY <1>1, OwnersListed DEF TypeOK, TablesOK, Grows, Bindings
<1>3. \A j \in DOMAIN Keys : j < i + 1 => keys'[Keys[j]] = "seeded"
  BY <1>1, OwnersListed DEF TypeOK
<1>4. CASE Goto(p, "failed", 1)
  BY <1>1, <1>2, <1>4, FailedMoves, MovedIInv
<1>5. CASE NextKey(p) /\ i = Len(Keys)
  <2>1. KeysDone'
    BY <1>3, <1>5, OwnersListed DEF KeysDone, Range
  <2>2. NextUser(p, 1)
    BY <1>5 DEF NextKey
  <2>3. Moved(p)
    BY <1>1, <2>1, <2>2, NextUserMoves, OwnersListed
  <2> QED BY <1>2, <2>3, MovedIInv
<1>6. CASE NextKey(p) /\ i # Len(Keys)
  <2>1. Goto(p, "key", i + 1) /\ "key" \in Steps
    BY <1>6 DEF NextKey, Steps
  <2>2. i + 1 \in DOMAIN Keys /\ i + 1 \in 1 .. Len(Keys) + Len(Owners)
    BY <1>1, <1>6, OwnersListed
  <2>3. Moved(p)
    BY <1>1, <1>3, <2>1, <2>2, GotoMoves DEF Moved, Done
  <2> QED BY <1>2, <2>3, MovedIInv
<1> QED BY <1>4, <1>5, <1>6 DEF SeedKey, Answered

\* The script is done with owner at[p]: the next owner, or its answer was lost.
LEMMA OwnerAnswered ==
  ASSUME IInv, NEW p \in Runs, step[p] \in {"create", "update"}, Grows, TablesOK',
         NEW e, e = Owners[at[p]], OwnerDone(e)', Answered(p, NextUser(p, at[p] + 1))
  PROVE  IInv' /\ Grows
<1>1. /\ at[p] \in DOMAIN Owners /\ KeysDone
      /\ \A i \in DOMAIN Owners : i < at[p] => OwnerDone(Owners[i])
  BY DEF IInv, Done
<1>2. KeysDone' /\ \A i \in DOMAIN Owners : i < at[p] + 1 => OwnerDone(Owners[i])'
  <2>1. ASSUME NEW i \in DOMAIN Owners, i < at[p] + 1 PROVE OwnerDone(Owners[i])'
    <3>1. i = at[p] \/ i < at[p]
      BY <1>1, <2>1, OwnersListed
    <3>2. CASE i = at[p]
      BY <3>2
    <3> QED BY <1>1, <3>1, <3>2, GrowsKeeps
  <2> QED BY <1>1, <2>1, GrowsKeeps
<1>3. CASE NextUser(p, at[p] + 1)
  <2>1. at[p] + 1 \in 1 .. Len(Owners) + 1
    BY <1>1, OwnersListed
  <2>2. Moved(p)
    BY <1>2, <1>3, <2>1, NextUserMoves DEF IInv
  <2> QED BY <2>2, MovedIInv
<1>4. CASE Goto(p, "failed", 1)
  BY <1>4, FailedMoves, MovedIInv DEF IInv
<1> QED BY <1>3, <1>4 DEF Answered

LEMMA CreateUserIInv == ASSUME IInv, NEW p \in Runs, CreateUser(p) PROVE IInv' /\ Grows
<1>0. PICK e : e = Owners[at[p]]
  OBVIOUS
<1>1. at[p] \in DOMAIN Owners /\ e \in Emails /\ TypeOK
  BY <1>0, OwnersListed DEF CreateUser, IInv, Done
<1>2. CASE e \in Range(users)
  <2>1. Goto(p, "list", at[p]) /\ UNCHANGED <<keys, users, tenant>>
    BY <1>0, <1>2 DEF CreateUser
  <2>2. "list" \in Steps /\ at[p] \in 1 .. Len(Keys) + Len(Owners)
    BY <1>1 DEF TypeOK, Steps
  <2>3. Moved(p)
    BY <1>1, <2>1, <2>2, GotoMoves, SameTables, GrowsKeeps DEF CreateUser, IInv, Moved, Done
  <2>4. TablesOK'
    BY <1>1, <2>1 DEF TypeOK, TablesOK
  <2> QED BY <2>1, <2>3, <2>4, SameTables, MovedIInv
<1>3. CASE e \notin Range(users)
  <2>1. /\ users' = <<e>> \o users /\ tenant' = [tenant EXCEPT ![e] = "seeded"] /\ UNCHANGED keys
        /\ Answered(p, NextUser(p, at[p] + 1)) /\ step[p] = "create"
    BY <1>0, <1>3 DEF CreateUser
  <2>2. /\ users' \in Seq(Emails) /\ IsInjective(users')
        /\ Range(users') = {e} \cup Range(users)
    BY <1>1, <1>3, <2>1, Prepended DEF TypeOK
  <2>3. TablesOK'
    BY <1>1, <2>1, <2>2 DEF TypeOK, TablesOK, Bindings
  <2>4. Grows /\ OwnerDone(e)'
    BY <1>1, <2>1, <2>2 DEF TypeOK, Grows, OwnerDone
  <2> QED BY <1>0, <2>1, <2>3, <2>4, OwnerAnswered
<1> QED BY <1>2, <1>3

LEMMA UpdateUserIInv == ASSUME IInv, NEW p \in Runs, UpdateUser(p) PROVE IInv' /\ Grows
<1>0. PICK e : e = Owners[at[p]]
  OBVIOUS
<1>1. at[p] \in DOMAIN Owners /\ e \in Emails /\ e \in Range(users) /\ TypeOK
  BY <1>0, OwnersListed DEF UpdateUser, IInv, Done
<1>2. /\ tenant' = [tenant EXCEPT ![e] = "seeded"] /\ UNCHANGED <<keys, users>>
      /\ Answered(p, NextUser(p, at[p] + 1)) /\ step[p] = "update"
  BY <1>0 DEF UpdateUser
<1>3. TablesOK'
  BY <1>1, <1>2 DEF TypeOK, TablesOK, Bindings
<1>4. Grows /\ OwnerDone(e)'
  BY <1>1, <1>2 DEF TypeOK, Grows, OwnerDone
<1> QED BY <1>0, <1>2, <1>3, <1>4, OwnerAnswered

\* A refused POST is followed by the listing; a match there by the update.
LEMMA LookIInv ==
  ASSUME IInv, NEW p \in Runs, CreateErrs(p) \/ ListUsers(p) PROVE IInv' /\ Grows
<1>1. UNCHANGED <<keys, users, tenant>> /\ TypeOK /\ Done(p)
  BY DEF CreateErrs, ListUsers, IInv
<1>2. TablesOK' /\ Grows
  BY <1>1, SameTables DEF TypeOK, TablesOK
<1>3. at[p] \in 1 .. Len(Keys) + Len(Owners) /\ {"list", "update"} \subseteq Steps
  BY <1>1 DEF TypeOK, Steps
<1>4. CASE CreateErrs(p)
  <2>1. Moved(p)
    BY <1>1, <1>2, <1>3, <1>4, GotoMoves, GrowsKeeps DEF CreateErrs, Moved, Done
  <2> QED BY <1>2, <2>1, MovedIInv
<1>5. CASE ListUsers(p) /\ Owners[at[p]] \in Page
  <2>1. Owners[at[p]] \in Range(users')
    BY <1>1, <1>5 DEF Page, Range
  <2>2. Moved(p)
    BY <1>1, <1>2, <1>3, <1>5, <2>1, GotoMoves, GrowsKeeps DEF ListUsers, Moved, Done
  <2> QED BY <1>2, <2>2, MovedIInv
<1>6. CASE ListUsers(p) /\ Owners[at[p]] \notin Page
  BY <1>1, <1>2, <1>6, FailedMoves, MovedIInv DEF ListUsers
<1> QED BY <1>4, <1>5, <1>6

LEMMA StopIInv == ASSUME IInv, NEW p \in Runs, Stop(p) PROVE IInv' /\ Grows
<1>1. TablesOK' /\ Grows
  BY SameTables DEF Stop, IInv, TypeOK, TablesOK
<1> QED BY <1>1, FailedMoves, MovedIInv DEF Stop, IInv

LEMMA SignUpIInv == ASSUME IInv, NEW e \in Strangers, SignUp(e) PROVE IInv' /\ Grows
<1>0. e \in Emails
  BY DEF Emails
<1>1. /\ users' \in Seq(Emails) /\ IsInjective(users')
      /\ Range(users') = {e} \cup Range(users)
  BY <1>0, Prepended DEF SignUp, IInv, TypeOK
<1>2. TypeOK' /\ Grows
  BY <1>1 DEF SignUp, IInv, TypeOK, Grows
<1>3. \A p \in Runs : Done(p)'
  BY <1>2, WaitingRun DEF SignUp, IInv
<1> QED BY <1>2, <1>3 DEF IInv

LEMMA NextIInv == IInv /\ [Next]_vars => IInv' /\ Grows
<1> SUFFICES ASSUME IInv, [Next]_vars PROVE IInv' /\ Grows
  OBVIOUS
<1>1. CASE UNCHANGED vars
  <2>1. TypeOK' /\ Grows
    BY <1>1 DEF vars, IInv, TypeOK, Grows
  <2> QED BY <1>1, <2>1, WaitingRun DEF vars, IInv
<1>2. CASE Next
  BY <1>2, StartIInv, SeedKeyIInv, CreateUserIInv, LookIInv, UpdateUserIInv, StopIInv,
     SignUpIInv DEF Next
<1> QED BY <1>1, <1>2

-----------------------------------------------------------------------------
(* The end-to-end script beside them. *)

\* What the case at hand says about the run: which checks are behind it, and that on a
\* seeded stack nothing but the server's or the network's fault has failed.
Walk ==
  /\ case > 0 => exit = "none"
  /\ token = "seeded" => tenant[OwnerA] = "seeded"
  /\ case > 2 /\ ~failed => token = "seeded"
  /\ case > 6 /\ ~failed => keys[KeyA] # "none"
  /\ case > 0 /\ before => Seeded
  /\ case > 0 /\ before /\ calm => ~failed /\ (case > 1 => token = "seeded")

StackInv == IInv /\ StackTypeOK /\ Walk /\ PassMeansBound /\ SeededStackPasses

LEMMA DemoListed == KeyA \in Range(Keys) /\ OwnerA \in Emails /\ 1 \in DOMAIN Owners
  BY OwnersListed DEF KeyA, OwnerA

LEMMA TenCases == Len(Cases) = 10 /\ Cases[2] = "owner" /\ Cases[6] = "evil_origin"
  BY DEF Cases

LEMMA InitStackInv == StackInit => StackInv
<1> SUFFICES ASSUME StackInit PROVE StackInv
  OBVIOUS
<1>1. IInv
  BY InitIInv DEF StackInit
<1>2. StackTypeOK
  <2>1. failed \in BOOLEAN /\ calm \in BOOLEAN /\ before \in BOOLEAN
    BY Zenon DEF StackInit
  <2> QED BY <1>1, <2>1, TenCases DEF StackInit, StackTypeOK, IInv, Bindings
<1>3. Walk
  BY DEF StackInit, Walk
<1> QED BY <1>1, <1>2, <1>3 DEF StackInit, StackInv, PassMeansBound, SeededStackPasses

\* Each step of the stack is a step of the seeding or leaves it alone.
LEMMA StackStepIsSeedStep == [StackNext]_stackVars => [Next]_vars
  BY DEF StackNext, stackVars, Begin, Login, Ask, Fault

\* What the script relies on only grows.
LEMMA DemoKept ==
  ASSUME TypeOK, Grows
  PROVE  /\ tenant[OwnerA] = "seeded" => tenant'[OwnerA] = "seeded"
         /\ keys[KeyA] # "none" => keys'[KeyA] # "none"
         /\ Seeded => Seeded'
  BY DemoListed DEF Grows, Seeded, KeyA, OwnerA

LEMMA SeedStackInv ==
  ASSUME StackInv, IInv', Grows, UNCHANGED e2eVars PROVE StackInv'
<1>1. StackTypeOK'
  BY DEF StackInv, StackTypeOK, IInv, e2eVars
<1>2. /\ tenant[OwnerA] = "seeded" => tenant'[OwnerA] = "seeded"
      /\ keys[KeyA] # "none" => keys'[KeyA] # "none"
      /\ Seeded => Seeded'
  BY DemoKept DEF StackInv, IInv
<1>3. Walk'
  BY <1>2 DEF StackInv, Walk, e2eVars
<1> QED BY <1>1, <1>2, <1>3 DEF StackInv, e2eVars, PassMeansBound, SeededStackPasses

LEMMA BeginStackInv == ASSUME StackInv, Begin PROVE StackInv'
<1>1. IInv'
  BY DEF Begin, vars, StackInv, IInv, TypeOK, Done, KeysDone, OwnerDone
<1>2. StackTypeOK'
  <2>1. failed' \in BOOLEAN /\ calm' \in BOOLEAN /\ before' \in BOOLEAN
    BY Zenon DEF Begin, Seeded
  <2> QED BY <1>1, <2>1, TenCases DEF Begin, StackInv, StackTypeOK, IInv
<1>3. Walk'
  <2>1. ~failed' /\ (before' => Seeded')
    BY Zenon DEF Begin, Seeded, vars
  <2> QED BY <2>1 DEF Begin, vars, StackInv, Walk
<1> QED BY <1>1, <1>2, <1>3 DEF Begin, StackInv, PassMeansBound, SeededStackPasses

\* A case that is over: its result is counted, and the next one or the end follows.
LEMMA CheckStackInv ==
  ASSUME StackInv, NEW passed \in BOOLEAN, case > 0, Check(passed), UNCHANGED <<vars, before>>,
         token' \in Bindings, calm' \in BOOLEAN, calm' => calm,
         token' = "seeded" => tenant[OwnerA] = "seeded",
         case > 1 => token' = token,
         case = 2 /\ passed => token = "seeded",
         case = 6 /\ passed => keys[KeyA] # "none",
         before /\ calm' => passed /\ token' = "seeded"
  PROVE  StackInv'
<1>1. case \in 1 .. 10 /\ case \in Nat /\ exit = "none"
  BY TenCases DEF StackInv, StackTypeOK, Walk
<1>2. IInv'
  BY DEF vars, StackInv, IInv, TypeOK, Done, KeysDone, OwnerDone
<1>3. failed' \in BOOLEAN /\ (~failed' <=> ~failed /\ passed)
  BY Zenon DEF Check
<1>4. CASE case < 10
  <2>1. case' = case + 1 /\ exit' = exit
    BY <1>4, TenCases DEF Check
  <2>2. StackTypeOK'
    BY <1>1, <1>2, <1>3, <1>4, <2>1, TenCases DEF StackInv, StackTypeOK, IInv
  <2>3. Walk'
    BY <1>1, <1>3, <2>1 DEF vars, StackInv, Walk, Seeded
  <2> QED BY <1>1, <1>2, <2>1, <2>2, <2>3 DEF StackInv, PassMeansBound, SeededStackPasses
<1>5. CASE case = 10
  <2>1. case' = 0 /\ exit' = IF failed' THEN "failed" ELSE "passed"
    BY <1>5, TenCases DEF Check
  <2>2. StackTypeOK'
    BY <1>1, <1>2, <1>3, <2>1, TenCases DEF StackInv, StackTypeOK, IInv
  <2>3. Walk'
    BY <2>1 DEF vars, StackInv, Walk
  <2>4. PassMeansBound'
    BY <1>3, <1>5, <2>1 DEF vars, StackInv, Walk, PassMeansBound
  <2>5. SeededStackPasses'
    BY <1>3, <1>5, <2>1 DEF vars, StackInv, Walk, SeededStackPasses
  <2> QED BY <1>2, <2>2, <2>3, <2>4, <2>5 DEF StackInv
<1> QED BY <1>1, <1>4, <1>5

\* An uncaught exception: on a seeded stack only a fault of this run brings one about.
LEMMA RaiseStackInv ==
  ASSUME StackInv, Raise, UNCHANGED <<vars, before, token>>, calm' \in BOOLEAN, before => ~calm'
  PROVE  StackInv'
<1>1. IInv'
  BY DEF vars, StackInv, IInv, TypeOK, Done, KeysDone, OwnerDone
<1>2. StackTypeOK'
  BY <1>1, TenCases DEF Raise, StackInv, StackTypeOK, IInv
<1>3. Walk'
  BY DEF Raise, vars, StackInv, Walk
<1> QED BY <1>1, <1>2, <1>3 DEF Raise, StackInv, PassMeansBound, SeededStackPasses

LEMMA LoginStackInv == ASSUME StackInv, Login PROVE StackInv'
<1>1. /\ case = 1 /\ UNCHANGED <<vars, before>> /\ calm' = calm /\ calm \in BOOLEAN
      /\ before => Seeded
  BY DEF Login, StackInv, StackTypeOK, Walk
<1>2. CASE OwnerA \in Range(users) /\ token' = tenant[OwnerA] /\ Check(TRUE)
  <2>1. token' \in Bindings
    BY <1>2, DemoListed DEF StackInv, IInv, TypeOK
  <2>2. case > 0 /\ ~(case > 1) /\ case # 2 /\ case # 6
    BY <1>1
  <2>3. before => TRUE /\ token' = "seeded"
    BY <1>1, <1>2 DEF Seeded
  <2> QED BY <1>1, <1>2, <2>1, <2>2, <2>3, CheckStackInv, Zenon
<1>3. CASE (OwnerA \notin Range(users) \/ tenant[OwnerA] = "other") /\ Raise /\ UNCHANGED token
  BY <1>1, <1>3, RaiseStackInv DEF Seeded
<1> QED BY <1>2, <1>3 DEF Login

\* What a case can come to, by what the stack holds when the doors are asked.
LEMMA CaseResults ==
  ASSUME NEW c, NEW passed \in Passes(c), keys[KeyA] \in Bindings \cup {"none"}
  PROVE  /\ passed \in BOOLEAN
         /\ c = "owner" /\ passed => token = "seeded"
         /\ c = "evil_origin" /\ passed => keys[KeyA] # "none"
         /\ token = "seeded" /\ keys[KeyA] = "seeded" => passed
<1>1. CASE c = "owner"
  BY <1>1, Zenon DEF Passes, OwnerPasses
<1>2. CASE c = "visitor"
  <2>1. passed \in VisitorPasses[keys[KeyA]]
    BY <1>2 DEF Passes
  <2>2. /\ VisitorPasses["none"] = {FALSE} /\ VisitorPasses["other"] = BOOLEAN
        /\ VisitorPasses["seeded"] = {TRUE}
    BY DEF VisitorPasses
  <2>3. keys[KeyA] \in {"none", "other", "seeded"} /\ "none" # "seeded" /\ "other" # "seeded"
    BY DEF Bindings
  <2> QED BY <1>2, <2>1, <2>2, <2>3, Zenon
<1>3. CASE c = "evil_origin"
  <2>1. passed \in {keys[KeyA] # "none"}
    BY <1>3 DEF Passes
  <2> QED BY <1>3, <2>1, Zenon
<1>4. CASE c \notin {"owner", "visitor", "evil_origin"}
  <2>1. passed \in {TRUE}
    BY <1>4 DEF Passes
  <2> QED BY <1>4, <2>1, Zenon
<1> QED BY <1>1, <1>2, <1>3, <1>4

LEMMA AskStackInv == ASSUME StackInv, Ask PROVE StackInv'
<1>1. PICK passed \in Passes(Cases[case]) : Check(passed)
  BY DEF Ask
<1>2. /\ case \in 2 .. 10 /\ UNCHANGED <<vars, before>> /\ calm' = calm /\ calm \in BOOLEAN
      /\ token' = token /\ token \in Bindings
      /\ token = "seeded" => tenant[OwnerA] = "seeded"
  BY TenCases DEF Ask, StackInv, StackTypeOK, Walk
<1>3. keys[KeyA] \in Bindings \cup {"none"}
  BY DemoListed DEF StackInv, IInv, TypeOK
<1>4. passed \in BOOLEAN
  BY <1>1, <1>3, CaseResults
<1>5. case = 2 /\ passed => token = "seeded"
  <2> SUFFICES ASSUME case = 2, passed PROVE token = "seeded"
    OBVIOUS
  <2>1. Cases[case] = "owner"
    BY TenCases
  <2> QED BY <1>1, <1>3, <2>1, CaseResults, Zenon
<1>6. case = 6 /\ passed => keys[KeyA] # "none"
  <2> SUFFICES ASSUME case = 6, passed PROVE keys[KeyA] # "none"
    OBVIOUS
  <2>1. Cases[case] = "evil_origin"
    BY TenCases
  <2> QED BY <1>1, <1>3, <2>1, CaseResults, Zenon
<1>7. before /\ calm => passed /\ token = "seeded"
  <2> SUFFICES ASSUME before, calm PROVE passed /\ token = "seeded"
    OBVIOUS
  <2>1. Seeded /\ token = "seeded"
    BY <1>2 DEF StackInv, Walk
  <2> QED BY <1>1, <1>3, <2>1, CaseResults, Zenon DEF Seeded
<1>8. case > 0
  BY <1>2
<1>9. token' \in Bindings
  BY <1>2
<1>10. calm' \in BOOLEAN
  BY <1>2, Zenon
<1>11. before /\ calm' => passed /\ token' = "seeded"
  BY <1>2, <1>7
<1> QED BY <1>1, <1>2, <1>4, <1>5, <1>6, <1>8, <1>9, <1>10, <1>11, CheckStackInv

LEMMA FaultStackInv == ASSUME StackInv, Fault PROVE StackInv'
<1>1. /\ case \in 1 .. 10 /\ UNCHANGED <<vars, before>> /\ token' = token /\ calm' = FALSE
      /\ token' \in Bindings
      /\ token = "seeded" => tenant[OwnerA] = "seeded"
  BY TenCases DEF Fault, StackInv, StackTypeOK, Walk
<1>2. case > 0
  BY <1>1
<1>3. calm' \in BOOLEAN /\ ~calm'
  BY <1>1, Zenon
<1>4. CASE Raise
  <2>1. UNCHANGED <<vars, before, token>>
    BY <1>1
  <2> QED BY <1>3, <1>4, <2>1, RaiseStackInv, Zenon
<1>5. CASE Check(FALSE)
  <2>1. PICK passed \in BOOLEAN : ~passed /\ Check(passed)
    BY <1>5, Zenon
  <2> QED BY <1>1, <1>2, <1>3, <2>1, CheckStackInv, Zenon
<1>6. CASE case \in 8 .. 10 /\ Check(TRUE)
  <2>1. case # 2 /\ case # 6
    BY <1>1, <1>6
  <2>2. PICK passed \in BOOLEAN : passed /\ Check(passed)
    BY <1>6, Zenon
  <2> QED BY <1>1, <1>2, <1>3, <2>1, <2>2, CheckStackInv, Zenon
<1> QED BY <1>4, <1>5, <1>6 DEF Fault

LEMMA NextStackInv == StackInv /\ [StackNext]_stackVars => StackInv'
<1> SUFFICES ASSUME StackInv, [StackNext]_stackVars PROVE StackInv'
  OBVIOUS
<1>1. CASE UNCHANGED stackVars \/ (Next /\ UNCHANGED e2eVars)
  <2>1. [Next]_vars /\ UNCHANGED e2eVars
    BY <1>1 DEF stackVars
  <2> QED BY <2>1, NextIInv, SeedStackInv DEF StackInv
<1> QED BY <1>1, BeginStackInv, LoginStackInv, AskStackInv, FaultStackInv DEF StackNext

LEMMA AlwaysStackInv == StackSpec => []StackInv
  BY InitStackInv, NextStackInv, PTL DEF StackSpec

\* The end-to-end script writes nothing a seeding run reads: beside it, seeding goes on
\* as SeedLocal specifies it.
THEOREM SeedingIsUndisturbed == StackSpec => Spec
<1>1. StackInit => Init
  BY DEF StackInit
<1> QED BY <1>1, StackStepIsSeedStep, PTL DEF StackSpec, Spec

\* Every reachable state of the stack is well typed.
THEOREM StackTyped == StackSpec => []StackTypeOK
  BY AlwaysStackInv, PTL DEF StackInv

\* A seeding run that reported success left every key and every owner bound, whatever
\* ran beside it, failed before it or signed up meanwhile.
THEOREM SuccessIsSeeded == StackSpec => []SuccessMeansSeeded
<1>1. IInv => SuccessMeansSeeded
  BY DEF IInv, Done, KeysDone, OwnerDone, SuccessMeansSeeded, Range
<1> QED BY <1>1, AlwaysStackInv, PTL DEF StackInv

\* An end-to-end run that passed has shown the demo owner and the demo key bound.
THEOREM PassIsBound == StackSpec => []PassMeansBound
  BY AlwaysStackInv, PTL DEF StackInv

\* An end-to-end run on a stack that was seeded and answered does not fail.
THEOREM NoFalseAlarm == StackSpec => []SeededStackPasses
  BY AlwaysStackInv, PTL DEF StackInv
=============================================================================
