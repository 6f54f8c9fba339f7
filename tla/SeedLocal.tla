------------------------------ MODULE SeedLocal ------------------------------
(***************************************************************************)
(* scripts/seed_local.py, the one writer of the two doors' directories:    *)
(* the widget_keys rows the visitor gate reads, and the Supabase users     *)
(* whose app_metadata names the tenant of the owner door.  Each key is     *)
(* committed by itself, each user takes up to three HTTP calls, a run may  *)
(* stop anywhere and is simply run again, also beside another run, while   *)
(* other people sign up.  The Supabase admin API is external; it lists the *)
(* newest users first.                                                     *)
(***************************************************************************)
EXTENDS Naturals, Sequences, SequencesExt

CONSTANTS Runs,       \* processes running the script
          Keys,       \* the keys of WIDGET_KEYS, in their order
          Owners,     \* the e-mails of OWNER_USERS, in their order
          Strangers,  \* other people's e-mails
          PageSize    \* per_page: 200 in the script, a few here

ASSUME SeedAssumption ==
  /\ Keys \in Seq(STRING) \ {<<>>}
  /\ Owners \in Seq(STRING) \ {<<>>} /\ IsInjective(Owners)   \* the keys of a dict
  /\ PageSize \in Nat \ {0}
  /\ Range(Owners) \cap Strangers = {}

\* Whether a row or a user names the tenant the script has for it, or another or none.
Bindings == {"seeded", "other"}

VARIABLES
  keys,    \* per key: no row, or what its row says
  users,   \* the users' e-mails, the newest first
  tenant,  \* per e-mail: what the user's app_metadata says, once there is a user
  step,    \* per run: the call it makes next, or how it ended
  at       \* per run: the position of the key or user it is at

vars == <<keys, users, tenant, step, at>>

Emails == Range(Owners) \cup Strangers

TypeOK ==
  /\ keys \in [Range(Keys) -> Bindings \cup {"none"}]
  /\ users \in Seq(Emails) /\ IsInjective(users)
  /\ tenant \in [Emails -> Bindings]
  /\ step \in [Runs -> {"idle", "key", "create", "list", "update", "ok", "failed"}]
  /\ at \in [Runs -> 1 .. Len(Keys) + Len(Owners)]

\* The tables as an earlier version of the script, or nobody, left them.
Init ==
  /\ keys \in [Range(Keys) -> {"none", "other"}]
  /\ users \in {<<>>, Owners}
  /\ tenant = [e \in Emails |-> "other"]
  /\ step = [p \in Runs |-> "idle"]
  /\ at = [p \in Runs |-> 1]

-----------------------------------------------------------------------------
Goto(p, s, i) ==
  /\ step' = [step EXCEPT ![p] = s]
  /\ at' = [at EXCEPT ![p] = i]

\* The next user, or the end of the script.
NextUser(p, i) == IF i > Len(Owners) THEN Goto(p, "ok", 1) ELSE Goto(p, "create", i)

\* The call took effect, but its answer may be lost: then it raises and the run ends.
Answered(p, advance) == advance \/ Goto(p, "failed", 1)

NextKey(p) == IF at[p] = Len(Keys) THEN NextUser(p, 1) ELSE Goto(p, "key", at[p] + 1)

Start(p) ==
  /\ step[p] \in {"idle", "ok", "failed"}
  /\ Goto(p, "key", 1)
  /\ UNCHANGED <<keys, users, tenant>>

\* Variant: ON CONFLICT DO NOTHING.
SeedKeyOnce(p) ==
  LET k == Keys[at[p]] IN
  /\ step[p] = "key"
  /\ keys' = [keys EXCEPT ![k] = IF @ = "none" THEN "seeded" ELSE @]
  /\ Answered(p, NextKey(p))
  /\ UNCHANGED <<users, tenant>>

\* INSERT ... ON CONFLICT (key) DO UPDATE, in autocommit.
SeedKey(p) ==
  /\ step[p] = "key"
  /\ keys' = [keys EXCEPT ![Keys[at[p]]] = "seeded"]
  /\ Answered(p, NextKey(p))
  /\ UNCHANGED <<users, tenant>>

\* Variant: the provider takes the same e-mail twice.
CreateUserTwice(p) ==
  LET e == Owners[at[p]] IN
  /\ step[p] = "create"
  /\ users' = <<e>> \o users
  /\ tenant' = [tenant EXCEPT ![e] = "seeded"]
  /\ Answered(p, NextUser(p, at[p] + 1))
  /\ UNCHANGED keys

\* POST a user: taken if there is none with the e-mail.
CreateUser(p) ==
  LET e == Owners[at[p]] IN
  /\ step[p] = "create"
  /\ IF e \in Range(users)
     THEN Goto(p, "list", at[p]) /\ UNCHANGED <<users, tenant>>
     ELSE /\ users' = <<e>> \o users
          /\ tenant' = [tenant EXCEPT ![e] = "seeded"]
          /\ Answered(p, NextUser(p, at[p] + 1))
  /\ UNCHANGED keys

\* The server answered with a passing error: the script lists the users all the same.
CreateErrs(p) ==
  /\ step[p] = "create"
  /\ Goto(p, "list", at[p])
  /\ UNCHANGED <<keys, users, tenant>>

\* The first page of the users.
Page == {users[i] : i \in {j \in DOMAIN users : j <= PageSize}}

\* GET page 1: without a match, the refusal of the POST is raised after all.  (GoTrue
\* refuses with an error status; seed_local.py:96-98 would pass over any other success
\* than 200 and 201, which it does not answer.)
ListUsers(p) ==
  /\ step[p] = "list"
  /\ IF Owners[at[p]] \in Page THEN Goto(p, "update", at[p]) ELSE Goto(p, "failed", 1)
  /\ UNCHANGED <<keys, users, tenant>>

\* PUT app_metadata for the user found.
UpdateUser(p) ==
  /\ step[p] = "update"
  /\ tenant' = [tenant EXCEPT ![Owners[at[p]]] = "seeded"]
  /\ Answered(p, NextUser(p, at[p] + 1))
  /\ UNCHANGED <<keys, users>>

\* A call fails without effect, or the process is stopped.
Stop(p) ==
  /\ step[p] \in {"key", "create", "list", "update"}
  /\ Goto(p, "failed", 1)
  /\ UNCHANGED <<keys, users, tenant>>

SignUp(e) ==
  /\ e \notin Range(users)
  /\ users' = <<e>> \o users
  /\ UNCHANGED <<keys, tenant, step, at>>

Next ==
  \/ \E p \in Runs :
       \/ Start(p) \/ SeedKey(p) \/ CreateUser(p) \/ CreateErrs(p)
       \/ ListUsers(p) \/ UpdateUser(p) \/ Stop(p)
  \/ \E e \in Strangers : SignUp(e)

Spec == Init /\ [][Next]_vars

-----------------------------------------------------------------------------
(* Properties. *)

\* After a run that reported success every key and every owner is bound to its tenant,
\* whatever runs failed before it or ran beside it, and whoever signed up.
SuccessMeansSeeded ==
  \A p \in Runs : step[p] = "ok" =>
    /\ \A k \in Range(Keys) : keys[k] = "seeded"
    /\ \A e \in Range(Owners) : e \in Range(users) /\ tenant[e] = "seeded"
=============================================================================
