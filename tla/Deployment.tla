------------------------------ MODULE Deployment ------------------------------
(***************************************************************************)
(* The app's life: create_app and _lifespan of main.py with the pool of    *)
(* core/db.py, beside runs of the migrations on the same database.  The    *)
(* server and FastMCP's session manager are external; the manager belongs  *)
(* to the module _mcp_server and can be entered once per process.          *)
(***************************************************************************)
EXTENDS Migrations

CONSTANT MaxStarts  \* bound: how often one process starts the app

ASSUME StartsAssumption == MaxStarts \in Nat

VARIABLES
  life,     \* how far the app is
  starts,   \* how often this process has entered _lifespan
  entered,  \* whether session_manager.run() was
  pools,    \* how many pools are open
  waiting   \* the clients whose request the server has taken, still without a connection

lifeVars == <<life, starts, entered, pools, waiting>>
deployVars == <<dbVars, lifeVars>>

Lives == {"down", "created", "pooled", "serving", "draining", "closing"}

DeployTypeOK ==
  /\ DbTypeOK
  /\ life \in Lives
  /\ starts \in 0 .. MaxStarts
  /\ entered \in BOOLEAN
  /\ pools \in 0 .. MaxStarts
  /\ waiting \subseteq Clients

DeployInit ==
  /\ DbInit
  /\ life = "down" /\ starts = 0 /\ entered = FALSE /\ pools = 0 /\ waiting = {}

-----------------------------------------------------------------------------
Become(l) == life' = l /\ UNCHANGED <<dbVars, starts>>

\* create_app, unless a required setting is missing, which raises.
CreateApp ==
  /\ life = "down" /\ starts < MaxStarts
  /\ life' = "created" /\ starts' = starts + 1
  /\ UNCHANGED <<dbVars, entered, pools, waiting>>

\* create_db_pool connects as app_user.
CreatePool ==
  /\ life = "created"
  /\ <<"role", Db>> \in catalog
  /\ pools' = pools + 1
  /\ Become("pooled") /\ UNCHANGED <<entered, waiting>>

\* The database is away, or there is no such role yet.
NoPool == life = "created" /\ Become("down") /\ UNCHANGED <<entered, pools, waiting>>

\* session_manager.run(): the second time it raises, before try and finally.
EnterManager ==
  /\ life = "pooled"
  /\ entered' = TRUE
  /\ Become(IF entered THEN "down" ELSE "serving")
  /\ UNCHANGED <<pools, waiting>>

\* The server takes a request; the router gives it to the visitor gate or to a door.
Accept(c) ==
  /\ life = "serving" /\ c \notin waiting /\ ~open[c]
  /\ waiting' = waiting \cup {c}
  /\ UNCHANGED <<dbVars, life, starts, entered, pools>>

\* It takes a connection for its transaction, while the app serves or drains.  (No request
\* has more than one today: the gate's lookup.)
Request(c) ==
  /\ c \in waiting /\ Begin(c)
  /\ waiting' = waiting \ {c}
  /\ UNCHANGED <<life, starts, entered, pools>>

\* It is over without a transaction: answered, or its client gone.
Reply(c) ==
  /\ c \in waiting
  /\ waiting' = waiting \ {c}
  /\ UNCHANGED <<dbVars, life, starts, entered, pools>>

\* The server is told to stop: it takes no more requests and waits for those it has.
Shutdown == life = "serving" /\ Become("draining") /\ UNCHANGED <<entered, pools, waiting>>

InFlight == \E c \in Clients : open[c]

Drained ==
  /\ life = "draining" /\ ~InFlight /\ waiting = {}
  /\ Become("closing") /\ UNCHANGED <<entered, pools, waiting>>

\* Variant: no finally, an exception goes past close_db_pool.
InterruptedPast ==
  /\ life \in {"serving", "draining"} /\ waiting' = {}
  /\ Become("down") /\ UNCHANGED <<entered, pools>>

\* Variant: an except clause closes the pool before the finally clause does.
InterruptedTwice ==
  /\ life \in {"serving", "draining"}
  /\ pools' = pools - 1 /\ waiting' = {}
  /\ Become("closing") /\ UNCHANGED entered

\* An exception at the yield: a stop that waits for no request cancels the server's tasks;
\* the transactions they had begun are still to be rolled back.
Interrupted ==
  /\ life \in {"serving", "draining"} /\ waiting' = {}
  /\ Become("closing") /\ UNCHANGED <<entered, pools>>

\* Variant: pool.terminate()
TerminatePool ==
  /\ life = "closing"
  /\ pools' = pools - 1
  /\ Become("down") /\ UNCHANGED <<entered, waiting>>

\* close_db_pool waits for the connections requests still hold; then the manager exits.
ClosePool ==
  /\ life = "closing" /\ ~InFlight
  /\ pools' = pools - 1
  /\ Become("down") /\ UNCHANGED <<entered, waiting>>

\* The process ends, by itself or killed: its connections break, so Postgres rolls their
\* transactions back, and its pools are gone.
Exit ==
  /\ starts > 0
  /\ life' = "down" /\ starts' = 0 /\ entered' = FALSE /\ pools' = 0 /\ waiting' = {}
  /\ open' = [c \in Clients |-> FALSE] /\ wish' = [c \in Clients |-> {}]
  /\ locks' = [s \in Sessions |-> IF s \in Clients THEN {} ELSE locks[s]]
  /\ UNCHANGED <<catalog, runnerVars>>

Stop == Drained \/ ClosePool

Serve(c) == (Work(c) \/ Break(c)) /\ UNCHANGED lifeVars
Migrate(m) == (Apply(m) \/ Break(m)) /\ UNCHANGED lifeVars

DeployNext ==
  \/ CreateApp \/ CreatePool \/ NoPool \/ EnterManager
  \/ Shutdown \/ Interrupted \/ Stop \/ Exit
  \/ \E c \in Clients : Accept(c) \/ Request(c) \/ Serve(c) \/ Reply(c)
  \/ \E m \in Runners : Migrate(m) \/ ((StartRun(m) \/ Fail(m)) /\ UNCHANGED lifeVars)

DeploySpec == DeployInit /\ [][DeployNext]_deployVars

\* A request that was taken goes on: the pool serves those who wait for a connection.
FairDeploySpec ==
  /\ DeploySpec /\ DbFairness /\ WF_deployVars(Stop)
  /\ \A c \in Clients : WF_deployVars(Request(c) \/ Reply(c))

-----------------------------------------------------------------------------
(* Properties. *)

\* A request never loses the pool: while one has its transaction open or is still to take
\* a connection, a pool is there, however the app stops.
PoolOutlivesRequests == InFlight \/ waiting # {} => pools > 0 /\ life # "down"

\* An app that a process started once leaves no pool open when it is down again.  (The
\* second start in one process does: main.py:54.)
NothingLeftOpen == life = "down" /\ starts = 1 => pools = 0

\* A shutdown ends, also with requests that wait for a migration's locks, hold locks it
\* waits for, or take their connection only now.
ShutdownEnds == life = "draining" ~> life = "down"
=============================================================================
