-------------------------------- MODULE App ---------------------------------
(***************************************************************************)
(* main.py: the lifespan that brings up the gateway and the database       *)
(* engine, serves, and disposes of the engine; the health check; and the   *)
(* uses of get_session meanwhile.  Startup and DbSession are composed as   *)
(* they are: one task runs initialize() and dispose_engine().              *)
(*                                                                         *)
(* The server around it is uvicorn (or TestClient, which runs several      *)
(* lifespans in one process): it takes requests between startup and        *)
(* shutdown, waits for those under way before it shuts the lifespan down,  *)
(* cancels them instead when its own patience ends, and the event loop     *)
(* outlives the last of them.  Forced to exit, it cancels the lifespan too.*)
(***************************************************************************)
EXTENDS Startup, DbSession

CONSTANTS
    Probe,         \* the requests to /health/db
    MaxLifespans   \* bound: lifespans in one process

ASSUME AppAssumption ==
    /\ MaxLifespans \in Nat
    /\ Session \cap Probe = {}

VARIABLES
    app,        \* "down", "gateway", "serving", "stopping", "stopped"
    lifespans,  \* how many have begun
    home,       \* history: the lifespan, and so the loop, each engine was built in
    orphaned,   \* history: the engines a lifespan ended without disposing of
    doomed,     \* the requests the server has cancelled and that do not know yet
    probe       \* per health check: its locals

app_vars == <<app, lifespans, doomed, probe>>
all_vars == <<startup_vars, db_vars, app_vars, home, orphaned>>

(* How `execute` of SELECT 1 may end: with 1, with anything else, with a   *)
(* TimeoutError of the driver or with any other exception.                 *)
Answer == {"one", "other", "timeout", "error"}

Asleep ==
    [at |-> "idle", engine |-> 0, held |-> FALSE, wait |-> "pending",
     reply |-> "none", status |-> "none"]

AppInit ==
    /\ StartupInit
    /\ DbInit
    /\ app = "down"
    /\ lifespans = 0
    /\ home = <<>>
    /\ orphaned = {}
    /\ doomed = {}
    /\ probe = [p \in Probe |-> Asleep]

Taken(e) == InUse(e) + Cardinality({p \in Probe : probe[p].held /\ probe[p].engine = e})
Room(e) == e \in disposed \/ Taken(e) < PoolLimit

ActiveSessions == {s \in Session : step[s] \notin {"out", "done"}}
ActiveProbes == {p \in Probe : probe[p].at \in {"execute", "close"}}
Lingering == lingering \cup {p \in Probe : probe[p].at = "lingering"}

(* History: an engine belongs to the lifespan, and the loop, it is built in. *)
remember ==
    /\ home' = IF built' = built THEN home ELSE Append(home, lifespans)
    /\ UNCHANGED orphaned

-----------------------------------------------------------------------------
(* The lifespan.                                                           *)

(* Mutant: initialize() without its test of the flag.                      *)
boot_reinitializes(t) ==
    /\ app = "down"
    /\ lifespans < MaxLifespans
    /\ app' = "gateway"
    /\ lifespans' = lifespans + 1
    /\ at' = [at EXCEPT ![t] = "load"]
    /\ UNCHANGED <<initialized, routing_table, callbacks, environ, table, failure,
                   db_vars, doomed, probe>>

(* It begins with initialize(), which returns at once when an earlier      *)
(* lifespan of the process has set the flag.                               *)
boot(t) ==
    /\ app = "down"
    /\ lifespans < MaxLifespans
    /\ app' = "gateway"
    /\ lifespans' = lifespans + 1
    /\ IF initialized THEN UNCHANGED startup_vars ELSE initialize(t)
    /\ UNCHANGED <<db_vars, doomed, probe>>

init_gateway(t) ==
    /\ app = "gateway"
    /\ at[t] # "out"
    /\ StartupStep(t)
    /\ UNCHANGED <<db_vars, app_vars>>

(* initialize() raised, or create_async_engine did: nothing is served.     *)
refused(t) ==
    /\ app = "gateway"
    /\ at[t] = "out"
    /\ initialized => engine = 0
    /\ app' = "down"
    /\ UNCHANGED <<startup_vars, db_vars, lifespans, doomed, probe>>

(* Mutant: the engine left to the first request.                           *)
prewarm_skipped(t) ==
    /\ app = "gateway"
    /\ at[t] = "out"
    /\ initialized
    /\ app' = "serving"
    /\ UNCHANGED <<startup_vars, db_vars, lifespans, doomed, probe>>

(* get_engine() builds the engine, unless an earlier lifespan left its own. *)
prewarm(t) ==
    /\ app = "gateway"
    /\ at[t] = "out"
    /\ initialized
    /\ get_engine
    /\ app' = "serving"
    /\ UNCHANGED <<startup_vars, maker, disposed, disposing, session_vars, lifespans,
                   doomed, probe>>

(* Mutant: shutdown without dispose_engine().                              *)
shutdown_undisposed(d) ==
    /\ app = "serving"
    /\ app' = "stopped"
    /\ doomed' = ActiveSessions \cup ActiveProbes
    /\ UNCHANGED <<startup_vars, db_vars, lifespans, probe>>

(* The server asks the lifespan to end: with no request under way, or with *)
(* those that are cancelled.                                               *)
shutdown(d) ==
    /\ app = "serving"
    /\ dispose_engine(d)
    /\ app' = "stopping"
    /\ doomed' = ActiveSessions \cup ActiveProbes
    /\ UNCHANGED <<startup_vars, lifespans, probe>>

stopped(d) ==
    /\ app = "stopping"
    /\ disposal_ends(d)
    /\ app' = "stopped"
    /\ UNCHANGED <<startup_vars, lifespans, doomed, probe>>

(* The await of dispose_engine() is cancelled or raises: the globals stay. *)
dispose_raises(d) ==
    /\ app = "stopping"
    /\ disposal_fails(d)
    /\ app' = "stopped"
    /\ UNCHANGED <<startup_vars, lifespans, doomed, probe>>

(* An exception, or the cancellation of a forced exit, arrives at the bare *)
(* `yield`: dispose_engine() is not called at all.                         *)
broken_off ==
    /\ app = "serving"
    /\ app' = "stopped"
    /\ doomed' = ActiveSessions \cup ActiveProbes
    /\ UNCHANGED <<startup_vars, db_vars, lifespans, probe>>

(* Either way the engine in place outlives its lifespan, and its loop.     *)
LifespanBreaks ==
    /\ broken_off \/ \E d \in Disposer : dispose_raises(d)
    /\ orphaned' = orphaned \cup {engine}
    /\ UNCHANGED home

loop_ends ==
    /\ app = "stopped"
    /\ ActiveSessions \cup ActiveProbes \cup Lingering = {}
    /\ app' = "down"
    /\ UNCHANGED <<startup_vars, db_vars, lifespans, doomed, probe>>

-----------------------------------------------------------------------------
(* /health/db.                                                             *)

UnchangedByProbe == UNCHANGED <<startup_vars, app, lifespans>> /\ remember

(* Mutant: the global taken as it is.                                      *)
ask_bare_maker(p) ==
    /\ app = "serving"
    /\ probe[p].at = "idle"
    /\ probe' = [probe EXCEPT ![p] = [@ EXCEPT !.at = "execute", !.engine = maker]]
    /\ UNCHANGED <<db_vars, doomed>>
    /\ UnchangedByProbe

ask(p) ==
    /\ app = "serving"
    /\ probe[p].at = "idle"
    /\ get_session_maker
    /\ probe' = [probe EXCEPT ![p] =
                     [@ EXCEPT !.at = "execute", !.engine = current_maker]]
    /\ UNCHANGED <<session_vars, doomed>>
    /\ UnchangedByProbe

Waits(p) == probe[p].at = "execute" /\ probe[p].reply = "none"

connect(p) ==
    /\ Waits(p)
    /\ probe[p].wait = "pending"
    /\ ~probe[p].held
    /\ Room(probe[p].engine)
    /\ probe' = [probe EXCEPT ![p].held = TRUE]
    /\ UNCHANGED <<db_vars, doomed>>
    /\ UnchangedByProbe

(* The statement ends by itself, or, once its task is cancelled, by that.  *)
replies(p) ==
    /\ Waits(p)
    /\ \E r \in Answer \cup {"cancelled"} :
          /\ r \in {"one", "other"} => probe[p].held
          /\ r = "cancelled" => probe[p].wait # "pending"
          /\ probe' = [probe EXCEPT ![p].reply = r]
    /\ UNCHANGED <<db_vars, doomed>>
    /\ UnchangedByProbe

(* Mutant: execute() awaited bare.                                         *)
timed_bare(p) == FALSE

(* wait_for covers execute(), and with it the wait for a connection.       *)
timed(p) == probe[p].wait = "pending"

deadline(p) ==
    /\ Waits(p)
    /\ timed(p)
    /\ probe' = [probe EXCEPT ![p].wait = "expired"]
    /\ UNCHANGED <<db_vars, doomed>>
    /\ UnchangedByProbe

(* What the two except clauses answer, as Python 3.11's wait_for leaves.   *)
status(wait, reply) ==
    IF wait = "abandoned" THEN "cancelled"
    ELSE IF reply \in {"cancelled", "timeout"} THEN "503"
    ELSE IF reply = "one" THEN "200"
    ELSE "500"

resume(p) ==
    /\ probe[p].at = "execute"
    /\ probe[p].reply # "none"
    /\ probe' = [probe EXCEPT ![p] =
          [@ EXCEPT !.at = "close", !.status = status(probe[p].wait, probe[p].reply)]]
    /\ UNCHANGED <<db_vars, doomed>>
    /\ UnchangedByProbe

(* Mutant: the session not closed.                                         *)
answered_unclosed(p) ==
    /\ probe[p].at \in {"close", "lingering"}
    /\ probe' = [probe EXCEPT ![p].at = "done"]
    /\ UNCHANGED <<db_vars, doomed>>
    /\ UnchangedByProbe

(* The session is closed, and the answer leaves unless it was cancelled.   *)
answered(p) ==
    /\ probe[p].at \in {"close", "lingering"}
    /\ probe' = [probe EXCEPT ![p] = [@ EXCEPT !.at = "done", !.held = FALSE]]
    /\ UNCHANGED <<db_vars, doomed>>
    /\ UnchangedByProbe

(* The cancellation arrives: in the wait for the statement, where a reply  *)
(* already there swallows it; while a cancelled statement unwinds, which is *)
(* left to itself; or in the shielded close().                             *)
interrupt(p) ==
    /\ p \in doomed
    /\ doomed' = doomed \ {p}
    /\ probe' = [probe EXCEPT ![p] =
          CASE @.at = "execute" /\ @.wait = "pending" /\ @.reply = "none" ->
                   [@ EXCEPT !.wait = "abandoned"]
            [] @.at = "execute" /\ @.wait # "pending" ->
                   [@ EXCEPT !.at = "close", !.status = "cancelled"]
            [] @.at = "close" ->
                   [@ EXCEPT !.at = "lingering", !.status = "cancelled"]
            [] OTHER -> @]
    /\ UNCHANGED db_vars
    /\ UnchangedByProbe

ProbeProgress(p) ==
    deadline(p) \/ (replies(p) /\ probe[p].wait # "pending") \/ resume(p)

ProbeStep(p) ==
    ask(p) \/ connect(p) \/ replies(p) \/ ProbeProgress(p) \/ answered(p) \/ interrupt(p)

-----------------------------------------------------------------------------
(* The uses of get_session.                                                *)

(* A session shares the pool with the health checks, is opened while the   *)
(* application serves, and takes a cancellation as its next step.          *)
request(s) ==
    /\ \/ /\ s \notin doomed
          /\ SessionStep(s)
          /\ step[s] = "out" => app = "serving"
          /\ s \in connected' \ connected => Room(bound[s])
          /\ UNCHANGED doomed
       \/ /\ s \in doomed
          /\ CancelStep(s)
          /\ doomed' = doomed \ {s}
       \/ /\ closed_late(s)
          /\ UNCHANGED doomed
    /\ UNCHANGED <<startup_vars, app, lifespans, probe>>

-----------------------------------------------------------------------------

Over == app = "down" /\ lifespans = MaxLifespans

LifespanStep ==
    \/ \E t \in Thread : boot(t) \/ init_gateway(t) \/ refused(t) \/ prewarm(t)
    \/ \E d \in Disposer : shutdown(d) \/ stopped(d)
    \/ loop_ends

AppNext ==
    \/ LifespanStep /\ remember
    \/ LifespanBreaks
    \/ \E s \in Session : request(s) /\ remember
    \/ \E p \in Probe : ProbeStep(p)
    \/ Over /\ UNCHANGED all_vars

AppSafeSpec == AppInit /\ [][AppNext]_all_vars

(* The loop fires a deadline that has passed and resumes what is ready; a  *)
(* cancelled statement unwinds.  Nothing is assumed of the database        *)
(* otherwise, nor of the handlers, nor of close() with its ROLLBACK.       *)
AppSpec == AppSafeSpec /\ \A p \in Probe : WF_all_vars(ProbeProgress(p))

-----------------------------------------------------------------------------
(* Properties.                                                             *)

Locals ==
    [at : {"idle", "execute", "close", "lingering", "done"},
     engine : 0 .. built, held : BOOLEAN,
     wait : {"pending", "expired", "abandoned"},
     reply : Answer \cup {"none", "cancelled"},
     status : {"none", "200", "500", "503", "cancelled"}]

(* The lifespan, the history and the locals of every health check keep      *)
(* their types; a statement always has an engine behind it.                *)
AppTypeOK ==
    /\ app \in {"down", "gateway", "serving", "stopping", "stopped"}
    /\ lifespans \in 0 .. MaxLifespans
    /\ home \in Seq(1 .. MaxLifespans) /\ Len(home) = built
    /\ orphaned \subseteq 1 .. built
    /\ doomed \subseteq Session \cup Probe
    /\ probe \in [Probe -> Locals]
    /\ \A p \in Probe : probe[p].at # "idle" => probe[p].engine # 0

(* lifespan: "the app never serves traffic with a malformed routing        *)
(* table", and the engine is there before the first request: built in the  *)
(* loop that serves, or left by a lifespan that could not dispose of it.   *)
ServingIsReady ==
    app = "serving" =>
        /\ InitializedMeansReady /\ initialized
        /\ engine # 0
        /\ home[engine] = lifespans \/ engine \in orphaned

(* No lifespan builds two engines, whatever first callers do.              *)
OneEnginePerLifespan ==
    \A e, f \in 1 .. built : home[e] = home[f] => e = f

(* A request works on an engine of an earlier event loop only when that    *)
(* lifespan could not dispose of it.                                       *)
EnginesStayHome ==
    /\ \A s \in ActiveSessions : home[bound[s]] = lifespans \/ bound[s] \in orphaned
    /\ \A p \in ActiveProbes :
           home[probe[p].engine] = lifespans \/ probe[p].engine \in orphaned

(* Between lifespans nothing is left of the database: every engine built is*)
(* disposed of, but for one whose lifespan was cut short before or in its  *)
(* dispose_engine(); a maker goes with its engine; and nobody holds a      *)
(* connection (one given back after the disposal went to a pool discarded).*)
NothingLeftBehind ==
    app = "down" =>
        /\ engine # 0 => engine \in orphaned
        /\ maker \in {0, engine}
        /\ disposed = (1 .. built) \ {engine}
        /\ connected = {} /\ \A p \in Probe : ~probe[p].held

(* A connection outlives the disposal of its engine only in the hands of a *)
(* request that was cancelled, or that the cancellation came too late for; *)
(* and each of these still has its close() ahead.                          *)
OnlyCancelledStrand ==
    /\ \A s \in connected :
           bound[s] \in disposed => s \in doomed \/ ending[s] = "cancelled"
    /\ \A p \in Probe : (probe[p].held /\ probe[p].engine \in disposed) =>
           /\ p \in doomed \/ probe[p].wait = "abandoned" \/ probe[p].reply # "none"
              \/ probe[p].status = "cancelled"
           /\ p \in ActiveProbes \cup Lingering

(* With one caller of initialize() the table of the first lifespan stays:  *)
(* no request, and no later lifespan, ever sees another one.               *)
TableIsFinal == [][initialized => UNCHANGED routing_table]_all_vars

(* What a health check awaits under wait_for comes to an end, though the   *)
(* database never answers and handlers keep every connection for good; and *)
(* one that its deadline cut off is to be answered 503, unless it was      *)
(* cancelled as well.  (The answer leaves once close() is through.)        *)
ProbeDecided ==
    \A p \in Probe : probe[p].at = "execute" ~>
        /\ probe[p].at # "execute"
        /\ probe[p].wait = "expired" /\ probe[p].reply = "cancelled"
               => probe[p].status \in {"503", "cancelled"}

=============================================================================
