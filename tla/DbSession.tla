----------------------------- MODULE DbSession ------------------------------
(***************************************************************************)
(* db/session.py: the engine and session-maker singletons, get_session as  *)
(* a coroutine that brackets a handler, and dispose_engine.  An engine is  *)
(* a number, 0 is None; a session maker is the engine it is bound to.      *)
(*                                                                         *)
(* What SQLAlchemy adds: a session takes a pool connection at its first    *)
(* statement and gives it back at commit, rollback or close; leaving       *)
(* `async with` closes the session in a task of its own, shielded from     *)
(* cancellation; dispose() awaits the idle connections being closed and    *)
(* leaves the checked-out ones alone.                                      *)
(***************************************************************************)
EXTENDS Naturals, FiniteSets

CONSTANTS
    Session,    \* the uses of get_session, one coroutine each
    Disposer,   \* the tasks that call dispose_engine, any number of times
    PoolLimit   \* pool_size + max_overflow

ASSUME PoolAssumption == PoolLimit \in Nat

VARIABLES
    engine,     \* session._engine
    maker,      \* session._session_maker
    built,      \* history: how many engines were built; they are 1 .. built
    disposed,   \* history: the engines whose dispose() was completed
    disposing,  \* per disposer: the engine whose dispose() it awaits, or 0
    step,       \* per session: where its coroutine is
    bound,      \* per session: the engine behind it
    connected,  \* the sessions that hold a pool connection
    work,       \* per session: what became of what it wrote
    ending,     \* per session: how get_session ends, "none" until that is decided
    lingering   \* the sessions whose shielded close() outlives their coroutine

singletons == <<engine, maker, built, disposed, disposing>>
session_vars == <<step, bound, connected, work, ending, lingering>>
db_vars == <<singletons, session_vars>>

DbInit ==
    /\ engine = 0 /\ maker = 0 /\ built = 0
    /\ disposed = {}
    /\ disposing = [d \in Disposer |-> 0]
    /\ step = [s \in Session |-> "out"]
    /\ bound = [s \in Session |-> 0]
    /\ connected = {}
    /\ work = [s \in Session |-> "none"]
    /\ ending = [s \in Session |-> "none"]
    /\ lingering = {}

-----------------------------------------------------------------------------
(* The singletons.                                                         *)

(* Mutant: the `is None` test dropped.                                     *)
current_engine_rebuilt == built + 1

(* The engine get_engine() returns, built when there is none.              *)
current_engine == IF engine = 0 THEN built + 1 ELSE engine

get_engine ==
    /\ engine' = current_engine
    /\ built' = IF current_engine > built THEN current_engine ELSE built

(* Mutant: the maker made from the global instead of from get_engine().    *)
current_maker_direct == IF maker = 0 THEN engine ELSE maker

(* The maker get_session_maker() returns; only a missing one asks for the  *)
(* engine.                                                                 *)
current_maker == IF maker = 0 THEN current_engine ELSE maker

get_session_maker ==
    /\ maker' = current_maker
    /\ IF maker = 0 THEN get_engine ELSE UNCHANGED <<engine, built>>
    /\ UNCHANGED <<disposed, disposing>>

-----------------------------------------------------------------------------
(* get_session.                                                            *)

InUse(e) == Cardinality({s \in connected : bound[s] = e})

(* dispose() leaves the engine a new pool, to which a connection checked   *)
(* out of the old one neither counts nor comes back: with which pool a     *)
(* session of a disposed engine is, and so its limit, is left open.        *)
HasRoom(e) == e \in disposed \/ InUse(e) < PoolLimit

move(s, to) == step' = [step EXCEPT ![s] = to]
decide(s, how) == ending' = [ending EXCEPT ![s] = how]
settle(s, how) ==
    work' = [work EXCEPT ![s] = IF @ = "pending" THEN how ELSE @]
release(s) == connected' = connected \ {s}

open(s) ==
    /\ step[s] = "out"
    /\ get_session_maker
    /\ bound' = [bound EXCEPT ![s] = current_maker]
    /\ move(s, "handler")
    /\ UNCHANGED <<connected, work, ending, lingering>>

(* The handler's first statement; it waits while the pool is exhausted.    *)
execute(s) ==
    /\ step[s] = "handler"
    /\ work[s] = "none"
    /\ HasRoom(bound[s])
    /\ connected' = connected \cup {s}
    /\ work' = [work EXCEPT ![s] = "pending"]
    /\ UNCHANGED <<singletons, step, bound, ending, lingering>>

handler_returns(s) ==
    /\ step[s] = "handler"
    /\ move(s, "commit")
    /\ UNCHANGED <<singletons, bound, connected, work, ending, lingering>>

(* Mutant: `raise` forgotten after the rollback.                           *)
caught_swallowed(s) ==
    /\ move(s, "rollback")
    /\ decide(s, "returned")

(* The except clause: the exception is re-raised after the rollback.       *)
caught(s) ==
    /\ move(s, "rollback")
    /\ decide(s, "raised")

handler_raises(s) ==
    /\ step[s] = "handler"
    /\ caught(s)
    /\ UNCHANGED <<singletons, bound, connected, work, lingering>>

committed(s) ==
    /\ step[s] = "commit"
    /\ settle(s, "committed")
    /\ release(s)
    /\ decide(s, "returned")
    /\ move(s, "close")
    /\ UNCHANGED <<singletons, bound, lingering>>

(* The commit raises; the server may have carried it out all the same.     *)
commit_raises(s) ==
    /\ step[s] = "commit"
    /\ work[s] = "pending"
    /\ caught(s)
    /\ settle(s, "committed") \/ UNCHANGED work
    /\ UNCHANGED <<singletons, bound, connected, lingering>>

rolled_back(s) ==
    /\ step[s] = "rollback"
    /\ settle(s, "discarded")
    /\ release(s)
    /\ move(s, "close")
    /\ UNCHANGED <<singletons, bound, ending, lingering>>

(* An exception of the rollback leaves in place of the first one.          *)
rollback_raises(s) ==
    /\ step[s] = "rollback"
    /\ move(s, "close")
    /\ UNCHANGED <<singletons, bound, connected, work, ending, lingering>>

(* close() gives the connection back, which ends an open transaction.      *)
close(s) ==
    /\ settle(s, "discarded")
    /\ release(s)
    /\ UNCHANGED <<singletons, bound, ending>>

closed(s) ==
    /\ step[s] = "close"
    /\ close(s)
    /\ move(s, "done")
    /\ UNCHANGED lingering

(* A cancellation reaches the handler or one of its two awaits.  It is no  *)
(* Exception: no rollback(), the session is only closed.                   *)
cancel(s) ==
    /\ step[s] \in {"handler", "commit", "rollback"}
    /\ decide(s, "cancelled")
    /\ move(s, "close")
    /\ \/ UNCHANGED work
       \/ step[s] = "commit" /\ settle(s, "committed")
    /\ UNCHANGED <<singletons, bound, connected, lingering>>

(* Mutant: close() awaited without a shield, and cut short.                *)
cancel_close_unshielded(s) ==
    /\ step[s] = "close"
    /\ decide(s, "cancelled")
    /\ move(s, "done")
    /\ UNCHANGED <<singletons, bound, connected, work, lingering>>

(* One that reaches the await of the shielded close() ends the coroutine,  *)
(* and close() goes on by itself.                                          *)
cancel_close(s) ==
    /\ step[s] = "close"
    /\ decide(s, "cancelled")
    /\ move(s, "done")
    /\ lingering' = lingering \cup {s}
    /\ UNCHANGED <<singletons, bound, connected, work>>

closed_late(s) ==
    /\ s \in lingering
    /\ close(s)
    /\ lingering' = lingering \ {s}
    /\ UNCHANGED step

-----------------------------------------------------------------------------
(* dispose_engine.                                                         *)

dispose_engine(d) ==
    /\ disposing[d] = 0
    /\ maker' = IF engine = 0 THEN 0 ELSE maker
    /\ disposing' = [disposing EXCEPT ![d] = engine]
    /\ UNCHANGED <<engine, built, disposed, session_vars>>

(* Mutant: the maker not reset.                                            *)
reset_engine_only(d) == engine' = 0 /\ UNCHANGED maker

reset(d) == engine' = 0 /\ maker' = 0

(* The await is over: both globals are reset in the same run of the task.  *)
disposal_ends(d) ==
    /\ disposing[d] # 0
    /\ disposed' = disposed \cup {disposing[d]}
    /\ disposing' = [disposing EXCEPT ![d] = 0]
    /\ reset(d)
    /\ UNCHANGED <<built, session_vars>>

(* Mutant: the globals reset in a `finally`.                               *)
disposal_fails_finally(d) ==
    /\ disposing[d] # 0
    /\ disposing' = [disposing EXCEPT ![d] = 0]
    /\ engine' = 0 /\ maker' = 0
    /\ UNCHANGED <<built, disposed, session_vars>>

(* It is cancelled, or raises: the globals are kept.                       *)
disposal_fails(d) ==
    /\ disposing[d] # 0
    /\ disposing' = [disposing EXCEPT ![d] = 0]
    /\ UNCHANGED <<engine, maker, built, disposed, session_vars>>

-----------------------------------------------------------------------------

(* What a session does unless it is cancelled, and what a cancellation may *)
(* meet.                                                                   *)
SessionStep(s) ==
    \/ open(s)
    \/ execute(s)
    \/ handler_returns(s)
    \/ handler_raises(s)
    \/ committed(s)
    \/ commit_raises(s)
    \/ rolled_back(s)
    \/ rollback_raises(s)
    \/ closed(s)

CancelStep(s) == cancel(s) \/ cancel_close(s)

DisposeStep(d) == dispose_engine(d) \/ disposal_ends(d) \/ disposal_fails(d)

DbNext ==
    \/ \E s \in Session : SessionStep(s) \/ CancelStep(s) \/ closed_late(s)
    \/ \E d \in Disposer : DisposeStep(d)

DbSafeSpec == DbInit /\ [][DbNext]_db_vars

(* The loop resumes a coroutine whose await is over, and the server ends a *)
(* transaction it is asked to end.  Nothing is assumed of the handlers.    *)
CleanUp(s) == committed(s) \/ commit_raises(s) \/ rolled_back(s) \/ rollback_raises(s)
              \/ closed(s) \/ closed_late(s)

DbSpec == DbSafeSpec /\ \A s \in Session : WF_db_vars(CleanUp(s))

-----------------------------------------------------------------------------
(* Properties.                                                             *)

Step == {"out", "handler", "commit", "rollback", "close", "done"}

(* The globals and the locals of every coroutine keep their types; a        *)
(* session in use always has an engine behind it.                          *)
DbTypeOK ==
    /\ built \in Nat
    /\ engine \in 0 .. built /\ maker \in 0 .. built
    /\ disposed \subseteq 1 .. built
    /\ disposing \in [Disposer -> 0 .. built]
    /\ step \in [Session -> Step]
    /\ bound \in [Session -> 0 .. built]
    /\ \A s \in Session : step[s] # "out" => bound[s] # 0
    /\ connected \subseteq Session /\ lingering \subseteq Session
    /\ work \in [Session -> {"none", "pending", "committed", "discarded"}]
    /\ ending \in [Session -> {"none", "returned", "raised", "cancelled"}]

(* dispose_engine: resetting the maker "keeps callers from using a maker   *)
(* bound to a disposed engine".  Whatever runs during its await, a maker   *)
(* in place is bound to the engine in place, and that one is not disposed. *)
MakerIsUsable ==
    /\ maker # 0 => maker = engine
    /\ engine \notin disposed

(* With one task disposing at a time, as the lifespan does, no engine is   *)
(* ever forgotten: each is in place or disposed.  (Two overlapping calls   *)
(* can forget one that was built between their ends.)                      *)
NoEngineForgotten == \A e \in 1 .. built : e = engine \/ e \in disposed

(* A transaction is open only while the session holds its connection, and  *)
(* a connection is held only by a coroutine or by a close() in progress.   *)
NoConnectionLeaks ==
    \A s \in Session :
        /\ work[s] = "pending" => s \in connected
        /\ s \in connected => step[s] \notin {"out", "done"} \/ s \in lingering

phase == [s \in Session |->
             CASE step[s] = "out" -> "idle"
               [] step[s] = "handler" -> "open"
               [] step[s] = "commit" -> "committing"
               [] OTHER -> "over"]

Promise == INSTANCE UnitOfWork

(* get_session: "commits on success, rolls back on exception", and leaves  *)
(* nothing open, also when the commit fails or anything is cancelled.      *)
KeepsPromise == Promise!Spec

=============================================================================
