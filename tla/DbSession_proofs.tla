--------------------------- MODULE DbSession_proofs --------------------------
(***************************************************************************)
(* The session singletons and get_session for any number of sessions, of   *)
(* disposers and of pool connections.                                      *)
(***************************************************************************)
EXTENDS DbSession, TLAPS

LEMMA DbTypesInit == DbInit => DbTypeOK
BY DEF DbInit, DbTypeOK, Step

(* What the singletons may do in one step: stay, have a maker and perhaps  *)
(* an engine made, or go through a stage of dispose_engine.                *)
LEMMA SessionTouchesSingletons ==
    ASSUME NEW s \in Session, SessionStep(s) \/ CancelStep(s) \/ closed_late(s)
    PROVE  open(s) \/ UNCHANGED singletons
BY DEF SessionStep, CancelStep, execute, handler_returns, handler_raises, committed,
       commit_raises, rolled_back, rollback_raises, closed, cancel, cancel_close,
       closed_late, close

LEMMA DisposalTouchesSingletons ==
    ASSUME NEW d \in Disposer, DisposeStep(d)
    PROVE  UNCHANGED session_vars
BY DEF DisposeStep, dispose_engine, disposal_ends, disposal_fails

(* A session in use keeps its engine, and only open() chooses one.         *)
SingletonTypes ==
    /\ built \in Nat
    /\ engine \in 0 .. built /\ maker \in 0 .. built
    /\ disposed \subseteq 1 .. built
    /\ disposing \in [Disposer -> 0 .. built]

SessionTypes ==
    /\ step \in [Session -> Step]
    /\ bound \in [Session -> 0 .. built]
    /\ \A s \in Session : step[s] # "out" => bound[s] # 0
    /\ connected \subseteq Session /\ lingering \subseteq Session
    /\ work \in [Session -> {"none", "pending", "committed", "discarded"}]
    /\ ending \in [Session -> {"none", "returned", "raised", "cancelled"}]

LEMMA TypesSplit == DbTypeOK <=> SingletonTypes /\ SessionTypes
BY DEF DbTypeOK, SingletonTypes, SessionTypes

(* get_engine and get_session_maker: an engine is built exactly when there *)
(* is none, and the maker is bound to it.                                  *)
LEMMA MakerFound ==
    ASSUME SingletonTypes, MakerIsUsable, get_session_maker
    PROVE  /\ SingletonTypes' /\ MakerIsUsable'
           /\ current_maker \in 1 .. built' /\ built <= built'
           /\ built' = built \/ (engine = 0 /\ built' = built + 1 /\ engine' = built')
           /\ engine # 0 => engine' = engine
           /\ UNCHANGED <<disposed, disposing>>
<1>1. CASE maker = 0 /\ engine = 0
  <2>1. engine' = built + 1 /\ maker' = built + 1 /\ built' = built + 1
    BY <1>1 DEF get_session_maker, get_engine, current_maker, current_engine,
                SingletonTypes
  <2>2. UNCHANGED <<disposed, disposing>> /\ current_maker = built + 1
    BY <1>1 DEF get_session_maker, current_maker, current_engine
  <2> QED BY <1>1, <2>1, <2>2 DEF SingletonTypes, MakerIsUsable
<1>2. CASE maker = 0 /\ engine # 0
  <2>1. engine' = engine /\ maker' = engine /\ built' = built
    BY <1>2 DEF get_session_maker, get_engine, current_maker, current_engine,
                SingletonTypes
  <2>2. UNCHANGED <<disposed, disposing>> /\ current_maker = engine
    BY <1>2 DEF get_session_maker, current_maker, current_engine
  <2> QED BY <1>2, <2>1, <2>2 DEF SingletonTypes, MakerIsUsable
<1>3. CASE maker # 0
  <2>1. UNCHANGED <<engine, maker, built, disposed, disposing>> /\ current_maker = maker
    BY <1>3 DEF get_session_maker, current_maker
  <2> QED BY <1>3, <2>1 DEF SingletonTypes, MakerIsUsable
<1> QED BY <1>1, <1>2, <1>3

-----------------------------------------------------------------------------
(* The inductive invariant.                                                *)

(* What a session's place in get_session says about its connection.        *)
Sound(s) ==
    /\ work[s] = "pending" => s \in connected
    /\ s \in connected => step[s] \notin {"out", "done"} \/ s \in lingering
    /\ s \in lingering => step[s] = "done"

SessionInv == SessionTypes /\ \A s \in Session : Sound(s)

DbInv == SingletonTypes /\ MakerIsUsable /\ SessionInv

LEMMA DbInitInv == DbInit => DbInv
BY DEF DbInit, DbInv, SingletonTypes, MakerIsUsable, SessionInv, SessionTypes, Sound, Step

LEMMA OpenInv ==
    ASSUME DbInv, NEW s \in Session, open(s)
    PROVE  DbInv'
<1>1. /\ SingletonTypes' /\ MakerIsUsable'
      /\ current_maker \in 1 .. built' /\ built <= built'
  BY MakerFound DEF DbInv, open
<1>2. SessionTypes'
  <2>1. bound' \in [Session -> 0 .. built']
    BY <1>1 DEF open, DbInv, SessionInv, SessionTypes, SingletonTypes
  <2>2. step' \in [Session -> Step]
    BY DEF open, move, Step, DbInv, SessionInv, SessionTypes
  <2>3. ASSUME NEW u \in Session, step'[u] # "out" PROVE bound'[u] # 0
    BY <1>1, <2>3 DEF open, move, DbInv, SessionInv, SessionTypes, SingletonTypes
  <2> QED BY <2>1, <2>2, <2>3 DEF open, DbInv, SessionInv, SessionTypes
<1>3. ASSUME NEW u \in Session PROVE Sound(u)'
  BY DEF open, move, DbInv, SessionInv, SessionTypes, Sound
<1> QED BY <1>1, <1>2, <1>3 DEF DbInv, SessionInv

(* Every other step of a session, whatever the singletons are.             *)
LEMMA SessionStepInv ==
    ASSUME SessionInv, NEW s \in Session, UNCHANGED built,
           SessionStep(s) \/ CancelStep(s) \/ closed_late(s), ~open(s)
    PROVE  SessionInv'
<1> USE DEF SessionInv, SessionTypes, Sound, Step, move, decide
<1>1. CASE execute(s)
  BY <1>1 DEF execute
<1>2. CASE handler_returns(s)
  BY <1>2 DEF handler_returns
<1>3. CASE handler_raises(s)
  BY <1>3 DEF handler_raises, caught
<1>4. CASE committed(s)
  BY <1>4 DEF committed, settle, release
<1>5. CASE commit_raises(s)
  BY <1>5 DEF commit_raises, caught, settle
<1>6. CASE rolled_back(s)
  BY <1>6 DEF rolled_back, settle, release
<1>7. CASE rollback_raises(s)
  BY <1>7 DEF rollback_raises
<1>8. CASE closed(s)
  BY <1>8 DEF closed, close, settle, release
<1>9. CASE cancel(s)
  BY <1>9 DEF cancel, settle
<1>10. CASE cancel_close(s)
  BY <1>10 DEF cancel_close
<1>11. CASE closed_late(s)
  BY <1>11 DEF closed_late, close, settle, release
<1> QED BY <1>1, <1>2, <1>3, <1>4, <1>5, <1>6, <1>7, <1>8, <1>9, <1>10, <1>11 DEF SessionStep, CancelStep

LEMMA DisposalInv ==
    ASSUME SingletonTypes, MakerIsUsable, NEW d \in Disposer, DisposeStep(d)
    PROVE  SingletonTypes' /\ MakerIsUsable'
<1>1. CASE dispose_engine(d)
  BY <1>1 DEF dispose_engine, SingletonTypes, MakerIsUsable
<1>2. CASE disposal_ends(d)
  <2>1. disposing[d] \in 1 .. built
    BY <1>2 DEF disposal_ends, SingletonTypes
  <2>2. /\ engine' = 0 /\ maker' = 0 /\ built' = built
        /\ disposed' = disposed \cup {disposing[d]}
        /\ disposing' = [disposing EXCEPT ![d] = 0]
    BY <1>2 DEF disposal_ends, reset
  <2>3. disposing' \in [Disposer -> 0 .. built]
    BY <2>2 DEF SingletonTypes
  <2>4. disposed' \subseteq 1 .. built'
    BY <2>1, <2>2 DEF SingletonTypes
  <2>5. MakerIsUsable'
    <3>1. 0 \notin disposed'
      BY <2>2, <2>4 DEF SingletonTypes
    <3> QED BY <2>2, <3>1 DEF MakerIsUsable
  <2>6. SingletonTypes'
    BY <2>2, <2>3, <2>4 DEF SingletonTypes
  <2> QED BY <2>5, <2>6
<1>3. CASE disposal_fails(d)
  BY <1>3 DEF disposal_fails, SingletonTypes, MakerIsUsable
<1> QED BY <1>1, <1>2, <1>3 DEF DisposeStep

LEMMA DbStepInv ==
    ASSUME DbInv, [DbNext]_db_vars
    PROVE  DbInv'
<1>1. ASSUME NEW s \in Session, SessionStep(s) \/ CancelStep(s) \/ closed_late(s)
      PROVE  DbInv'
  <2>1. CASE open(s)
    BY <2>1, OpenInv
  <2>2. CASE ~open(s)
    <3>1. UNCHANGED singletons
      BY <1>1, <2>2, SessionTouchesSingletons
    <3>2. SessionInv'
      BY <1>1, <2>2, <3>1, SessionStepInv DEF DbInv, singletons
    <3> QED BY <3>1, <3>2 DEF DbInv, singletons, SingletonTypes, MakerIsUsable
  <2> QED BY <2>1, <2>2
<1>2. ASSUME NEW d \in Disposer, DisposeStep(d)
      PROVE  DbInv'
  <2>1. SingletonTypes' /\ MakerIsUsable'
    BY <1>2, DisposalInv DEF DbInv
  <2>2. UNCHANGED <<session_vars, built>>
    BY <1>2, DisposalTouchesSingletons
       DEF DisposeStep, dispose_engine, disposal_ends, disposal_fails
  <2> QED BY <2>1, <2>2 DEF DbInv, SessionInv, SessionTypes, Sound, session_vars
<1>3. CASE UNCHANGED db_vars
  BY <1>3 DEF db_vars, singletons, session_vars, DbInv, SessionInv, SessionTypes,
              SingletonTypes, MakerIsUsable, Sound
<1> QED BY <1>1, <1>2, <1>3 DEF DbNext

(* The globals, the history and the locals of every coroutine keep their   *)
(* types; a session in use has an engine.                                  *)
THEOREM DbTypes == DbSafeSpec => []DbTypeOK
<1>1. DbInv => DbTypeOK
  BY TypesSplit DEF DbInv, SessionInv
<1> QED BY <1>1, DbInitInv, DbStepInv, PTL DEF DbSafeSpec

(* Whatever runs while dispose_engine awaits, and however many of them     *)
(* overlap, no caller finds a maker bound to a disposed engine.            *)
THEOREM NoMakerOutlivesItsEngine == DbSafeSpec => []MakerIsUsable
<1>1. DbInv => MakerIsUsable
  BY DEF DbInv
<1> QED BY <1>1, DbInitInv, DbStepInv, PTL DEF DbSafeSpec

(* No interleaving of failures and cancellations leaves a transaction or a *)
(* pool connection with nobody to end it.                                  *)
THEOREM ConnectionsAreOwned == DbSafeSpec => []NoConnectionLeaks
<1>1. DbInv => NoConnectionLeaks
  BY DEF DbInv, SessionInv, Sound, NoConnectionLeaks
<1> QED BY <1>1, DbInitInv, DbStepInv, PTL DEF DbSafeSpec

-----------------------------------------------------------------------------
(* A single disposer, as the lifespan is.                                  *)

Kept ==
    /\ \A e \in 1 .. built : e = engine \/ e \in disposed
    /\ \A d \in Disposer : disposing[d] \in {0, engine}

LEMMA KeptStep ==
    ASSUME \A c, d \in Disposer : c = d, DbInv, Kept, [DbNext]_db_vars
    PROVE  Kept'
<1>1. ASSUME NEW s \in Session, open(s) PROVE Kept'
  <2>1. /\ built' = built \/ (engine = 0 /\ built' = built + 1 /\ engine' = built')
        /\ engine # 0 => engine' = engine
        /\ UNCHANGED <<disposed, disposing>>
    BY <1>1, MakerFound DEF open, DbInv
  <2>2. engine = 0 => \A d \in Disposer : disposing[d] = 0
    BY DEF Kept
  <2>3. \A d \in Disposer : disposing'[d] \in {0, engine'}
    BY <2>1, <2>2 DEF Kept
  <2>4. \A e \in 1 .. built' : e = engine' \/ e \in disposed'
    BY <2>1 DEF Kept, DbInv, SingletonTypes
  <2> QED BY <2>3, <2>4 DEF Kept
<1>2. ASSUME NEW d \in Disposer, dispose_engine(d) PROVE Kept'
  BY <1>2 DEF dispose_engine, Kept, DbInv, SingletonTypes
<1>3. ASSUME NEW d \in Disposer, disposal_ends(d) PROVE Kept'
  <2>1. disposing[d] = engine /\ engine' = 0 /\ built' = built
        /\ disposed' = disposed \cup {engine}
    BY <1>3 DEF disposal_ends, reset, Kept
  <2>2. \A c \in Disposer : disposing'[c] = 0
    BY <1>3 DEF disposal_ends, DbInv, SingletonTypes
  <2> QED BY <2>1, <2>2 DEF Kept
<1>4. ASSUME NEW d \in Disposer, disposal_fails(d) PROVE Kept'
  BY <1>4 DEF disposal_fails, Kept, DbInv, SingletonTypes
<1>5. CASE UNCHANGED singletons
  BY <1>5 DEF singletons, Kept
<1> QED BY <1>1, <1>2, <1>3, <1>4, <1>5, SessionTouchesSingletons
        DEF DbNext, DisposeStep, db_vars

(* One task disposing at a time never forgets an engine: each is in place  *)
(* or disposed of, whether its disposal was completed, failed or retried.  *)
THEOREM NoEngineIsForgotten ==
    ASSUME \A c, d \in Disposer : c = d
    PROVE  DbSafeSpec => []NoEngineForgotten
<1>1. DbInit => Kept
  BY DEF DbInit, Kept
<1>2. DbInv /\ Kept /\ [DbNext]_db_vars => Kept'
  BY KeptStep
<1>3. Kept => NoEngineForgotten
  BY DEF Kept, NoEngineForgotten
<1> QED BY <1>1, <1>2, <1>3, DbInitInv, DbStepInv, PTL DEF DbSafeSpec

-----------------------------------------------------------------------------
(* get_session implements the unit of work.                                *)

(* What becomes of one session becomes of its unit of work, and of no      *)
(* other.                                                                  *)
PhaseAt(where) ==
    CASE where = "out" -> "idle"
      [] where = "handler" -> "open"
      [] where = "commit" -> "committing"
      [] OTHER -> "over"

LEMMA PhaseMoves ==
    ASSUME NEW s \in Session, NEW to \in Step, step \in [Session -> Step], move(s, to)
    PROVE  /\ phase[s] = PhaseAt(step[s])
           /\ phase' = [phase EXCEPT ![s] = PhaseAt(to)]
           /\ PhaseAt(to) = PhaseAt(step[s]) => phase' = phase
BY DEF phase, PhaseAt, move, Step

LEMMA PhaseStays == step' = step => phase' = phase
BY DEF phase

LEMMA SessionKeepsPromise ==
    ASSUME SessionInv, NEW s \in Session,
           SessionStep(s) \/ CancelStep(s) \/ closed_late(s)
    PROVE  [Promise!Next]_(Promise!vars)
<1> USE DEF SessionInv, SessionTypes, Step
<1>1. CASE open(s)
  <2>1. phase[s] = "idle" /\ phase' = [phase EXCEPT ![s] = "open"]
    BY <1>1, PhaseMoves DEF open, PhaseAt
  <2> QED BY <1>1, <2>1 DEF open, Promise!Begin, Promise!Next
<1>2. CASE execute(s)
  <2>1. phase[s] = "open" /\ phase' = phase
    BY <1>2, PhaseStays DEF execute, phase
  <2> QED BY <1>2, <2>1 DEF execute, Promise!Write, Promise!Next
<1>3. CASE handler_returns(s)
  <2>1. phase[s] = "open" /\ phase' = [phase EXCEPT ![s] = "committing"]
    BY <1>3, PhaseMoves DEF handler_returns, PhaseAt
  <2> QED BY <1>3, <2>1 DEF handler_returns, Promise!Submit, Promise!Next
<1>4. CASE handler_raises(s)
  <2>1. phase[s] = "open" /\ phase' = [phase EXCEPT ![s] = "over"]
    BY <1>4, PhaseMoves DEF handler_raises, caught, PhaseAt
  <2>2. Promise!Fail(s)
    BY <1>4, <2>1 DEF handler_raises, caught, decide, Promise!Fail
  <2> QED BY <2>2 DEF Promise!Next
<1>5. CASE committed(s)
  <2>1. phase[s] = "committing" /\ phase' = [phase EXCEPT ![s] = "over"]
    BY <1>5, PhaseMoves DEF committed, PhaseAt
  <2>2. Promise!Return(s)
    BY <1>5, <2>1 DEF committed, settle, decide, Promise!Return
  <2> QED BY <2>2 DEF Promise!Next
<1>6. CASE commit_raises(s)
  <2>1. phase[s] = "committing" /\ phase' = [phase EXCEPT ![s] = "over"]
    BY <1>6, PhaseMoves DEF commit_raises, caught, PhaseAt
  <2>2. Promise!Fail(s)
    BY <1>6, <2>1 DEF commit_raises, caught, decide, settle, Promise!Fail
  <2> QED BY <2>2 DEF Promise!Next
<1>7. ASSUME phase[s] = "over", phase' = phase, settle(s, "discarded"), UNCHANGED ending
      PROVE  [Promise!Next]_(Promise!vars)
  <2>1. CASE work[s] = "pending"
    BY <1>7, <2>1 DEF settle, Promise!Discard, Promise!Next
  <2>2. CASE work[s] # "pending"
    BY <1>7, <2>2 DEF settle, Promise!vars
  <2> QED BY <2>1, <2>2
<1>8. CASE rolled_back(s)
  <2>1. phase[s] = "over" /\ phase' = phase
    BY <1>8, PhaseMoves DEF rolled_back, PhaseAt
  <2> QED BY <1>7, <1>8, <2>1 DEF rolled_back
<1>9. CASE rollback_raises(s)
  <2>1. phase' = phase
    BY <1>9, PhaseMoves DEF rollback_raises, PhaseAt
  <2> QED BY <1>9, <2>1 DEF rollback_raises, Promise!vars
<1>10. CASE closed(s)
  <2>1. phase[s] = "over" /\ phase' = phase
    BY <1>10, PhaseMoves DEF closed, PhaseAt
  <2> QED BY <1>7, <1>10, <2>1 DEF closed, close
<1>11. CASE cancel(s)
  <2>1. CASE step[s] \in {"handler", "commit"}
    <3>1. /\ phase[s] = IF step[s] = "commit" THEN "committing" ELSE "open"
          /\ phase' = [phase EXCEPT ![s] = "over"]
      BY <1>11, <2>1, PhaseMoves DEF cancel, PhaseAt
    <3>2. Promise!Fail(s)
      BY <1>11, <2>1, <3>1 DEF cancel, decide, settle, Promise!Fail
    <3> QED BY <3>2 DEF Promise!Next
  <2>2. CASE step[s] = "rollback"
    <3>1. phase[s] = "over" /\ phase' = phase
      BY <1>11, <2>2, PhaseMoves DEF cancel, PhaseAt
    <3>2. Promise!CancelLate(s)
      BY <1>11, <2>2, <3>1 DEF cancel, decide, Promise!CancelLate
    <3> QED BY <3>2 DEF Promise!Next
  <2> QED BY <1>11, <2>1, <2>2 DEF cancel
<1>12. CASE cancel_close(s)
  <2>1. phase[s] = "over" /\ phase' = phase
    BY <1>12, PhaseMoves DEF cancel_close, PhaseAt
  <2>2. Promise!CancelLate(s)
    BY <1>12, <2>1 DEF cancel_close, decide, Promise!CancelLate
  <2> QED BY <2>2 DEF Promise!Next
<1>13. CASE closed_late(s)
  <2>1. phase[s] = "over" /\ phase' = phase
    BY <1>13, PhaseStays DEF closed_late, phase, Sound
  <2> QED BY <1>7, <1>13, <2>1 DEF closed_late, close
<1> QED BY <1>1, <1>2, <1>3, <1>4, <1>5, <1>6, <1>8, <1>9, <1>10, <1>11, <1>12, <1>13
        DEF SessionStep, CancelStep

LEMMA StepKeepsPromise ==
    ASSUME DbInv, [DbNext]_db_vars
    PROVE  [Promise!Next]_(Promise!vars)
<1>1. ASSUME NEW d \in Disposer, DisposeStep(d) PROVE UNCHANGED Promise!vars
  BY <1>1, DisposalTouchesSingletons, PhaseStays DEF session_vars, Promise!vars
<1>2. ASSUME UNCHANGED db_vars PROVE UNCHANGED Promise!vars
  BY <1>2, PhaseStays DEF db_vars, session_vars, Promise!vars
<1> QED BY <1>1, <1>2, SessionKeepsPromise DEF DbNext, DbInv

(* get_session "commits on success, rolls back on exception": the safety   *)
(* of the unit of work, with every failure and cancellation in between.    *)
THEOREM SessionIsUnitOfWork == DbSafeSpec => Promise!SafeSpec
<1>1. DbInit => Promise!Init
  BY DEF DbInit, Promise!Init, phase
<1> QED BY <1>1, DbInitInv, DbStepInv, StepKeepsPromise, PTL
        DEF DbSafeSpec, Promise!SafeSpec

-----------------------------------------------------------------------------
(* What a unit of work is worth to a handler.                              *)

(* What get_session returned from is durable, what it discarded it told of *)
(* as a failure, and nothing is settled before the handler is through.     *)
WritesMatchEnding ==
    \A s \in Session :
        /\ ending[s] = "returned" => work[s] \in {"none", "committed"}
        /\ work[s] = "discarded" => ending[s] \in {"raised", "cancelled"}
        /\ work[s] = "committed" => ending[s] # "none"

(* What is durable stays so and what is gone stays gone, whichever         *)
(* rollback, close or cancellation comes afterwards.                       *)
SettledForGood ==
    [][\A s \in Session : work[s] \in {"committed", "discarded"} => work'[s] = work[s]]_
        (Promise!vars)

PromiseInv ==
    /\ phase \in [Session -> {"idle", "open", "committing", "over"}]
    /\ work \in [Session -> {"none", "pending", "committed", "discarded"}]
    /\ ending \in [Session -> {"none", "returned", "raised", "cancelled"}]
    /\ \A s \in Session :
          /\ phase[s] = "over" <=> ending[s] # "none"
          /\ ending[s] = "returned" => work[s] \in {"none", "committed"}
          /\ work[s] \in {"committed", "discarded"} => phase[s] = "over"

LEMMA PromiseInitInv == Promise!Init => PromiseInv
BY DEF Promise!Init, PromiseInv

LEMMA PromiseStepInv ==
    ASSUME PromiseInv, [Promise!Next]_(Promise!vars)
    PROVE  /\ PromiseInv'
           /\ \A s \in Session :
                 work[s] \in {"committed", "discarded"} => work'[s] = work[s]
<1>1. CASE UNCHANGED Promise!vars
  BY <1>1 DEF Promise!vars, PromiseInv
<1>2. ASSUME NEW s \in Session, Promise!Begin(s) \/ Promise!Write(s) \/ Promise!Submit(s)
      PROVE  PromiseInv' /\ \A u \in Session :
                 work[u] \in {"committed", "discarded"} => work'[u] = work[u]
  BY <1>2 DEF PromiseInv, Promise!Begin, Promise!Write, Promise!Submit
<1>3. ASSUME NEW s \in Session, Promise!Return(s)
      PROVE  PromiseInv' /\ \A u \in Session :
                 work[u] \in {"committed", "discarded"} => work'[u] = work[u]
  BY <1>3 DEF PromiseInv, Promise!Return
<1>4. ASSUME NEW s \in Session, Promise!Fail(s)
      PROVE  PromiseInv' /\ \A u \in Session :
                 work[u] \in {"committed", "discarded"} => work'[u] = work[u]
  BY <1>4 DEF PromiseInv, Promise!Fail
<1>5. ASSUME NEW s \in Session, Promise!CancelLate(s) \/ Promise!Discard(s)
      PROVE  PromiseInv' /\ \A u \in Session :
                 work[u] \in {"committed", "discarded"} => work'[u] = work[u]
  BY <1>5 DEF PromiseInv, Promise!CancelLate, Promise!Discard
<1> QED BY <1>1, <1>2, <1>3, <1>4, <1>5 DEF Promise!Next

(* A handler is told the truth about its writes, for good: what the unit   *)
(* of work implies, and with it every use of get_session.                  *)
THEOREM HandlersAreToldTheTruth == DbSafeSpec => []WritesMatchEnding /\ SettledForGood
<1>1. PromiseInv => WritesMatchEnding
  BY DEF PromiseInv, WritesMatchEnding
<1>2. Promise!SafeSpec => []WritesMatchEnding /\ SettledForGood
  BY <1>1, PromiseInitInv, PromiseStepInv, PTL DEF Promise!SafeSpec, SettledForGood
<1> QED BY <1>2, SessionIsUnitOfWork, PTL
=============================================================================
