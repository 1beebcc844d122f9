------------------------------ MODULE App_proofs -----------------------------
(***************************************************************************)
(* The lifespan, its requests and its health checks for any number of      *)
(* lifespans, sessions, health checks and pool connections, whatever       *)
(* raises, is cancelled or never answers.                                  *)
(***************************************************************************)
EXTENDS App, Startup_proofs, DbSession_proofs

-----------------------------------------------------------------------------
(* The inductive invariant.                                                *)

Up == {"serving", "stopping"}
Live == {"serving", "stopping", "stopped"}

(* What each stage of the lifespan has of the gateway and of the engine.   *)
Lifecycle ==
    /\ app \notin Up => engine = 0 \/ engine \in orphaned
    /\ app \in Up => engine # 0
    /\ app = "serving" => initialized
    /\ app # "stopping" => \A d \in Disposer : disposing[d] = 0
    /\ \A c, d \in Disposer : disposing[c] # 0 /\ disposing[d] # 0 => c = d
    /\ Kept

(* Which lifespan each engine belongs to.                                  *)
Homes ==
    /\ \A e \in 1 .. built : home[e] \in 1 .. lifespans
    /\ app = "gateway" => \A e \in 1 .. built : home[e] # lifespans
    /\ app # "down" => lifespans >= 1
    /\ app \in Up => home[engine] = lifespans \/ engine \in orphaned
    /\ OneEnginePerLifespan

(* A request under way has the engine in place, and once the lifespan ends *)
(* it is cancelled or about to be.                                         *)
SessionFate(s) ==
    /\ s \in lingering => ending[s] = "cancelled" /\ app \in Live
    /\ ending[s] = "cancelled" => step[s] \in {"close", "done"}
    /\ step[s] \notin {"out", "done"} =>
           /\ app \in Live
           /\ home[bound[s]] = lifespans \/ bound[s] \in orphaned
           /\ app \in Up => bound[s] = engine
           /\ app # "serving" => s \in doomed \/ ending[s] = "cancelled"

ProbeFate(p) ==
    /\ probe[p].held => probe[p].at \in {"execute", "close", "lingering"}
    /\ probe[p].at = "lingering" => probe[p].status = "cancelled" /\ app \in Live
    /\ probe[p].at = "close" => probe[p].reply # "none" \/ probe[p].status = "cancelled"
    /\ probe[p].at \in {"execute", "close"} =>
           /\ app \in Live
           /\ home[probe[p].engine] = lifespans \/ probe[p].engine \in orphaned
           /\ app \in Up => probe[p].engine = engine
    /\ probe[p].at = "execute" /\ app # "serving" =>
           p \in doomed \/ probe[p].wait = "abandoned" \/ probe[p].reply # "none"

Fates ==
    /\ \A s \in Session : SessionFate(s)
    /\ \A p \in Probe : ProbeFate(p)

Below == StartupInv /\ DbInv

AppInv == Below /\ AppTypeOK /\ Lifecycle /\ Homes /\ Fates

LEMMA AppInitInv == AppInit => AppInv
<1> SUFFICES ASSUME AppInit PROVE AppInv
  OBVIOUS
<1>1. Below
  BY StartupInitInv, DbInitInv DEF AppInit, Below
<1>2. AppTypeOK
  <2>1. home \in Seq(1 .. MaxLifespans) /\ Len(home) = 0
    BY DEF AppInit
  <2>2. probe \in [Probe -> Locals]
    <3>1. built \in Nat
      BY DEF AppInit, DbInit
    <3>2. Asleep \in Locals
      BY <3>1 DEF Asleep, Locals, Answer
    <3> QED BY <3>2 DEF AppInit
  <2> QED BY <2>1, <2>2, AppAssumption DEF AppInit, DbInit, AppTypeOK, Asleep
<1>3. Lifecycle /\ Homes
  BY DEF AppInit, StartupInit, DbInit, Lifecycle, Homes, OneEnginePerLifespan, Up, Kept
<1>4. Fates
  BY DEF AppInit, DbInit, Fates, SessionFate, ProbeFate, Asleep
<1> QED BY <1>1, <1>2, <1>3, <1>4 DEF AppInv

-----------------------------------------------------------------------------
(* Building an engine.                                                     *)

LEMMA NothingBuilt ==
    ASSUME remember, built' = built
    PROVE  UNCHANGED <<home, orphaned>>
BY DEF remember

(* While the application serves there is an engine, so that the first      *)
(* callers of get_session_maker make a maker and never an engine.          *)
LEMMA ServingBuildsNothing ==
    ASSUME AppInv, app = "serving", get_session_maker, remember
    PROVE  /\ UNCHANGED <<engine, built, disposed, disposing, home, orphaned>>
           /\ current_maker = engine
           /\ SingletonTypes' /\ MakerIsUsable'
           /\ current_maker \in 1 .. built
<1>1. engine # 0 /\ SingletonTypes /\ MakerIsUsable
  BY DEF AppInv, Below, DbInv, Lifecycle, Up
<1>2. built' = built /\ engine' = engine /\ UNCHANGED <<disposed, disposing>>
  BY <1>1, MakerFound
<1>3. current_maker = engine
  BY <1>1 DEF current_maker, current_engine, MakerIsUsable
<1>4. UNCHANGED <<home, orphaned>>
  BY <1>2, NothingBuilt
<1> QED BY <1>1, <1>2, <1>3, <1>4, MakerFound

-----------------------------------------------------------------------------
(* The steps of the lifespan.                                              *)

(* One that leaves the database alone.                                     *)
LEMMA DbUntouched ==
    ASSUME DbInv, UNCHANGED db_vars
    PROVE  DbInv'
BY DbStepInv

LEMMA BootInv ==
    ASSUME AppInv, NEW t \in Thread, boot(t), remember
    PROVE  AppInv'
<1>1. /\ app = "down" /\ app' = "gateway" /\ lifespans' = lifespans + 1
      /\ lifespans < MaxLifespans
      /\ UNCHANGED <<db_vars, doomed, probe>>
  BY DEF boot
<1>2. UNCHANGED <<home, orphaned>>
  BY <1>1, NothingBuilt DEF db_vars, singletons
<1>3. Below'
  <2>1. StartupInv'
    BY StartupStepInv, StartupStutterInv DEF boot, StartupStep, AppInv, Below
  <2> QED BY <1>1, <2>1, DbUntouched DEF AppInv, Below
<1>4. AppTypeOK'
  BY <1>1, <1>2, AppAssumption
     DEF AppInv, AppTypeOK, Locals, db_vars, singletons
<1>5. Lifecycle'
  BY <1>1, <1>2 DEF AppInv, Lifecycle, Kept, Up, db_vars, singletons
<1>6. Homes'
  <2>1. built' = built /\ lifespans \in Nat
    BY <1>1 DEF AppInv, AppTypeOK, db_vars, singletons
  <2> QED BY <1>1, <1>2, <2>1 DEF AppInv, Homes, Up, OneEnginePerLifespan
<1>7. Fates'
  BY <1>1, <1>2
     DEF AppInv, Fates, SessionFate, ProbeFate, Live, Up, db_vars, session_vars, singletons
<1> QED BY <1>3, <1>4, <1>5, <1>6, <1>7 DEF AppInv

(* One that may change the stage, and nothing of what the stage owns.      *)
LEMMA StageInv ==
    ASSUME AppInv, UNCHANGED <<db_vars, lifespans, doomed, probe>>, remember,
           StartupInv', initialized => initialized',
           \/ app' = app
           \/ app = "gateway" /\ app' = "down"
           \/ app = "stopped" /\ app' = "down"
              /\ ActiveSessions \cup ActiveProbes \cup Lingering = {}
    PROVE  AppInv'
<1>1. UNCHANGED <<home, orphaned>>
  BY NothingBuilt DEF db_vars, singletons
<1>2. Below'
  BY DbUntouched DEF AppInv, Below
<1>3. AppTypeOK'
  BY <1>1 DEF AppInv, AppTypeOK, Locals, db_vars, singletons
<1>4. Lifecycle'
  BY <1>1 DEF AppInv, Lifecycle, Kept, Up, db_vars, singletons
<1>5. Homes'
  BY <1>1 DEF AppInv, Homes, Up, OneEnginePerLifespan, db_vars, singletons
<1>6. Fates'
  <2>1. ASSUME NEW s \in Session PROVE SessionFate(s)'
    BY <1>1, <2>1 DEF AppInv, Fates, SessionFate, Live, Up, db_vars, session_vars,
           singletons, ActiveSessions, Lingering
  <2>2. ASSUME NEW p \in Probe PROVE ProbeFate(p)'
    BY <1>1, <2>2 DEF AppInv, Fates, ProbeFate, Live, Up, db_vars, singletons,
           ActiveProbes, Lingering
  <2> QED BY <2>1, <2>2 DEF Fates
<1> QED BY <1>2, <1>3, <1>4, <1>5, <1>6 DEF AppInv

LEMMA GatewayStepInv ==
    ASSUME AppInv, NEW t \in Thread, init_gateway(t) \/ refused(t), remember
    PROVE  AppInv'
<1>1. CASE init_gateway(t)
  <2>1. StartupInv'
    BY <1>1, StartupStepInv DEF init_gateway, AppInv, Below
  <2>2. initialized => initialized'
    BY <1>1 DEF init_gateway, StartupStep, initialize, load_routing_table, publish,
                wire, flag
  <2> QED BY <1>1, <2>1, <2>2, StageInv DEF init_gateway, app_vars
<1>2. CASE refused(t)
  BY <1>2, StageInv, StartupStutterInv DEF refused, startup_vars, AppInv, Below
<1> QED BY <1>1, <1>2

LEMMA LoopEndsInv ==
    ASSUME AppInv, loop_ends, remember
    PROVE  AppInv'
BY StageInv, StartupStutterInv DEF loop_ends, startup_vars, AppInv, Below

(* What prewarm() leaves of the rest.                                      *)
LEMMA PrewarmRest ==
    ASSUME AppInv, NEW t \in Thread, prewarm(t)
    PROVE  /\ app = "gateway" /\ app' = "serving" /\ initialized
           /\ UNCHANGED <<startup_vars, maker, disposed, disposing, session_vars,
                          lifespans, doomed, probe>>
           /\ maker # 0 => maker = engine
           /\ engine = 0 \/ engine \in orphaned
           /\ SingletonTypes /\ MakerIsUsable /\ SessionInv
BY DEF prewarm, AppInv, Below, DbInv, Lifecycle, Up, MakerIsUsable

(* An engine is built here, the only one of the lifespan ...               *)
LEMMA PrewarmBuildsInv ==
    ASSUME AppInv, NEW t \in Thread, prewarm(t), remember, engine = 0
    PROVE  AppInv'
<1>1. /\ app = "gateway" /\ app' = "serving" /\ initialized
      /\ UNCHANGED <<startup_vars, maker, disposed, disposing, session_vars, lifespans,
                     doomed, probe>>
  BY PrewarmRest
<1>2. engine = 0 /\ maker = 0 /\ SingletonTypes /\ MakerIsUsable /\ SessionInv
  BY PrewarmRest
<1>3. engine' = built + 1 /\ built' = built + 1 /\ built \in Nat
  BY <1>2 DEF prewarm, get_engine, current_engine, SingletonTypes
<1>4. /\ home' \in Seq(1 .. MaxLifespans) /\ Len(home') = built + 1
      /\ \A e \in 1 .. built : home'[e] = home[e]
      /\ home'[built + 1] = lifespans
      /\ lifespans \in 1 .. MaxLifespans /\ orphaned' = orphaned
  <2>1. home' = Append(home, lifespans) /\ orphaned' = orphaned
    BY <1>3 DEF remember
  <2>2. lifespans \in 1 .. MaxLifespans
    BY <1>1, AppAssumption DEF AppInv, AppTypeOK, Homes
  <2>3. home \in Seq(1 .. MaxLifespans) /\ Len(home) = built
    BY DEF AppInv, AppTypeOK
  <2> QED BY <1>3, <2>1, <2>2, <2>3
<1>5. Below'
  <2>1. StartupInv'
    BY <1>1, StartupStutterInv DEF AppInv, Below
  <2>2. SingletonTypes' /\ MakerIsUsable'
    BY <1>1, <1>2, <1>3 DEF SingletonTypes, MakerIsUsable
  <2>3. SessionInv'
    BY <1>1, <1>2, <1>3 DEF SessionInv, SessionTypes, Sound, session_vars
  <2> QED BY <2>1, <2>2, <2>3 DEF Below, DbInv
<1>6. AppTypeOK'
  <2>1. Locals \subseteq Locals'
    BY <1>3 DEF Locals
  <2> QED BY <1>1, <1>3, <1>4, <2>1 DEF AppInv, AppTypeOK
<1>7. Lifecycle'
  BY <1>1, <1>2, <1>3 DEF AppInv, Lifecycle, Kept, Up, startup_vars
<1>8. Homes'
  BY <1>1, <1>3, <1>4 DEF AppInv, Homes, Up, OneEnginePerLifespan
<1>9. Fates'
  BY <1>1 DEF AppInv, Fates, SessionFate, ProbeFate, Live, Up, session_vars
<1> QED BY <1>5, <1>6, <1>7, <1>8, <1>9 DEF AppInv

(* ... unless an earlier lifespan left its own.                            *)
LEMMA PrewarmFindsInv ==
    ASSUME AppInv, NEW t \in Thread, prewarm(t), remember, engine # 0
    PROVE  AppInv'
<1>1. /\ app = "gateway" /\ app' = "serving" /\ initialized
      /\ UNCHANGED <<startup_vars, maker, disposed, disposing, session_vars, lifespans,
                     doomed, probe>>
  BY PrewarmRest
<1>2. engine \in orphaned /\ SingletonTypes
  BY PrewarmRest
<1>3. engine' = engine /\ built' = built
  BY <1>2 DEF prewarm, get_engine, current_engine, SingletonTypes
<1>4. UNCHANGED <<home, orphaned>>
  BY <1>3, NothingBuilt
<1>5. Below'
  <2>1. UNCHANGED db_vars
    BY <1>1, <1>3 DEF db_vars, singletons
  <2> QED BY <1>1, <2>1, DbUntouched, StartupStutterInv DEF AppInv, Below
<1>6. AppTypeOK'
  BY <1>1, <1>3, <1>4 DEF AppInv, AppTypeOK, Locals
<1>7. Lifecycle'
  BY <1>1, <1>3, <1>4 DEF AppInv, Lifecycle, Kept, Up, startup_vars
<1>8. Homes'
  BY <1>1, <1>2, <1>3, <1>4 DEF AppInv, Homes, Up, OneEnginePerLifespan
<1>9. Fates'
  BY <1>1 DEF AppInv, Fates, SessionFate, ProbeFate, Live, Up, session_vars
<1> QED BY <1>5, <1>6, <1>7, <1>8, <1>9 DEF AppInv

LEMMA PrewarmInv ==
    ASSUME AppInv, NEW t \in Thread, prewarm(t), remember
    PROVE  AppInv'
BY PrewarmBuildsInv, PrewarmFindsInv

LEMMA ShutdownInv ==
    ASSUME AppInv, NEW d \in Disposer, shutdown(d), remember
    PROVE  AppInv'
<1>1. /\ app = "serving" /\ app' = "stopping"
      /\ doomed' = ActiveSessions \cup ActiveProbes
      /\ disposing' = [disposing EXCEPT ![d] = engine]
      /\ UNCHANGED <<startup_vars, lifespans, probe, engine, built, disposed, session_vars>>
  BY DEF shutdown, dispose_engine
<1>2. UNCHANGED <<home, orphaned>>
  BY <1>1, NothingBuilt
<1>3. Below'
  <2>1. DbInv'
    BY DbStepInv DEF shutdown, DisposeStep, DbNext, AppInv, Below
  <2> QED BY <1>1, <2>1, StartupStutterInv DEF AppInv, Below
<1>4. AppTypeOK'
  BY <1>1, <1>2 DEF AppInv, AppTypeOK, Locals, ActiveSessions, ActiveProbes
<1>5. Lifecycle'
  <2>1. \A c \in Disposer : disposing'[c] = IF c = d THEN engine ELSE 0
    BY <1>1 DEF AppInv, Lifecycle, Below, DbInv, SingletonTypes
  <2> QED BY <1>1, <2>1 DEF AppInv, Lifecycle, Kept, Up
<1>6. Homes'
  BY <1>1, <1>2 DEF AppInv, Homes, Up, OneEnginePerLifespan
<1>7. Fates'
  <2>1. ASSUME NEW s \in Session PROVE SessionFate(s)'
    BY <1>1, <1>2, <2>1 DEF AppInv, Fates, SessionFate, Live, Up, session_vars,
                            ActiveSessions
  <2>2. ASSUME NEW p \in Probe PROVE ProbeFate(p)'
    BY <1>1, <1>2, <2>2 DEF AppInv, Fates, ProbeFate, Live, Up, ActiveProbes
  <2> QED BY <2>1, <2>2 DEF Fates
<1> QED BY <1>3, <1>4, <1>5, <1>6, <1>7 DEF AppInv

LEMMA StoppedInv ==
    ASSUME AppInv, NEW d \in Disposer, stopped(d), remember
    PROVE  AppInv'
<1>1. /\ app = "stopping" /\ app' = "stopped"
      /\ disposing[d] # 0
      /\ disposing' = [disposing EXCEPT ![d] = 0]
      /\ disposed' = disposed \cup {disposing[d]}
      /\ engine' = 0 /\ maker' = 0
      /\ UNCHANGED <<startup_vars, lifespans, doomed, probe, built, session_vars>>
  BY DEF stopped, disposal_ends, reset
<1>2. UNCHANGED <<home, orphaned>>
  BY <1>1, NothingBuilt
<1>3. Below'
  <2>1. DbInv'
    BY DbStepInv DEF stopped, DisposeStep, DbNext, AppInv, Below
  <2> QED BY <1>1, <2>1, StartupStutterInv DEF AppInv, Below
<1>4. AppTypeOK'
  BY <1>1, <1>2 DEF AppInv, AppTypeOK, Locals
<1>5. Lifecycle'
  <2>1. disposing[d] = engine
    BY <1>1 DEF AppInv, Lifecycle, Kept
  <2>2. \A c \in Disposer : disposing'[c] = 0
    BY <1>1 DEF AppInv, Lifecycle, Below, DbInv, SingletonTypes
  <2> QED BY <1>1, <2>1, <2>2 DEF AppInv, Lifecycle, Kept, Up
<1>6. Homes'
  BY <1>1, <1>2 DEF AppInv, Homes, Up, OneEnginePerLifespan
<1>7. Fates'
  <2>1. ASSUME NEW s \in Session PROVE SessionFate(s)'
    BY <1>1, <1>2, <2>1 DEF AppInv, Fates, SessionFate, Live, Up, session_vars
  <2>2. ASSUME NEW p \in Probe PROVE ProbeFate(p)'
    BY <1>1, <1>2, <2>2 DEF AppInv, Fates, ProbeFate, Live, Up
  <2> QED BY <2>1, <2>2 DEF Fates
<1> QED BY <1>3, <1>4, <1>5, <1>6, <1>7 DEF AppInv

LEMMA LifespanInv ==
    ASSUME AppInv, LifespanStep, remember
    PROVE  AppInv'
BY BootInv, GatewayStepInv, PrewarmInv, ShutdownInv, StoppedInv, LoopEndsInv
   DEF LifespanStep

(* A lifespan cut short leaves the engine, as one of the orphaned.         *)
LEMMA BreakInv ==
    ASSUME AppInv, LifespanBreaks
    PROVE  AppInv'
<1>1. /\ app \in Up /\ app' = "stopped" /\ orphaned' = orphaned \cup {engine}
      /\ UNCHANGED <<startup_vars, lifespans, probe, engine, maker, built, disposed,
                     session_vars, home>>
  BY DEF LifespanBreaks, broken_off, dispose_raises, disposal_fails, Up, db_vars, singletons
<1>2. /\ \A c \in Disposer : disposing'[c] = 0
      /\ DbInv'
  <2>1. CASE broken_off
    BY <2>1, DbUntouched DEF broken_off, AppInv, Below, Lifecycle, db_vars, singletons
  <2>2. ASSUME NEW d \in Disposer, dispose_raises(d)
        PROVE  (\A c \in Disposer : disposing'[c] = 0) /\ DbInv'
    <3>1. disposing[d] # 0 /\ disposing' = [disposing EXCEPT ![d] = 0]
      BY <2>2 DEF dispose_raises, disposal_fails
    <3>2. \A c \in Disposer : disposing'[c] = 0
      BY <3>1 DEF AppInv, Lifecycle, Below, DbInv, SingletonTypes
    <3>3. DbInv'
      BY <2>2, DbStepInv DEF dispose_raises, DisposeStep, DbNext, AppInv, Below
    <3> QED BY <3>2, <3>3
  <2> QED BY <2>1, <2>2 DEF LifespanBreaks
<1>3. \/ app = "stopping" /\ doomed' = doomed
      \/ app = "serving" /\ doomed' = ActiveSessions \cup ActiveProbes
  BY DEF LifespanBreaks, broken_off, dispose_raises
<1>4. engine \in 1 .. built
  BY <1>1 DEF AppInv, Lifecycle, Below, DbInv, SingletonTypes
<1>5. AppTypeOK'
  BY <1>1, <1>3, <1>4 DEF AppInv, AppTypeOK, Locals, ActiveSessions, ActiveProbes
<1>6. Lifecycle'
  BY <1>1, <1>2 DEF AppInv, Lifecycle, Kept, Up
<1>7. Homes'
  BY <1>1 DEF AppInv, Homes, Up, OneEnginePerLifespan
<1>8. ASSUME NEW s \in Session PROVE SessionFate(s)'
  <2>1. SessionFate(s)
    BY DEF AppInv, Fates
  <2> QED BY <1>1, <1>3, <2>1 DEF SessionFate, Live, Up, session_vars, ActiveSessions
<1>9. ASSUME NEW p \in Probe PROVE ProbeFate(p)'
  <2>1. ProbeFate(p)
    BY DEF AppInv, Fates
  <2> QED BY <1>1, <1>3, <2>1 DEF ProbeFate, Live, Up, ActiveProbes
<1> QED BY <1>1, <1>2, <1>5, <1>6, <1>7, <1>8, <1>9, StartupStutterInv
        DEF AppInv, Below, Fates

-----------------------------------------------------------------------------
(* The steps of a request.                                                 *)

(* What one step makes of a session: it opens while the application        *)
(* serves, goes on or ends, and once cancelled stays so.                   *)
LEMMA SessionMoves ==
    ASSUME SessionInv, NEW s \in Session, SessionFate(s),
           SessionStep(s) \/ CancelStep(s) \/ closed_late(s), ~open(s)
    PROVE  /\ bound' = bound
           /\ step'[s] \notin {"out", "done"} => step[s] \notin {"out", "done"}
           /\ ending[s] = "cancelled" => ending'[s] = "cancelled"
           /\ ending'[s] = "cancelled" => step'[s] \in {"close", "done"}
           /\ CancelStep(s) => ending'[s] = "cancelled"
           /\ s \in lingering' => ending'[s] = "cancelled"
                                  /\ (s \in lingering \/ step[s] = "close")
<1> USE DEF SessionInv, SessionTypes, Sound, SessionFate, Step, move, decide
<1>1. CASE execute(s)
  BY <1>1 DEF execute, CancelStep, cancel, cancel_close
<1>2. CASE handler_returns(s)
  BY <1>2 DEF handler_returns, CancelStep, cancel, cancel_close
<1>3. CASE handler_raises(s)
  BY <1>3 DEF handler_raises, caught, CancelStep, cancel, cancel_close
<1>4. CASE committed(s)
  BY <1>4 DEF committed, CancelStep, cancel, cancel_close
<1>5. CASE commit_raises(s)
  BY <1>5 DEF commit_raises, caught, CancelStep, cancel, cancel_close
<1>6. CASE rolled_back(s)
  BY <1>6 DEF rolled_back, CancelStep, cancel, cancel_close
<1>7. CASE rollback_raises(s)
  BY <1>7 DEF rollback_raises, CancelStep, cancel, cancel_close
<1>8. CASE closed(s)
  BY <1>8 DEF closed, close, CancelStep, cancel, cancel_close
<1>9. CASE cancel(s)
  BY <1>9 DEF cancel
<1>10. CASE cancel_close(s)
  BY <1>10 DEF cancel_close
<1>11. CASE closed_late(s)
  BY <1>11 DEF closed_late, close, CancelStep, cancel, cancel_close
<1> QED BY <1>1, <1>2, <1>3, <1>4, <1>5, <1>6, <1>7, <1>8, <1>9, <1>10, <1>11
        DEF SessionStep, CancelStep

(* It leaves the other sessions as they are.                               *)
LEMMA OtherSessions ==
    ASSUME SessionInv, NEW s \in Session, NEW u \in Session, u # s,
           SessionStep(s) \/ CancelStep(s) \/ closed_late(s)
    PROVE  /\ step'[u] = step[u] /\ bound'[u] = bound[u] /\ ending'[u] = ending[u]
           /\ u \in lingering' <=> u \in lingering
<1> USE DEF SessionInv, SessionTypes, move, decide
<1>1. CASE open(s) \/ execute(s) \/ handler_returns(s) \/ handler_raises(s) \/ committed(s)
  BY <1>1 DEF open, execute, handler_returns, handler_raises, caught, committed
<1>2. CASE commit_raises(s) \/ rolled_back(s) \/ rollback_raises(s) \/ closed(s)
  BY <1>2 DEF commit_raises, caught, rolled_back, rollback_raises, closed, close
<1>3. CASE CancelStep(s) \/ closed_late(s)
  BY <1>3 DEF CancelStep, cancel, cancel_close, closed_late, close
<1> QED BY <1>1, <1>2, <1>3 DEF SessionStep

LEMMA RequestInv ==
    ASSUME AppInv, NEW s \in Session, request(s), remember
    PROVE  AppInv'
<1>1. /\ UNCHANGED <<startup_vars, app, lifespans, probe>>
      /\ SessionStep(s) \/ CancelStep(s) \/ closed_late(s)
      /\ doomed' = doomed \/ (doomed' = doomed \ {s} /\ CancelStep(s))
  BY DEF request
<1>0. open(s) => app = "serving" /\ get_session_maker /\ step[s] = "out"
  <2>1. open(s) => ~CancelStep(s) /\ ~closed_late(s)
    BY DEF open, CancelStep, cancel, cancel_close, closed_late, move,
           AppInv, Below, DbInv, SessionInv, SessionTypes, Step
  <2> QED BY <2>1 DEF request, open
<1>2. UNCHANGED <<engine, built, disposed, disposing, home, orphaned>> /\ (maker' = maker \/ app = "serving")
  <2>1. CASE open(s)
    <3>1. app = "serving" /\ get_session_maker
      BY <1>0, <2>1
    <3> QED BY <3>1, ServingBuildsNothing
  <2>2. CASE ~open(s)
    BY <1>1, <2>2, SessionTouchesSingletons, NothingBuilt DEF singletons
  <2> QED BY <2>1, <2>2
<1>3. Below'
  <2>1. DbInv'
    BY <1>1, DbStepInv DEF DbNext, AppInv, Below
  <2> QED BY <1>1, <2>1, StartupStutterInv DEF AppInv, Below
<1>4. AppTypeOK'
  BY <1>1, <1>2 DEF AppInv, AppTypeOK, Locals
<1>5. Lifecycle'
  BY <1>1, <1>2 DEF AppInv, Lifecycle, Kept, Up, startup_vars
<1>6. Homes'
  BY <1>1, <1>2 DEF AppInv, Homes, OneEnginePerLifespan
<1>7. SessionInv /\ SessionFate(s)
  BY DEF AppInv, Below, DbInv, Fates
<1>8. SessionFate(s)'
  <2>1. CASE open(s)
    <3>1. app = "serving" /\ get_session_maker /\ step[s] = "out"
      BY <1>0, <2>1
    <3>2. current_maker = engine
      BY <3>1, ServingBuildsNothing
    <3>3. /\ bound' = [bound EXCEPT ![s] = engine] /\ step' = [step EXCEPT ![s] = "handler"]
          /\ UNCHANGED <<ending, lingering>>
      BY <2>1, <3>2 DEF open, move
    <3>4. bound'[s] = engine /\ step'[s] = "handler"
      BY <1>7, <3>3 DEF SessionInv, SessionTypes
    <3>5. home[engine] = lifespans \/ engine \in orphaned
      BY <3>1 DEF AppInv, Homes, Up
    <3>6. ending'[s] # "cancelled" /\ s \notin lingering'
      BY <1>7, <3>1, <3>3 DEF SessionFate, SessionInv, Sound
    <3> QED BY <1>1, <1>2, <3>1, <3>4, <3>5, <3>6 DEF SessionFate, Live
  <2>2. CASE ~open(s)
    BY <1>1, <1>2, <1>7, <2>2, SessionMoves DEF SessionFate
  <2> QED BY <2>1, <2>2
<1>9. ASSUME NEW u \in Session, u # s PROVE SessionFate(u)'
  BY <1>1, <1>2, <1>7, <1>9, OtherSessions DEF AppInv, Fates, SessionFate
<1>10. ASSUME NEW p \in Probe, p # s PROVE ProbeFate(p)'
  BY <1>1, <1>2, <1>10 DEF AppInv, Fates, ProbeFate
<1> QED BY <1>3, <1>4, <1>5, <1>6, <1>8, <1>9, <1>10, AppAssumption DEF AppInv, Fates

-----------------------------------------------------------------------------
(* The steps of a health check.                                            *)

LEMMA ProbeFrame ==
    ASSUME AppInv, NEW p \in Probe,
           UNCHANGED <<startup_vars, app, lifespans, session_vars,
                       engine, built, disposed, disposing, home, orphaned>>,
           SingletonTypes', MakerIsUsable', maker' = maker \/ app = "serving",
           doomed' = doomed \/ doomed' = doomed \ {p},
           probe' \in [Probe -> Locals],
           \A q \in Probe \ {p} : probe'[q] = probe[q],
           probe'[p].at # "idle" => probe'[p].engine # 0,
           ProbeFate(p)'
    PROVE  AppInv'
<1>1. Below'
  <2>1. SessionInv'
    BY DEF AppInv, Below, DbInv, SessionInv, SessionTypes, Sound, session_vars
  <2> QED BY <2>1, StartupStutterInv DEF AppInv, Below, DbInv
<1>2. AppTypeOK'
  BY DEF AppInv, AppTypeOK, Locals
<1>3. Lifecycle' /\ Homes'
  BY DEF AppInv, Lifecycle, Homes, Kept, Up, OneEnginePerLifespan, startup_vars
<1>4. ASSUME NEW q \in Probe, q # p PROVE ProbeFate(q)'
  BY <1>4 DEF AppInv, Fates, ProbeFate
<1>5. ASSUME NEW s \in Session PROVE SessionFate(s)'
  <2>1. s # p
    BY AppAssumption
  <2> QED BY <2>1 DEF AppInv, Fates, SessionFate, session_vars
<1> QED BY <1>1, <1>2, <1>3, <1>4, <1>5 DEF AppInv, Fates

(* The locals of a health check keep their type, field by field.           *)
LEMMA AtKept ==
    ASSUME NEW l \in Locals, NEW place \in {"idle", "execute", "close", "lingering", "done"}
    PROVE  [l EXCEPT !.at = place] \in Locals
BY DEF Locals

LEMMA RestKept ==
    ASSUME NEW l \in Locals
    PROVE  /\ \A e \in 0 .. built : [l EXCEPT !.engine = e] \in Locals
           /\ \A h \in BOOLEAN : [l EXCEPT !.held = h] \in Locals
BY DEF Locals

LEMMA StatusKept ==
    ASSUME NEW l \in Locals, NEW how \in {"none", "200", "500", "503", "cancelled"}
    PROVE  [l EXCEPT !.status = how] \in Locals
BY DEF Locals

LEMMA AskInv ==
    ASSUME AppInv, NEW p \in Probe, ask(p)
    PROVE  AppInv'
<1>1. app = "serving" /\ get_session_maker /\ remember
  BY DEF ask, UnchangedByProbe
<1>2. /\ UNCHANGED <<engine, built, disposed, disposing, home, orphaned>>
      /\ current_maker = engine /\ SingletonTypes' /\ MakerIsUsable'
      /\ current_maker \in 1 .. built
  BY <1>1, ServingBuildsNothing
<1>3. probe' = [probe EXCEPT ![p] = [@ EXCEPT !.at = "execute", !.engine = engine]]
  BY <1>2 DEF ask
<1>4. probe \in [Probe -> Locals] /\ built \in Nat
  BY DEF AppInv, AppTypeOK, Below, DbInv, SingletonTypes
<1>5. /\ probe'[p].at = "execute" /\ probe'[p].engine = engine
      /\ \A q \in Probe \ {p} : probe'[q] = probe[q]
  BY <1>3, <1>4 DEF Locals
<1>6. probe' \in [Probe -> Locals]
  <2>1. engine \in 0 .. built
    BY <1>2, <1>4
  <2>2. [probe[p] EXCEPT !.at = "execute", !.engine = engine] \in Locals
    BY <1>4, <2>1, AtKept, RestKept
  <2> QED BY <1>3, <1>4, <2>2
<1>7. home[engine] = lifespans \/ engine \in orphaned
  BY <1>1 DEF AppInv, Homes, Up
<1>8. ProbeFate(p)'
  BY <1>1, <1>2, <1>5, <1>7 DEF ask, UnchangedByProbe, ProbeFate, Live, Up
<1>9. UNCHANGED <<startup_vars, app, lifespans, session_vars, doomed>>
  BY DEF ask, UnchangedByProbe
<1> QED BY <1>1, <1>2, <1>5, <1>6, <1>8, <1>9, ProbeFrame

(* The other steps leave the database, and the engine of the statement.    *)
LEMMA ProbeOnly ==
    ASSUME AppInv, NEW p \in Probe, UNCHANGED db_vars, UnchangedByProbe,
           doomed' = doomed \/ doomed' = doomed \ {p},
           probe' \in [Probe -> Locals],
           \A q \in Probe \ {p} : probe'[q] = probe[q],
           probe'[p].engine = probe[p].engine, probe[p].at # "idle",
           probe'[p].held => probe'[p].at \in {"execute", "close", "lingering"},
           probe'[p].at = "lingering" =>
               probe'[p].status = "cancelled" /\ probe[p].at \in {"close", "lingering"},
           probe'[p].at = "close" =>
               probe'[p].reply # "none" \/ probe'[p].status = "cancelled",
           probe'[p].at \in {"execute", "close"} => probe[p].at \in {"execute", "close"},
           probe'[p].at = "execute" /\ app # "serving" =>
               p \in doomed' \/ probe'[p].wait = "abandoned" \/ probe'[p].reply # "none"
    PROVE  AppInv'
<1>1. probe[p].at # "idle" => probe[p].engine # 0
  BY DEF AppInv, AppTypeOK
<1>2. /\ UNCHANGED <<startup_vars, app, lifespans, session_vars,
                     engine, built, disposed, disposing, home, orphaned, maker>>
      /\ SingletonTypes' /\ MakerIsUsable'
  BY DbUntouched, NothingBuilt
     DEF UnchangedByProbe, db_vars, singletons, AppInv, Below, DbInv
<1>3. ProbeFate(p)'
  BY <1>2 DEF AppInv, Fates, ProbeFate
<1> QED BY <1>1, <1>2, <1>3, ProbeFrame

LEMMA WaitingStepInv ==
    ASSUME AppInv, NEW p \in Probe, connect(p) \/ replies(p) \/ deadline(p)
    PROVE  AppInv'
<1> USE DEF Waits
<1>1. probe \in [Probe -> Locals] /\ ProbeFate(p)
  BY DEF AppInv, AppTypeOK, Fates
<1>2. CASE connect(p)
  <2>1. /\ probe[p].at = "execute" /\ probe' = [probe EXCEPT ![p].held = TRUE]
        /\ UNCHANGED <<db_vars, doomed>> /\ UnchangedByProbe
    BY <1>2 DEF connect
  <2>2. probe' \in [Probe -> Locals]
    BY <1>1, <2>1, RestKept
  <2>3. /\ probe'[p].at = "execute" /\ probe'[p].wait = probe[p].wait
        /\ probe'[p].reply = probe[p].reply /\ probe'[p].engine = probe[p].engine
        /\ \A q \in Probe \ {p} : probe'[q] = probe[q]
    BY <1>1, <2>1 DEF Locals
  <2> QED BY <1>1, <2>1, <2>2, <2>3, ProbeOnly DEF ProbeFate
<1>3. CASE replies(p)
  <2>1. PICK r \in Answer \cup {"cancelled"} : probe' = [probe EXCEPT ![p].reply = r]
    BY <1>3 DEF replies
  <2>2. /\ probe[p].at = "execute" /\ UNCHANGED <<db_vars, doomed>> /\ UnchangedByProbe
    BY <1>3 DEF replies
  <2>3. probe' \in [Probe -> Locals]
    BY <1>1, <2>1 DEF Locals
  <2>4. /\ probe'[p].at = "execute" /\ probe'[p].reply = r
        /\ probe'[p].engine = probe[p].engine
        /\ \A q \in Probe \ {p} : probe'[q] = probe[q]
    BY <1>1, <2>1, <2>2 DEF Locals
  <2>5. r # "none"
    BY DEF Answer
  <2> QED BY <2>2, <2>3, <2>4, <2>5, ProbeOnly
<1>4. CASE deadline(p)
  <2>1. /\ probe[p].at = "execute" /\ probe' = [probe EXCEPT ![p].wait = "expired"]
        /\ probe[p].wait = "pending"
        /\ UNCHANGED <<db_vars, doomed>> /\ UnchangedByProbe
    BY <1>4 DEF deadline, timed
  <2>2. probe' \in [Probe -> Locals]
    BY <1>1, <2>1 DEF Locals
  <2>3. /\ probe'[p].at = "execute" /\ probe'[p].reply = probe[p].reply
        /\ probe'[p].engine = probe[p].engine
        /\ \A q \in Probe \ {p} : probe'[q] = probe[q]
    BY <1>1, <2>1 DEF Locals
  <2> QED BY <1>1, <2>1, <2>2, <2>3, ProbeOnly DEF ProbeFate
<1> QED BY <1>2, <1>3, <1>4

LEMMA ClosingStepInv ==
    ASSUME AppInv, NEW p \in Probe, resume(p) \/ answered(p)
    PROVE  AppInv'
<1>1. probe \in [Probe -> Locals] /\ ProbeFate(p)
  BY DEF AppInv, AppTypeOK, Fates
<1>2. CASE resume(p)
  <2> DEFINE how == status(probe[p].wait, probe[p].reply)
  <2>1. /\ probe[p].at = "execute" /\ probe[p].reply # "none"
        /\ probe' = [probe EXCEPT ![p] = [@ EXCEPT !.at = "close", !.status = how]]
        /\ UNCHANGED <<db_vars, doomed>> /\ UnchangedByProbe
    BY <1>2 DEF resume
  <2>2. how \in {"none", "200", "500", "503", "cancelled"}
    BY DEF status
  <2> HIDE DEF how
  <2>3. probe' \in [Probe -> Locals]
    <3>1. [probe[p] EXCEPT !.at = "close", !.status = how] \in Locals
      BY <1>1, <2>2, AtKept, StatusKept
    <3> QED BY <1>1, <2>1, <3>1
  <2>4. /\ probe'[p].at = "close" /\ probe'[p].reply = probe[p].reply
        /\ probe'[p].engine = probe[p].engine
        /\ \A q \in Probe \ {p} : probe'[q] = probe[q]
    BY <1>1, <2>1 DEF Locals
  <2> QED BY <2>1, <2>3, <2>4, ProbeOnly
<1>3. CASE answered(p)
  <2>1. /\ probe[p].at \in {"close", "lingering"}
        /\ probe' = [probe EXCEPT ![p] = [@ EXCEPT !.at = "done", !.held = FALSE]]
        /\ UNCHANGED <<db_vars, doomed>> /\ UnchangedByProbe
    BY <1>3 DEF answered
  <2>2. probe' \in [Probe -> Locals]
    <3>1. [probe[p] EXCEPT !.at = "done", !.held = FALSE] \in Locals
      BY <1>1, AtKept, RestKept
    <3> QED BY <1>1, <2>1, <3>1
  <2>3. /\ probe'[p].at = "done" /\ ~probe'[p].held
        /\ probe'[p].engine = probe[p].engine
        /\ \A q \in Probe \ {p} : probe'[q] = probe[q]
    BY <1>1, <2>1 DEF Locals
  <2> QED BY <2>1, <2>2, <2>3, ProbeOnly
<1> QED BY <1>2, <1>3

LEMMA InterruptInv ==
    ASSUME AppInv, NEW p \in Probe, interrupt(p)
    PROVE  AppInv'
<1>1. probe \in [Probe -> Locals] /\ probe[p] \in Locals /\ ProbeFate(p)
  BY DEF AppInv, AppTypeOK, Fates
<1>2. doomed' = doomed \ {p} /\ UNCHANGED db_vars /\ UnchangedByProbe
  BY DEF interrupt
<1>3. CASE probe[p].at = "execute" /\ probe[p].wait = "pending" /\ probe[p].reply = "none"
  <2>1. probe' = [probe EXCEPT ![p] = [probe[p] EXCEPT !.wait = "abandoned"]]
    BY <1>3 DEF interrupt
  <2>2. probe' \in [Probe -> Locals]
    BY Zenon, <1>1, <2>1 DEF Locals
  <2>3. /\ probe'[p].at = "execute" /\ probe'[p].wait = "abandoned"
        /\ probe'[p].engine = probe[p].engine
        /\ \A q \in Probe \ {p} : probe'[q] = probe[q]
    BY <1>1, <1>3, <2>1 DEF Locals
  <2> QED BY <1>2, <1>3, <2>2, <2>3, ProbeOnly
<1>4. CASE probe[p].at = "execute" /\ probe[p].wait # "pending"
  <2>1. probe' = [probe EXCEPT ![p] = [probe[p] EXCEPT !.at = "close", !.status = "cancelled"]]
    BY <1>4 DEF interrupt
  <2>2. probe' \in [Probe -> Locals]
    <3>1. [probe[p] EXCEPT !.at = "close", !.status = "cancelled"] \in Locals
      BY <1>1, AtKept, StatusKept
    <3> QED BY <1>1, <2>1, <3>1
  <2>3. /\ probe'[p].at = "close" /\ probe'[p].status = "cancelled"
        /\ probe'[p].engine = probe[p].engine
        /\ \A q \in Probe \ {p} : probe'[q] = probe[q]
    BY <1>1, <2>1 DEF Locals
  <2> QED BY <1>2, <1>4, <2>2, <2>3, ProbeOnly
<1>5. CASE probe[p].at = "close"
  <2>1. probe' = [probe EXCEPT ![p] = [probe[p] EXCEPT !.at = "lingering", !.status = "cancelled"]]
    BY <1>5 DEF interrupt
  <2>2. probe' \in [Probe -> Locals]
    <3>1. [probe[p] EXCEPT !.at = "lingering", !.status = "cancelled"] \in Locals
      BY <1>1, AtKept, StatusKept
    <3> QED BY <1>1, <2>1, <3>1
  <2>3. /\ probe'[p].at = "lingering" /\ probe'[p].status = "cancelled"
        /\ probe'[p].engine = probe[p].engine
        /\ \A q \in Probe \ {p} : probe'[q] = probe[q]
    BY <1>1, <2>1 DEF Locals
  <2> QED BY <1>2, <1>5, <2>2, <2>3, ProbeOnly
<1>6. CASE /\ ~(probe[p].at = "execute" /\ probe[p].wait = "pending" /\ probe[p].reply = "none")
           /\ ~(probe[p].at = "execute" /\ probe[p].wait # "pending")
           /\ probe[p].at # "close"
  <2>1. probe' = [probe EXCEPT ![p] = probe[p]]
    BY <1>6 DEF interrupt
  <2>2. probe' = probe
    BY <1>1, <2>1
  <2>3. CASE probe[p].at = "idle"
    <3>1. /\ UNCHANGED <<startup_vars, app, lifespans, session_vars,
                         engine, built, disposed, disposing, home, orphaned, maker>>
          /\ SingletonTypes' /\ MakerIsUsable'
      BY <1>2, DbUntouched, NothingBuilt
         DEF UnchangedByProbe, db_vars, singletons, AppInv, Below, DbInv
    <3>2. ProbeFate(p)'
      BY <1>1, <2>2, <2>3, <3>1 DEF ProbeFate
    <3> QED BY <1>1, <1>2, <2>2, <2>3, <3>1, <3>2, ProbeFrame
  <2>4. CASE probe[p].at # "idle"
    BY <1>1, <1>2, <1>6, <2>2, <2>4, ProbeOnly DEF ProbeFate
  <2> QED BY <2>3, <2>4
<1> QED BY <1>3, <1>4, <1>5, <1>6

LEMMA ProbeStepInv ==
    ASSUME AppInv, NEW p \in Probe, ProbeStep(p)
    PROVE  AppInv'
BY AskInv, WaitingStepInv, ClosingStepInv, InterruptInv DEF ProbeStep, ProbeProgress

LEMMA AppStepInv == AppInv /\ [AppNext]_all_vars => AppInv'
<1>1. ASSUME AppInv, UNCHANGED all_vars PROVE AppInv'
  BY <1>1, StartupStutterInv, DbUntouched
     DEF all_vars, AppInv, Below, AppTypeOK, Locals, Lifecycle, Kept, Homes, Fates,
         OneEnginePerLifespan, SessionFate, ProbeFate, app_vars, db_vars, singletons,
         session_vars, startup_vars
<1> QED BY <1>1, LifespanInv, BreakInv, RequestInv, ProbeStepInv DEF AppNext

-----------------------------------------------------------------------------
(* The theorems.                                                           *)

(* The lifespan, the history and the locals of every health check keep      *)
(* their types.                                                            *)
THEOREM AppTypes == AppSafeSpec => []AppTypeOK
<1>1. AppInv => AppTypeOK
  BY DEF AppInv
<1> QED BY <1>1, AppInitInv, AppStepInv, PTL DEF AppSafeSpec

(* In every lifespan of the process: nothing is served before there is a   *)
(* validated table and an engine, built in the loop that serves or left by *)
(* a lifespan cut short.                                                   *)
THEOREM ReadyBeforeServing == AppSafeSpec => []ServingIsReady
<1>1. AppInv => ServingIsReady
  BY DEF AppInv, Below, StartupInv, Lifecycle, Homes, ServingIsReady, Up
<1> QED BY <1>1, AppInitInv, AppStepInv, PTL DEF AppSafeSpec

(* Whatever requests and health checks come first, a lifespan builds one   *)
(* engine.                                                                 *)
THEOREM OneEngineBuilt == AppSafeSpec => []OneEnginePerLifespan
<1>1. AppInv => OneEnginePerLifespan
  BY DEF AppInv, Homes
<1> QED BY <1>1, AppInitInv, AppStepInv, PTL DEF AppSafeSpec

(* No request and no health check ever works on an engine of another loop, *)
(* but for one a lifespan cut short has left.                              *)
THEOREM EnginesBelong == AppSafeSpec => []EnginesStayHome
<1>1. AppInv => EnginesStayHome
  BY DEF AppInv, Fates, SessionFate, ProbeFate, EnginesStayHome, ActiveSessions,
         ActiveProbes
<1> QED BY <1>1, AppInitInv, AppStepInv, PTL DEF AppSafeSpec

(* However requests end, and whatever the server cancels, a lifespan that  *)
(* is over leaves no connection in use, and no engine and no maker either  *)
(* unless it was cut short before or in its dispose_engine().              *)
THEOREM LifespansAreClean == AppSafeSpec => []NothingLeftBehind
<1>1. AppInv => NothingLeftBehind
  <2> SUFFICES ASSUME AppInv, app = "down" PROVE NothingLeftBehind
    BY DEF NothingLeftBehind
  <2>1. (engine # 0 => engine \in orphaned) /\ maker \in {0, engine}
    BY DEF AppInv, Lifecycle, Up, Below, DbInv, MakerIsUsable
  <2>2. disposed = (1 .. built) \ {engine}
    <3>1. disposed \subseteq 1 .. built /\ engine \notin disposed
      BY DEF AppInv, Below, DbInv, SingletonTypes, MakerIsUsable
    <3>2. \A e \in 1 .. built : e = engine \/ e \in disposed
      BY DEF AppInv, Lifecycle, Kept
    <3> QED BY <3>1, <3>2
  <2>3. \A s \in Session : s \notin connected
    BY DEF AppInv, Below, DbInv, SessionInv, Sound, Fates, SessionFate, Live
  <2>4. connected = {}
    BY <2>3 DEF AppInv, Below, DbInv, SessionInv, SessionTypes
  <2>5. \A p \in Probe : ~probe[p].held
    BY DEF AppInv, Fates, ProbeFate, Live
  <2> QED BY <2>1, <2>2, <2>4, <2>5 DEF NothingLeftBehind
<1> QED BY <1>1, AppInitInv, AppStepInv, PTL DEF AppSafeSpec

(* A connection outlives the disposal of its engine only in the hands of a *)
(* request whose cancellation is under way, with its close() ahead.        *)
THEOREM OnlyTheCancelledStrand == AppSafeSpec => []OnlyCancelledStrand
<1>1. AppInv => OnlyCancelledStrand
  <2> SUFFICES ASSUME AppInv PROVE OnlyCancelledStrand
    OBVIOUS
  <2>1. app \in {"down", "gateway", "serving", "stopping", "stopped"} /\ engine \notin disposed
    BY DEF AppInv, AppTypeOK, Below, DbInv, MakerIsUsable
  <2>2. ASSUME NEW s \in connected, bound[s] \in disposed
        PROVE  s \in doomed \/ ending[s] = "cancelled"
    BY <2>1, <2>2 DEF AppInv, Below, DbInv, SessionInv, SessionTypes, Sound,
           Fates, SessionFate, Up, Live
  <2>3. ASSUME NEW p \in Probe, probe[p].held, probe[p].engine \in disposed
        PROVE  /\ p \in doomed \/ probe[p].wait = "abandoned" \/ probe[p].reply # "none"
                  \/ probe[p].status = "cancelled"
               /\ p \in ActiveProbes \cup Lingering
    BY <2>1, <2>3 DEF AppInv, Fates, ProbeFate, Up, Live, ActiveProbes, Lingering
  <2> QED BY <2>2, <2>3 DEF OnlyCancelledStrand
<1> QED BY <1>1, AppInitInv, AppStepInv, PTL DEF AppSafeSpec

(* What the rest does to the gateway: nothing.                             *)
LEMMA GatewayMoves ==
    ASSUME [AppNext]_all_vars
    PROVE  UNCHANGED startup_vars
           \/ (\E t \in Thread : ~initialized /\ initialize(t))
           \/ (\E t \in Thread : at[t] # "out" /\ StartupStep(t))
<1>1. ASSUME LifespanStep
      PROVE  UNCHANGED startup_vars
             \/ (\E t \in Thread : ~initialized /\ initialize(t))
             \/ (\E t \in Thread : at[t] # "out" /\ StartupStep(t))
  BY <1>1 DEF LifespanStep, boot, init_gateway, refused, prewarm, shutdown, stopped,
              loop_ends, startup_vars
<1>2. ASSUME NEW s \in Session, request(s) PROVE UNCHANGED startup_vars
  BY <1>2 DEF request
<1>3. ASSUME NEW p \in Probe, ProbeStep(p) PROVE UNCHANGED startup_vars
  <2>1. UnchangedByProbe
    BY <1>3 DEF ProbeStep, ProbeProgress, ask, connect, replies, deadline, resume,
                answered, interrupt
  <2> QED BY <2>1 DEF UnchangedByProbe, startup_vars
<1>4. ASSUME LifespanBreaks PROVE UNCHANGED startup_vars
  BY <1>4 DEF LifespanBreaks, broken_off, dispose_raises
<1> QED BY <1>1, <1>2, <1>3, <1>4 DEF AppNext, all_vars, startup_vars

(* With one caller of initialize(), as in main.py, the first lifespan's    *)
(* table is the table of the process.                                      *)
THEOREM FirstTableStays ==
    ASSUME \A t, u \in Thread : t = u
    PROVE  AppSafeSpec => TableIsFinal
<1> DEFINE Alone == initialized => \A t \in Thread : at[t] = "out"
<1>1. AppInit => Alone
  BY DEF AppInit, StartupInit
<1>2. AppInv /\ Alone /\ [AppNext]_all_vars
          => Alone' /\ (initialized => UNCHANGED routing_table)
  <2> SUFFICES ASSUME AppInv, Alone, [AppNext]_all_vars
               PROVE  Alone' /\ (initialized => UNCHANGED routing_table)
    OBVIOUS
  <2>1. UNCHANGED startup_vars
        \/ (\E t \in Thread : ~initialized /\ initialize(t))
        \/ (\E t \in Thread : at[t] # "out" /\ StartupStep(t))
    BY GatewayMoves
  <2>2. CASE UNCHANGED startup_vars
    BY <2>2 DEF startup_vars
  <2>3. ASSUME NEW t \in Thread, ~initialized, initialize(t)
        PROVE  Alone' /\ (initialized => UNCHANGED routing_table)
    BY <2>3 DEF initialize
  <2>4. ASSUME NEW t \in Thread, at[t] # "out", StartupStep(t)
        PROVE  Alone' /\ (initialized => UNCHANGED routing_table)
    <3>1. ~initialized
      BY <2>4
    <3>2. CASE flag(t)
      <4>1. at'[t] = "out"
        BY <3>2 DEF flag, AppInv, Below, StartupInv, StartupTypeOK
      <4> QED BY <3>1, <4>1
    <3>3. CASE ~flag(t)
      <4>1. initialized' = initialized
        BY <2>4, <3>3 DEF StartupStep, initialize, load_routing_table, publish, wire
      <4> QED BY <3>1, <4>1
    <3> QED BY <3>2, <3>3
  <2> QED BY <2>1, <2>2, <2>3, <2>4
<1>3. AppInv /\ Alone /\ [AppNext]_all_vars
          => [initialized => UNCHANGED routing_table]_all_vars
  BY <1>2
<1> QED BY <1>1, <1>2, <1>3, AppInitInv, AppStepInv, PTL DEF AppSafeSpec, TableIsFinal

-----------------------------------------------------------------------------
(* What the parts promise on their own they keep under the lifespan.       *)

(* The lifespan runs initialize() as Startup has it, so that all Startup's *)
(* theorems hold of every process: a table is replaced by a valid one only.*)
THEOREM LifespanRunsStartup == AppSafeSpec => StartupSpec
<1>1. AppInit => StartupInit
  BY DEF AppInit
<1>2. [AppNext]_all_vars => [StartupNext]_startup_vars
  BY GatewayMoves DEF StartupNext, StartupStep
<1> QED BY <1>1, <1>2, PTL DEF AppSafeSpec, StartupSpec

(* A maker in place is bound to the engine in place, no engine is lost and *)
(* no connection is, with health checks beside the handlers and a shutdown *)
(* in between.                                                             *)
THEOREM DatabaseIsSoundUnderLifespan ==
    AppSafeSpec => [](MakerIsUsable /\ NoEngineForgotten /\ NoConnectionLeaks)
<1>1. AppInv => MakerIsUsable /\ NoEngineForgotten /\ NoConnectionLeaks
  BY DEF AppInv, Below, DbInv, SessionInv, Sound, Lifecycle, Kept,
         NoEngineForgotten, NoConnectionLeaks
<1> QED BY <1>1, AppInitInv, AppStepInv, PTL DEF AppSafeSpec

LEMMA LifespanLeavesSessions ==
    ASSUME LifespanStep \/ LifespanBreaks
    PROVE  UNCHANGED session_vars
BY DEF LifespanStep, boot, init_gateway, refused, prewarm, shutdown, stopped, loop_ends,
       LifespanBreaks, broken_off, dispose_raises, dispose_engine, disposal_ends,
       disposal_fails, db_vars

LEMMA ProbeLeavesSessions ==
    ASSUME NEW p \in Probe, ProbeStep(p)
    PROVE  UNCHANGED session_vars
BY DEF ProbeStep, ProbeProgress, ask, connect, replies, deadline, resume, answered,
       interrupt, db_vars

(* Each use of get_session is a unit of work, whatever the lifespan and    *)
(* the health checks do meanwhile.                                         *)
THEOREM RequestsAreUnitsOfWork == AppSafeSpec => Promise!SafeSpec
<1>1. AppInit => Promise!Init
  BY DEF AppInit, DbInit, Promise!Init, phase
<1>2. AppInv /\ [AppNext]_all_vars => [Promise!Next]_(Promise!vars)
  <2> SUFFICES ASSUME AppInv, [AppNext]_all_vars
               PROVE  [Promise!Next]_(Promise!vars)
    OBVIOUS
  <2>1. ASSUME UNCHANGED session_vars PROVE UNCHANGED Promise!vars
    BY <2>1, PhaseStays DEF session_vars, Promise!vars
  <2>2. ASSUME NEW s \in Session, request(s)
        PROVE  [Promise!Next]_(Promise!vars)
    BY <2>2, SessionKeepsPromise DEF request, CancelStep, AppInv, Below, DbInv
  <2>3. CASE UNCHANGED all_vars
    BY <2>1, <2>3 DEF all_vars, db_vars
  <2> QED BY <2>1, <2>2, <2>3, LifespanLeavesSessions, ProbeLeavesSessions DEF AppNext
<1> QED BY <1>1, <1>2, AppInitInv, AppStepInv, PTL
        DEF AppSafeSpec, Promise!SafeSpec
=============================================================================
