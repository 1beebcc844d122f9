--------------------------- MODULE Startup_proofs ---------------------------
(***************************************************************************)
(* Startup for any number of threads racing through initialize(), any      *)
(* documents found in the file and any capability tables.                  *)
(***************************************************************************)
EXTENDS Startup, TLAPS

(* A document that passes every check yields a table fit for publication:  *)
(* router.load_routing_table's loop and its two checks after it.           *)
LEMMA LoadableTableIsValid ==
    ASSUME NEW doc, Loadable(doc)
    PROVE  ValidTable(Table(doc))
<1>1. DOMAIN doc.rows = Purpose
  BY DEF Loadable, KnownPurposes, Complete
<1>2. Table(doc) = [p \in Purpose |-> model_validate(doc.rows[p])]
  BY <1>1 DEF Table
<1>3. Table(doc) \in Tables
  BY <1>1, <1>2 DEF Loadable, ValidRows, Tables
<1>4. validate_routing_capabilities(Table(doc))
  BY <1>1, <1>2 DEF Loadable, validate_routing_capabilities
<1> QED BY <1>3, <1>4 DEF ValidTable, Tables

(* A published table is not Python's None, so select() finds it.           *)
LEMMA ValidTableIsSome ==
    ASSUME NEW tbl, ValidTable(tbl)
    PROVE  tbl # None /\ tbl \in Tables /\ DOMAIN tbl = Purpose
BY RoutingAssumption DEF ValidTable, Tables

-----------------------------------------------------------------------------
(* The inductive invariant: what a caller half way through initialize()    *)
(* has secured for the callers behind it.                                  *)

Secured(t) ==
    /\ at[t] = "publish" => ValidTable(table[t])
    /\ at[t] \in {"wire", "flag"} => routing_table # None
    /\ at[t] = "flag" => Configured \subseteq environ /\ callbacks # <<>>

StartupInv ==
    /\ StartupTypeOK
    /\ routing_table # None => ValidTable(routing_table)
    /\ \A t \in Thread : Secured(t)
    /\ InitializedMeansReady

LEMMA StartupInitInv == StartupInit => StartupInv
<1> SUFFICES ASSUME StartupInit PROVE StartupInv
  OBVIOUS
<1>1. StartupTypeOK
  <2>1. initialized \in BOOLEAN
    BY Zenon DEF StartupInit
  <2>2. callbacks \in Seq({"langfuse"})
    BY DEF StartupInit
  <2>3. /\ routing_table \in Tables \cup {None}
        /\ environ \subseteq Configured
        /\ at \in [Thread -> Place]
        /\ table \in [Thread -> Tables \cup {None}]
        /\ failure \in [Thread -> {None, "RoutingConfigError", "UnicodeDecodeError", "ValueError"}]
    BY DEF StartupInit, Place
  <2> QED BY <2>1, <2>2, <2>3 DEF StartupTypeOK
<1>2. ASSUME NEW t \in Thread PROVE Secured(t)
  BY DEF StartupInit, Secured
<1> QED BY <1>1, <1>2 DEF StartupInit, StartupInv, InitializedMeansReady

(* Every step of every caller keeps the invariant; Gateway's proofs use    *)
(* this lemma for the steps of initialize() among the calls.               *)
LEMMA StartupStepInv ==
    ASSUME StartupInv, NEW t \in Thread, StartupStep(t)
    PROVE  StartupInv'
<1> USE DEF StartupInv
<1>1. CASE initialize(t)
  <2>1. StartupTypeOK'
    BY <1>1 DEF initialize, StartupTypeOK, Place
  <2>2. ASSUME NEW u \in Thread PROVE Secured(u)'
    BY <1>1, <2>2 DEF initialize, StartupTypeOK, Secured
  <2>3. InitializedMeansReady'
    BY <1>1 DEF initialize, InitializedMeansReady
  <2> QED BY <1>1, <2>1, <2>2, <2>3 DEF initialize
<1>2. CASE load_routing_table(t)
  <2>1. PICK doc \in Document :
          \/ /\ Loadable(doc)
             /\ at' = [at EXCEPT ![t] = "publish"]
             /\ table' = [table EXCEPT ![t] = Table(doc)]
             /\ UNCHANGED failure
          \/ /\ ~Loadable(doc)
             /\ at' = [at EXCEPT ![t] = "out"]
             /\ failure' = [failure EXCEPT ![t] = LoadError(doc)]
             /\ UNCHANGED table
    BY <1>2 DEF load_routing_table
  <2>2. UNCHANGED <<initialized, routing_table, callbacks, environ>>
    BY <1>2 DEF load_routing_table
  <2>3. CASE Loadable(doc)
    <3>1. ValidTable(Table(doc)) /\ Table(doc) \in Tables
      BY <2>3, LoadableTableIsValid, ValidTableIsSome
    <3>2. StartupTypeOK'
      BY <2>1, <2>2, <2>3, <3>1 DEF StartupTypeOK, Place
    <3>3. ASSUME NEW u \in Thread PROVE Secured(u)'
      BY <2>1, <2>2, <2>3, <3>1, <3>3 DEF StartupTypeOK, Secured
    <3> QED BY <2>2, <3>2, <3>3 DEF InitializedMeansReady
  <2>4. CASE ~Loadable(doc)
    <3>1. StartupTypeOK'
      BY <2>1, <2>2, <2>4 DEF StartupTypeOK, Place, LoadError, Escaping
    <3>2. ASSUME NEW u \in Thread PROVE Secured(u)'
      BY <2>1, <2>2, <2>4, <3>2 DEF StartupTypeOK, Secured
    <3> QED BY <2>2, <3>1, <3>2 DEF InitializedMeansReady
  <2> QED BY <2>3, <2>4
<1>3. CASE publish(t)
  <2>1. ValidTable(table[t]) /\ table[t] # None
    BY <1>3, ValidTableIsSome DEF publish, Secured
  <2>2. StartupTypeOK'
    BY <1>3 DEF publish, StartupTypeOK, Place
  <2>3. routing_table' # None /\ ValidTable(routing_table')
    BY <1>3, <2>1 DEF publish
  <2>4. ASSUME NEW u \in Thread PROVE Secured(u)'
    BY <1>3, <2>3, <2>4 DEF publish, StartupTypeOK, Secured
  <2>5. InitializedMeansReady'
    BY <1>3, <2>3 DEF publish, InitializedMeansReady
  <2> QED BY <2>2, <2>3, <2>4, <2>5 DEF ValidTable
<1>4. CASE wire(t)
  <2>1. StartupTypeOK'
    BY <1>4 DEF wire, StartupTypeOK, Place
  <2>2. Configured \subseteq environ' /\ callbacks' # <<>>
    BY <1>4 DEF wire
  <2>3. ASSUME NEW u \in Thread PROVE Secured(u)'
    BY <1>4, <2>2, <2>3 DEF wire, StartupTypeOK, Secured
  <2>4. InitializedMeansReady'
    BY <1>4, <2>2 DEF wire, InitializedMeansReady
  <2> QED BY <1>4, <2>1, <2>3, <2>4 DEF wire
<1>5. CASE flag(t)
  <2>1. StartupTypeOK'
    BY <1>5 DEF flag, StartupTypeOK, Place
  <2>2. ASSUME NEW u \in Thread PROVE Secured(u)'
    BY <1>5, <2>2 DEF flag, StartupTypeOK, Secured
  <2>3. InitializedMeansReady'
    BY <1>5 DEF flag, Secured, InitializedMeansReady
  <2> QED BY <1>5, <2>1, <2>2, <2>3 DEF flag
<1> QED BY <1>1, <1>2, <1>3, <1>4, <1>5 DEF StartupStep

LEMMA StartupStutterInv ==
    ASSUME StartupInv, UNCHANGED startup_vars
    PROVE  StartupInv'
BY DEF startup_vars, StartupInv, StartupTypeOK, Secured, InitializedMeansReady,
       ValidTable

-----------------------------------------------------------------------------
(* Whatever the races and whatever the file held at each read, the flag    *)
(* gateway.call_llm checks is up only over a validated, complete table,    *)
(* mirrored Langfuse variables and a registered callback.                  *)
THEOREM StartupReady == StartupSpec => [](StartupTypeOK /\ InitializedMeansReady)
<1>1. StartupInv /\ [StartupNext]_startup_vars => StartupInv'
  BY StartupStepInv, StartupStutterInv DEF StartupNext
<1>2. StartupInv => StartupTypeOK /\ InitializedMeansReady
  BY DEF StartupInv
<1> QED BY <1>1, <1>2, StartupInitInv, PTL DEF StartupSpec

(* The module-level state and the locals of every caller keep their types. *)
THEOREM StartupTypes == StartupSpec => []StartupTypeOK
BY StartupReady, PTL

(* Nothing but a table that passed every check ever replaces the table     *)
(* calls are routed by, so a bad file never unseats a good one.            *)
THEOREM ReplacedByValid == StartupSpec => TableReplacedByValid
<1>1. StartupInv /\ [StartupNext]_startup_vars
        => [routing_table' # routing_table => ValidTable(routing_table')]_startup_vars
  <2>1. ASSUME StartupInv, NEW t \in Thread, StartupStep(t),
               routing_table' # routing_table
        PROVE  ValidTable(routing_table')
    <3>1. publish(t)
      BY <2>1 DEF StartupStep, initialize, load_routing_table, wire, flag
    <3> QED BY <2>1, <3>1 DEF publish, StartupInv, Secured
  <2> QED BY <2>1 DEF StartupNext, startup_vars
<1>2. StartupInv /\ [StartupNext]_startup_vars => StartupInv'
  BY StartupStepInv, StartupStutterInv DEF StartupNext
<1> QED BY <1>1, <1>2, StartupInitInv, PTL DEF StartupSpec, TableReplacedByValid

-----------------------------------------------------------------------------
(* Races are harmless as long as the file stays the same.                  *)

(* A table that is published stays.                                        *)
TableIsStable == [][routing_table # None => UNCHANGED routing_table]_startup_vars

(* "Idempotent": callers that race through initialize() repeat the work    *)
(* and replace nothing, unless the file changes between their reads.       *)
THEOREM RacesAreIdempotent ==
    ASSUME \A d, e \in Document : d = e
    PROVE  StartupSpec => TableIsStable
<1> DEFINE FromFile(tbl) == \E d \in Document : tbl = Table(d)
           OneTable == /\ routing_table # None => FromFile(routing_table)
                       /\ \A t \in Thread : at[t] = "publish" => FromFile(table[t])
<1>1. StartupInit => OneTable
  BY DEF StartupInit
<1>2. ASSUME StartupInv, OneTable, NEW t \in Thread, StartupStep(t)
      PROVE  OneTable' /\ (routing_table # None => routing_table' = routing_table)
  <2>1. at \in [Thread -> Place] /\ DOMAIN table = Thread
    BY <1>2 DEF StartupInv, StartupTypeOK
  <2>2. CASE load_routing_table(t)
    <3>1. UNCHANGED routing_table
      BY <2>2 DEF load_routing_table
    <3>2. \A u \in Thread \ {t} : at'[u] = at[u] /\ table'[u] = table[u]
      BY <2>1, <2>2 DEF load_routing_table
    <3>3. at'[t] = "publish" => FromFile(table'[t])
      BY <2>1, <2>2 DEF load_routing_table
    <3> QED BY <1>2, <3>1, <3>2, <3>3
  <2>3. CASE publish(t)
    <3>1. at[t] = "publish" /\ routing_table' = table[t]
      BY <2>3 DEF publish
    <3>2. FromFile(table[t]) /\ (routing_table # None => routing_table = table[t])
      BY <1>2, <3>1
    <3>3. \A u \in Thread : at'[u] = "publish" => at[u] = "publish" /\ table'[u] = table[u]
      BY <2>1, <2>3 DEF publish
    <3> QED BY <1>2, <3>1, <3>2, <3>3
  <2>4. CASE initialize(t) \/ wire(t) \/ flag(t)
    BY <1>2, <2>1, <2>4 DEF initialize, wire, flag
  <2> QED BY <1>2, <2>2, <2>3, <2>4 DEF StartupStep
<1>3. StartupInv /\ OneTable /\ [StartupNext]_startup_vars
        => OneTable' /\ [routing_table # None => UNCHANGED routing_table]_startup_vars
  BY <1>2 DEF StartupNext, startup_vars
<1>4. StartupInv /\ [StartupNext]_startup_vars => StartupInv'
  BY StartupStepInv, StartupStutterInv DEF StartupNext
<1> QED BY <1>1, <1>3, <1>4, StartupInitInv, PTL DEF StartupSpec, TableIsStable
=============================================================================
