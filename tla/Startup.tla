------------------------------ MODULE Startup ------------------------------
(***************************************************************************)
(* gateway.initialize and the module-level state it wires: the router's    *)
(* cached table, the Langfuse variables mirrored into os.environ, the      *)
(* LiteLLM callback list and the _initialized flag.  The lifespan hook     *)
(* calls it from one thread; its docstring describes the race of           *)
(* concurrent callers, which Thread lets a model have.  One step per       *)
(* point where another thread can see a difference.                        *)
(***************************************************************************)
EXTENDS Routing, Sequences

CONSTANTS
    Thread,      \* the callers of initialize()
    Configured   \* the LANGFUSE_* settings that are not empty

VARIABLES
    initialized,    \* gateway._initialized
    routing_table,  \* router._routing_table
    callbacks,      \* litellm.success_callback (failure_callback is its twin)
    environ,        \* the LANGFUSE_* variables mirrored into os.environ
    at,             \* per thread: where it is inside initialize()
    table,          \* per thread: the table it validated and has yet to publish
    failure         \* per thread: the last exception that left initialize()

startup_vars ==
    <<initialized, routing_table, callbacks, environ, at, table, failure>>

StartupInit ==
    /\ initialized = FALSE
    /\ routing_table = None
    /\ callbacks = <<>>
    /\ environ = {}
    /\ at = [t \in Thread |-> "out"]
    /\ table = [t \in Thread |-> None]
    /\ failure = [t \in Thread |-> None]

(* Mutant: the flag flipped first, "so that the race is closed".           *)
initialize_flag_first(t) ==
    /\ at[t] = "out"
    /\ ~initialized
    /\ initialized' = TRUE
    /\ at' = [at EXCEPT ![t] = "load"]
    /\ UNCHANGED <<routing_table, callbacks, environ, table, failure>>

(* A caller that finds the flag set returns at once: no step.              *)
initialize(t) ==
    /\ at[t] = "out"
    /\ ~initialized
    /\ at' = [at EXCEPT ![t] = "load"]
    /\ UNCHANGED <<initialized, routing_table, callbacks, environ, table, failure>>

load_routing_table(t) ==
    /\ at[t] = "load"
    /\ \E doc \in Document :
          \/ /\ Loadable(doc)
             /\ at' = [at EXCEPT ![t] = "publish"]
             /\ table' = [table EXCEPT ![t] = Table(doc)]
             /\ UNCHANGED failure
          \/ /\ ~Loadable(doc)
             /\ at' = [at EXCEPT ![t] = "out"]
             /\ failure' = [failure EXCEPT ![t] = LoadError(doc)]
             /\ UNCHANGED table
    /\ UNCHANGED <<initialized, routing_table, callbacks, environ>>

publish(t) ==
    /\ at[t] = "publish"
    /\ routing_table' = table[t]
    /\ table' = [table EXCEPT ![t] = None]
    /\ at' = [at EXCEPT ![t] = "wire"]
    /\ UNCHANGED <<initialized, callbacks, environ, failure>>

wire(t) ==
    /\ at[t] = "wire"
    /\ environ' = environ \cup Configured
    /\ callbacks' = <<"langfuse">>
    /\ at' = [at EXCEPT ![t] = "flag"]
    /\ UNCHANGED <<initialized, routing_table, table, failure>>

flag(t) ==
    /\ at[t] = "flag"
    /\ initialized' = TRUE
    /\ at' = [at EXCEPT ![t] = "out"]
    /\ UNCHANGED <<routing_table, callbacks, environ, table, failure>>

StartupStep(t) ==
    \/ initialize(t)
    \/ load_routing_table(t)
    \/ publish(t)
    \/ wire(t)
    \/ flag(t)

(* Every caller has returned and the gateway is up.                        *)
Started == initialized /\ \A t \in Thread : at[t] = "out"

StartupNext ==
    \/ \E t \in Thread : StartupStep(t)
    \/ Started /\ UNCHANGED startup_vars

StartupSpec == StartupInit /\ [][StartupNext]_startup_vars

-----------------------------------------------------------------------------
(* Properties.                                                             *)

Place == {"out", "load", "publish", "wire", "flag"}

Tables == [Purpose -> RoutingEntry]

(* The module-level state and the locals of every caller keep their types: *)
(* in particular no malformed row is ever held as a RoutingEntry.          *)
StartupTypeOK ==
    /\ initialized \in BOOLEAN
    /\ routing_table \in Tables \cup {None}
    /\ callbacks \in Seq({"langfuse"})
    /\ environ \subseteq Configured
    /\ at \in [Thread -> Place]
    /\ table \in [Thread -> Tables \cup {None}]
    /\ failure \in [Thread ->
          {None, "RoutingConfigError", "UnicodeDecodeError", "ValueError"}]

(* Once the flag is up the gateway is wired whatever other callers are     *)
(* doing: a complete, validated table, the Langfuse variables, a callback. *)
InitializedMeansReady ==
    initialized =>
        /\ ValidTable(routing_table)
        /\ Configured \subseteq environ
        /\ callbacks # <<>>

(* The table calls are routed by is only ever replaced by one that passed  *)
(* every check: a document refused later never unseats it.                 *)
TableReplacedByValid ==
    [][routing_table' # routing_table => ValidTable(routing_table')]_startup_vars

(* router.py: "Any failure raises RoutingConfigError with the source file  *)
(* path".                                                                  *)
LoadFailuresAreConfigErrors ==
    \A t \in Thread : failure[t] \in {None, "RoutingConfigError"}

=============================================================================
