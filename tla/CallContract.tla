---------------------------- MODULE CallContract ----------------------------
(***************************************************************************)
(* What the model gateway promises the modules that call call_llm: a call  *)
(* is refused up front, or it tries the primary and then at most once the  *)
(* fallback; it ends with an answer, an auth error, the caller's own       *)
(* cancellation or, only when both models were tried, an outage; and every *)
(* call that starts ends.  The control flow of call_llm seen from outside: *)
(* no clock, no vendor, no routing table.                                  *)
(***************************************************************************)
CONSTANTS
    Call,
    Refusals,   \* the errors raised before any model is tried
    None

VARIABLES
    stage,    \* "idle" | "trying" | "done"
    tried,    \* the slots tried so far
    outcome   \* how the call ended, None until then

vars == <<stage, tried, outcome>>

Init ==
    /\ stage = [c \in Call |-> "idle"]
    /\ tried = [c \in Call |-> {}]
    /\ outcome = [c \in Call |-> None]

End(c, how) ==
    /\ stage' = [stage EXCEPT ![c] = "done"]
    /\ outcome' = [outcome EXCEPT ![c] = how]
    /\ UNCHANGED tried

Refuse(c) ==
    /\ stage[c] = "idle"
    /\ \E how \in Refusals : End(c, how)

Begin(c) ==
    /\ stage[c] = "idle"
    /\ stage' = [stage EXCEPT ![c] = "trying"]
    /\ tried' = [tried EXCEPT ![c] = {"primary"}]
    /\ UNCHANGED outcome

FallBack(c) ==
    /\ stage[c] = "trying"
    /\ tried[c] = {"primary"}
    /\ tried' = [tried EXCEPT ![c] = {"primary", "fallback"}]
    /\ UNCHANGED <<stage, outcome>>

Finish(c) ==
    /\ stage[c] = "trying"
    /\ \E how \in {"LLMResponse", "LLMAuthenticationError", "CancelledError"} :
          End(c, how)

Outage(c) ==
    /\ stage[c] = "trying"
    /\ tried[c] = {"primary", "fallback"}
    /\ End(c, "LLMAllModelsFailedError")

Advance(c) == FallBack(c) \/ Finish(c) \/ Outage(c)

Next == \E c \in Call : Refuse(c) \/ Begin(c) \/ Advance(c)

SafeSpec == Init /\ [][Next]_vars

Spec == SafeSpec /\ \A c \in Call : WF_vars(Advance(c))
=============================================================================
