----------------------------- MODULE UnitOfWork -----------------------------
(***************************************************************************)
(* What get_session promises a handler about its writes: they are durable  *)
(* when the dependency returns, gone when the handler raised or was        *)
(* cancelled at work, and settled either way when the commit itself was    *)
(* cut short; and no transaction stays open for good.  No engine, no pool, *)
(* no order of the clean-up.                                               *)
(***************************************************************************)
CONSTANT Session

VARIABLES
    phase,   \* "idle" | "open" | "committing" | "over"
    work,    \* "none" | "pending" | "committed" | "discarded"
    ending   \* "none" | "returned" | "raised" | "cancelled"

vars == <<phase, work, ending>>

Init ==
    /\ phase = [s \in Session |-> "idle"]
    /\ work = [s \in Session |-> "none"]
    /\ ending = [s \in Session |-> "none"]

Begin(s) ==
    /\ phase[s] = "idle"
    /\ phase' = [phase EXCEPT ![s] = "open"]
    /\ UNCHANGED <<work, ending>>

Write(s) ==
    /\ phase[s] = "open"
    /\ work[s] = "none"
    /\ work' = [work EXCEPT ![s] = "pending"]
    /\ UNCHANGED <<phase, ending>>

(* The handler returned.                                                   *)
Submit(s) ==
    /\ phase[s] = "open"
    /\ phase' = [phase EXCEPT ![s] = "committing"]
    /\ UNCHANGED <<work, ending>>

Return(s) ==
    /\ phase[s] = "committing"
    /\ work' = [work EXCEPT ![s] = IF @ = "pending" THEN "committed" ELSE @]
    /\ phase' = [phase EXCEPT ![s] = "over"]
    /\ ending' = [ending EXCEPT ![s] = "returned"]

(* It raised, or was cancelled, before or during the commit.  Only a commit *)
(* that was under way may still take effect.                               *)
Fail(s) ==
    /\ phase[s] \in {"open", "committing"}
    /\ phase' = [phase EXCEPT ![s] = "over"]
    /\ \E how \in {"raised", "cancelled"} : ending' = [ending EXCEPT ![s] = how]
    /\ \/ UNCHANGED work
       \/ /\ phase[s] = "committing" /\ work[s] = "pending"
          /\ work' = [work EXCEPT ![s] = "committed"]

(* A cancellation once the outcome is decided.                             *)
CancelLate(s) ==
    /\ phase[s] = "over"
    /\ ending' = [ending EXCEPT ![s] = "cancelled"]
    /\ UNCHANGED <<phase, work>>

Discard(s) ==
    /\ phase[s] = "over"
    /\ work[s] = "pending"
    /\ work' = [work EXCEPT ![s] = "discarded"]
    /\ UNCHANGED <<phase, ending>>

Next ==
    \E s \in Session :
        \/ Begin(s) \/ Write(s) \/ Submit(s) \/ Return(s) \/ Fail(s)
        \/ CancelLate(s) \/ Discard(s)

SafeSpec == Init /\ [][Next]_vars

Spec == SafeSpec /\ \A s \in Session : WF_vars(Discard(s))
=============================================================================
