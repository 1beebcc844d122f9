------------------------------ MODULE Gateway ------------------------------
(***************************************************************************)
(* gateway.call_llm and _attempt_call over a gateway that Startup brings   *)
(* up, with what surrounds them: the vendor behind litellm.acompletion,    *)
(* the event loop's clock, the caller that may cancel, and the worker that *)
(* reports traces to Langfuse later.                                       *)
(*                                                                         *)
(* An attempt awaits asyncio.wait_for as CPython 3.11 implements it (the   *)
(* version pyproject pins): when the deadline passes or the caller         *)
(* cancels, the inner task is cancelled and waited for, and it may still   *)
(* end with an answer or an error of its own.  A tick is the model's unit  *)
(* of time; a coroutine whose reply is there resumes before the next tick. *)
(***************************************************************************)
EXTENDS Startup, FiniteSets

CONSTANTS
    Call,        \* the invocations of call_llm
    Override,    \* the per-call temperatures a caller may pass
    CancelLag    \* external: ticks a cancelled acompletion may take to unwind

Slot == {"primary", "fallback"}

(* How litellm.acompletion may end: a usable completion; one whose shape   *)
(* _attempt_call cannot read; one LLMResponse refuses to hold (say a       *)
(* content that is no string); a 401; a 403; any other vendor error,       *)
(* LiteLLM's own retries exhausted; a TimeoutError of a socket.            *)
Reply ==
    {"answer", "malformed", "invalid", "auth401", "denied403", "unavailable",
     "socket_timeout"}

(* How it may end once cancelled: by the cancellation, or still as above.  *)
Unwinding == Reply \cup {"cancelled"}

(* How an attempt may end: a response or the exception it raises.          *)
Result == {"LLMResponse", "LLMTimeoutError", "LLMAuthenticationError",
           "CancelledError", "malformed", "invalid", "denied403", "unavailable"}

(* What leaves call_llm: its LLMResponse or an exception by its class, with *)
(* the attribute primary_error of LLMAllModelsFailedError.                 *)
VerdictKind ==
    {"LLMResponse", "LLMNotInitializedError", "LLMFeatureNotImplementedError",
     "RoutingConfigError", "KeyError", "LLMAuthenticationError", "CancelledError",
     "LLMAllModelsFailedError"}

Verdict == [kind : VerdictKind, is_fallback : BOOLEAN,
            primary_error : Result \cup {None}]

ASSUME GatewayAssumption ==
    /\ CancelLag \in Nat
    /\ None \notin Override /\ None \notin Unwinding
    /\ None \notin VerdictKind /\ None \notin Verdict

Args == [purpose : Purpose, images : BOOLEAN, temperature : Override \cup {None}]

VARIABLES
    pc,             \* per call: "idle", the slot being attempted, or "done"
    args,           \* the arguments it was invoked with
    entry,          \* the row select() returned, kept across the awaits
    attempt,        \* the wait_for in progress: [wait, reply, age]
    primary_error,  \* why the primary failed, once it has
    tagged,         \* the tag lists that hold "fallback:true", by list object
    elapsed,        \* ticks since the call began
    sent,           \* history: the requests handed to acompletion
    seen,           \* history: how each attempt's wait_for was left
    spend,          \* history: the slots of the llm_call_success log lines
    traces,         \* the traces Langfuse was sent
    verdict         \* what left call_llm, None until then

call_vars == <<pc, args, entry, attempt, primary_error, tagged, elapsed, sent,
               seen, spend, traces, verdict>>
vars == <<startup_vars, call_vars>>

NoAttempt == [wait |-> "none", reply |-> None, age |-> 0]
Waiting == [wait |-> "pending", reply |-> None, age |-> 0]

(* The list objects a call owns: metadata_base["tags"] and one copy per    *)
(* attempt.                                                                *)
TagList == {"base"} \cup Slot

Init ==
    /\ StartupInit
    /\ pc = [c \in Call |-> "idle"]
    /\ args = [c \in Call |-> None]
    /\ entry = [c \in Call |-> None]
    /\ attempt = [c \in Call |-> NoAttempt]
    /\ primary_error = [c \in Call |-> None]
    /\ tagged = [c \in Call |-> {}]
    /\ elapsed = [c \in Call |-> 0]
    /\ sent = [c \in Call |-> <<>>]
    /\ seen = [c \in Call |-> <<>>]
    /\ spend = [c \in Call |-> <<>>]
    /\ traces = [c \in Call |-> {}]
    /\ verdict = [c \in Call |-> None]

-----------------------------------------------------------------------------
(* What call_llm decides.                                                  *)

(* Mutant: the _initialized check dropped.                                 *)
Refusal_unguarded(a) ==
    IF a.images THEN "LLMFeatureNotImplementedError"
    ELSE IF routing_table = None THEN "RoutingConfigError"
    ELSE IF a.purpose \notin DOMAIN routing_table THEN "KeyError"
    ELSE None

(* The error raised before any model is tried, None when there is none.    *)
Refusal(a) ==
    IF ~initialized THEN "LLMNotInitializedError"
    ELSE IF a.images THEN "LLMFeatureNotImplementedError"
    ELSE IF routing_table = None THEN "RoutingConfigError"
    ELSE IF a.purpose \notin DOMAIN routing_table THEN "KeyError"
    ELSE None

(* Mutant: the override passed on as it is.                                *)
effective_temperature_unset(a, e) == a.temperature

effective_temperature(a, e) ==
    IF a.temperature # None THEN a.temperature ELSE e.temperature

(* Mutant: metadata_base copied without its list.                          *)
tag_list_shared(slot) == "base"

(* The list object an attempt's metadata refers to: a copy of its own.     *)
tag_list(slot) == slot

(* Mutant: the budget granted to every retry.                              *)
timeout_per_retry(e) == e.timeout_ms * (e.max_retries + 1)

(* How long wait_for waits for an attempt on a row.                        *)
timeout(e) == e.timeout_ms

(* Mutant: the fallback awaited bare.                                      *)
wrapped_primary(slot) == slot = "primary"

(* The attempts awaited through wait_for: both.                            *)
wrapped(slot) == slot \in Slot

(* Mutant: select() called again for the fallback.                         *)
fallback_entry_reselected(c) == routing_table[args[c].purpose]

(* The row the fallback attempt uses: the one selected before the primary  *)
(* attempt, whatever the table holds by now.                               *)
fallback_entry(c) == entry[c]

(* How wait_for and the except clauses of _attempt_call turn the end of an *)
(* attempt into a response or an exception.  Only a task that ends by its  *)
(* cancellation has timed out: 3.11's wait_for returns, or raises, whatever*)
(* else an expired one still ends with.                                    *)
result(wait, reply) ==
    IF wait = "abandoned" THEN "CancelledError"
    ELSE IF reply \in {"cancelled", "socket_timeout"} THEN "LLMTimeoutError"
    ELSE IF reply = "auth401" THEN "LLMAuthenticationError"
    ELSE IF reply = "answer" THEN "LLMResponse"
    ELSE reply

(* Mutant: the success logged by a callback of the inner task.             *)
logs_success_anyway(wait, reply) == reply \in {"answer", "invalid"}

(* The attempts that reach the llm_call_success line, with its cost.       *)
logs_success(wait, reply) ==
    wait # "abandoned" /\ reply \in {"answer", "invalid"}

(* Mutants: `except BaseException`; no clause for LLMAuthenticationError.   *)
reraised_auth_only(r) == r = "LLMAuthenticationError"
reraised_cancel_only(r) == r = "CancelledError"

(* What both handlers of call_llm let through, and what they treat as a    *)
(* failure of the model.                                                   *)
reraised(r) == r \in {"LLMAuthenticationError", "CancelledError"}
failed(r) == r # "LLMResponse" /\ ~reraised(r)

Outcome(kind, slot, error) ==
    [kind |-> kind, is_fallback |-> slot = "fallback", primary_error |-> error]

-----------------------------------------------------------------------------
(* The steps of call_llm.                                                  *)

finish(c, outcome) ==
    /\ pc' = [pc EXCEPT ![c] = "done"]
    /\ attempt' = [attempt EXCEPT ![c] = NoAttempt]
    /\ verdict' = [verdict EXCEPT ![c] = outcome]

(* _attempt_call up to its await: the request handed to acompletion.       *)
attempt_call(c, slot, a, e) ==
    /\ pc' = [pc EXCEPT ![c] = slot]
    /\ attempt' = [attempt EXCEPT ![c] = Waiting]
    /\ tagged' = IF slot = "fallback"
                 THEN [tagged EXCEPT ![c] = @ \cup {tag_list(slot)}]
                 ELSE tagged
    /\ sent' = [sent EXCEPT ![c] = Append(@,
                  [model |-> e[slot],
                   temperature |-> effective_temperature(a, e),
                   num_retries |-> e.max_retries])]

refuse(c) ==
    /\ pc[c] = "idle"
    /\ \E a \in Args :
          /\ Refusal(a) # None
          /\ args' = [args EXCEPT ![c] = a]
          /\ finish(c, Outcome(Refusal(a), "none", None))
    /\ UNCHANGED <<startup_vars, entry, primary_error, tagged, elapsed, sent, seen,
                   spend, traces>>

begin(c) ==
    /\ pc[c] = "idle"
    /\ \E a \in Args :
          /\ Refusal(a) = None
          /\ args' = [args EXCEPT ![c] = a]
          /\ entry' = [entry EXCEPT ![c] = routing_table[a.purpose]]
          /\ attempt_call(c, "primary", a, routing_table[a.purpose])
    /\ UNCHANGED <<startup_vars, primary_error, elapsed, seen, spend, traces, verdict>>

(* The wait_for of call c is over and _attempt_call ends with `r`: its     *)
(* success, if it got that far, is logged.                                 *)
leave(c, r) ==
    /\ pc[c] \in Slot
    /\ attempt[c].reply # None
    /\ r = result(attempt[c].wait, attempt[c].reply)
    /\ seen' = [seen EXCEPT ![c] =
                  Append(@, [wait |-> attempt[c].wait, reply |-> attempt[c].reply])]
    /\ spend' = IF logs_success(attempt[c].wait, attempt[c].reply)
                THEN [spend EXCEPT ![c] = Append(@, pc[c])]
                ELSE spend
    /\ UNCHANGED <<startup_vars, args, entry, elapsed, traces>>

succeed(c) ==
    /\ leave(c, "LLMResponse")
    /\ finish(c, Outcome("LLMResponse", pc[c], None))
    /\ UNCHANGED <<primary_error, tagged, sent>>

reraise(c) ==
    /\ \E r \in Result :
          /\ reraised(r)
          /\ leave(c, r)
          /\ finish(c, Outcome(r, "none", None))
    /\ UNCHANGED <<primary_error, tagged, sent>>

(* The primary failed: its error is kept and the fallback attempted in the *)
(* same run of the coroutine.                                              *)
fall_back(c) ==
    /\ pc[c] = "primary"
    /\ \E r \in Result :
          /\ failed(r)
          /\ leave(c, r)
          /\ primary_error' = [primary_error EXCEPT ![c] = r]
    /\ attempt_call(c, "fallback", args[c], fallback_entry(c))
    /\ UNCHANGED verdict

(* Mutant: the last error reported as the primary's.                       *)
give_up_latest(c) ==
    /\ pc[c] = "fallback"
    /\ \E r \in Result :
          /\ failed(r)
          /\ leave(c, r)
          /\ finish(c, Outcome("LLMAllModelsFailedError", "none", r))
    /\ UNCHANGED <<primary_error, tagged, sent>>

(* The fallback failed too.                                                *)
give_up(c) ==
    /\ pc[c] = "fallback"
    /\ \E r \in Result : failed(r) /\ leave(c, r)
    /\ finish(c, Outcome("LLMAllModelsFailedError", "none", primary_error[c]))
    /\ UNCHANGED <<primary_error, tagged, sent>>

-----------------------------------------------------------------------------
(* The event loop, the vendor and the caller.                              *)

UnchangedByWait ==
    UNCHANGED <<startup_vars, args, entry, primary_error, tagged, elapsed, sent,
                spend, traces>>

(* acompletion ends before the deadline's handler or a cancellation runs.  *)
acompletion_ends(c) ==
    /\ attempt[c].wait = "pending"
    /\ attempt[c].reply = None
    /\ \E reply \in Reply : attempt' = [attempt EXCEPT ![c].reply = reply]
    /\ UNCHANGED <<pc, seen, verdict>>
    /\ UnchangedByWait

(* The deadline: wait_for cancels the inner task and waits for it.         *)
deadline(c) ==
    /\ attempt[c].wait = "pending"
    /\ attempt[c].reply = None
    /\ wrapped(pc[c])
    /\ attempt[c].age = timeout(entry[c])
    /\ attempt' = [attempt EXCEPT ![c] = [Waiting EXCEPT !.wait = "expired"]]
    /\ UNCHANGED <<pc, seen, verdict>>
    /\ UnchangedByWait

unwind(c) ==
    /\ attempt[c].wait \in {"expired", "abandoned"}
    /\ attempt[c].reply = None
    /\ \E reply \in Unwinding : attempt' = [attempt EXCEPT ![c].reply = reply]
    /\ UNCHANGED <<pc, seen, verdict>>
    /\ UnchangedByWait

(* The caller cancels while the attempt is pending.  With a reply already  *)
(* there, 3.11's wait_for returns it and the cancellation is lost: no step.*)
cancel_pending(c) ==
    /\ attempt[c].wait = "pending"
    /\ attempt[c].reply = None
    /\ attempt' = [attempt EXCEPT ![c] = [Waiting EXCEPT !.wait = "abandoned"]]
    /\ UNCHANGED <<pc, seen, verdict>>
    /\ UnchangedByWait

(* The caller cancels while wait_for waits for a cancelled inner task: the *)
(* CancelledError leaves at once and the inner task is orphaned.           *)
cancel_unwinding(c) ==
    /\ attempt[c].wait \in {"expired", "abandoned"}
    /\ seen' = [seen EXCEPT ![c] =
                  Append(@, [wait |-> "abandoned", reply |-> attempt[c].reply])]
    /\ finish(c, Outcome("CancelledError", "none", None))
    /\ UnchangedByWait

(* The clock.  It stops for a call whose reply is waiting to be taken.     *)
tick(c) ==
    /\ attempt[c].wait # "none"
    /\ attempt[c].reply = None
    /\ attempt[c].age < (IF attempt[c].wait = "pending" THEN timeout(entry[c])
                         ELSE CancelLag)
    /\ attempt' = [attempt EXCEPT ![c].age = @ + 1]
    /\ elapsed' = [elapsed EXCEPT ![c] = @ + 1]
    /\ UNCHANGED <<startup_vars, pc, args, entry, primary_error, tagged, sent, seen,
                   spend, traces, verdict>>

(* The Langfuse callback reports an attempt that is over, whenever its     *)
(* worker gets to it and from the tag list as it is by then.               *)
report(c, slot) ==
    /\ Len(seen[c]) >= (IF slot = "primary" THEN 1 ELSE 2)
    /\ \A trace \in traces[c] : trace.slot # slot
    /\ traces' = [traces EXCEPT ![c] = @ \cup
                    {[slot |-> slot, fallback |-> tag_list(slot) \in tagged[c]]}]
    /\ UNCHANGED <<startup_vars, pc, args, entry, attempt, primary_error, tagged,
                   elapsed, sent, seen, spend, verdict>>

-----------------------------------------------------------------------------

Resume(c) == succeed(c) \/ reraise(c) \/ fall_back(c) \/ give_up(c)

CallStep(c) ==
    \/ refuse(c)
    \/ begin(c)
    \/ Resume(c)
    \/ acompletion_ends(c)
    \/ deadline(c)
    \/ unwind(c)
    \/ cancel_pending(c)
    \/ cancel_unwinding(c)
    \/ tick(c)
    \/ \E slot \in Slot : report(c, slot)

(* Every caller of initialize has returned and every call has ended.       *)
Quiet == Started /\ \A c \in Call : pc[c] = "done"

Next ==
    \/ \E t \in Thread : StartupStep(t) /\ UNCHANGED call_vars
    \/ \E c \in Call : CallStep(c)
    \/ Quiet /\ UNCHANGED vars

SafeSpec == Init /\ [][Next]_vars

(* The event loop runs what is ready: its clock moves, it fires a deadline *)
(* that has passed and resumes a coroutine whose await is over; a cancelled*)
(* task unwinds.  Nothing is assumed of the vendor or of the caller.       *)
Progress(c) == tick(c) \/ deadline(c) \/ unwind(c) \/ Resume(c)

Spec == SafeSpec /\ \A c \in Call : WF_vars(Progress(c))

-----------------------------------------------------------------------------
(* Properties.                                                             *)

RowOrNone == RoutingEntry \cup {None}

(* Every variable of call_llm, and what it keeps across its awaits, stays  *)
(* within its type; in particular every request carries a temperature.     *)
GatewayTypeOK ==
    /\ pc \in [Call -> {"idle", "done"} \cup Slot]
    /\ args \in [Call -> Args \cup {None}]
    /\ entry \in [Call -> RowOrNone]
    /\ attempt \in [Call -> [wait : {"none", "pending", "expired", "abandoned"},
                             reply : Unwinding \cup {None},
                             age : Nat]]
    /\ primary_error \in [Call -> Result \cup {None}]
    /\ tagged \in [Call -> SUBSET TagList]
    /\ elapsed \in [Call -> Nat]
    /\ sent \in [Call -> Seq([model : Model,
                              temperature : Override \cup 0 .. MaxTemperature,
                              num_retries : 0 .. MaxRetries])]
    /\ seen \in [Call -> Seq([wait : {"pending", "expired", "abandoned"},
                              reply : Unwinding \cup {None}])]
    /\ spend \in [Call -> Seq(Slot)]
    /\ traces \in [Call -> SUBSET [slot : Slot, fallback : BOOLEAN]]
    /\ verdict \in [Call -> Verdict \cup {None}]

(* A call that gets past the _initialized check always finds its row: the  *)
(* two errors select() can raise never leave call_llm, whatever threads    *)
(* are still inside initialize().                                          *)
NoInternalRefusal ==
    \A c \in Call : verdict[c] # None =>
        verdict[c].kind \notin {"RoutingConfigError", "KeyError"}

(* No request of either slot goes to a model that cannot do what the       *)
(* purpose needs (the rule behind validate_routing_capabilities).          *)
RequestsAreCapable ==
    \A c \in Call : \A i \in 1 .. Len(sent[c]) :
        Serves(sent[c][i].model, args[c].purpose)

(* Both attempts of a call follow the row that was current when it began,  *)
(* even when another table is published while the primary is awaited, and  *)
(* a temperature the caller passes, 0.0 included, goes to both models.     *)
RequestsFollowOneRow ==
    \A c \in Call : \A i \in 1 .. Len(sent[c]) :
        /\ sent[c][i].model = entry[c][IF i = 1 THEN "primary" ELSE "fallback"]
        /\ sent[c][i].num_retries = entry[c].max_retries
        /\ sent[c][i].temperature = IF args[c].temperature = None
                                    THEN entry[c].temperature
                                    ELSE args[c].temperature

(* The vendor's side of an attempt that failed for call_llm: not answered, *)
(* not refused for its credentials, not cancelled by the caller.           *)
FailedAttempt(s) == s.wait # "abandoned" /\ s.reply \notin {"answer", "auth401"}

(* The fallback is attempted only after the primary failed and never after *)
(* a 401, a cancellation or an answer; a call sends at most two requests.  *)
FallbackOnlyAfterFailure ==
    \A c \in Call :
        /\ Len(sent[c]) <= 2
        /\ Len(sent[c]) = 2 => Len(seen[c]) >= 1 /\ FailedAttempt(seen[c][1])

(* What _attempt_call raises for a failed attempt.                         *)
Cause(s) == IF s.reply \in {"cancelled", "socket_timeout"} THEN "LLMTimeoutError"
            ELSE s.reply

Concluded(v, n, first, last) ==
    /\ v.kind = "CancelledError" <=> last.wait = "abandoned"
    /\ v.kind = "LLMAuthenticationError" <=>
           last.wait # "abandoned" /\ last.reply = "auth401"
    /\ v.kind = "LLMResponse" <=>
           last.wait # "abandoned" /\ last.reply = "answer"
    /\ v.kind = "LLMResponse" => (v.is_fallback <=> n = 2)
    /\ v.kind = "LLMAllModelsFailedError" <=> FailedAttempt(last)
    /\ FailedAttempt(last) => n = 2 /\ v.primary_error = Cause(first)

(* What the caller gets is what its last attempt came to: an answer, an    *)
(* auth error, its own cancellation, or, exactly when both models failed,  *)
(* LLMAllModelsFailedError with the primary's error.  An attempt comes to  *)
(* what wait_for returns or raises, after the deadline too, which          *)
(* NothingAfterDeadline below says it should not.                          *)
VerdictMatchesAttempts ==
    \A c \in Call : (pc[c] = "done" /\ sent[c] # <<>>) =>
        LET n == Len(seen[c])
        IN  /\ n = Len(sent[c])
            /\ Concluded(verdict[c], n, seen[c][1], seen[c][n])

(* The attempt of a slot as its wait_for was left.                         *)
AttemptOf(c, slot) == seen[c][IF slot = "primary" THEN 1 ELSE 2]

(* A completion that came and was logged, and that LLMResponse refused.    *)
Refused(s) == s.wait # "abandoned" /\ s.reply = "invalid"

(* No attempt is logged as spend twice, an answer the caller gets is logged*)
(* as one of its slot, and any other line is of a completion that came and *)
(* that LLMResponse refused after the line: so two lines only when that    *)
(* happened to the primary, and for a cancelled call its primary's at most.*)
SpendFollowsVerdict ==
    \A c \in Call : pc[c] = "done" =>
        LET answered == verdict[c].kind = "LLMResponse"
            slot == IF verdict[c].is_fallback THEN "fallback" ELSE "primary"
            lines == 1 .. Len(spend[c])
        IN  /\ answered => \E i \in lines : spend[c][i] = slot
            /\ \A i \in lines : \/ answered /\ spend[c][i] = slot
                                \/ Refused(AttemptOf(c, spend[c][i]))
            /\ \A i, j \in lines : spend[c][i] = spend[c][j] => i = j

(* However the vendor behaves, a call lasts at most one budget of its row  *)
(* per attempt, plus the time two cancelled tasks take to unwind.          *)
WithinTwoBudgets ==
    \A c \in Call : pc[c] # "idle" /\ entry[c] # None =>
        elapsed[c] <= 2 * (entry[c].timeout_ms + CancelLag)

(* A trace is marked as a fallback exactly when it is the fallback's, even *)
(* when the primary's is reported while the fallback is already under way. *)
TracesTagged ==
    \A c \in Call : \A trace \in traces[c] :
        trace.fallback <=> trace.slot = "fallback"

(* A caller whose cancellation reached the wait gets CancelledError and    *)
(* the call sends nothing more, whatever the cancelled task still returns. *)
CancelStopsCall ==
    [][\A c \in Call : attempt[c].wait = "abandoned" =>
          /\ sent'[c] = sent[c]
          /\ attempt'[c].wait # "abandoned" => verdict'[c].kind = "CancelledError"
      ]_vars

(* Every call that starts ends, though the vendor may never answer.        *)
EveryCallEnds ==
    \A c \in Call : pc[c] \in Slot ~> pc[c] = "done"

-----------------------------------------------------------------------------
(* The promise of CallContract, kept by this module.                       *)

stage == [c \in Call |-> IF pc[c] \in Slot THEN "trying" ELSE pc[c]]

tried == [c \in Call |->
             {slot \in Slot : Len(sent[c]) >= (IF slot = "primary" THEN 1 ELSE 2)}]

outcome == [c \in Call |-> IF verdict[c] = None THEN None ELSE verdict[c].kind]

Contract ==
    INSTANCE CallContract WITH
        Refusals <- {"LLMNotInitializedError", "LLMFeatureNotImplementedError"}

(* Every behaviour of the gateway is one the contract allows, and every    *)
(* call the contract says must end does end.                               *)
ImplementsContract == Contract!Spec

-----------------------------------------------------------------------------
(* What documents and comments say, and the code does not do.              *)

(* schema.py: timeout_ms is the "Total timeout budget ... for a single     *)
(* call_llm invocation".                                                   *)
OneBudgetPerCall ==
    \A c \in Call : entry[c] # None => elapsed[c] <= entry[c].timeout_ms + CancelLag

(* module_11.md: on a 401 the gateway degrades to the fallback model.      *)
AuthDegradesToFallback ==
    \A c \in Call : verdict[c] # None =>
        (verdict[c].kind = "LLMAuthenticationError" => Len(sent[c]) = 2)

(* gateway.py: "Auth failures (401 / 403) are NOT ... failed-over".        *)
VendorDenialNotFailedOver ==
    \A c \in Call : Len(sent[c]) = 2 =>
        seen[c][1].reply \notin {"auth401", "denied403"}

(* gateway.py: "On ``wait_for`` cancellation the attempt is over: no cost  *)
(* record, no partial ``LLMResponse``".                                    *)
NothingAfterDeadline ==
    \A c \in Call : \A i \in 1 .. Len(seen[c]) : seen[c][i].wait # "pending" =>
        LET slot == IF i = 1 THEN "primary" ELSE "fallback"
        IN  /\ \A j \in 1 .. Len(spend[c]) : spend[c][j] # slot
            /\ verdict[c] # Outcome("LLMResponse", slot, None)

=============================================================================
