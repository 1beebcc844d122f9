--------------------------- MODULE Gateway_proofs ---------------------------
(***************************************************************************)
(* call_llm for any number of calls, threads, documents, budgets, retries  *)
(* and temperatures, whatever the vendor, the clock and the callers do.    *)
(***************************************************************************)
EXTENDS Gateway, Startup_proofs

-----------------------------------------------------------------------------
(* Types.  A call in an attempt holds arguments, a row and a wait_for.     *)

Engaged(c) ==
    /\ pc[c] \in Slot => args[c] \in Args /\ entry[c] \in RoutingEntry
    /\ pc[c] \in Slot <=> attempt[c].wait # "none"

TypeInv ==
    /\ StartupInv
    /\ GatewayTypeOK
    /\ \A c \in Call : Engaged(c)

LEMMA TypeInit == Init => TypeInv
<1> SUFFICES ASSUME Init PROVE TypeInv
  OBVIOUS
<1>1. StartupInv
  BY StartupInitInv DEF Init
<1>2. GatewayTypeOK
  <2>1. /\ pc \in [Call -> {"idle", "done"} \cup Slot]
        /\ args \in [Call -> Args \cup {None}]
        /\ entry \in [Call -> RowOrNone]
        /\ primary_error \in [Call -> Result \cup {None}]
        /\ elapsed \in [Call -> Nat]
        /\ verdict \in [Call -> Verdict \cup {None}]
    BY DEF Init, RowOrNone
  <2>2. attempt \in [Call -> [wait : {"none", "pending", "expired", "abandoned"},
                              reply : Unwinding \cup {None},
                              age : Nat]]
    BY DEF Init, NoAttempt
  <2>3. /\ tagged \in [Call -> SUBSET TagList]
        /\ traces \in [Call -> SUBSET [slot : Slot, fallback : BOOLEAN]]
    BY DEF Init
  <2>4. /\ sent \in [Call -> Seq([model : Model,
                                  temperature : Override \cup 0 .. MaxTemperature,
                                  num_retries : 0 .. MaxRetries])]
        /\ seen \in [Call -> Seq([wait : {"pending", "expired", "abandoned"},
                                  reply : Unwinding \cup {None}])]
        /\ spend \in [Call -> Seq(Slot)]
    BY DEF Init
  <2> QED BY <2>1, <2>2, <2>3, <2>4 DEF GatewayTypeOK
<1>3. \A c \in Call : Engaged(c)
  BY DEF Init, Engaged, Slot, NoAttempt
<1> QED BY <1>1, <1>2, <1>3 DEF TypeInv

(* A call that is not refused finds a row of its own purpose.              *)
LEMMA AcceptedFindsRow ==
    ASSUME StartupInv, NEW a \in Args, Refusal(a) = None
    PROVE  /\ initialized
           /\ routing_table[a.purpose] \in RoutingEntry
           /\ Serves(routing_table[a.purpose].primary, a.purpose)
           /\ Serves(routing_table[a.purpose].fallback, a.purpose)
<1>1. initialized
  <2>1. "LLMNotInitializedError" # None
    BY GatewayAssumption DEF VerdictKind
  <2> QED BY <2>1, Zenon DEF Refusal
<1>2. ValidTable(routing_table)
  BY <1>1 DEF StartupInv, InitializedMeansReady
<1>3. routing_table \in Tables /\ a.purpose \in Purpose
  BY <1>2, ValidTableIsSome DEF Args
<1>4. routing_table[a.purpose] \in RoutingEntry /\ a.purpose \in DOMAIN routing_table
  BY <1>3 DEF Tables
<1> QED BY <1>1, <1>2, <1>4 DEF ValidTable, validate_routing_capabilities

(* The temperature a request carries is an override or the row's own.      *)
LEMMA TemperatureType ==
    ASSUME NEW a \in Args, NEW e \in RoutingEntry
    PROVE  effective_temperature(a, e) \in Override \cup 0 .. MaxTemperature
BY DEF Args, RoutingEntry, effective_temperature

(* The request of either slot is well typed.                               *)
LEMMA RequestType ==
    ASSUME NEW a \in Args, NEW e \in RoutingEntry, NEW slot \in Slot
    PROVE  [model |-> e[slot], temperature |-> effective_temperature(a, e),
            num_retries |-> e.max_retries] \in
               [model : Model, temperature : Override \cup 0 .. MaxTemperature,
                num_retries : 0 .. MaxRetries]
<1>1. e[slot] \in Model /\ e.max_retries \in 0 .. MaxRetries
  BY DEF RoutingEntry, Slot
<1> QED BY <1>1, TemperatureType

(* The part of the types that leaving a wait_for touches.                  *)
LEMMA LeaveType ==
    ASSUME TypeInv, NEW c \in Call, NEW r, leave(c, r)
    PROVE  /\ StartupInv'
           /\ seen' \in [Call -> Seq([wait : {"pending", "expired", "abandoned"},
                                      reply : Unwinding \cup {None}])]
           /\ spend' \in [Call -> Seq(Slot)]
           /\ args' = args /\ entry' = entry
           /\ elapsed' \in [Call -> Nat]
           /\ traces' \in [Call -> SUBSET [slot : Slot, fallback : BOOLEAN]]
<1>1. StartupInv'
  BY StartupStutterInv DEF TypeInv, leave
<1>2. attempt[c].wait \in {"pending", "expired", "abandoned"}
      /\ attempt[c].reply \in Unwinding \cup {None}
  BY DEF TypeInv, GatewayTypeOK, Engaged, leave
<1>3. [wait |-> attempt[c].wait, reply |-> attempt[c].reply]
        \in [wait : {"pending", "expired", "abandoned"}, reply : Unwinding \cup {None}]
  BY <1>2
<1>4. seen' \in [Call -> Seq([wait : {"pending", "expired", "abandoned"},
                              reply : Unwinding \cup {None}])]
  <2> DEFINE W == [wait : {"pending", "expired", "abandoned"},
                   reply : Unwinding \cup {None}]
             w == [wait |-> attempt[c].wait, reply |-> attempt[c].reply]
  <2>1. seen \in [Call -> Seq(W)] /\ w \in W
    BY <1>3 DEF TypeInv, GatewayTypeOK
  <2>2. seen' = [seen EXCEPT ![c] = Append(@, w)]
    BY DEF leave
  <2> HIDE DEF W, w
  <2>3. Append(seen[c], w) \in Seq(W)
    BY <2>1
  <2>4. seen' \in [Call -> Seq(W)]
    BY <2>1, <2>2, <2>3
  <2> QED BY <2>4 DEF W
<1>5. spend' \in [Call -> Seq(Slot)]
  BY DEF TypeInv, GatewayTypeOK, leave
<1> QED BY <1>1, <1>4, <1>5 DEF TypeInv, GatewayTypeOK, leave

(* What starting an attempt does to the types.                             *)
LEMMA AttemptType ==
    ASSUME TypeInv, NEW c \in Call, NEW slot \in Slot, NEW a \in Args,
           NEW e \in RoutingEntry, attempt_call(c, slot, a, e)
    PROVE  /\ pc' \in [Call -> {"idle", "done"} \cup Slot]
           /\ attempt' \in [Call -> [wait : {"none", "pending", "expired", "abandoned"},
                                     reply : Unwinding \cup {None},
                                     age : Nat]]
           /\ tagged' \in [Call -> SUBSET TagList]
           /\ sent' \in [Call -> Seq([model : Model,
                                      temperature : Override \cup 0 .. MaxTemperature,
                                      num_retries : 0 .. MaxRetries])]
<1>1. pc' \in [Call -> {"idle", "done"} \cup Slot]
  BY DEF TypeInv, GatewayTypeOK, attempt_call
<1>2. attempt' \in [Call -> [wait : {"none", "pending", "expired", "abandoned"},
                             reply : Unwinding \cup {None},
                             age : Nat]]
  BY DEF TypeInv, GatewayTypeOK, attempt_call, Waiting
<1>3. tagged' \in [Call -> SUBSET TagList]
  BY DEF TypeInv, GatewayTypeOK, attempt_call, tag_list, TagList
<1>4. sent' \in [Call -> Seq([model : Model,
                              temperature : Override \cup 0 .. MaxTemperature,
                              num_retries : 0 .. MaxRetries])]
  <2> DEFINE R == [model : Model, temperature : Override \cup 0 .. MaxTemperature,
                   num_retries : 0 .. MaxRetries]
             r == [model |-> e[slot], temperature |-> effective_temperature(a, e),
                   num_retries |-> e.max_retries]
  <2>1. sent \in [Call -> Seq(R)] /\ r \in R
    BY RequestType DEF TypeInv, GatewayTypeOK
  <2>2. sent' = [sent EXCEPT ![c] = Append(@, r)]
    BY DEF attempt_call
  <2> HIDE DEF R, r
  <2>3. sent' \in [Call -> Seq(R)]
    BY <2>1, <2>2
  <2> QED BY <2>3 DEF R
<1> QED BY <1>1, <1>2, <1>3, <1>4

(* What ending a call does to the types.                                   *)
LEMMA FinishType ==
    ASSUME TypeInv, NEW c \in Call, NEW v \in Verdict, finish(c, v)
    PROVE  /\ pc' \in [Call -> {"idle", "done"} \cup Slot]
           /\ attempt' \in [Call -> [wait : {"none", "pending", "expired", "abandoned"},
                                     reply : Unwinding \cup {None},
                                     age : Nat]]
           /\ verdict' \in [Call -> Verdict \cup {None}]
BY DEF TypeInv, GatewayTypeOK, finish, NoAttempt

LEMMA OutcomeType ==
    ASSUME NEW kind \in VerdictKind, NEW slot, NEW error \in Result \cup {None}
    PROVE  Outcome(kind, slot, error) \in Verdict
<1>1. (slot = "fallback") \in BOOLEAN
  OBVIOUS
<1> QED BY <1>1 DEF Outcome, Verdict

(* Steps of the event loop, the vendor and the caller that only move the   *)
(* wait_for along.                                                         *)
WaitStep(c) ==
    \/ acompletion_ends(c)
    \/ deadline(c)
    \/ unwind(c)
    \/ cancel_pending(c)
    \/ tick(c)

LEMMA WaitStepFrame ==
    ASSUME NEW c \in Call, WaitStep(c)
    PROVE  UNCHANGED <<startup_vars, pc, args, entry, primary_error, tagged, sent, seen,
                       spend, traces, verdict>>
<1>1. CASE acompletion_ends(c)
  BY <1>1 DEF acompletion_ends, UnchangedByWait
<1>2. CASE deadline(c)
  BY <1>2 DEF deadline, UnchangedByWait
<1>3. CASE unwind(c)
  BY <1>3 DEF unwind, UnchangedByWait
<1>4. CASE cancel_pending(c)
  BY <1>4 DEF cancel_pending, UnchangedByWait
<1>5. CASE tick(c)
  BY <1>5 DEF tick
<1> QED BY <1>1, <1>2, <1>3, <1>4, <1>5 DEF WaitStep

LEMMA WaitStepType ==
    ASSUME TypeInv, NEW c \in Call, WaitStep(c)
    PROVE  TypeInv'
<1>1. attempt[c] \in [wait : {"none", "pending", "expired", "abandoned"},
                      reply : Unwinding \cup {None}, age : Nat]
  BY DEF TypeInv, GatewayTypeOK
<1>2. /\ UNCHANGED <<startup_vars, pc, args, entry, primary_error, tagged, sent, seen,
                     spend, traces, verdict>>
      /\ elapsed' \in [Call -> Nat]
  <2>1. UNCHANGED <<startup_vars, pc, args, entry, primary_error, tagged, sent, seen,
                    spend, traces, verdict>>
    BY WaitStepFrame
  <2>2. UNCHANGED elapsed \/ elapsed' = [elapsed EXCEPT ![c] = @ + 1]
    BY DEF WaitStep, acompletion_ends, deadline, unwind, cancel_pending, tick,
           UnchangedByWait
  <2>3. elapsed \in [Call -> Nat]
    BY DEF TypeInv, GatewayTypeOK
  <2>4. elapsed' \in [Call -> Nat]
    BY <2>2, <2>3
  <2> QED BY <2>1, <2>4
<1>3. /\ \E w \in [wait : {"pending", "expired", "abandoned"},
                   reply : Unwinding \cup {None}, age : Nat] :
            attempt' = [attempt EXCEPT ![c] = w]
      /\ attempt[c].wait # "none"
  <2>1. CASE acompletion_ends(c)
    <3>1. PICK reply \in Reply : attempt' = [attempt EXCEPT ![c].reply = reply]
      BY <2>1 DEF acompletion_ends
    <3>2. [attempt[c] EXCEPT !.reply = reply]
            \in [wait : {"pending", "expired", "abandoned"},
                 reply : Unwinding \cup {None}, age : Nat]
      BY <1>1, <2>1 DEF acompletion_ends, Unwinding
    <3> QED BY <2>1, <3>1, <3>2 DEF acompletion_ends
  <2>2. CASE deadline(c)
    BY <2>2 DEF deadline, Waiting
  <2>3. CASE unwind(c)
    <3>1. PICK reply \in Unwinding : attempt' = [attempt EXCEPT ![c].reply = reply]
      BY <2>3 DEF unwind
    <3>2. [attempt[c] EXCEPT !.reply = reply]
            \in [wait : {"pending", "expired", "abandoned"},
                 reply : Unwinding \cup {None}, age : Nat]
      BY <1>1, <2>3 DEF unwind
    <3> QED BY <2>3, <3>1, <3>2 DEF unwind
  <2>4. CASE cancel_pending(c)
    BY <2>4 DEF cancel_pending, Waiting
  <2>5. CASE tick(c)
    <3>1. [attempt[c] EXCEPT !.age = @ + 1]
            \in [wait : {"pending", "expired", "abandoned"},
                 reply : Unwinding \cup {None}, age : Nat]
      BY <1>1, <2>5 DEF tick
    <3> QED BY <2>5, <3>1 DEF tick
  <2> QED BY <2>1, <2>2, <2>3, <2>4, <2>5 DEF WaitStep
<1>4. GatewayTypeOK'
  <2>1. attempt' \in [Call -> [wait : {"none", "pending", "expired", "abandoned"},
                               reply : Unwinding \cup {None},
                               age : Nat]]
    BY <1>3 DEF TypeInv, GatewayTypeOK
  <2> QED BY <1>2, <2>1 DEF TypeInv, GatewayTypeOK
<1>5. StartupInv'
  BY <1>2, StartupStutterInv DEF TypeInv
<1>6. ASSUME NEW d \in Call PROVE Engaged(d)'
  BY <1>2, <1>3, <1>6 DEF TypeInv, GatewayTypeOK, Engaged
<1> QED BY <1>4, <1>5, <1>6 DEF TypeInv

LEMMA TypeStep == TypeInv /\ [Next]_vars => TypeInv'
<1> SUFFICES ASSUME TypeInv, [Next]_vars PROVE TypeInv'
  OBVIOUS
<1> USE DEF Slot
<1>1. ASSUME NEW t \in Thread, StartupStep(t), UNCHANGED call_vars PROVE TypeInv'
  <2>1. StartupInv'
    BY <1>1, StartupStepInv DEF TypeInv
  <2> QED BY <1>1, <2>1 DEF TypeInv, GatewayTypeOK, Engaged, call_vars
<1>2. ASSUME NEW c \in Call, refuse(c) PROVE TypeInv'
  <2>1. PICK a \in Args : /\ Refusal(a) # None
                          /\ args' = [args EXCEPT ![c] = a]
                          /\ finish(c, Outcome(Refusal(a), "none", None))
    BY <1>2 DEF refuse
  <2>2. Outcome(Refusal(a), "none", None) \in Verdict
    <3>1. Refusal(a) \in VerdictKind
      BY <2>1 DEF Refusal, VerdictKind
    <3> QED BY <3>1, OutcomeType
  <2>3. GatewayTypeOK'
    <3>1. args' \in [Call -> Args \cup {None}]
      BY <2>1 DEF TypeInv, GatewayTypeOK
    <3> QED BY <1>2, <2>1, <2>2, <3>1, FinishType DEF TypeInv, GatewayTypeOK, refuse
  <2>4. StartupInv'
    BY <1>2, StartupStutterInv DEF TypeInv, refuse
  <2>5. ASSUME NEW d \in Call PROVE Engaged(d)'
    BY <1>2, <2>1, <2>5 DEF TypeInv, GatewayTypeOK, Engaged, refuse, finish, NoAttempt
  <2> QED BY <2>3, <2>4, <2>5 DEF TypeInv
<1>3. ASSUME NEW c \in Call, begin(c) PROVE TypeInv'
  <2>1. PICK a \in Args :
          /\ Refusal(a) = None
          /\ args' = [args EXCEPT ![c] = a]
          /\ entry' = [entry EXCEPT ![c] = routing_table[a.purpose]]
          /\ attempt_call(c, "primary", a, routing_table[a.purpose])
    BY <1>3 DEF begin
  <2>2. routing_table[a.purpose] \in RoutingEntry
    BY <2>1, AcceptedFindsRow DEF TypeInv
  <2>3. GatewayTypeOK'
    BY <1>3, <2>1, <2>2, AttemptType DEF TypeInv, GatewayTypeOK, RowOrNone, begin
  <2>4. StartupInv'
    BY <1>3, StartupStutterInv DEF TypeInv, begin
  <2>5. ASSUME NEW d \in Call PROVE Engaged(d)'
    BY <2>1, <2>2, <2>5 DEF TypeInv, GatewayTypeOK, Engaged, attempt_call, Waiting
  <2> QED BY <2>3, <2>4, <2>5 DEF TypeInv
<1>4. ASSUME NEW c \in Call, succeed(c) \/ reraise(c) \/ give_up(c) PROVE TypeInv'
  <2>1. PICK r \in Result, v \in Verdict : leave(c, r) /\ finish(c, v)
    <3>1. CASE succeed(c)
      <4>1. Outcome("LLMResponse", pc[c], None) \in Verdict
        BY OutcomeType DEF VerdictKind
      <4>2. "LLMResponse" \in Result
        BY DEF Result
      <4>3. leave(c, "LLMResponse") /\ finish(c, Outcome("LLMResponse", pc[c], None))
        BY <3>1 DEF succeed
      <4> QED BY <4>1, <4>2, <4>3
    <3>2. CASE reraise(c)
      <4>1. PICK r \in Result : /\ reraised(r) /\ leave(c, r)
                                /\ finish(c, Outcome(r, "none", None))
        BY <3>2 DEF reraise
      <4>2. Outcome(r, "none", None) \in Verdict
        <5>1. r \in VerdictKind
          BY <4>1 DEF reraised, VerdictKind
        <5> QED BY <5>1, OutcomeType
      <4> QED BY <4>1, <4>2
    <3>3. CASE give_up(c)
      <4>1. PICK r \in Result : leave(c, r)
        BY <3>3 DEF give_up
      <4>2. primary_error[c] \in Result \cup {None}
        BY DEF TypeInv, GatewayTypeOK
      <4>3. Outcome("LLMAllModelsFailedError", "none", primary_error[c]) \in Verdict
        BY <4>2, OutcomeType DEF VerdictKind
      <4>4. finish(c, Outcome("LLMAllModelsFailedError", "none", primary_error[c]))
        BY <3>3 DEF give_up
      <4> QED BY <4>1, <4>3, <4>4
    <3> QED BY <1>4, <3>1, <3>2, <3>3
  <2>2. UNCHANGED <<primary_error, tagged, sent>>
    BY <1>4 DEF succeed, reraise, give_up
  <2>3. GatewayTypeOK'
    BY <2>1, <2>2, LeaveType, FinishType DEF TypeInv, GatewayTypeOK
  <2>4. ASSUME NEW d \in Call PROVE Engaged(d)'
    BY <2>1, <2>4 DEF TypeInv, GatewayTypeOK, Engaged, leave, finish, NoAttempt
  <2> QED BY <2>1, <2>3, <2>4, LeaveType DEF TypeInv
<1>5. ASSUME NEW c \in Call, fall_back(c) PROVE TypeInv'
  <2>1. PICK r \in Result : leave(c, r) /\ primary_error' = [primary_error EXCEPT ![c] = r]
    BY <1>5 DEF fall_back
  <2>2. args[c] \in Args /\ entry[c] \in RoutingEntry
    BY <1>5 DEF TypeInv, Engaged, fall_back
  <2>3. attempt_call(c, "fallback", args[c], entry[c]) /\ UNCHANGED verdict
    BY <1>5 DEF fall_back, fallback_entry
  <2>4. GatewayTypeOK'
    BY <2>1, <2>2, <2>3, LeaveType, AttemptType DEF TypeInv, GatewayTypeOK
  <2>5. ASSUME NEW d \in Call PROVE Engaged(d)'
    BY <2>1, <2>2, <2>3, <2>5
       DEF TypeInv, GatewayTypeOK, Engaged, leave, attempt_call, Waiting
  <2> QED BY <2>1, <2>4, <2>5, LeaveType DEF TypeInv
<1>6. ASSUME NEW c \in Call, cancel_unwinding(c) PROVE TypeInv'
  <2> DEFINE W == [wait : {"pending", "expired", "abandoned"},
                   reply : Unwinding \cup {None}]
             w == [wait |-> "abandoned", reply |-> attempt[c].reply]
             v == Outcome("CancelledError", "none", None)
  <2>1. seen \in [Call -> Seq(W)] /\ w \in W
    BY DEF TypeInv, GatewayTypeOK
  <2>2. seen' = [seen EXCEPT ![c] = Append(@, w)]
    BY <1>6 DEF cancel_unwinding
  <2>3. v \in Verdict /\ finish(c, v)
    BY <1>6, OutcomeType DEF cancel_unwinding, VerdictKind
  <2>4. UNCHANGED <<startup_vars, args, entry, primary_error, tagged, elapsed, sent,
                    spend, traces>>
    BY <1>6 DEF cancel_unwinding, UnchangedByWait
  <2> HIDE DEF W, w, v
  <2>5. seen' \in [Call -> Seq(W)]
    BY <2>1, <2>2
  <2>6. GatewayTypeOK'
    BY <2>3, <2>4, <2>5, FinishType DEF TypeInv, GatewayTypeOK, W
  <2>7. ASSUME NEW d \in Call PROVE Engaged(d)'
    BY <2>3, <2>4, <2>7 DEF TypeInv, GatewayTypeOK, Engaged, finish, NoAttempt
  <2> QED BY <2>4, <2>6, <2>7, StartupStutterInv DEF TypeInv
<1>7. ASSUME NEW c \in Call, NEW slot \in Slot, report(c, slot) PROVE TypeInv'
  <2>1. [slot |-> slot, fallback |-> tag_list(slot) \in tagged[c]]
          \in [slot : Slot, fallback : BOOLEAN]
    <3>1. (tag_list(slot) \in tagged[c]) \in BOOLEAN
      OBVIOUS
    <3> QED BY <3>1
  <2>2. traces' \in [Call -> SUBSET [slot : Slot, fallback : BOOLEAN]]
    BY <1>7, <2>1 DEF TypeInv, GatewayTypeOK, report
  <2> QED BY <1>7, <2>2, StartupStutterInv DEF TypeInv, GatewayTypeOK, Engaged, report
<1>8. ASSUME UNCHANGED vars PROVE TypeInv'
  BY <1>8, StartupStutterInv
     DEF TypeInv, GatewayTypeOK, Engaged, vars, call_vars
<1> QED BY <1>1, <1>2, <1>3, <1>4, <1>5, <1>6, <1>7, <1>8, WaitStepType
        DEF Next, CallStep, Resume, WaitStep

(* Every variable of the gateway keeps its type, and every request carries *)
(* a model, a temperature and a retry count within the configured bounds.  *)
THEOREM GatewayTypes == SafeSpec => [](StartupTypeOK /\ GatewayTypeOK)
<1>1. TypeInv => StartupTypeOK /\ GatewayTypeOK
  BY DEF TypeInv, StartupInv
<1> QED BY <1>1, TypeInit, TypeStep, PTL DEF SafeSpec

-----------------------------------------------------------------------------
(* What a step does to each call, one value at a time.                     *)

LEMMA Domains ==
    ASSUME TypeInv
    PROVE  /\ DOMAIN pc = Call /\ DOMAIN args = Call /\ DOMAIN entry = Call
           /\ DOMAIN attempt = Call /\ DOMAIN primary_error = Call
           /\ DOMAIN tagged = Call /\ DOMAIN elapsed = Call /\ DOMAIN sent = Call
           /\ DOMAIN seen = Call /\ DOMAIN spend = Call /\ DOMAIN traces = Call
           /\ DOMAIN verdict = Call
BY DEF TypeInv, GatewayTypeOK

Same(d) ==
    /\ pc'[d] = pc[d] /\ args'[d] = args[d] /\ entry'[d] = entry[d]
    /\ attempt'[d] = attempt[d] /\ primary_error'[d] = primary_error[d]
    /\ tagged'[d] = tagged[d] /\ elapsed'[d] = elapsed[d] /\ sent'[d] = sent[d]
    /\ seen'[d] = seen[d] /\ spend'[d] = spend[d] /\ traces'[d] = traces[d]
    /\ verdict'[d] = verdict[d]

(* A step of one call leaves every other call alone.                       *)
LEMMA OtherCalls ==
    ASSUME TypeInv, NEW c \in Call, CallStep(c), NEW d \in Call, d # c
    PROVE  Same(d)
<1> USE Domains DEF Same
<1>1. CASE refuse(c)
  BY <1>1 DEF refuse, finish
<1>2. CASE begin(c)
  BY <1>2 DEF begin, attempt_call
<1>3. CASE succeed(c)
  BY <1>3 DEF succeed, leave, finish
<1>4. CASE reraise(c)
  BY <1>4 DEF reraise, leave, finish
<1>5. CASE fall_back(c)
  BY <1>5 DEF fall_back, leave, attempt_call
<1>6. CASE give_up(c)
  BY <1>6 DEF give_up, leave, finish
<1>7. CASE acompletion_ends(c)
  BY <1>7 DEF acompletion_ends, UnchangedByWait
<1>8. CASE deadline(c)
  BY <1>8 DEF deadline, UnchangedByWait
<1>9. CASE unwind(c)
  BY <1>9 DEF unwind, UnchangedByWait
<1>10. CASE cancel_pending(c)
  BY <1>10 DEF cancel_pending, UnchangedByWait
<1>11. CASE cancel_unwinding(c)
  BY <1>11 DEF cancel_unwinding, UnchangedByWait, finish
<1>12. CASE tick(c)
  BY <1>12 DEF tick
<1>13. ASSUME NEW slot \in Slot, report(c, slot) PROVE Same(d)
  BY <1>13 DEF report
<1> QED BY <1>1, <1>2, <1>3, <1>4, <1>5, <1>6, <1>7, <1>8, <1>9, <1>10, <1>11,
           <1>12, <1>13 DEF CallStep, Resume

LEMMA BeginEffect ==
    ASSUME TypeInv, NEW c \in Call, begin(c)
    PROVE  /\ pc[c] = "idle" /\ pc'[c] = "primary" /\ attempt'[c] = Waiting
           /\ \E a \in Args : /\ Refusal(a) = None
                              /\ args'[c] = a
                              /\ entry'[c] = routing_table[a.purpose]
           /\ sent'[c] = Append(sent[c],
                  [model |-> entry'[c]["primary"],
                   temperature |-> effective_temperature(args'[c], entry'[c]),
                   num_retries |-> entry'[c].max_retries])
           /\ primary_error'[c] = primary_error[c] /\ tagged'[c] = tagged[c]
           /\ elapsed'[c] = elapsed[c] /\ seen'[c] = seen[c] /\ spend'[c] = spend[c]
           /\ traces'[c] = traces[c] /\ verdict'[c] = verdict[c]
BY Domains DEF begin, attempt_call

LEMMA RefuseEffect ==
    ASSUME TypeInv, NEW c \in Call, refuse(c)
    PROVE  /\ pc[c] = "idle" /\ pc'[c] = "done" /\ attempt'[c] = NoAttempt
           /\ \E a \in Args : /\ Refusal(a) # None
                              /\ verdict'[c] = Outcome(Refusal(a), "none", None)
           /\ entry'[c] = entry[c] /\ primary_error'[c] = primary_error[c]
           /\ tagged'[c] = tagged[c] /\ elapsed'[c] = elapsed[c]
           /\ sent'[c] = sent[c] /\ seen'[c] = seen[c] /\ spend'[c] = spend[c]
           /\ traces'[c] = traces[c]
BY Domains DEF refuse, finish

LEMMA LeaveEffect ==
    ASSUME TypeInv, NEW c \in Call, NEW r, leave(c, r)
    PROVE  /\ pc[c] \in Slot /\ attempt[c].reply # None
           /\ r = result(attempt[c].wait, attempt[c].reply)
           /\ seen'[c] = Append(seen[c],
                           [wait |-> attempt[c].wait, reply |-> attempt[c].reply])
           /\ spend'[c] = IF logs_success(attempt[c].wait, attempt[c].reply)
                          THEN Append(spend[c], pc[c]) ELSE spend[c]
           /\ args'[c] = args[c] /\ entry'[c] = entry[c]
           /\ elapsed'[c] = elapsed[c] /\ traces'[c] = traces[c]
BY Domains DEF leave

(* The three ways a call ends by itself: an answer, an exception both      *)
(* handlers let through, and an outage.                                    *)
EndsAs(c, r, v) ==
    \/ r = "LLMResponse" /\ v = Outcome("LLMResponse", pc[c], None)
    \/ reraised(r) /\ v = Outcome(r, "none", None)
    \/ /\ pc[c] = "fallback" /\ failed(r)
       /\ v = Outcome("LLMAllModelsFailedError", "none", primary_error[c])

LEMMA EndEffect ==
    ASSUME TypeInv, NEW c \in Call, succeed(c) \/ reraise(c) \/ give_up(c)
    PROVE  /\ \E r \in Result : leave(c, r) /\ EndsAs(c, r, verdict'[c])
           /\ pc'[c] = "done" /\ attempt'[c] = NoAttempt
           /\ primary_error'[c] = primary_error[c] /\ tagged'[c] = tagged[c]
           /\ sent'[c] = sent[c]
<1>1. CASE succeed(c)
  BY <1>1, Domains DEF succeed, finish, EndsAs, Result
<1>2. CASE reraise(c)
  BY <1>2, Domains DEF reraise, finish, EndsAs
<1>3. CASE give_up(c)
  BY <1>3, Domains DEF give_up, finish, EndsAs
<1> QED BY <1>1, <1>2, <1>3

LEMMA FallBackEffect ==
    ASSUME TypeInv, NEW c \in Call, fall_back(c)
    PROVE  /\ pc[c] = "primary" /\ pc'[c] = "fallback" /\ attempt'[c] = Waiting
           /\ \E r \in Result : failed(r) /\ leave(c, r) /\ primary_error'[c] = r
           /\ tagged'[c] = tagged[c] \cup {"fallback"}
           /\ sent'[c] = Append(sent[c],
                  [model |-> entry[c]["fallback"],
                   temperature |-> effective_temperature(args[c], entry[c]),
                   num_retries |-> entry[c].max_retries])
           /\ verdict'[c] = verdict[c]
BY Domains DEF fall_back, attempt_call, fallback_entry, tag_list

LEMMA CancelUnwindingEffect ==
    ASSUME TypeInv, NEW c \in Call, cancel_unwinding(c)
    PROVE  /\ pc[c] \in Slot /\ attempt[c].wait \in {"expired", "abandoned"}
           /\ pc'[c] = "done" /\ attempt'[c] = NoAttempt
           /\ seen'[c] = Append(seen[c],
                           [wait |-> "abandoned", reply |-> attempt[c].reply])
           /\ verdict'[c] = Outcome("CancelledError", "none", None)
           /\ args'[c] = args[c] /\ entry'[c] = entry[c]
           /\ primary_error'[c] = primary_error[c] /\ tagged'[c] = tagged[c]
           /\ elapsed'[c] = elapsed[c] /\ sent'[c] = sent[c] /\ spend'[c] = spend[c]
           /\ traces'[c] = traces[c]
<1>1. pc[c] \in Slot
  BY DEF TypeInv, Engaged, cancel_unwinding
<1> QED BY <1>1, Domains DEF cancel_unwinding, UnchangedByWait, finish

LEMMA WaitEffect ==
    ASSUME TypeInv, NEW c \in Call, WaitStep(c)
    PROVE  /\ pc[c] \in Slot
           /\ pc'[c] = pc[c] /\ args'[c] = args[c] /\ entry'[c] = entry[c]
           /\ primary_error'[c] = primary_error[c] /\ tagged'[c] = tagged[c]
           /\ sent'[c] = sent[c] /\ seen'[c] = seen[c] /\ spend'[c] = spend[c]
           /\ traces'[c] = traces[c] /\ verdict'[c] = verdict[c]
<1>1. attempt[c].wait # "none"
  BY DEF WaitStep, acompletion_ends, deadline, unwind, cancel_pending, tick
<1>2. pc[c] \in Slot
  BY <1>1 DEF TypeInv, Engaged
<1> QED BY <1>2, WaitStepFrame

LEMMA ReportEffect ==
    ASSUME TypeInv, NEW c \in Call, NEW slot \in Slot, report(c, slot)
    PROVE  /\ Len(seen[c]) >= (IF slot = "primary" THEN 1 ELSE 2)
           /\ traces'[c] = traces[c] \cup
                             {[slot |-> slot, fallback |-> slot \in tagged[c]]}
           /\ pc'[c] = pc[c] /\ args'[c] = args[c] /\ entry'[c] = entry[c]
           /\ attempt'[c] = attempt[c] /\ primary_error'[c] = primary_error[c]
           /\ tagged'[c] = tagged[c] /\ elapsed'[c] = elapsed[c]
           /\ sent'[c] = sent[c] /\ seen'[c] = seen[c] /\ spend'[c] = spend[c]
           /\ verdict'[c] = verdict[c]
BY Domains DEF report, tag_list

(* A step of Next, seen from one call: nothing, or a step of its own.      *)
LEMMA StepsOfCall ==
    ASSUME TypeInv, [Next]_vars, NEW d \in Call
    PROVE  \/ Same(d)
           \/ refuse(d)
           \/ begin(d)
           \/ succeed(d) \/ reraise(d) \/ give_up(d)
           \/ fall_back(d)
           \/ cancel_unwinding(d)
           \/ WaitStep(d)
           \/ \E slot \in Slot : report(d, slot)
<1>1. CASE UNCHANGED call_vars
  BY <1>1 DEF call_vars, Same
<1>2. ASSUME NEW c \in Call, CallStep(c), c # d PROVE Same(d)
  BY <1>2, OtherCalls
<1>3. CASE CallStep(d)
  BY <1>3 DEF CallStep, Resume, WaitStep
<1> QED BY <1>1, <1>2, <1>3 DEF Next, vars

(* A reply or a tick leaves the other fields of the wait_for alone.        *)
LEMMA AttemptFields ==
    ASSUME TypeInv, NEW c \in Call, NEW x
    PROVE  /\ [attempt EXCEPT ![c].reply = x][c].wait = attempt[c].wait
           /\ [attempt EXCEPT ![c].reply = x][c].age = attempt[c].age
           /\ [attempt EXCEPT ![c].age = x][c].wait = attempt[c].wait
           /\ [attempt EXCEPT ![c].age = x][c].age = x
BY DEF TypeInv, GatewayTypeOK

-----------------------------------------------------------------------------
(* The clock.  What a call has used is bounded by what its wait_for may    *)
(* still be charged for: the budget of the row, then the unwinding.        *)

Used(c) == IF attempt[c].wait = "pending" THEN attempt[c].age
           ELSE entry[c].timeout_ms + attempt[c].age

Allowed(c) == IF attempt[c].wait = "pending" THEN entry[c].timeout_ms ELSE CancelLag

Budget(c) ==
    /\ pc[c] = "idle" => elapsed[c] = 0
    /\ pc[c] \in Slot => attempt[c].age <= Allowed(c)
    /\ pc[c] = "primary" => elapsed[c] <= Used(c)
    /\ pc[c] = "fallback" =>
           elapsed[c] <= entry[c].timeout_ms + CancelLag + Used(c)
    /\ pc[c] = "done" /\ entry[c] # None =>
           elapsed[c] <= 2 * (entry[c].timeout_ms + CancelLag)

BudgetInv == \A c \in Call : Budget(c)

LEMMA BudgetTypes ==
    ASSUME TypeInv, NEW c \in Call
    PROVE  /\ elapsed[c] \in Nat /\ attempt[c].age \in Nat /\ CancelLag \in Nat
           /\ pc[c] \in {"idle", "done"} \cup Slot
           /\ pc[c] \in Slot => entry[c].timeout_ms \in Nat
           /\ entry[c] # None => entry[c].timeout_ms \in Nat
           /\ attempt[c].wait \in {"none", "pending", "expired", "abandoned"}
           /\ pc[c] \in Slot <=> attempt[c].wait # "none"
<1>1. \A e \in RoutingEntry : e.timeout_ms \in Nat
  BY RoutingAssumption DEF RoutingEntry
<1>2. /\ elapsed[c] \in Nat /\ pc[c] \in {"idle", "done"} \cup Slot
      /\ entry[c] \in RoutingEntry \cup {None}
  BY DEF TypeInv, GatewayTypeOK, RowOrNone
<1>3. attempt[c].age \in Nat
      /\ attempt[c].wait \in {"none", "pending", "expired", "abandoned"}
  BY DEF TypeInv, GatewayTypeOK
<1>4. /\ pc[c] \in Slot => entry[c] \in RoutingEntry
      /\ pc[c] \in Slot <=> attempt[c].wait # "none"
  BY DEF TypeInv, Engaged
<1> QED BY <1>1, <1>2, <1>3, <1>4, GatewayAssumption

(* An attempt that is left has used at most a budget and an unwinding.     *)
LEMMA UsedIsBounded ==
    ASSUME TypeInv, NEW c \in Call, Budget(c), pc[c] \in Slot
    PROVE  Used(c) <= entry[c].timeout_ms + CancelLag
BY BudgetTypes DEF Budget, Used, Allowed

LEMMA BudgetDone ==
    ASSUME TypeInv, NEW c \in Call, Budget(c), pc[c] \in Slot,
           pc'[c] = "done", elapsed'[c] = elapsed[c], entry'[c] = entry[c]
    PROVE  Budget(c)'
<1>1. elapsed[c] <= 2 * (entry[c].timeout_ms + CancelLag)
  BY UsedIsBounded, BudgetTypes DEF Budget, Slot, Used
<1> QED BY <1>1 DEF Budget, Slot

LEMMA BudgetStep == TypeInv /\ BudgetInv /\ [Next]_vars => BudgetInv'
<1> SUFFICES ASSUME TypeInv, BudgetInv, [Next]_vars, NEW d \in Call
             PROVE  Budget(d)'
  BY DEF BudgetInv
<1> USE DEF Slot
<1>1. Budget(d)
  BY DEF BudgetInv
<1>2. CASE Same(d)
  BY <1>1, <1>2 DEF Same, Budget, Used, Allowed
<1>3. CASE refuse(d)
  <2>1. elapsed'[d] = 0 /\ pc'[d] = "done"
    BY <1>1, <1>3, RefuseEffect DEF Budget
  <2>2. entry'[d] = entry[d]
    BY <1>3, RefuseEffect
  <2> QED BY <2>1, <2>2, BudgetTypes DEF Budget
<1>4. CASE begin(d)
  <2>1. elapsed'[d] = 0 /\ pc'[d] = "primary" /\ attempt'[d] = Waiting
    BY <1>1, <1>4, BeginEffect DEF Budget
  <2>2. entry'[d].timeout_ms \in Nat
    <3>1. entry'[d] \in RoutingEntry
      BY <1>4, BeginEffect, AcceptedFindsRow DEF TypeInv
    <3> QED BY <3>1, RoutingAssumption DEF RoutingEntry
  <2> QED BY <2>1, <2>2 DEF Budget, Used, Allowed, Waiting
<1>5. CASE succeed(d) \/ reraise(d) \/ give_up(d)
  <2>1. PICK r : leave(d, r) /\ pc'[d] = "done"
    BY <1>5, EndEffect
  <2> QED BY <1>1, <2>1, LeaveEffect, BudgetDone
<1>6. CASE fall_back(d)
  <2>1. PICK r \in Result : leave(d, r)
    BY <1>6, FallBackEffect
  <2>2. /\ pc[d] = "primary" /\ pc'[d] = "fallback" /\ attempt'[d] = Waiting
        /\ elapsed'[d] = elapsed[d] /\ entry'[d] = entry[d]
    BY <1>6, <2>1, FallBackEffect, LeaveEffect
  <2>3. elapsed[d] <= entry[d].timeout_ms + CancelLag
    BY <1>1, <2>2, UsedIsBounded, BudgetTypes DEF Budget, Used
  <2> QED BY <2>2, <2>3, BudgetTypes DEF Budget, Used, Allowed, Waiting
<1>7. CASE cancel_unwinding(d)
  BY <1>1, <1>7, CancelUnwindingEffect, BudgetDone
<1>8. CASE WaitStep(d)
  <2>1. /\ pc[d] \in Slot /\ pc'[d] = pc[d] /\ entry'[d] = entry[d]
    BY <1>8, WaitEffect
  <2>2. CASE acompletion_ends(d) \/ unwind(d)
    <3>1. /\ elapsed'[d] = elapsed[d]
          /\ attempt'[d].wait = attempt[d].wait /\ attempt'[d].age = attempt[d].age
      <4>1. elapsed' = elapsed
            /\ \E x : attempt' = [attempt EXCEPT ![d].reply = x]
        BY <2>2 DEF acompletion_ends, unwind, UnchangedByWait
      <4> QED BY <4>1, AttemptFields
    <3> QED BY <1>1, <2>1, <3>1 DEF Budget, Used, Allowed
  <2>3. CASE deadline(d) \/ cancel_pending(d)
    <3>1. /\ elapsed'[d] = elapsed[d] /\ attempt[d].wait = "pending"
          /\ attempt'[d].wait # "pending" /\ attempt'[d].age = 0
      BY <2>3, Domains DEF deadline, cancel_pending, UnchangedByWait, Waiting
    <3> QED BY <1>1, <2>1, <3>1, BudgetTypes DEF Budget, Used, Allowed
  <2>4. CASE tick(d)
    <3>1. /\ elapsed'[d] = elapsed[d] + 1
          /\ attempt'[d].wait = attempt[d].wait
          /\ attempt'[d].age = attempt[d].age + 1
          /\ attempt[d].age < Allowed(d)
      BY <2>4, Domains, AttemptFields DEF tick, timeout, Allowed
    <3> QED BY <1>1, <2>1, <3>1, BudgetTypes DEF Budget, Used, Allowed
  <2> QED BY <1>8, <2>2, <2>3, <2>4 DEF WaitStep
<1>9. CASE \E slot \in Slot : report(d, slot)
  BY <1>1, <1>9, ReportEffect DEF Budget, Used, Allowed
<1> QED BY <1>2, <1>3, <1>4, <1>5, <1>6, <1>7, <1>8, <1>9, StepsOfCall

(* However slow or silent the vendor, a call lasts at most one budget of   *)
(* its row per attempt plus the unwinding of two cancelled tasks: the      *)
(* bound asyncio.wait_for gives call_llm.                                  *)
THEOREM TwoBudgets == SafeSpec => []WithinTwoBudgets
<1>1. Init => BudgetInv
  BY DEF Init, BudgetInv, Budget, Slot
<1>2. TypeInv /\ BudgetInv => WithinTwoBudgets
  <2> SUFFICES ASSUME TypeInv, BudgetInv, NEW c \in Call, pc[c] # "idle",
                      entry[c] # None
               PROVE  elapsed[c] <= 2 * (entry[c].timeout_ms + CancelLag)
    BY DEF WithinTwoBudgets
  <2>1. Budget(c)
    BY DEF BudgetInv
  <2> QED BY <2>1, UsedIsBounded, BudgetTypes DEF Budget, Slot, Used
<1> QED BY <1>1, <1>2, TypeInit, TypeStep, BudgetStep, PTL DEF SafeSpec

-----------------------------------------------------------------------------
(* The requests.  A call sends the request of its row's primary, then that *)
(* of its fallback, and both models serve its purpose.                     *)

Request(c, slot) ==
    [model |-> entry[c][slot],
     temperature |-> effective_temperature(args[c], entry[c]),
     num_retries |-> entry[c].max_retries]

SlotOf(i) == IF i = 1 THEN "primary" ELSE "fallback"

Requested(c) ==
    /\ pc[c] = "idle" => Len(sent[c]) = 0
    /\ pc[c] = "primary" => Len(sent[c]) = 1
    /\ pc[c] = "fallback" => Len(sent[c]) = 2
    /\ Len(sent[c]) <= 2
    /\ \A i \in 1 .. Len(sent[c]) : sent[c][i] = Request(c, SlotOf(i))
    /\ Len(sent[c]) > 0 => /\ Serves(entry[c].primary, args[c].purpose)
                           /\ Serves(entry[c].fallback, args[c].purpose)

RequestInv == \A c \in Call : Requested(c)

(* A log of a call that grows by one entry.                                *)
LEMMA OneMore ==
    ASSUME NEW S, NEW s \in Seq(S), NEW x, NEW t, t = Append(s, x)
    PROVE  /\ Len(s) \in Nat
           /\ Len(t) = Len(s) + 1
           /\ \A i \in 1 .. Len(s) : t[i] = s[i]
           /\ t[Len(s) + 1] = x
OBVIOUS

LEMMA HistoryTypes ==
    ASSUME TypeInv, NEW c \in Call
    PROVE  /\ \E S : sent[c] \in Seq(S)
           /\ \E S : seen[c] \in Seq(S)
           /\ spend[c] \in Seq(Slot)
BY DEF TypeInv, GatewayTypeOK

LEMMA RequestStep == TypeInv /\ RequestInv /\ [Next]_vars => RequestInv'
<1> SUFFICES ASSUME TypeInv, RequestInv, [Next]_vars, NEW d \in Call
             PROVE  Requested(d)'
  BY DEF RequestInv
<1>1. Requested(d)
  BY DEF RequestInv
<1>2. ASSUME args'[d] = args[d], entry'[d] = entry[d], sent'[d] = sent[d],
             pc'[d] = pc[d] \/ pc'[d] = "done"
      PROVE  Requested(d)'
  BY <1>1, <1>2 DEF Requested, Request, effective_temperature
<1>3. CASE Same(d)
  BY <1>2, <1>3 DEF Same
<1>4. CASE refuse(d)
  <2>1. Len(sent'[d]) = 0 /\ pc'[d] = "done"
    BY <1>1, <1>4, RefuseEffect DEF Requested
  <2> QED BY <2>1 DEF Requested
<1>5. CASE begin(d)
  <2>1. PICK a \in Args : /\ Refusal(a) = None /\ args'[d] = a
                          /\ entry'[d] = routing_table[a.purpose]
    BY <1>5, BeginEffect
  <2>2. /\ Serves(entry'[d].primary, args'[d].purpose)
        /\ Serves(entry'[d].fallback, args'[d].purpose)
    BY <2>1, AcceptedFindsRow DEF TypeInv
  <2>3. Len(sent[d]) = 0 /\ sent'[d] = Append(sent[d], Request(d, "primary")')
    BY <1>1, <1>5, BeginEffect DEF Requested, Request, effective_temperature
  <2>4. Len(sent'[d]) = 1 /\ sent'[d][1] = Request(d, "primary")'
    BY <2>3, HistoryTypes, OneMore
  <2>5. pc'[d] = "primary"
    BY <1>5, BeginEffect
  <2> QED BY <2>2, <2>4, <2>5 DEF Requested, SlotOf
<1>6. CASE succeed(d) \/ reraise(d) \/ give_up(d)
  BY <1>2, <1>6, EndEffect, LeaveEffect
<1>7. CASE fall_back(d)
  <2>1. /\ Len(sent[d]) = 1
        /\ sent'[d] = Append(sent[d], Request(d, "fallback"))
        /\ pc'[d] = "fallback"
    BY <1>1, <1>7, FallBackEffect DEF Requested, Request
  <2>2. /\ Len(sent'[d]) = 2 /\ sent'[d][1] = sent[d][1]
        /\ sent'[d][2] = Request(d, "fallback")
    BY <2>1, HistoryTypes, OneMore
  <2>3. args'[d] = args[d] /\ entry'[d] = entry[d]
    BY <1>7, FallBackEffect, LeaveEffect
  <2>4. \A i \in 1 .. 2 : sent'[d][i] = Request(d, SlotOf(i))
    BY <1>1, <2>1, <2>2 DEF Requested, SlotOf
  <2>5. \A i \in 1 .. 2 : sent'[d][i] = Request(d, SlotOf(i))'
    BY <2>3, <2>4 DEF Request, effective_temperature
  <2> QED BY <1>1, <2>1, <2>2, <2>3, <2>5 DEF Requested
<1>8. CASE cancel_unwinding(d)
  BY <1>2, <1>8, CancelUnwindingEffect
<1>9. CASE WaitStep(d)
  BY <1>2, <1>9, WaitEffect
<1>10. CASE \E slot \in Slot : report(d, slot)
  BY <1>2, <1>10, ReportEffect
<1> QED BY <1>3, <1>4, <1>5, <1>6, <1>7, <1>8, <1>9, <1>10, StepsOfCall

LEMMA RequestInit == Init => RequestInv
BY DEF Init, RequestInv, Requested, Slot

(* For every table an operator may publish, at any time: a model is only   *)
(* asked for what it can do, ...                                           *)
THEOREM CapableRequests == SafeSpec => []RequestsAreCapable
<1>1. TypeInv /\ RequestInv => RequestsAreCapable
  <2> SUFFICES ASSUME TypeInv, RequestInv, NEW c \in Call, NEW i \in 1 .. Len(sent[c])
               PROVE  Serves(sent[c][i].model, args[c].purpose)
    BY DEF RequestsAreCapable
  <2>1. Requested(c)
    BY DEF RequestInv
  <2>2. sent[c][i] = Request(c, SlotOf(i))
    BY <2>1 DEF Requested
  <2>3. sent[c][i].model \in {entry[c].primary, entry[c].fallback}
    BY <2>2 DEF Request, SlotOf
  <2>4. Len(sent[c]) > 0
    BY HistoryTypes
  <2> QED BY <2>1, <2>3, <2>4 DEF Requested
<1> QED BY <1>1, TypeInit, TypeStep, RequestInit, RequestStep, PTL DEF SafeSpec

(* ... and both attempts of a call follow the row it began with and the    *)
(* temperature its caller passed.                                          *)
THEOREM OneRowPerCall == SafeSpec => []RequestsFollowOneRow
<1>1. RequestInv => RequestsFollowOneRow
  <2> SUFFICES ASSUME RequestInv, NEW c \in Call, NEW i \in 1 .. Len(sent[c])
               PROVE  /\ sent[c][i].model =
                           entry[c][IF i = 1 THEN "primary" ELSE "fallback"]
                      /\ sent[c][i].num_retries = entry[c].max_retries
                      /\ sent[c][i].temperature = IF args[c].temperature = None
                                                  THEN entry[c].temperature
                                                  ELSE args[c].temperature
    BY DEF RequestsFollowOneRow
  <2>1. Requested(c)
    BY DEF RequestInv
  <2>2. sent[c][i] = Request(c, SlotOf(i))
    BY <2>1 DEF Requested
  <2>3. sent[c][i].temperature = effective_temperature(args[c], entry[c])
    BY <2>2 DEF Request
  <2> QED BY <2>2, <2>3 DEF Request, SlotOf, effective_temperature
<1> QED BY <1>1, TypeInit, TypeStep, RequestInit, RequestStep, PTL DEF SafeSpec

-----------------------------------------------------------------------------
(* The verdict.  How an attempt is left decides what call_llm does next,   *)
(* and the history of a call says how far it is.                           *)

(* result(), read backwards.                                               *)
LEMMA ResultMeaning ==
    ASSUME NEW s, NEW r, r = result(s.wait, s.reply), s.reply \in Unwinding
    PROVE  /\ r = "CancelledError" <=> s.wait = "abandoned"
           /\ r = "LLMAuthenticationError" <=>
                  s.wait # "abandoned" /\ s.reply = "auth401"
           /\ r = "LLMResponse" <=> s.wait # "abandoned" /\ s.reply = "answer"
           /\ failed(r) <=> FailedAttempt(s)
           /\ failed(r) => r = Cause(s)
BY DEF result, Unwinding, Reply, failed, reraised, FailedAttempt, Cause

History(c) ==
    /\ pc[c] \in {"idle", "primary"} => Len(seen[c]) = 0
    /\ pc[c] = "fallback" => /\ Len(seen[c]) = 1
                             /\ FailedAttempt(seen[c][1])
                             /\ primary_error[c] = Cause(seen[c][1])
    /\ Len(sent[c]) = 2 => Len(seen[c]) >= 1 /\ FailedAttempt(seen[c][1])
    /\ pc[c] = "done" =>
           IF Len(sent[c]) = 0 THEN Len(seen[c]) = 0
           ELSE /\ Len(seen[c]) = Len(sent[c])
                /\ Concluded(verdict[c], Len(seen[c]), seen[c][1],
                             seen[c][Len(seen[c])])
    /\ verdict[c] # None =>
           verdict[c].kind \notin {"RoutingConfigError", "KeyError"}

HistoryInv == \A c \in Call : History(c)

(* A call past the flag is refused for its images or not at all.           *)
LEMMA RefusalKinds ==
    ASSUME StartupInv, NEW a \in Args, Refusal(a) # None
    PROVE  Refusal(a) \in {"LLMNotInitializedError", "LLMFeatureNotImplementedError"}
<1>1. CASE ~initialized
  BY <1>1, Zenon DEF Refusal
<1>2. CASE initialized /\ a.images
  BY <1>2, Zenon DEF Refusal
<1>3. CASE initialized /\ ~a.images
  <2>1. ValidTable(routing_table)
    BY <1>3 DEF StartupInv, InitializedMeansReady
  <2>2. routing_table # None /\ a.purpose \in DOMAIN routing_table
    BY <2>1, ValidTableIsSome DEF Args, Tables
  <2>3. Refusal(a) = None
    BY <1>3, <2>2, Zenon DEF Refusal
  <2> QED BY <2>3
<1> QED BY <1>1, <1>2, <1>3

(* The entry a call's history gets when its wait_for is left.              *)
Left(c) == [wait |-> attempt[c].wait, reply |-> attempt[c].reply]

LEMMA LeftMeaning ==
    ASSUME TypeInv, NEW c \in Call, NEW r, leave(c, r)
    PROVE  /\ r = "CancelledError" <=> Left(c).wait = "abandoned"
           /\ r = "LLMAuthenticationError" <=>
                  Left(c).wait # "abandoned" /\ Left(c).reply = "auth401"
           /\ r = "LLMResponse" <=> Left(c).wait # "abandoned" /\ Left(c).reply = "answer"
           /\ failed(r) <=> FailedAttempt(Left(c))
           /\ failed(r) => r = Cause(Left(c))
<1>1. Left(c).wait = attempt[c].wait /\ Left(c).reply = attempt[c].reply
  BY DEF Left
<1>2. attempt[c].reply \in Unwinding
  <2>1. attempt[c].reply \in Unwinding \cup {None}
    BY DEF TypeInv, GatewayTypeOK
  <2> QED BY <2>1, LeaveEffect
<1>3. r = result(Left(c).wait, Left(c).reply) /\ Left(c).reply \in Unwinding
  BY <1>1, <1>2, LeaveEffect
<1> QED BY <1>3, ResultMeaning

(* The verdict of a call that ends by itself is the one its attempts call  *)
(* for.                                                                    *)
LEMMA EndsConcluded ==
    ASSUME TypeInv, NEW c \in Call, NEW r, NEW v, leave(c, r), EndsAs(c, r, v),
           NEW n, NEW first,
           pc[c] = "primary" => n = 1,
           pc[c] = "fallback" => n = 2 /\ primary_error[c] = Cause(first)
    PROVE  Concluded(v, n, first, Left(c))
<1>1. pc[c] \in Slot
  BY LeaveEffect
<1>2. CASE r = "LLMResponse" /\ v = Outcome("LLMResponse", pc[c], None)
  <2>1. v.kind = "LLMResponse"
    BY <1>2 DEF Outcome
  <2>2. v.is_fallback <=> n = 2
    <3>1. v.is_fallback = (pc[c] = "fallback")
      BY <1>2 DEF Outcome
    <3>2. pc[c] = "fallback" <=> n = 2
      BY <1>1 DEF Slot
    <3> QED BY <3>1, <3>2, Zenon
  <2>3. ~FailedAttempt(Left(c))
    BY <1>2, LeftMeaning DEF failed
  <2> QED BY <1>2, <2>1, <2>2, <2>3, LeftMeaning DEF Concluded
<1>3. CASE reraised(r) /\ v = Outcome(r, "none", None)
  <2>1. v.kind = r /\ r \in {"LLMAuthenticationError", "CancelledError"}
    BY <1>3 DEF Outcome, reraised
  <2>2. ~FailedAttempt(Left(c))
    BY <1>3, LeftMeaning DEF failed
  <2> QED BY <2>1, <2>2, LeftMeaning DEF Concluded
<1>4. CASE /\ pc[c] = "fallback" /\ failed(r)
           /\ v = Outcome("LLMAllModelsFailedError", "none", primary_error[c])
  <2>1. v.kind = "LLMAllModelsFailedError" /\ v.primary_error = primary_error[c]
    BY <1>4 DEF Outcome
  <2>2. FailedAttempt(Left(c))
    BY <1>4, LeftMeaning
  <2>3. r \notin {"LLMResponse", "LLMAuthenticationError", "CancelledError"}
    BY <1>4 DEF failed, reraised
  <2> QED BY <1>4, <2>1, <2>2, <2>3, LeftMeaning DEF Concluded
<1> QED BY <1>2, <1>3, <1>4 DEF EndsAs

(* How many requests a call in an attempt has sent and how many it has     *)
(* seen answered.                                                          *)
LEMMA Underway ==
    ASSUME NEW c \in Call, History(c), Requested(c), pc[c] \in Slot
    PROVE  \/ pc[c] = "primary" /\ Len(sent[c]) = 1 /\ Len(seen[c]) = 0
           \/ pc[c] = "fallback" /\ Len(sent[c]) = 2 /\ Len(seen[c]) = 1
<1>1. CASE pc[c] = "primary"
  BY <1>1 DEF History, Requested
<1>2. CASE pc[c] = "fallback"
  BY <1>2 DEF History, Requested
<1> QED BY <1>1, <1>2 DEF Slot

LEMMA HistoryStep == TypeInv /\ RequestInv /\ HistoryInv /\ [Next]_vars => HistoryInv'
<1> SUFFICES ASSUME TypeInv, RequestInv, HistoryInv, [Next]_vars, NEW d \in Call
             PROVE  History(d)'
  BY DEF HistoryInv
<1> USE DEF Slot
<1>1. History(d) /\ Requested(d)
  BY DEF HistoryInv, RequestInv
<1>2. CASE Same(d)
  BY <1>1, <1>2 DEF Same, History
<1>3. CASE refuse(d)
  <2>1. PICK a \in Args : /\ Refusal(a) # None
                          /\ verdict'[d] = Outcome(Refusal(a), "none", None)
    BY <1>3, RefuseEffect
  <2>2. verdict'[d].kind \in {"LLMNotInitializedError", "LLMFeatureNotImplementedError"}
    BY <2>1, RefusalKinds DEF TypeInv, Outcome
  <2>3. /\ pc'[d] = "done" /\ Len(sent'[d]) = 0 /\ Len(seen'[d]) = 0
    BY <1>1, <1>3, RefuseEffect DEF History, Requested
  <2> QED BY <2>2, <2>3 DEF History
<1>4. CASE begin(d)
  <2>1. /\ pc'[d] = "primary" /\ seen'[d] = seen[d] /\ verdict'[d] = verdict[d]
        /\ Len(seen[d]) = 0
    BY <1>1, <1>4, BeginEffect DEF History
  <2>2. Len(sent'[d]) = 1
    <3>1. Len(sent[d]) = 0 /\ \E x : sent'[d] = Append(sent[d], x)
      BY <1>1, <1>4, BeginEffect DEF Requested
    <3> QED BY <3>1, HistoryTypes, OneMore
  <2> QED BY <1>1, <2>1, <2>2 DEF History
<1>5. CASE succeed(d) \/ reraise(d) \/ give_up(d)
  <2>1. PICK r \in Result : leave(d, r) /\ EndsAs(d, r, verdict'[d])
    BY <1>5, EndEffect
  <2>2. pc'[d] = "done" /\ sent'[d] = sent[d] /\ pc[d] \in Slot
    BY <1>5, <2>1, EndEffect, LeaveEffect
  <2>3. /\ Len(seen'[d]) = Len(seen[d]) + 1 /\ Len(seen[d]) \in Nat
        /\ \A i \in 1 .. Len(seen[d]) : seen'[d][i] = seen[d][i]
        /\ seen'[d][Len(seen[d]) + 1] = Left(d)
    <3>1. seen'[d] = Append(seen[d], Left(d))
      BY <2>1, LeaveEffect DEF Left
    <3> QED BY <3>1, HistoryTypes, OneMore
  <2>4. /\ Len(seen'[d]) = Len(sent[d]) /\ Len(sent[d]) \in {1, 2}
        /\ pc[d] = "primary" => Len(sent[d]) = 1
        /\ pc[d] = "fallback" => Len(sent[d]) = 2 /\ seen'[d][1] = seen[d][1]
    <3>1. CASE pc[d] = "primary" /\ Len(sent[d]) = 1 /\ Len(seen[d]) = 0
      BY <3>1, <2>2, <2>3
    <3>2. CASE pc[d] = "fallback" /\ Len(sent[d]) = 2 /\ Len(seen[d]) = 1
      BY <3>2, <2>2, <2>3
    <3>3. pc[d] \in Slot
      BY <2>2, <2>3
    <3> QED BY <1>1, <3>1, <3>2, <3>3, Underway
  <2>5. Concluded(verdict'[d], Len(seen'[d]), seen'[d][1], Left(d))
    BY <1>1, <2>1, <2>4, EndsConcluded DEF History
  <2>6. verdict'[d].kind \notin {"RoutingConfigError", "KeyError"}
    BY <2>1 DEF EndsAs, Outcome, reraised
  <2>7. Len(sent[d]) = 2 => FailedAttempt(seen'[d][1])
    BY <1>1, <2>2, <2>4 DEF History
  <2> QED BY <2>2, <2>3, <2>4, <2>5, <2>6, <2>7 DEF History
<1>6. CASE fall_back(d)
  <2>1. PICK r \in Result : failed(r) /\ leave(d, r) /\ primary_error'[d] = r
    BY <1>6, FallBackEffect
  <2>2. /\ pc[d] = "primary" /\ pc'[d] = "fallback" /\ verdict'[d] = verdict[d]
    BY <1>6, FallBackEffect
  <2>3. Len(seen'[d]) = 1 /\ seen'[d][1] = Left(d)
    <3>1. seen'[d] = Append(seen[d], Left(d)) /\ Len(seen[d]) = 0
      BY <1>1, <2>1, <2>2, LeaveEffect DEF Left, History
    <3> QED BY <3>1, HistoryTypes, OneMore
  <2>4. FailedAttempt(Left(d)) /\ primary_error'[d] = Cause(Left(d))
    BY <2>1, LeftMeaning
  <2> QED BY <1>1, <2>2, <2>3, <2>4 DEF History
<1>7. CASE cancel_unwinding(d)
  <2> DEFINE last == [wait |-> "abandoned", reply |-> attempt[d].reply]
  <2>1. /\ pc[d] \in Slot /\ pc'[d] = "done" /\ sent'[d] = sent[d]
        /\ seen'[d] = Append(seen[d], last)
        /\ verdict'[d] = Outcome("CancelledError", "none", None)
    BY <1>7, CancelUnwindingEffect
  <2>2. /\ Len(seen'[d]) = Len(seen[d]) + 1 /\ Len(seen[d]) \in Nat
        /\ \A i \in 1 .. Len(seen[d]) : seen'[d][i] = seen[d][i]
        /\ seen'[d][Len(seen[d]) + 1] = last
    BY <2>1, HistoryTypes, OneMore
  <2>3. /\ Len(seen'[d]) = Len(sent[d]) /\ Len(sent[d]) \in {1, 2}
        /\ Len(sent[d]) = 2 => seen'[d][1] = seen[d][1]
    <3>1. CASE pc[d] = "primary" /\ Len(sent[d]) = 1 /\ Len(seen[d]) = 0
      BY <3>1, <2>1, <2>2
    <3>2. CASE pc[d] = "fallback" /\ Len(sent[d]) = 2 /\ Len(seen[d]) = 1
      BY <3>2, <2>1, <2>2
    <3>3. pc[d] \in Slot
      BY <2>1, <2>2
    <3> QED BY <1>1, <3>1, <3>2, <3>3, Underway
  <2>4. Concluded(verdict'[d], Len(seen'[d]), seen'[d][1], last)
    BY <2>1 DEF Concluded, FailedAttempt, Outcome
  <2>5. verdict'[d].kind \notin {"RoutingConfigError", "KeyError"}
    BY <2>1 DEF Outcome
  <2>6. Len(sent[d]) = 2 => FailedAttempt(seen'[d][1])
    BY <1>1, <2>3 DEF History
  <2> HIDE DEF last
  <2> QED BY <2>1, <2>2, <2>3, <2>4, <2>5, <2>6 DEF History
<1>8. CASE WaitStep(d)
  BY <1>1, <1>8, WaitEffect DEF History
<1>9. CASE \E slot \in Slot : report(d, slot)
  BY <1>1, <1>9, ReportEffect DEF History
<1> QED BY <1>2, <1>3, <1>4, <1>5, <1>6, <1>7, <1>8, <1>9, StepsOfCall

LEMMA HistoryInit == Init => HistoryInv
BY DEF Init, HistoryInv, History, Slot

(* The two errors select() raises never leave call_llm: a call that sees   *)
(* the flag up finds a complete table, whoever is inside initialize().     *)
THEOREM NoInternalErrors == SafeSpec => []NoInternalRefusal
<1>1. HistoryInv => NoInternalRefusal
  BY DEF HistoryInv, History, NoInternalRefusal
<1> QED BY <1>1, TypeInit, TypeStep, RequestInit, RequestStep, HistoryInit,
           HistoryStep, PTL DEF SafeSpec

(* The fallback is attempted at most once, and only after the primary      *)
(* failed: never after an answer, a 401 or the caller's cancellation.      *)
THEOREM FallbackJustified == SafeSpec => []FallbackOnlyAfterFailure
<1>1. RequestInv /\ HistoryInv => FallbackOnlyAfterFailure
  BY DEF RequestInv, Requested, HistoryInv, History, FallbackOnlyAfterFailure
<1> QED BY <1>1, TypeInit, TypeStep, RequestInit, RequestStep, HistoryInit,
           HistoryStep, PTL DEF SafeSpec

(* What leaves call_llm is what its last attempt came to; an outage means  *)
(* that both attempts failed and carries the primary's error.              *)
THEOREM VerdictIsEarned == SafeSpec => []VerdictMatchesAttempts
<1>1. TypeInv /\ HistoryInv => VerdictMatchesAttempts
  <2> SUFFICES ASSUME TypeInv, HistoryInv, NEW c \in Call, pc[c] = "done",
                      sent[c] # <<>>
               PROVE  /\ Len(seen[c]) = Len(sent[c])
                      /\ Concluded(verdict[c], Len(seen[c]), seen[c][1],
                                   seen[c][Len(seen[c])])
    BY DEF VerdictMatchesAttempts
  <2>1. Len(sent[c]) # 0
    BY HistoryTypes
  <2> QED BY <2>1 DEF HistoryInv, History
<1> QED BY <1>1, TypeInit, TypeStep, RequestInit, RequestStep, HistoryInit,
           HistoryStep, PTL DEF SafeSpec

-----------------------------------------------------------------------------
(* The traces.  The base list and the primary's copy are never written.    *)

Tagged(c) ==
    /\ tagged[c] \subseteq {"fallback"}
    /\ Len(sent[c]) = 2 => "fallback" \in tagged[c]
    /\ \A trace \in traces[c] : trace.fallback <=> trace.slot = "fallback"

TaggedInv == \A c \in Call : Tagged(c)

(* A call never sees more answers than it sent requests.                   *)
LEMMA SeenWithinSent ==
    ASSUME TypeInv, NEW c \in Call, History(c), Requested(c)
    PROVE  Len(seen[c]) <= Len(sent[c]) /\ Len(sent[c]) <= 2
<1>1. Len(sent[c]) \in Nat /\ Len(seen[c]) \in Nat
  BY HistoryTypes
<1>2. pc[c] \in {"idle", "done"} \cup Slot
  BY DEF TypeInv, GatewayTypeOK
<1>3. CASE pc[c] \in Slot
  <2>1. CASE Len(sent[c]) = 1 /\ Len(seen[c]) = 0
    BY <2>1
  <2>2. CASE Len(sent[c]) = 2 /\ Len(seen[c]) = 1
    BY <2>2
  <2> QED BY <1>3, <2>1, <2>2, Underway
<1>4. CASE pc[c] = "idle"
  <2>1. Len(sent[c]) = 0 /\ Len(seen[c]) = 0
    BY <1>4 DEF History, Requested
  <2> QED BY <2>1
<1>5. CASE pc[c] = "done"
  <2>1. Len(sent[c]) <= 2
    BY DEF Requested
  <2>2. Len(seen[c]) = Len(sent[c])
    BY <1>5 DEF History
  <2> DEFINE m == Len(seen[c])
             n == Len(sent[c])
  <2>3. m \in Nat /\ n \in Nat /\ n <= 2 /\ m = n
    BY <1>1, <2>1, <2>2
  <2> HIDE DEF m, n
  <2>4. m <= n /\ n <= 2
    BY <2>3
  <2> QED BY <2>4 DEF m, n
<1> QED BY <1>2, <1>3, <1>4, <1>5

LEMMA TaggedStep ==
    TypeInv /\ RequestInv /\ HistoryInv /\ TaggedInv /\ [Next]_vars => TaggedInv'
<1> SUFFICES ASSUME TypeInv, RequestInv, HistoryInv, TaggedInv, [Next]_vars,
                    NEW d \in Call
             PROVE  Tagged(d)'
  BY DEF TaggedInv
<1>1. History(d) /\ Requested(d) /\ Tagged(d)
  BY DEF HistoryInv, RequestInv, TaggedInv
<1>2. ASSUME tagged'[d] = tagged[d], traces'[d] = traces[d], sent'[d] = sent[d]
      PROVE  Tagged(d)'
  BY <1>1, <1>2 DEF Tagged
<1>3. CASE Same(d)
  BY <1>2, <1>3 DEF Same
<1>4. CASE refuse(d)
  BY <1>2, <1>4, RefuseEffect
<1>5. CASE begin(d)
  <2>1. Len(sent[d]) = 0 /\ \E x : sent'[d] = Append(sent[d], x)
    BY <1>1, <1>5, BeginEffect DEF Requested
  <2>2. Len(sent'[d]) = 1
    BY <2>1, HistoryTypes, OneMore
  <2>3. tagged'[d] = tagged[d] /\ traces'[d] = traces[d]
    BY <1>5, BeginEffect
  <2> QED BY <1>1, <2>2, <2>3 DEF Tagged
<1>6. CASE succeed(d) \/ reraise(d) \/ give_up(d)
  BY <1>2, <1>6, EndEffect, LeaveEffect
<1>7. CASE fall_back(d)
  <2>1. tagged'[d] = tagged[d] \cup {"fallback"} /\ traces'[d] = traces[d]
    BY <1>7, FallBackEffect, LeaveEffect
  <2> QED BY <1>1, <2>1 DEF Tagged
<1>8. CASE cancel_unwinding(d)
  BY <1>2, <1>8, CancelUnwindingEffect
<1>9. CASE WaitStep(d)
  BY <1>2, <1>9, WaitEffect
<1>10. ASSUME NEW slot \in Slot, report(d, slot) PROVE Tagged(d)'
  <2>1. /\ Len(seen[d]) >= (IF slot = "primary" THEN 1 ELSE 2)
        /\ traces'[d] = traces[d] \cup
                          {[slot |-> slot, fallback |-> slot \in tagged[d]]}
        /\ tagged'[d] = tagged[d] /\ sent'[d] = sent[d]
    BY <1>10, ReportEffect
  <2>2. slot = "fallback" => Len(sent[d]) = 2
    <3> DEFINE m == Len(seen[d])
               n == Len(sent[d])
    <3>1. m <= n /\ n <= 2
      BY <1>1, SeenWithinSent
    <3>2. slot = "fallback" => m >= 2
      BY <2>1
    <3>3. m \in Nat /\ n \in Nat
      BY HistoryTypes
    <3> HIDE DEF m, n
    <3>4. slot = "fallback" => n = 2
      BY <3>1, <3>2, <3>3
    <3> QED BY <3>4 DEF n
  <2>3. slot \in tagged[d] <=> slot = "fallback"
    BY <1>1, <2>2 DEF Tagged, Slot
  <2> DEFINE new == [slot |-> slot, fallback |-> slot \in tagged[d]]
  <2>4. new.fallback <=> new.slot = "fallback"
    <3>1. new.slot = slot /\ new.fallback = (slot \in tagged[d])
      OBVIOUS
    <3> QED BY <2>3, <3>1, Zenon
  <2>5. \A trace \in traces'[d] : trace \in traces[d] \/ trace = new
    BY <2>1
  <2> HIDE DEF new
  <2>6. \A trace \in traces'[d] : trace.fallback <=> trace.slot = "fallback"
    BY <1>1, <2>4, <2>5, Zenon DEF Tagged
  <2> QED BY <1>1, <2>1, <2>6 DEF Tagged
<1> QED BY <1>3, <1>4, <1>5, <1>6, <1>7, <1>8, <1>9, <1>10, StepsOfCall

(* However late the reporting worker runs, a trace is marked as a fallback *)
(* exactly when it is the fallback's.                                      *)
THEOREM TracesAreTagged == SafeSpec => []TracesTagged
<1>1. Init => TaggedInv
  BY DEF Init, TaggedInv, Tagged
<1>2. TaggedInv => TracesTagged
  BY Zenon DEF TaggedInv, Tagged, TracesTagged
<1> QED BY <1>1, <1>2, TypeInit, TypeStep, RequestInit, RequestStep, HistoryInit,
           HistoryStep, TaggedStep, PTL DEF SafeSpec

-----------------------------------------------------------------------------
(* Cancellation.                                                           *)

(* A caller whose cancellation reached the wait gets CancelledError, and   *)
(* nothing more is sent for it.                                            *)
THEOREM CancelIsFinal == SafeSpec => CancelStopsCall
<1>1. ASSUME TypeInv, [Next]_vars, NEW c \in Call, attempt[c].wait = "abandoned"
      PROVE  /\ sent'[c] = sent[c]
             /\ attempt'[c].wait # "abandoned" => verdict'[c].kind = "CancelledError"
  <2>1. pc[c] \in Slot
    BY <1>1 DEF TypeInv, Engaged
  <2>2. CASE Same(c)
    BY <1>1, <2>2 DEF Same
  <2>3. CASE refuse(c)
    BY <1>1, <2>1, <2>3, RefuseEffect DEF Slot
  <2>4. CASE begin(c)
    BY <1>1, <2>1, <2>4, BeginEffect DEF Slot
  <2>5. CASE succeed(c) \/ reraise(c) \/ give_up(c)
    <3>1. PICK r \in Result : leave(c, r) /\ EndsAs(c, r, verdict'[c])
      BY <1>1, <2>5, EndEffect
    <3>2. r = "CancelledError"
      BY <1>1, <3>1, LeaveEffect DEF result
    <3>3. verdict'[c] = Outcome(r, "none", None)
      BY <3>1, <3>2 DEF EndsAs, failed, reraised
    <3>4. sent'[c] = sent[c]
      BY <1>1, <2>5, EndEffect
    <3> QED BY <3>2, <3>3, <3>4 DEF Outcome
  <2>6. CASE fall_back(c)
    <3>1. PICK r \in Result : failed(r) /\ leave(c, r)
      BY <1>1, <2>6, FallBackEffect
    <3> QED BY <1>1, <3>1, LeaveEffect DEF result, failed, reraised
  <2>7. CASE cancel_unwinding(c)
    <3>1. /\ verdict'[c] = Outcome("CancelledError", "none", None)
          /\ sent'[c] = sent[c]
      BY <1>1, <2>7, CancelUnwindingEffect
    <3> QED BY <3>1 DEF Outcome
  <2>8. CASE WaitStep(c)
    <3>1. attempt'[c].wait = "abandoned"
      <4>1. PICK x : \/ attempt' = [attempt EXCEPT ![c].reply = x]
                     \/ attempt' = [attempt EXCEPT ![c].age = x]
        BY <1>1, <2>8
           DEF WaitStep, acompletion_ends, deadline, unwind, cancel_pending, tick
      <4>2. attempt'[c].wait = attempt[c].wait
        <5>1. CASE attempt' = [attempt EXCEPT ![c].reply = x]
          BY <1>1, <5>1, AttemptFields
        <5>2. CASE attempt' = [attempt EXCEPT ![c].age = x]
          BY <1>1, <5>2, AttemptFields
        <5> QED BY <4>1, <5>1, <5>2
      <4> QED BY <1>1, <4>2
    <3> QED BY <1>1, <2>8, <3>1, WaitEffect
  <2>9. CASE \E slot \in Slot : report(c, slot)
    BY <1>1, <2>9, ReportEffect
  <2> QED BY <1>1, <2>2, <2>3, <2>4, <2>5, <2>6, <2>7, <2>8, <2>9, StepsOfCall
<1>2. TypeInv /\ [Next]_vars =>
          [\A c \in Call : attempt[c].wait = "abandoned" =>
              /\ sent'[c] = sent[c]
              /\ attempt'[c].wait # "abandoned" => verdict'[c].kind = "CancelledError"
          ]_vars
  BY <1>1
<1> QED BY <1>2, TypeInit, TypeStep, PTL DEF SafeSpec, CancelStopsCall

-----------------------------------------------------------------------------
(* The spend.  A call in its fallback may already have logged its primary, *)
(* but only for a completion LLMResponse refused.                          *)

Charged(c) ==
    LET answered == verdict[c].kind = "LLMResponse"
        slot == IF verdict[c].is_fallback THEN "fallback" ELSE "primary"
        lines == 1 .. Len(spend[c])
    IN  /\ answered => \E i \in lines : spend[c][i] = slot
        /\ \A i \in lines : \/ answered /\ spend[c][i] = slot
                            \/ Refused(AttemptOf(c, spend[c][i]))
        /\ \A i, j \in lines : spend[c][i] = spend[c][j] => i = j

Spent(c) ==
    /\ pc[c] \in {"idle", "primary"} => Len(spend[c]) = 0
    /\ pc[c] = "fallback" =>
           /\ Len(spend[c]) <= 1
           /\ \A i \in 1 .. Len(spend[c]) :
                  spend[c][i] = "primary" /\ Refused(seen[c][1])
    /\ pc[c] = "done" => Charged(c)

SpentInv == \A c \in Call : Spent(c)

(* What leaving a wait_for adds to the spend and to the history.           *)
LEMMA SpendGrows ==
    ASSUME TypeInv, NEW c \in Call, NEW r, leave(c, r)
    PROVE  \/ spend'[c] = spend[c] /\ r # "LLMResponse"
           \/ /\ Len(spend'[c]) = Len(spend[c]) + 1 /\ Len(spend[c]) \in Nat
              /\ \A i \in 1 .. Len(spend[c]) : spend'[c][i] = spend[c][i]
              /\ spend'[c][Len(spend[c]) + 1] = pc[c]
              /\ IF r = "LLMResponse" THEN TRUE ELSE Refused(Left(c))
<1>1. CASE logs_success(attempt[c].wait, attempt[c].reply)
  <2>1. spend'[c] = Append(spend[c], pc[c])
    BY <1>1, LeaveEffect
  <2>2. /\ Len(spend'[c]) = Len(spend[c]) + 1 /\ Len(spend[c]) \in Nat
        /\ \A i \in 1 .. Len(spend[c]) : spend'[c][i] = spend[c][i]
        /\ spend'[c][Len(spend[c]) + 1] = pc[c]
    BY <2>1, HistoryTypes, OneMore
  <2>3. r # "LLMResponse" => Refused(Left(c))
    BY <1>1, LeftMeaning DEF logs_success, Left, Refused
  <2> QED BY <2>2, <2>3
<1>2. CASE ~logs_success(attempt[c].wait, attempt[c].reply)
  <2>1. spend'[c] = spend[c]
    BY <1>2, LeaveEffect
  <2>2. r # "LLMResponse"
    BY <1>2, LeftMeaning DEF logs_success, Left
  <2> QED BY <2>1, <2>2
<1> QED BY <1>1, <1>2

(* What a call in an attempt has logged before.                            *)
LEMMA SpentBefore ==
    ASSUME NEW c \in Call, Spent(c), pc[c] \in Slot, NEW i \in 1 .. Len(spend[c])
    PROVE  /\ pc[c] = "fallback" /\ spend[c][i] = "primary"
           /\ Len(spend[c]) <= 1 /\ Refused(seen[c][1])
<1>1. CASE pc[c] = "primary"
  BY <1>1 DEF Spent
<1>2. CASE pc[c] = "fallback"
  BY <1>2 DEF Spent
<1> QED BY <1>1, <1>2 DEF Slot

(* A line more is of an attempt that was not logged before.                *)
LEMMA LinesDiffer ==
    ASSUME TypeInv, NEW c \in Call, Spent(c), NEW r, leave(c, r)
    PROVE  \A i, j \in 1 .. Len(spend'[c]) : spend'[c][i] = spend'[c][j] => i = j
<1>1. pc[c] \in Slot
  BY LeaveEffect
<1>2. Len(spend[c]) \in Nat
  BY HistoryTypes
<1>3. \A i \in 1 .. Len(spend[c]) : /\ pc[c] = "fallback" /\ spend[c][i] = "primary"
                                   /\ Len(spend[c]) <= 1
  BY <1>1, SpentBefore
<1>4. CASE spend'[c] = spend[c]
  BY <1>2, <1>3, <1>4
<1>5. CASE /\ Len(spend'[c]) = Len(spend[c]) + 1
           /\ \A i \in 1 .. Len(spend[c]) : spend'[c][i] = spend[c][i]
           /\ spend'[c][Len(spend[c]) + 1] = pc[c]
  <2>1. CASE Len(spend[c]) = 0
    BY <1>5, <2>1
  <2>2. CASE Len(spend[c]) = 1
    <3>1. /\ Len(spend'[c]) = 2
          /\ spend'[c][1] = "primary" /\ spend'[c][2] = "fallback"
      BY <1>3, <1>5, <2>2
    <3> QED BY <3>1
  <2>3. Len(spend[c]) = 0 \/ Len(spend[c]) = 1
    <3>1. Len(spend[c]) # 0 => 1 \in 1 .. Len(spend[c])
      BY <1>2
    <3>2. 1 \in 1 .. Len(spend[c]) => Len(spend[c]) <= 1
      BY <1>3
    <3> DEFINE n == Len(spend[c])
    <3>3. n \in Nat /\ (n # 0 => n <= 1)
      BY <1>2, <3>1, <3>2
    <3> HIDE DEF n
    <3>4. n = 0 \/ n = 1
      BY <3>3
    <3> QED BY <3>4 DEF n
  <2> QED BY <2>1, <2>2, <2>3
<1> QED BY <1>4, <1>5, SpendGrows

(* What a call in an attempt has seen, once it leaves its wait_for.        *)
LEMMA SeenAfter ==
    ASSUME TypeInv, NEW c \in Call, NEW x, History(c), Requested(c), pc[c] \in Slot,
           seen'[c] = Append(seen[c], x)
    PROVE  /\ pc[c] = "primary" => seen'[c][1] = x
           /\ pc[c] = "fallback" => seen'[c][1] = seen[c][1] /\ seen'[c][2] = x
<1>1. /\ Len(seen[c]) \in Nat
      /\ \A i \in 1 .. Len(seen[c]) : seen'[c][i] = seen[c][i]
      /\ seen'[c][Len(seen[c]) + 1] = x
  BY HistoryTypes, OneMore
<1>2. CASE pc[c] = "primary" /\ Len(seen[c]) = 0
  BY <1>1, <1>2
<1>3. CASE pc[c] = "fallback" /\ Len(seen[c]) = 1
  BY <1>1, <1>3
<1> QED BY <1>2, <1>3, Underway

(* A call that ends without an answer was charged for refused completions  *)
(* at most.                                                                *)
LEMMA UnansweredIsCharged ==
    ASSUME NEW c \in Call, verdict'[c].kind # "LLMResponse",
           \A i \in 1 .. Len(spend'[c]) : Refused(AttemptOf(c, spend[c][i])'),
           \A i, j \in 1 .. Len(spend'[c]) : spend'[c][i] = spend'[c][j] => i = j
    PROVE  Charged(c)'
BY DEF Charged

LEMMA AnswerIsCharged ==
    ASSUME TypeInv, NEW c \in Call, History(c), Requested(c), Spent(c),
           leave(c, "LLMResponse"), verdict'[c] = Outcome("LLMResponse", pc[c], None)
    PROVE  Charged(c)'
<1> DEFINE m == Len(spend[c])
           slot == IF verdict'[c].is_fallback THEN "fallback" ELSE "primary"
<1>1. pc[c] \in {"primary", "fallback"}
  BY LeaveEffect DEF Slot
<1>2. verdict'[c].kind = "LLMResponse" /\ slot = pc[c]
  <2>1. /\ verdict'[c].kind = "LLMResponse"
        /\ verdict'[c].is_fallback = (pc[c] = "fallback")
    BY DEF Outcome
  <2>2. CASE pc[c] = "primary"
    <3>1. ~verdict'[c].is_fallback
      <4>1. pc[c] # "fallback"
        BY <2>2
      <4> QED BY <2>1, <4>1, Zenon
    <3> QED BY <2>1, <2>2, <3>1
  <2>3. CASE pc[c] = "fallback"
    <3>1. verdict'[c].is_fallback
      BY <2>1, <2>3, Zenon
    <3> QED BY <2>1, <2>3, <3>1
  <2> QED BY <1>1, <2>2, <2>3
<1>3. /\ Len(spend'[c]) = m + 1 /\ m \in Nat
      /\ \A i \in 1 .. m : spend'[c][i] = spend[c][i]
      /\ spend'[c][m + 1] = pc[c]
  BY SpendGrows
<1>4. \A i \in 1 .. m : /\ pc[c] = "fallback" /\ spend[c][i] = "primary"
                        /\ Refused(seen[c][1])
  BY <1>1, SpentBefore DEF Slot
<1>5. seen'[c] = Append(seen[c], Left(c))
  BY LeaveEffect DEF Left
<1>6. pc[c] = "fallback" => seen'[c][1] = seen[c][1]
  BY <1>1, <1>5, SeenAfter DEF Slot
<1> HIDE DEF m, slot
<1>7. \A i \in 1 .. Len(spend'[c]) : i = m + 1 \/ i \in 1 .. m
  BY <1>3
<1>8. \E i \in 1 .. Len(spend'[c]) : spend'[c][i] = slot
  BY <1>2, <1>3
<1>9. ASSUME NEW i \in 1 .. Len(spend'[c])
      PROVE  spend'[c][i] = slot \/ Refused(AttemptOf(c, spend[c][i])')
  <2>1. CASE i = m + 1
    BY <1>2, <1>3, <2>1
  <2>2. CASE i \in 1 .. m
    BY <1>3, <1>4, <1>6, <2>2 DEF AttemptOf
  <2> QED BY <1>7, <2>1, <2>2
<1>10. \A i, j \in 1 .. Len(spend'[c]) : spend'[c][i] = spend'[c][j] => i = j
  BY LinesDiffer
<1> QED BY <1>2, <1>8, <1>9, <1>10 DEF Charged, slot

LEMMA SpentStep ==
    TypeInv /\ RequestInv /\ HistoryInv /\ SpentInv /\ [Next]_vars => SpentInv'
<1> SUFFICES ASSUME TypeInv, RequestInv, HistoryInv, SpentInv, [Next]_vars,
                    NEW d \in Call
             PROVE  Spent(d)'
  BY DEF SpentInv
<1>1. History(d) /\ Requested(d) /\ Spent(d)
  BY DEF HistoryInv, RequestInv, SpentInv
<1>2. ASSUME pc'[d] = pc[d], spend'[d] = spend[d], seen'[d] = seen[d],
             verdict'[d] = verdict[d]
      PROVE  Spent(d)'
  BY <1>1, <1>2 DEF Spent, Charged, AttemptOf
<1>3. CASE Same(d)
  BY <1>2, <1>3 DEF Same
<1>4. CASE refuse(d)
  <2>1. pc'[d] = "done" /\ Len(spend'[d]) = 0
    BY <1>1, <1>4, RefuseEffect DEF Spent
  <2>2. verdict'[d].kind # "LLMResponse"
    <3>1. PICK a \in Args : /\ Refusal(a) # None
                            /\ verdict'[d] = Outcome(Refusal(a), "none", None)
      BY <1>4, RefuseEffect
    <3> QED BY <3>1, RefusalKinds DEF TypeInv, Outcome
  <2>3. Charged(d)'
    BY <2>1, <2>2, UnansweredIsCharged
  <2> QED BY <2>1, <2>3 DEF Spent
<1>5. CASE begin(d)
  BY <1>1, <1>5, BeginEffect DEF Spent
<1>6. CASE succeed(d) \/ reraise(d) \/ give_up(d)
  <2>1. PICK r \in Result : leave(d, r) /\ EndsAs(d, r, verdict'[d])
    BY <1>6, EndEffect
  <2>2. pc'[d] = "done" /\ pc[d] \in Slot
    BY <1>6, <2>1, EndEffect, LeaveEffect
  <2>3. CASE r = "LLMResponse"
    <3>1. verdict'[d] = Outcome("LLMResponse", pc[d], None)
      BY <2>1, <2>3 DEF EndsAs, reraised, failed
    <3>2. Charged(d)'
      BY <1>1, <2>1, <2>3, <3>1, AnswerIsCharged
    <3> QED BY <2>2, <3>2 DEF Spent
  <2>4. CASE r # "LLMResponse"
    <3>1. verdict'[d].kind # "LLMResponse"
      BY <2>1, <2>4 DEF EndsAs, Outcome, reraised
    <3>2. seen'[d] = Append(seen[d], Left(d))
      BY <2>1, LeaveEffect DEF Left
    <3>3. /\ pc[d] = "primary" => seen'[d][1] = Left(d)
          /\ pc[d] = "fallback" => seen'[d][1] = seen[d][1] /\ seen'[d][2] = Left(d)
      BY <1>1, <2>2, <3>2, SeenAfter
    <3>4. ASSUME NEW i \in 1 .. Len(spend[d])
          PROVE  Refused(seen'[d][IF spend[d][i] = "primary" THEN 1 ELSE 2])
      BY <1>1, <2>2, <3>3, SpentBefore
    <3>5. ASSUME NEW i \in 1 .. Len(spend'[d])
          PROVE  Refused(AttemptOf(d, spend[d][i])')
      <4>1. CASE spend'[d] = spend[d]
        BY <3>4, <4>1 DEF AttemptOf
      <4>2. CASE /\ Len(spend'[d]) = Len(spend[d]) + 1 /\ Len(spend[d]) \in Nat
                 /\ \A j \in 1 .. Len(spend[d]) : spend'[d][j] = spend[d][j]
                 /\ spend'[d][Len(spend[d]) + 1] = pc[d]
                 /\ Refused(Left(d))
        <5>1. CASE i \in 1 .. Len(spend[d])
          BY <3>4, <4>2, <5>1 DEF AttemptOf
        <5>2. CASE i = Len(spend[d]) + 1
          BY <2>2, <3>3, <4>2, <5>2 DEF Slot, AttemptOf
        <5> QED BY <4>2, <5>1, <5>2
      <4> QED BY <2>1, <2>4, <4>1, <4>2, SpendGrows
    <3>6. Charged(d)'
      BY <1>1, <2>1, <3>1, <3>5, LinesDiffer, UnansweredIsCharged
    <3> QED BY <2>2, <3>6 DEF Spent
  <2> QED BY <2>3, <2>4
<1>7. CASE fall_back(d)
  <2>1. PICK r \in Result : failed(r) /\ leave(d, r)
    BY <1>7, FallBackEffect
  <2>2. pc[d] = "primary" /\ pc'[d] = "fallback" /\ pc[d] \in Slot
    BY <1>7, FallBackEffect DEF Slot
  <2>3. seen'[d][1] = Left(d)
    <3>1. seen'[d] = Append(seen[d], Left(d))
      BY <2>1, LeaveEffect DEF Left
    <3> QED BY <1>1, <2>2, <3>1, SeenAfter
  <2>4. Len(spend[d]) = 0
    BY <1>1, <2>2 DEF Spent
  <2>5. \/ spend'[d] = spend[d]
        \/ Len(spend'[d]) = 1 /\ spend'[d][1] = pc[d] /\ Refused(Left(d))
    <3>1. r # "LLMResponse"
      BY <2>1 DEF failed
    <3>2. CASE spend'[d] = spend[d]
      BY <3>2
    <3>3. CASE /\ Len(spend'[d]) = Len(spend[d]) + 1
               /\ spend'[d][Len(spend[d]) + 1] = pc[d]
               /\ Refused(Left(d))
      BY <2>4, <3>3
    <3> QED BY <2>1, <3>1, <3>2, <3>3, SpendGrows
  <2>6. ASSUME NEW i \in 1 .. Len(spend'[d])
        PROVE  spend'[d][i] = "primary" /\ Refused(seen'[d][1])
    <3>1. CASE spend'[d] = spend[d]
      BY <2>4, <3>1
    <3>2. CASE Len(spend'[d]) = 1 /\ spend'[d][1] = pc[d] /\ Refused(Left(d))
      BY <2>2, <2>3, <3>2
    <3> QED BY <2>5, <3>1, <3>2
  <2>7. Len(spend'[d]) <= 1
    <3>1. CASE spend'[d] = spend[d]
      <4>1. Len(spend'[d]) = 0
        BY <2>4, <3>1
      <4> QED BY <4>1
    <3>2. CASE Len(spend'[d]) = 1
      BY <3>2
    <3> QED BY <2>5, <3>1, <3>2
  <2> QED BY <2>2, <2>6, <2>7 DEF Spent
<1>8. CASE cancel_unwinding(d)
  <2> DEFINE last == [wait |-> "abandoned", reply |-> attempt[d].reply]
  <2>1. /\ pc[d] \in Slot /\ pc'[d] = "done" /\ spend'[d] = spend[d]
        /\ seen'[d] = Append(seen[d], last)
        /\ verdict'[d] = Outcome("CancelledError", "none", None)
    BY <1>8, CancelUnwindingEffect
  <2> HIDE DEF last
  <2>2. pc[d] = "fallback" => seen'[d][1] = seen[d][1]
    BY <1>1, <2>1, SeenAfter
  <2>3. verdict'[d].kind # "LLMResponse"
    BY <2>1 DEF Outcome
  <2>4. ASSUME NEW i \in 1 .. Len(spend'[d])
        PROVE  Refused(AttemptOf(d, spend[d][i])')
    <3>1. i \in 1 .. Len(spend[d])
      BY <2>1
    <3> QED BY <1>1, <2>1, <2>2, <3>1, SpentBefore DEF AttemptOf
  <2>5. \A i, j \in 1 .. Len(spend'[d]) : spend'[d][i] = spend'[d][j] => i = j
    <3>1. Len(spend[d]) \in Nat
      BY HistoryTypes
    <3>2. \A i \in 1 .. Len(spend[d]) : Len(spend[d]) <= 1
      BY <1>1, <2>1, SpentBefore
    <3>3. \A i, j \in 1 .. Len(spend[d]) : i = j
      BY <3>1, <3>2
    <3> QED BY <2>1, <3>3
  <2>6. Charged(d)'
    BY <2>3, <2>4, <2>5, UnansweredIsCharged
  <2> QED BY <2>1, <2>6 DEF Spent
<1>9. CASE WaitStep(d)
  BY <1>2, <1>9, WaitEffect
<1>10. CASE \E slot \in Slot : report(d, slot)
  BY <1>2, <1>10, ReportEffect
<1> QED BY <1>3, <1>4, <1>5, <1>6, <1>7, <1>8, <1>9, <1>10, StepsOfCall

(* The log line of a success, and the cost on it, comes at most once per   *)
(* attempt: for the answer the caller gets, and otherwise only for a       *)
(* completion that LLMResponse refused after the line was written.         *)
THEOREM SpendIsAccounted == SafeSpec => []SpendFollowsVerdict
<1>1. Init => SpentInv
  BY DEF Init, SpentInv, Spent
<1>2. SpentInv => SpendFollowsVerdict
  BY Zenon DEF SpentInv, Spent, Charged, SpendFollowsVerdict
<1> QED BY <1>1, <1>2, TypeInit, TypeStep, RequestInit, RequestStep, HistoryInit,
           HistoryStep, SpentStep, PTL DEF SafeSpec

-----------------------------------------------------------------------------
(* The contract.  A step of one call is a step of that call in the         *)
(* contract, or invisible there.                                           *)

LEMMA ContractFields ==
    ASSUME NEW c \in Call
    PROVE  /\ stage[c] = (IF pc[c] \in Slot THEN "trying" ELSE pc[c])
           /\ tried[c] = {slot \in Slot :
                             Len(sent[c]) >= (IF slot = "primary" THEN 1 ELSE 2)}
           /\ outcome[c] = (IF verdict[c] = None THEN None ELSE verdict[c].kind)
BY DEF stage, tried, outcome

LEMMA ContractFieldsNext ==
    ASSUME NEW c \in Call
    PROVE  /\ stage'[c] = (IF pc'[c] \in Slot THEN "trying" ELSE pc'[c])
           /\ tried'[c] = {slot \in Slot :
                              Len(sent'[c]) >= (IF slot = "primary" THEN 1 ELSE 2)}
           /\ outcome'[c] = (IF verdict'[c] = None THEN None ELSE verdict'[c].kind)
BY DEF stage, tried, outcome

(* What a call sees of the contract moves only at its own steps.           *)
LEMMA OnlyOneMoves ==
    ASSUME NEW c \in Call, \A d \in Call \ {c} : Same(d)
    PROVE  /\ stage' = [stage EXCEPT ![c] = stage'[c]]
           /\ tried' = [tried EXCEPT ![c] = tried'[c]]
           /\ outcome' = [outcome EXCEPT ![c] = outcome'[c]]
<1>1. \A d \in Call \ {c} : stage'[d] = stage[d]
  BY ContractFields, ContractFieldsNext DEF Same
<1>2. ASSUME NEW d \in Call \ {c} PROVE tried'[d] = tried[d]
  <2>1. sent'[d] = sent[d]
    BY DEF Same
  <2> QED BY <2>1 DEF tried
<1>3. \A d \in Call \ {c} : outcome'[d] = outcome[d]
  BY ContractFields, ContractFieldsNext DEF Same
<1>4. stage' = [stage EXCEPT ![c] = stage'[c]]
  BY <1>1 DEF stage
<1>5. tried' = [tried EXCEPT ![c] = tried'[c]]
  BY <1>2 DEF tried
<1>6. outcome' = [outcome EXCEPT ![c] = outcome'[c]]
  BY <1>3 DEF outcome
<1> QED BY <1>4, <1>5, <1>6

LEMMA SameAtCall ==
    ASSUME NEW c \in Call
    PROVE  /\ stage[c] = stage'[c] => [stage EXCEPT ![c] = stage'[c]] = stage
           /\ tried[c] = tried'[c] => [tried EXCEPT ![c] = tried'[c]] = tried
           /\ outcome[c] = outcome'[c] => [outcome EXCEPT ![c] = outcome'[c]] = outcome
BY DEF stage, tried, outcome

(* The slots a call has tried, by the number of requests it has sent.      *)
SlotsWithin(n) == {slot \in Slot : n >= (IF slot = "primary" THEN 1 ELSE 2)}

LEMMA FirstSlots ==
    SlotsWithin(1) = {"primary"} /\ SlotsWithin(2) = {"primary", "fallback"}
<1>1. \A slot \in Slot : slot \in SlotsWithin(1) <=> slot = "primary"
  BY DEF SlotsWithin, Slot
<1>2. \A slot \in Slot : slot \in SlotsWithin(2)
  BY DEF SlotsWithin, Slot
<1>3. \A n : SlotsWithin(n) \subseteq Slot
  BY DEF SlotsWithin
<1> QED BY <1>1, <1>2, <1>3 DEF Slot

LEMMA TriedSlots ==
    ASSUME NEW c \in Call
    PROVE  /\ tried[c] = SlotsWithin(Len(sent[c]))
           /\ tried'[c] = SlotsWithin(Len(sent'[c]))
           /\ sent'[c] = sent[c] => tried'[c] = tried[c]
BY DEF tried, SlotsWithin

(* A call that ends with an outcome ends so in the contract.               *)
LEMMA EndsInContract ==
    ASSUME NEW c \in Call, \A d \in Call \ {c} : Same(d),
           NEW kind \in VerdictKind, NEW slot, NEW error \in Result \cup {None},
           pc'[c] = "done", sent'[c] = sent[c],
           verdict'[c] = Outcome(kind, slot, error)
    PROVE  Contract!End(c, kind)
<1>1. verdict'[c] # None /\ verdict'[c].kind = kind
  <2>1. verdict'[c] \in Verdict
    BY OutcomeType
  <2> QED BY <2>1, GatewayAssumption DEF Outcome
<1>2. stage'[c] = "done" /\ outcome'[c] = kind
  BY <1>1, ContractFieldsNext DEF Slot
<1>3. tried' = tried
  BY OnlyOneMoves, SameAtCall, TriedSlots
<1>4. /\ stage' = [stage EXCEPT ![c] = "done"]
      /\ outcome' = [outcome EXCEPT ![c] = kind]
  BY <1>2, OnlyOneMoves
<1> QED BY <1>3, <1>4 DEF Contract!End

(* A step the contract does not see.                                       *)
LEMMA HiddenFromContract ==
    ASSUME NEW c \in Call, \A d \in Call \ {c} : Same(d),
           pc'[c] = pc[c], sent'[c] = sent[c], verdict'[c] = verdict[c]
    PROVE  UNCHANGED Contract!vars
<1>1. stage'[c] = stage[c] /\ tried'[c] = tried[c] /\ outcome'[c] = outcome[c]
  BY ContractFields, ContractFieldsNext, TriedSlots
<1>2. stage' = stage
  BY <1>1, OnlyOneMoves, SameAtCall
<1>3. tried' = tried
  BY <1>1, OnlyOneMoves, SameAtCall
<1>4. outcome' = outcome
  BY <1>1, OnlyOneMoves, SameAtCall
<1> QED BY <1>2, <1>3, <1>4 DEF Contract!vars

LEMMA ContractStep ==
    TypeInv /\ RequestInv /\ HistoryInv /\ [Next]_vars
        => [Contract!Next]_(Contract!vars)
<1> SUFFICES ASSUME TypeInv, RequestInv, HistoryInv, [Next]_vars
             PROVE  [Contract!Next]_(Contract!vars)
  OBVIOUS
<1>1. CASE UNCHANGED call_vars
  BY <1>1 DEF call_vars, Contract!vars, stage, tried, outcome
<1>2. ASSUME NEW c \in Call, CallStep(c) PROVE [Contract!Next]_(Contract!vars)
  <2>1. \A d \in Call \ {c} : Same(d)
    BY <1>2, OtherCalls
  <2>2. History(c) /\ Requested(c)
    BY DEF HistoryInv, RequestInv
  <2>3. CASE refuse(c)
    <3>1. PICK a \in Args : /\ Refusal(a) # None
                            /\ verdict'[c] = Outcome(Refusal(a), "none", None)
      BY <2>3, RefuseEffect
    <3>2. Refusal(a) \in {"LLMNotInitializedError", "LLMFeatureNotImplementedError"}
      BY <3>1, RefusalKinds DEF TypeInv
    <3>3. Contract!End(c, Refusal(a))
      <4>1. Refusal(a) \in VerdictKind
        BY <3>2 DEF VerdictKind
      <4>2. pc'[c] = "done" /\ sent'[c] = sent[c]
        BY <2>3, RefuseEffect
      <4> QED BY <2>1, <3>1, <4>1, <4>2, EndsInContract
    <3>4. stage[c] = "idle"
      BY <2>3, RefuseEffect, ContractFields DEF Slot
    <3> QED BY <3>2, <3>3, <3>4 DEF Contract!Next, Contract!Refuse
  <2>4. CASE begin(c)
    <3>1. Len(sent[c]) = 0 /\ \E x : sent'[c] = Append(sent[c], x)
      BY <2>2, <2>4, BeginEffect DEF Requested
    <3>2. Len(sent'[c]) = 1
      BY <3>1, HistoryTypes, OneMore
    <3>3. pc[c] = "idle" /\ pc'[c] = "primary" /\ verdict'[c] = verdict[c]
      BY <2>4, BeginEffect
    <3>4. stage[c] = "idle" /\ stage'[c] = "trying" /\ outcome'[c] = outcome[c]
      BY <3>3, ContractFields, ContractFieldsNext DEF Slot
    <3>5. tried'[c] = {"primary"}
      BY <3>2, TriedSlots, FirstSlots
    <3>6. /\ stage' = [stage EXCEPT ![c] = "trying"]
          /\ tried' = [tried EXCEPT ![c] = {"primary"}]
      BY <2>1, <3>4, <3>5, OnlyOneMoves
    <3>7. outcome' = outcome
      BY <2>1, <3>4, OnlyOneMoves, SameAtCall
    <3>8. Contract!Begin(c)
      BY <3>4, <3>6, <3>7 DEF Contract!Begin
    <3> QED BY <3>8 DEF Contract!Next
  <2>5. CASE succeed(c) \/ reraise(c) \/ give_up(c)
    <3>1. PICK r \in Result : leave(c, r) /\ EndsAs(c, r, verdict'[c])
      BY <2>5, EndEffect
    <3>2. pc'[c] = "done" /\ sent'[c] = sent[c] /\ pc[c] \in Slot
      BY <2>5, <3>1, EndEffect, LeaveEffect
    <3>3. stage[c] = "trying"
      BY <3>2, ContractFields
    <3>4. CASE r = "LLMResponse" /\ verdict'[c] = Outcome("LLMResponse", pc[c], None)
      <4>1. Contract!End(c, "LLMResponse")
        <5>1. "LLMResponse" \in VerdictKind
          BY DEF VerdictKind
        <5> QED BY <2>1, <3>2, <3>4, <5>1, EndsInContract
      <4> QED BY <3>3, <4>1 DEF Contract!Next, Contract!Advance, Contract!Finish
    <3>5. CASE reraised(r) /\ verdict'[c] = Outcome(r, "none", None)
      <4>1. r \in {"LLMAuthenticationError", "CancelledError"} /\ r \in VerdictKind
        BY <3>5 DEF reraised, VerdictKind
      <4>2. Contract!End(c, r)
        BY <2>1, <3>2, <3>5, <4>1, EndsInContract
      <4> QED BY <3>3, <4>1, <4>2 DEF Contract!Next, Contract!Advance, Contract!Finish
    <3>6. CASE /\ pc[c] = "fallback" /\ failed(r)
               /\ verdict'[c] = Outcome("LLMAllModelsFailedError", "none",
                                        primary_error[c])
      <4>1. Contract!End(c, "LLMAllModelsFailedError")
        <5>1. "LLMAllModelsFailedError" \in VerdictKind
          BY DEF VerdictKind
        <5>2. primary_error[c] \in Result \cup {None}
          BY DEF TypeInv, GatewayTypeOK
        <5> QED BY <2>1, <3>2, <3>6, <5>1, <5>2, EndsInContract
      <4>2. tried[c] = {"primary", "fallback"}
        <5>1. Len(sent[c]) = 2
          BY <2>2, <3>6 DEF Requested
        <5> QED BY <5>1, TriedSlots, FirstSlots
      <4> QED BY <3>3, <4>1, <4>2 DEF Contract!Next, Contract!Advance, Contract!Outage
    <3> QED BY <3>1, <3>4, <3>5, <3>6 DEF EndsAs
  <2>6. CASE fall_back(c)
    <3>1. /\ pc[c] = "primary" /\ pc'[c] = "fallback" /\ verdict'[c] = verdict[c]
          /\ \E x : sent'[c] = Append(sent[c], x)
      BY <2>6, FallBackEffect
    <3>2. Len(sent[c]) = 1
      BY <2>2, <3>1 DEF Requested
    <3>3. Len(sent'[c]) = 2
      <4>1. Len(sent'[c]) = Len(sent[c]) + 1
        BY <3>1, HistoryTypes, OneMore
      <4> QED BY <3>2, <4>1
    <3>4. tried[c] = {"primary"} /\ tried'[c] = {"primary", "fallback"}
      BY <3>2, <3>3, TriedSlots, FirstSlots
    <3>5. /\ stage[c] = "trying" /\ stage'[c] = stage[c] /\ outcome'[c] = outcome[c]
      BY <3>1, ContractFields, ContractFieldsNext DEF Slot
    <3>6. tried' = [tried EXCEPT ![c] = {"primary", "fallback"}]
      BY <2>1, <3>4, OnlyOneMoves
    <3>7. stage' = stage
      BY <2>1, <3>5, OnlyOneMoves, SameAtCall
    <3>8. outcome' = outcome
      BY <2>1, <3>5, OnlyOneMoves, SameAtCall
    <3>9. Contract!FallBack(c)
      BY <3>4, <3>5, <3>6, <3>7, <3>8 DEF Contract!FallBack
    <3> QED BY <3>9 DEF Contract!Next, Contract!Advance
  <2>7. CASE cancel_unwinding(c)
    <3>1. /\ pc[c] \in Slot /\ pc'[c] = "done" /\ sent'[c] = sent[c]
          /\ verdict'[c] = Outcome("CancelledError", "none", None)
      BY <2>7, CancelUnwindingEffect
    <3>2. Contract!End(c, "CancelledError")
      <4>1. "CancelledError" \in VerdictKind
        BY DEF VerdictKind
      <4> QED BY <2>1, <3>1, <4>1, EndsInContract
    <3>3. stage[c] = "trying"
      BY <3>1, ContractFields
    <3> QED BY <3>2, <3>3 DEF Contract!Next, Contract!Advance, Contract!Finish
  <2>8. CASE WaitStep(c)
    BY <2>1, <2>8, WaitEffect, HiddenFromContract
  <2>9. CASE \E slot \in Slot : report(c, slot)
    BY <2>1, <2>9, ReportEffect, HiddenFromContract
  <2> QED BY <1>2, <2>3, <2>4, <2>5, <2>6, <2>7, <2>8, <2>9
          DEF CallStep, Resume, WaitStep
<1> QED BY <1>1, <1>2 DEF Next, vars

(* Every step of call_llm is one its callers' contract allows, or one they *)
(* cannot see: the safety part of ImplementsContract.                      *)
THEOREM KeepsContract == SafeSpec => Contract!SafeSpec
<1>1. Init => Contract!Init
  <2> SUFFICES ASSUME Init PROVE Contract!Init
    OBVIOUS
  <2>1. stage = [c \in Call |-> "idle"] /\ outcome = [c \in Call |-> None]
    BY DEF Init, stage, outcome, Slot
  <2>2. tried = [c \in Call |-> {}]
    BY DEF Init, tried, Slot
  <2> QED BY <2>1, <2>2 DEF Contract!Init
<1> QED BY <1>1, ContractStep, TypeInit, TypeStep, RequestInit, RequestStep,
           HistoryInit, HistoryStep, PTL DEF SafeSpec, Contract!SafeSpec

-----------------------------------------------------------------------------
(* The startup goes on under the calls.                                    *)

LEMMA CallsLeaveStartup ==
    ASSUME NEW c \in Call, CallStep(c)
    PROVE  UNCHANGED startup_vars
<1>1. CASE refuse(c) \/ begin(c) \/ Resume(c)
  BY <1>1 DEF refuse, begin, Resume, succeed, reraise, fall_back, give_up, leave
<1>2. CASE acompletion_ends(c) \/ deadline(c) \/ unwind(c) \/ tick(c)
  BY <1>2 DEF acompletion_ends, deadline, unwind, tick, UnchangedByWait
<1>3. CASE cancel_pending(c) \/ cancel_unwinding(c)
  BY <1>3 DEF cancel_pending, cancel_unwinding, UnchangedByWait
<1>4. CASE \E slot \in Slot : report(c, slot)
  BY <1>4 DEF report
<1> QED BY <1>1, <1>2, <1>3, <1>4 DEF CallStep

(* No call, however it is refused, fails over or is cut off, touches the   *)
(* table, the flag, the environment or the callbacks: what holds of        *)
(* initialize() alone holds while calls are under way.                     *)
THEOREM GatewayRunsStartup == SafeSpec => StartupSpec
<1>1. Init => StartupInit
  BY DEF Init
<1>2. [Next]_vars => [StartupNext]_startup_vars
  BY CallsLeaveStartup DEF Next, StartupNext, vars
<1> QED BY <1>1, <1>2, PTL DEF SafeSpec, StartupSpec
=============================================================================
