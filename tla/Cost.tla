-------------------------------- MODULE Cost --------------------------------
(***************************************************************************)
(* cost_calculator.py: what one call is estimated to have cost, and the    *)
(* warning that goes with the estimate.  Prices are natural numbers per    *)
(* token, so that the division by a million and the conversion of CNY into *)
(* USD are a choice of unit; Decimal's 28 digits are not modelled.         *)
(***************************************************************************)
EXTENDS Integers

CONSTANTS
    MODEL_PRICES,       \* [model -> [input, output]]
    TIERED_MODELS,      \* _TIERED_MODELS: those whose price depends on the prompt
    TIER1_TOKEN_LIMIT

ASSUME CostAssumption ==
    /\ TIER1_TOKEN_LIMIT \in Nat
    /\ \A m \in DOMAIN MODEL_PRICES : MODEL_PRICES[m] \in [input : Nat, output : Nat]

priced(model) == model \in DOMAIN MODEL_PRICES

placeholder(model) == MODEL_PRICES[model] = [input |-> 0, output |-> 0]

(* Mutant: >= for >.                                                       *)
above_tier1_at_limit(model, prompt_tokens) ==
    model \in TIERED_MODELS /\ prompt_tokens >= TIER1_TOKEN_LIMIT

above_tier1(model, prompt_tokens) ==
    model \in TIERED_MODELS /\ prompt_tokens > TIER1_TOKEN_LIMIT

(* The warning logged, at most one.                                        *)
warning(model, prompt_tokens) ==
    IF ~priced(model) THEN "unknown_model_price"
    ELSE IF placeholder(model) THEN "unverified_model_price"
    ELSE IF above_tier1(model, prompt_tokens) THEN "cost_estimate_above_tier1"
    ELSE "none"

at_rate(rate, prompt_tokens, completion_tokens) ==
    prompt_tokens * rate.input + completion_tokens * rate.output

estimate_cost(model, prompt_tokens, completion_tokens) ==
    IF priced(model)
    THEN at_rate(MODEL_PRICES[model], prompt_tokens, completion_tokens)
    ELSE 0
=============================================================================
