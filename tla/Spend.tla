-------------------------------- MODULE Spend -------------------------------
(***************************************************************************)
(* The cost calculator beside the router: what the calls of a published    *)
(* table are estimated at, and what the vendors' price lists ask for them. *)
(* An invoice is yet another amount: the exchange rate of the day, the     *)
(* vendor's rounding and prices changed since are not modelled, and        *)
(* cost_calculator.py says that no warning covers them.                    *)
(***************************************************************************)
EXTENDS Startup, Cost

CONSTANTS
    PRICE_LIST,    \* external: per model, its rates with the prompt each reaches to,
                   \* at USD_PER_CNY
    Usage          \* the pairs of token counts looked at

(* What the list asks: the rate of the first tier the prompt fits in.      *)
list_price(model, prompt_tokens, completion_tokens) ==
    LET fits == {i \in DOMAIN PRICE_LIST[model] :
                    prompt_tokens <= PRICE_LIST[model][i].upto}
        tier == CHOOSE i \in fits : \A j \in fits : i <= j
    IN  at_rate(PRICE_LIST[model][tier], prompt_tokens, completion_tokens)

(* External: what cost_calculator.py says of the price lists it copied on  *)
(* 2026-04-23.  A tiered model has the rate of the code up to the limit    *)
(* and dearer ones beyond, a flat one the rate of the code throughout; a   *)
(* prompt fits into some tier.                                             *)
ListsAsVerified ==
    \A m \in DOMAIN MODEL_CAPABILITIES :
        LET tiers == PRICE_LIST[m]
            AsListed(t) == /\ t.input = MODEL_PRICES[m].input
                           /\ t.output = MODEL_PRICES[m].output
            Dearer(t) == /\ t.input > MODEL_PRICES[m].input
                         /\ t.output >= MODEL_PRICES[m].output
        IN  /\ tiers \in Seq([upto : Nat, input : Nat, output : Nat])
            /\ \A u \in Usage : \E i \in DOMAIN tiers : u[1] <= tiers[i].upto
            /\ IF m \in TIERED_MODELS
               THEN /\ tiers # <<>> /\ tiers[1].upto = TIER1_TOKEN_LIMIT
                    /\ \A i \in DOMAIN tiers :
                          IF i = 1 THEN AsListed(tiers[i]) ELSE Dearer(tiers[i])
               ELSE \A i \in DOMAIN tiers : AsListed(tiers[i])

Routed ==
    IF routing_table = None THEN {}
    ELSE {routing_table[p].primary : p \in Purpose}
         \cup {routing_table[p].fallback : p \in Purpose}

-----------------------------------------------------------------------------
(* Properties.                                                             *)

(* test_model_capabilities_and_prices_keys_align: a model that traffic can *)
(* be routed to has a price, so that no call is ever logged as free.  The  *)
(* test compares the keys of two dicts; that only such models reach a      *)
(* published table is the router's doing.                                  *)
RoutedModelsArePriced ==
    \A m \in Routed :
        /\ priced(m) /\ ~placeholder(m)
        /\ \A u \in Usage : u # <<0, 0>> => estimate_cost(m, u[1], u[2]) > 0

(* "cost is still returned but will underestimate": of the reasons why an  *)
(* estimate departs from the vendor's bill the tier is the one that is     *)
(* warned of, from the first token beyond it and not before.  An estimate  *)
(* without the warning is the list price, one with it is less.             *)
TierGapIsFlagged ==
    \A m \in Routed, u \in Usage :
        IF warning(m, u[1]) = "none"
        THEN estimate_cost(m, u[1], u[2]) = list_price(m, u[1], u[2])
        ELSE estimate_cost(m, u[1], u[2]) < list_price(m, u[1], u[2])
=============================================================================
