----------------------------- MODULE Spend_proofs ----------------------------
(***************************************************************************)
(* The estimates of cost_calculator.py for any prices and token counts,    *)
(* and of every model a published table can route to.                      *)
(***************************************************************************)
EXTENDS Spend, Startup_proofs, WellFoundedInduction

(* What test_model_capabilities_and_prices_keys_align asserts of the two   *)
(* tables of the repository, and that no price is a placeholder.           *)
PricesAlign ==
    \A m \in DOMAIN MODEL_CAPABILITIES :
        priced(m) /\ MODEL_PRICES[m].input > 0 /\ MODEL_PRICES[m].output > 0

LEMMA PriceIsPair ==
    ASSUME NEW m, priced(m)
    PROVE  /\ MODEL_PRICES[m].input \in Nat /\ MODEL_PRICES[m].output \in Nat
           /\ MODEL_PRICES[m] \in [input : Nat, output : Nat]
BY CostAssumption DEF priced

LEMMA ProductIsNatural ==
    \A a, b \in Nat : a * b \in Nat /\ (a > 0 /\ b > 0 => a * b > 0)
BY SMT

LEMMA CallIsCharged ==
    ASSUME PricesAlign, NEW m \in DOMAIN MODEL_CAPABILITIES,
           NEW p \in Nat, NEW c \in Nat, <<p, c>> # <<0, 0>>
    PROVE  estimate_cost(m, p, c) > 0
<1>1. PICK i \in Nat, o \in Nat :
         i = MODEL_PRICES[m].input /\ o = MODEL_PRICES[m].output
  BY PriceIsPair DEF PricesAlign
<1>2. i > 0 /\ o > 0 /\ priced(m)
  BY <1>1 DEF PricesAlign
<1>3. p > 0 \/ c > 0
  OBVIOUS
<1>4. /\ p * i \in Nat /\ c * o \in Nat
      /\ p > 0 => p * i > 0
      /\ c > 0 => c * o > 0
  BY <1>2, ProductIsNatural
<1>5. estimate_cost(m, p, c) = p * i + c * o
  BY <1>1, <1>2 DEF estimate_cost, at_rate
<1> QED BY <1>3, <1>4, <1>5

LEMMA RoutedModelIsKnown ==
    ASSUME StartupInv, NEW m \in Routed
    PROVE  m \in DOMAIN MODEL_CAPABILITIES
<1>1. routing_table # None /\ ValidTable(routing_table)
  BY DEF Routed, StartupInv
<1>2. PICK p \in Purpose : m \in {routing_table[p].primary, routing_table[p].fallback}
  BY <1>1 DEF Routed
<1>3. p \in DOMAIN routing_table
  BY <1>1, ValidTableIsSome
<1> QED BY <1>1, <1>2, <1>3 DEF ValidTable, validate_routing_capabilities, Serves

(* Whatever documents are read by however many callers: if every model     *)
(* with listed capabilities has a price, every model a call can be routed  *)
(* to has one, and no call with tokens is logged as free.                  *)
THEOREM ModelsAreCharged ==
    ASSUME PricesAlign, Usage \subseteq Nat \X Nat
    PROVE  StartupSpec => []RoutedModelsArePriced
<1>1. StartupInv => RoutedModelsArePriced
  <2> SUFFICES ASSUME StartupInv, NEW m \in Routed
               PROVE  /\ priced(m) /\ ~placeholder(m)
                      /\ \A u \in Usage : u # <<0, 0>> => estimate_cost(m, u[1], u[2]) > 0
    BY DEF RoutedModelsArePriced
  <2>1. m \in DOMAIN MODEL_CAPABILITIES
    BY RoutedModelIsKnown
  <2>2. priced(m) /\ MODEL_PRICES[m].input > 0
    BY <2>1 DEF PricesAlign
  <2>3. ~placeholder(m)
    BY <2>2 DEF placeholder
  <2>4. ASSUME NEW u \in Usage, u # <<0, 0>> PROVE estimate_cost(m, u[1], u[2]) > 0
    <3>1. u[1] \in Nat /\ u[2] \in Nat /\ u = <<u[1], u[2]>>
      OBVIOUS
    <3> QED BY <2>1, <2>4, <3>1, CallIsCharged
  <2> QED BY <2>2, <2>3, <2>4
<1>2. StartupInv /\ [StartupNext]_startup_vars => StartupInv'
  BY StartupStepInv, StartupStutterInv DEF StartupNext
<1> QED BY <1>1, <1>2, StartupInitInv, PTL DEF StartupSpec

-----------------------------------------------------------------------------
(* What the price lists ask.                                               *)

LEMMA LeastIndex ==
    ASSUME NEW T, T \subseteq Nat, T # {}
    PROVE  \E i \in T : \A j \in T : i <= j
<1>1. PICK i \in T : \A j \in T : ~(<<j, i>> \in OpToRel(<, Nat))
  BY NatLessThanWellFounded, WFMin
<1>2. ASSUME NEW j \in T PROVE i <= j
  <2>1. i \in Nat /\ j \in Nat
    OBVIOUS
  <2>2. ~(j < i)
    BY <1>1, <2>1 DEF OpToRel
  <2> QED BY SMT, <2>1, <2>2
<1> QED BY <1>2

LEMMA ItemsOf ==
    ASSUME NEW S, NEW s \in Seq(S)
    PROVE  /\ DOMAIN s = 1 .. Len(s) /\ Len(s) \in Nat
           /\ \A i \in DOMAIN s : s[i] \in S
OBVIOUS

(* A prompt is priced at the rate of a tier it fits into, and of the first *)
(* tier when it fits there.                                                *)
LEMMA PricedByTier ==
    ASSUME ListsAsVerified, NEW m \in DOMAIN MODEL_CAPABILITIES, NEW u \in Usage,
           u[1] \in Nat
    PROVE  \E k \in DOMAIN PRICE_LIST[m] :
              /\ list_price(m, u[1], u[2]) = at_rate(PRICE_LIST[m][k], u[1], u[2])
              /\ u[1] <= PRICE_LIST[m][k].upto
              /\ 1 \in DOMAIN PRICE_LIST[m] /\ u[1] <= PRICE_LIST[m][1].upto => k = 1
<1> DEFINE tiers == PRICE_LIST[m]
           fits == {i \in DOMAIN tiers : u[1] <= tiers[i].upto}
           first == CHOOSE i \in fits : \A j \in fits : i <= j
<1>1. /\ tiers \in Seq([upto : Nat, input : Nat, output : Nat])
      /\ fits # {}
  BY DEF ListsAsVerified
<1>2. DOMAIN tiers = 1 .. Len(tiers) /\ Len(tiers) \in Nat
  BY Zenon, <1>1, ItemsOf
<1>3. fits \subseteq Nat /\ \A i \in fits : 1 <= i
  <2>1. \A i \in 1 .. Len(tiers) : i \in Nat /\ 1 <= i
    BY SMT
  <2>2. fits \subseteq 1 .. Len(tiers)
    BY <1>2
  <2> HIDE DEF fits
  <2> QED BY <2>1, <2>2
<1>4. first \in fits /\ \A j \in fits : first <= j
  <2>1. \E i \in fits : \A j \in fits : i <= j
    BY <1>1, <1>3, LeastIndex
  <2> QED BY <2>1
<1>5. list_price(m, u[1], u[2]) = at_rate(tiers[first], u[1], u[2])
  BY DEF list_price
<1>6. ASSUME 1 \in DOMAIN tiers, u[1] <= tiers[1].upto PROVE first = 1
  <2>1. 1 \in fits
    BY <1>6
  <2>2. first <= 1 /\ 1 <= first /\ first \in Nat
    BY <1>3, <1>4, <2>1
  <2> QED BY <2>2
<1> QED BY <1>4, <1>5, <1>6

LEMMA DearerProduct ==
    \A p, a, b \in Nat : /\ a <= b => p * a <= p * b
                        /\ p > 0 /\ a < b => p * a < p * b
BY SMT

(* The same rates make the same amount; a dearer prompt makes a larger one. *)
LEMMA RatesCompare ==
    ASSUME NEW r, NEW l, NEW p \in Nat, NEW c \in Nat,
           r.input \in Nat, r.output \in Nat, l.input \in Nat, l.output \in Nat
    PROVE  /\ r.input = l.input /\ r.output = l.output => at_rate(l, p, c) = at_rate(r, p, c)
           /\ p > 0 /\ r.input > l.input /\ r.output >= l.output
                 => at_rate(l, p, c) < at_rate(r, p, c)
<1>1. PICK ri \in Nat, ro \in Nat : ri = r.input /\ ro = r.output
  OBVIOUS
<1>2. PICK li \in Nat, lo \in Nat : li = l.input /\ lo = l.output
  OBVIOUS
<1>3. at_rate(l, p, c) = p * li + c * lo /\ at_rate(r, p, c) = p * ri + c * ro
  BY <1>1, <1>2 DEF at_rate
<1>4. /\ p * li \in Nat /\ c * lo \in Nat /\ p * ri \in Nat /\ c * ro \in Nat
      /\ lo <= ro => c * lo <= c * ro
      /\ p > 0 /\ li < ri => p * li < p * ri
  BY ProductIsNatural, DearerProduct
<1>5. ASSUME p > 0, ri > li, ro >= lo PROVE at_rate(l, p, c) < at_rate(r, p, c)
  <2>1. li < ri /\ lo <= ro
    BY SMT, <1>5
  <2>2. c * lo <= c * ro /\ p * li < p * ri
    BY <1>4, <1>5, <2>1
  <2>3. p * li + c * lo < p * ri + c * ro
    BY <1>4, <2>2
  <2> QED BY <1>3, <2>3
<1> QED BY <1>1, <1>2, <1>3, <1>5

LEMMA EstimateOrLess ==
    ASSUME PricesAlign, ListsAsVerified, NEW m \in DOMAIN MODEL_CAPABILITIES,
           NEW u \in Usage, u[1] \in Nat, u[2] \in Nat
    PROVE  IF warning(m, u[1]) = "none"
           THEN estimate_cost(m, u[1], u[2]) = list_price(m, u[1], u[2])
           ELSE estimate_cost(m, u[1], u[2]) < list_price(m, u[1], u[2])
<1> DEFINE tiers == PRICE_LIST[m]
           listed == MODEL_PRICES[m]
<1>1. PICK k \in DOMAIN tiers :
         /\ list_price(m, u[1], u[2]) = at_rate(tiers[k], u[1], u[2])
         /\ u[1] <= tiers[k].upto
         /\ 1 \in DOMAIN tiers /\ u[1] <= tiers[1].upto => k = 1
  BY PricedByTier
<1>2. /\ priced(m) /\ listed.input > 0
      /\ listed.input \in Nat /\ listed.output \in Nat
  BY PriceIsPair DEF PricesAlign
<1>3. /\ estimate_cost(m, u[1], u[2]) = at_rate(listed, u[1], u[2])
      /\ warning(m, u[1]) = IF above_tier1(m, u[1]) THEN "cost_estimate_above_tier1"
                                                   ELSE "none"
  <2>1. ~placeholder(m)
    BY <1>2 DEF placeholder
  <2> QED BY <1>2, <2>1 DEF estimate_cost, warning
<1>4. tiers[k].input \in Nat /\ tiers[k].output \in Nat
  <2>1. tiers \in Seq([upto : Nat, input : Nat, output : Nat])
    BY DEF ListsAsVerified
  <2>2. tiers[k] \in [upto : Nat, input : Nat, output : Nat]
    BY Zenon, <2>1, ItemsOf
  <2> QED BY <2>2
<1>5. ASSUME tiers[k].input = listed.input, tiers[k].output = listed.output
      PROVE  estimate_cost(m, u[1], u[2]) = list_price(m, u[1], u[2])
  <2>1. at_rate(listed, u[1], u[2]) = at_rate(tiers[k], u[1], u[2])
    <3>1. /\ tiers[k].input \in Nat /\ tiers[k].output \in Nat
          /\ listed.input \in Nat /\ listed.output \in Nat
      BY <1>2, <1>4
    <3> QED BY <1>5, <3>1, RatesCompare
  <2> QED BY <1>1, <1>3, <2>1
<1>6. CASE m \notin TIERED_MODELS
  <2>1. tiers[k].input = listed.input /\ tiers[k].output = listed.output
    BY <1>6 DEF ListsAsVerified
  <2>2. warning(m, u[1]) = "none"
    BY <1>3, <1>6 DEF above_tier1
  <2> QED BY <1>5, <2>1, <2>2
<1>7. CASE m \in TIERED_MODELS
  <2>1. /\ tiers \in Seq([upto : Nat, input : Nat, output : Nat])
        /\ tiers # <<>> /\ tiers[1].upto = TIER1_TOKEN_LIMIT
    BY <1>7 DEF ListsAsVerified
  <2>r. /\ k = 1 => tiers[k].input = listed.input /\ tiers[k].output = listed.output
        /\ k # 1 => tiers[k].input > listed.input /\ tiers[k].output >= listed.output
    BY Zenon, <1>7 DEF ListsAsVerified
  <2>2. 1 \in DOMAIN tiers
    BY <2>1
  <2>3. CASE k = 1
    <3>1. ~(u[1] > TIER1_TOKEN_LIMIT)
      BY <1>1, <2>1, <2>3, CostAssumption
    <3> QED BY <1>3, <1>5, <2>r, <2>3, <3>1 DEF above_tier1
  <2>4. CASE k # 1
    <3>1. ~(u[1] <= TIER1_TOKEN_LIMIT)
      BY <1>1, <2>1, <2>2, <2>4
    <3>2. u[1] > TIER1_TOKEN_LIMIT /\ u[1] > 0
      BY <3>1, CostAssumption
    <3>3. at_rate(listed, u[1], u[2]) < at_rate(tiers[k], u[1], u[2])
      BY <1>2, <1>4, <2>r, <2>4, <3>2, RatesCompare
    <3>4. warning(m, u[1]) # "none"
      BY <1>3, <1>7, <3>2 DEF above_tier1
    <3> QED BY <1>1, <1>3, <3>3, <3>4
  <2> QED BY <2>3, <2>4
<1> QED BY <1>6, <1>7

(* With price lists as cost_calculator.py describes them, whatever is      *)
(* published: a call is estimated at its list price, or the warning is     *)
(* logged and the list price is higher.  Of exchange rates, rounding and   *)
(* prices changed since, which separate a list price from an invoice, this *)
(* says nothing.                                                           *)
THEOREM TierGapCarriesWarning ==
    ASSUME PricesAlign, ListsAsVerified, Usage \subseteq Nat \X Nat
    PROVE  StartupSpec => []TierGapIsFlagged
<1>1. StartupInv => TierGapIsFlagged
  <2> SUFFICES ASSUME StartupInv, NEW m \in Routed, NEW u \in Usage
               PROVE  IF warning(m, u[1]) = "none"
                      THEN estimate_cost(m, u[1], u[2]) = list_price(m, u[1], u[2])
                      ELSE estimate_cost(m, u[1], u[2]) < list_price(m, u[1], u[2])
    BY DEF TierGapIsFlagged
  <2>1. m \in DOMAIN MODEL_CAPABILITIES /\ u[1] \in Nat /\ u[2] \in Nat
    BY RoutedModelIsKnown
  <2> QED BY <2>1, EstimateOrLess
<1>2. StartupInv /\ [StartupNext]_startup_vars => StartupInv'
  BY StartupStepInv, StartupStutterInv DEF StartupNext
<1> QED BY <1>1, <1>2, StartupInitInv, PTL DEF StartupSpec
=============================================================================
