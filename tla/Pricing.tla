------------------------------- MODULE Pricing -------------------------------
(***************************************************************************)
(* What an answer costs (pricing/calc.rs): the rule for the provider and   *)
(* the model, or the most specific wildcard that stands in for it, prices  *)
(* each class of tokens apart.                                             *)
(*                                                                         *)
(* Prices are per million tokens, so a cost is in millionths: an integer,  *)
(* since a Decimal holds it exactly.  A map is a function on the pairs it  *)
(* has a rule for.                                                         *)
(***************************************************************************)
EXTENDS UsageObserver

Wildcard == "*"
NoCost == [amount |-> None, source |-> "none"]

(* pricing_map refuses negative rates and a pair that comes twice.         *)
Rule == [input: Nat, output: Nat, cached_input: Nat \cup {None},
         cache_read: Nat \cup {None}, cache_write: Nat \cup {None}, source: STRING]
IsPricing(pricing) ==
  \A pair \in DOMAIN pricing :
    pair = <<pair[1], pair[2]>> /\ pricing[pair] \in Rule

(* lookup_pricing.                                                         *)
LookupModelFirst(provider, model) ==
  << <<provider, model>>, <<Wildcard, model>>, <<provider, Wildcard>>,
     <<Wildcard, Wildcard>> >>
LookupOrder(provider, model) ==
  << <<provider, model>>, <<provider, Wildcard>>, <<Wildcard, model>>,
     <<Wildcard, Wildcard>> >>
Matches(pricing, provider, model) ==
  {i \in 1 .. 4 : LookupOrder(provider, model)[i] \in DOMAIN pricing}
FirstMatch(pricing, provider, model) ==
  LookupOrder(provider, model)[Min(Matches(pricing, provider, model))]

(* A class of tokens that came up needs a price of its own.                *)
Unpriced(usage, rule) ==
  \E class \in {"cached_input", "cache_read", "cache_write"} :
    usage[class] > 0 /\ rule[class] = None

AtLeastZero(n) == IF n < 0 THEN 0 ELSE n
RegularInputWhole(usage) == Some(usage["input"])
RegularInput(usage) == AtLeastZero(Some(usage["input"]) - Some(usage["cached_input"]))

TokenCost(tokens, price) == IF price = None THEN 0 ELSE tokens * price
CostUnder(usage, rule) ==
  TokenCost(RegularInput(usage), rule.input)
    + TokenCost(Some(usage["output"]), rule.output)
    + TokenCost(Some(usage["cached_input"]), rule.cached_input)
    + TokenCost(Some(usage["cache_read"]), rule.cache_read)
    + TokenCost(Some(usage["cache_write"]), rule.cache_write)

CalculateCost(pricing, provider, model, usage) ==
  IF ~HasTokens(usage) \/ Matches(pricing, provider, model) = {} THEN NoCost
  ELSE LET rule == pricing[FirstMatch(pricing, provider, model)] IN
       IF Unpriced(usage, rule) THEN NoCost
       ELSE [amount |-> CostUnder(usage, rule), source |-> rule.source]
=============================================================================
