------------------------------ MODULE OrderPlan ------------------------------
(***************************************************************************)
(* The arithmetic of one trade, step by step: which strike, at what limit, *)
(* how many contracts, split how over the take-profit levels, and at which *)
(* prices each slice is sold.                                              *)
(*                                                                         *)
(*   - management.py  validate_management_policy                           *)
(*   - selection.py   candidate_strikes, choose_strike_by_target_range,    *)
(*                    validate_quote, applicable_increment, round_to_tick, *)
(*                    marketable_limit                                     *)
(*   - engine.py      _prepare_open, _resolve_quantity, leg prices,        *)
(*                    transition prices, the limit of a close              *)
(*   - protection.py  largest_remainder_allocation                         *)
(*                                                                         *)
(* Prices are in cents. What is not a whole number of cents (slippage, an  *)
(* average over contracts, a percentage) is a fraction n / d, exact as the *)
(* code's Decimal is.                                                      *)
(***************************************************************************)
EXTENDS Integers, Sequences, FiniteSets, FiniteSetsExt, Sums

CONSTANTS
  Policies,        \* management policies as sent, valid or not
  Capitals,        \* capital_per_trade_dollars, in cents, or None
  Strikes,         \* listed strikes, a rising sequence
  Spots,           \* midpoints of the underlying
  Premiums,        \* what a candidate strike is quoted at
  Quotes,          \* <<bid, ask>> of the option
  \* CoreConfig
  TargetLo, TargetHi, CandidateCount,
  MinPremium, MaxPremium, MaxSpread, MaxSpreadPercent,
  SlipCents, SlipPercent, MaxContracts,
  Rules,           \* market rule: [low, inc], rising, the first at 0
  Multiplier,
  Distances,       \* distancePercent of TRAIL_FRESH_BID, 1 to 1000
  None

StopPrices == [trigger : Nat, limit : Nat]

\* A price at an edge is valid on both sides of it, as in IBKR's market rules.
ASSUME RulesAssumption ==
  /\ Rules \in Seq([low : Nat, inc : Nat \ {0}])
  /\ Len(Rules) > 0 /\ Rules[1].low = 0
  /\ \A i \in 1..Len(Rules) : Rules[i].low % Rules[i].inc = 0
  /\ \A i \in 2..Len(Rules) : Rules[i].low % Rules[i - 1].inc = 0
  /\ \A i, j \in 1..Len(Rules) : i < j => Rules[i].low < Rules[j].low

\* What CoreConfig accepts.
ASSUME ConfigAssumption ==
  /\ {TargetLo, TargetHi, MinPremium, MaxPremium, MaxSpread, MaxSpreadPercent,
      SlipCents, SlipPercent} \subseteq Nat
  /\ {CandidateCount, MaxContracts, Multiplier} \subseteq Nat \ {0}

ASSUME InputsAssumption ==
  /\ \A p \in Policies :
       p.levels \in Seq([trigger : Int, share : Int]) /\ p.stop \in Int
  /\ Capitals \subseteq Nat \cup {None} /\ None \notin StopPrices
  /\ Strikes \in Seq(Int) /\ Len(Strikes) > 0
  /\ Spots \subseteq Int /\ Premiums \subseteq Nat /\ Quotes \subseteq Int \X Int
  /\ Distances \subseteq Nat

VARIABLES
  stage,    \* how far the trade has come; "blocked" when a check refused it
  policy, capital,
  right,    \* "C" or "P"
  offers,   \* spot, and the quoted premium of each candidate that has one
  strike,
  quote,    \* the option's <<bid, ask>> the latest limit was made from
  limit,    \* limit of the entry, then of the close
  quantity,
  cost,     \* what was paid for all contracts of the fill, per share
  split,    \* contracts of each take-profit level
  takes,    \* take-profit limit of each level
  stop      \* [trigger, limit] of every stop leg, None where it is blocked

request == <<policy, capital, right>>
entry == <<limit, quantity, cost>>
exits == <<split, takes, stop>>
vars == <<stage, request, offers, strike, quote, entry, exits>>

Init ==
  /\ stage = "received"
  /\ policy \in Policies /\ capital \in Capitals /\ right \in {"C", "P"}
  /\ offers = None /\ strike = None /\ quote = None
  /\ limit = 0 /\ quantity = 0 /\ cost = 0
  /\ split = <<>> /\ takes = <<>> /\ stop = None

-----------------------------------------------------------------------------
(* management.py *)

\* validate_management_policy: one to eight levels, triggers rising, allocations
\* of 100 percent together.
ValidPolicy(p) ==
  /\ Len(p.levels) \in 1..8
  /\ p.stop \in 1..100
  /\ \A i \in DOMAIN p.levels : p.levels[i].trigger \in 1..1000 /\ p.levels[i].share \in 1..100
  /\ \A i \in 2..Len(p.levels) : p.levels[i].trigger > p.levels[i - 1].trigger
  /\ Total([i \in DOMAIN p.levels |-> p.levels[i].share], DOMAIN p.levels) = 100

ValidatePolicy ==
  /\ stage = "received"
  /\ stage' = IF ValidPolicy(policy) THEN "validated" ELSE "blocked"
  /\ UNCHANGED <<request, offers, strike, quote, entry, exits>>

-----------------------------------------------------------------------------
(* Strike. *)

AbsDiff(a, b) == IF a < b THEN b - a ELSE a - b

\* The listed strike nearest the spot, the lower one of two.
AtmIndex(spot) ==
  CHOOSE i \in DOMAIN Strikes : \A j \in DOMAIN Strikes \ {i} :
    \/ AbsDiff(Strikes[i], spot) < AbsDiff(Strikes[j], spot)
    \/ AbsDiff(Strikes[i], spot) = AbsDiff(Strikes[j], spot) /\ i < j

\* candidate_strikes, by index: at the money first, then out of it: up for calls,
\* down for puts.
CandidatesUpward(spot, r) ==
  {AtmIndex(spot) + n : n \in 0..(CandidateCount - 1)} \cap DOMAIN Strikes
Candidates(spot, r) ==
  {AtmIndex(spot) + (IF r = "C" THEN n ELSE -n) : n \in 0..(CandidateCount - 1)}
    \cap DOMAIN Strikes

InRange(premium) == TargetLo <= premium /\ premium <= TargetHi
FromTarget(premium) == AbsDiff(2 * premium, TargetLo + TargetHi)

\* choose_strike_by_target_range: among those in range, or else all with a quote,
\* the nearest to the middle of the range, the one nearer the money of two.
Choice(spot, premium) ==
  LET eligible == DOMAIN premium
      inRange == {i \in eligible : InRange(premium[i])}
      pool == IF inRange # {} THEN inRange ELSE eligible
  IN CHOOSE i \in pool : \A j \in pool \ {i} :
       \/ FromTarget(premium[i]) < FromTarget(premium[j])
       \/ /\ FromTarget(premium[i]) = FromTarget(premium[j])
          /\ AbsDiff(i, AtmIndex(spot)) < AbsDiff(j, AtmIndex(spot))

\* _choose_target_range_strike; a candidate may fail to qualify or to be quoted.
ChooseStrike ==
  /\ stage = "validated"
  /\ \E spot \in Spots : \E quoted \in SUBSET Candidates(spot, right) :
       \E premium \in [quoted -> Premiums] :
         /\ offers' = [spot |-> spot, premium |-> premium]
         /\ IF quoted = {}
            THEN stage' = "blocked" /\ UNCHANGED strike
            ELSE stage' = "selected" /\ strike' = Choice(spot, premium)
  /\ UNCHANGED <<request, quote, entry, exits>>

-----------------------------------------------------------------------------
(* Ticks. *)

\* applicable_increment, of a price n / d.
Increment(n, d) ==
  Rules[CHOOSE i \in DOMAIN Rules :
          /\ Rules[i].low * d <= n
          /\ \A j \in DOMAIN Rules : Rules[j].low * d <= n => j <= i].inc

\* round_to_tick; n >= 0.
RoundDown(n, d, inc) == (n \div (d * inc)) * inc
RoundUp(n, d, inc) == ((n + d * inc - 1) \div (d * inc)) * inc

OnTick(price) == price % Increment(price, 1) = 0

\* A hundredth of a cent is the unit of slippage: min(dollars, percent of price).
Slippage(price) == Min({100 * SlipCents, price * SlipPercent})

-----------------------------------------------------------------------------
(* _prepare_open: checks, limit and size. *)

ValidQuote(bid, ask) == bid > 0 /\ bid <= ask

SpreadWithin(bid, ask) ==
  /\ ask - bid <= MaxSpread
  /\ 200 * (ask - bid) <= MaxSpreadPercent * (ask + bid)

\* marketable_limit of a BUY, None when no tick fits under the cap.
Cap(ask) == 100 * ask + Slippage(ask)
BuyLimitOnAskTick(ask) == RoundDown(Cap(ask), 100, Increment(ask, 1))
BuyLimit(ask) ==
  LET price == RoundDown(Cap(ask), 100, Increment(Cap(ask), 100))
  IN IF price < RoundUp(ask, 1, Increment(ask, 1)) THEN None ELSE price

\* _resolve_quantity, from the limit.
ResolveFromAsk(price, bid, ask) ==
  IF capital = None THEN 1
  ELSE Min({capital \div (ask * Multiplier), MaxContracts})
ResolveQuantity(price, bid, ask) ==
  IF capital = None THEN 1
  ELSE Min({capital \div (price * Multiplier), MaxContracts})

SizedAnyway(count) == TRUE
Sized(count) == count >= 1

PrepareOpen ==
  /\ stage = "selected"
  /\ \E q \in Quotes :
       LET bid == q[1] ask == q[2] price == BuyLimit(ask)
           count == ResolveQuantity(price, bid, ask)
       IN /\ quote' = q
          /\ IF /\ ValidQuote(bid, ask) /\ bid + ask >= 2 * MinPremium
                /\ SpreadWithin(bid, ask)
                /\ price # None /\ price * Multiplier <= MaxPremium
                /\ Sized(count)
             THEN stage' = "sent" /\ limit' = price /\ quantity' = count
             ELSE stage' = "blocked" /\ UNCHANGED <<limit, quantity>>
  /\ offers' = None
  /\ UNCHANGED <<request, strike, cost, exits>>

\* External: the entry fills, each contract at its limit or a tick better, at a
\* price above 0.
Fill ==
  /\ stage = "sent"
  /\ \E better \in 0..quantity :
       /\ better > 0 => Increment(limit - 1, 1) < limit
       /\ cost' = quantity * limit - better * Increment(limit - 1, 1)
  /\ stage' = "filled"
  /\ UNCHANGED <<request, offers, strike, quote, limit, quantity, exits>>

-----------------------------------------------------------------------------
(* ensure_protection: the split and the prices of the legs. *)

Levels == DOMAIN policy.levels
Whole(i) == (quantity * policy.levels[i].share) \div 100
Remainder(i) == (quantity * policy.levels[i].share) % 100
Leftover == quantity - Total([i \in Levels |-> Whole(i)], Levels)

\* The order in which the contracts left over are handed out: the largest
\* remainder first; the sort is stable.
BeforeLateFirst(j, i) ==
  Remainder(j) > Remainder(i) \/ (Remainder(j) = Remainder(i) /\ j > i)
Before(j, i) == Remainder(j) > Remainder(i) \/ (Remainder(j) = Remainder(i) /\ j < i)

\* largest_remainder_allocation
Allocation ==
  [i \in Levels |->
     Whole(i) + IF Cardinality({j \in Levels : Before(j, i)}) < Leftover THEN 1 ELSE 0]

\* The average fill price, a percentage above or below it.
TakeProfit(percent) ==
  LET n == cost * (100 + percent) d == quantity * 100
  IN RoundUp(n, d, Increment(n, d))
StopTrigger(percent) ==
  LET n == cost * (100 - percent) d == quantity * 100
  IN RoundDown(n, d, Increment(n, d))

\* _stop_limit_from_trigger: blocked when the cushion leaves nothing. What is left
\* of it is then rounded down, to 0 if it is less than a tick.
StopAt(trigger) ==
  LET n == 100 * trigger - Slippage(trigger)
  IN IF trigger = 0 \/ n <= 0 THEN None
     ELSE [trigger |-> trigger, limit |-> RoundDown(n, 100, Increment(n, 100))]

Protect ==
  /\ stage = "filled"
  /\ split' = Allocation
  /\ takes' = [i \in Levels |-> TakeProfit(policy.levels[i].trigger)]
  /\ stop' = StopAt(StopTrigger(policy.stop))
  /\ stage' = "protected"
  /\ UNCHANGED <<request, offers, strike, quote, entry>>

\* MOVE_STOP_TO_BREAKEVEN and TRAIL_FRESH_BID, after a take-profit has filled;
\* the stop is only ever moved up.
BreakevenDown == RoundDown(cost, quantity, Increment(cost, quantity))
Breakeven == RoundUp(cost, quantity, Increment(cost, quantity))
Trailing(bid, distance) ==
  LET n == bid * (100 - distance) IN RoundUp(n, 100, Increment(n, 100))

MoveStop(trigger) ==
  IF stop # None /\ StopAt(trigger) # None /\ trigger > stop.trigger
  THEN StopAt(trigger) ELSE stop

MoveStopToBreakeven ==
  /\ stage = "protected" /\ stop # None
  /\ stop' = MoveStop(Breakeven)
  /\ stage' = "breakeven"
  /\ UNCHANGED <<request, offers, strike, quote, entry, split, takes>>

\* A distance of 100 percent or more leaves no price to round: nothing is moved.
TrailFreshBid ==
  /\ stage = "breakeven"
  /\ \E q \in Quotes, distance \in Distances :
       /\ ValidQuote(q[1], q[2])
       /\ stop' = IF distance < 100 THEN MoveStop(Trailing(q[1], distance)) ELSE stop
  /\ stage' = "trailed"
  /\ UNCHANGED <<request, offers, strike, quote, entry, split, takes>>

\* _close_sell_order: marketable_limit of a SELL. A wide spread stops a partial
\* close; a flatten goes on with a warning.
SellFloor(bid) == 100 * bid - Slippage(bid)
SellLimit(bid) ==
  LET price == RoundDown(bid, 1, Increment(bid, 1))
  IN IF SellFloor(bid) <= 0 \/ 100 * price < SellFloor(bid) THEN None ELSE price

Close ==
  /\ stage \in {"filled", "protected"}
  /\ \E q \in Quotes, flatten \in BOOLEAN :
       /\ ValidQuote(q[1], q[2]) /\ (SpreadWithin(q[1], q[2]) \/ flatten)
       /\ SellLimit(q[1]) # None
       /\ quote' = q /\ limit' = SellLimit(q[1])
  /\ stage' = "closing"
  /\ UNCHANGED <<request, offers, strike, quantity, cost, exits>>

Next ==
  \/ ValidatePolicy \/ ChooseStrike \/ PrepareOpen \/ Fill
  \/ Protect \/ MoveStopToBreakeven \/ TrailFreshBid \/ Close

Spec == Init /\ [][Next]_vars

-----------------------------------------------------------------------------
(* Properties. *)

Bought == {"sent", "filled", "protected", "breakeven", "trailed", "closing"}
Protected == {"protected", "breakeven", "trailed"}

\* Every variable stays in its declared set of values; an order that is sent is
\* for one to max_contracts_per_order contracts at a positive limit.
TypeOK ==
  /\ stage \in {"received", "validated", "selected", "blocked"} \cup Bought
  /\ policy \in Policies /\ capital \in Capitals /\ right \in {"C", "P"}
  /\ strike \in {None} \cup DOMAIN Strikes
  /\ stage \in Bought => quantity \in 1..MaxContracts /\ limit \in Nat \ {0}
  /\ stop # None => stop.trigger \in Nat /\ stop.limit \in Nat

\* The strike chosen is never deeper in the money than the one nearest the spot,
\* and its premium is in the target range whenever any candidate's is.
StrikeWithinBand ==
  stage = "selected" =>
    /\ IF right = "C" THEN strike >= AtmIndex(offers.spot) ELSE strike <= AtmIndex(offers.spot)
    /\ (\E i \in DOMAIN offers.premium : InRange(offers.premium[i])) =>
         InRange(offers.premium[strike])

\* The worst case of the fill, all contracts at the limit, is within the capital
\* the operator gave, and one contract more would not be. That is what the docstring
\* of _resolve_quantity says (engine.py:685: "never the mid"); SizedFromMid below is
\* what the documentation says instead.
DebitWithinCapital ==
  stage \in Bought \ {"closing"} /\ capital # None =>
    /\ quantity * limit * Multiplier <= capital
    /\ quantity < MaxContracts => (quantity + 1) * limit * Multiplier > capital

\* A limit is a price IBKR takes, on the tick of the price band it lies in, at
\* most the slippage cap away from the quote, and marketable as far as that goes:
\* no valid price between it and the cap, or the bid, is left out.
LimitBest ==
  /\ stage = "sent" =>
       /\ OnTick(limit) /\ quote[2] <= limit /\ 100 * limit <= Cap(quote[2])
       /\ \A p \in (limit + 1)..(Cap(quote[2]) \div 100) : ~OnTick(p)
  /\ stage = "closing" =>
       /\ OnTick(limit) /\ limit <= quote[1] /\ SellFloor(quote[1]) <= 100 * limit
       /\ \A p \in (limit + 1)..quote[1] : ~OnTick(p)

\* Every contract is in exactly one slice, none off its exact share by a whole
\* contract, and a level goes short only for levels with a larger claim, or an
\* equal and earlier one.
AllocationExact ==
  stage \in Protected =>
    /\ Total(split, Levels) = quantity
    /\ \A i \in Levels : AbsDiff(100 * split[i], quantity * policy.levels[i].share) < 100
    /\ \A i, j \in Levels :
         split[i] > Whole(i) /\ split[j] = Whole(j) =>
           \/ Remainder(i) > Remainder(j)
           \/ Remainder(i) = Remainder(j) /\ i < j

\* Exits bracket what was paid: every take-profit above the average fill and no
\* level below an earlier one, the first stop below it, the stop moved to break
\* even not below it; a stop's limit is not above its trigger; all on valid ticks.
ExitsBracketEntry ==
  stage \in Protected =>
    /\ \A i \in Levels : takes[i] * quantity > cost /\ OnTick(takes[i])
    /\ \A i \in Levels \ {1} : takes[i - 1] <= takes[i]
    /\ stop # None =>
         /\ OnTick(stop.trigger) /\ OnTick(stop.limit) /\ stop.limit <= stop.trigger
         /\ IF stage = "protected"
            THEN stop.trigger * quantity < cost
            ELSE stop.trigger * quantity >= cost

\* What PROTECTION_STOP_LIMIT_FLOOR_INVALID says it refuses (core/engine.py:1350): a
\* stop without a price to sell at. The check comes before the rounding to the tick.
StopLimitPositive == stop # None => stop.limit > 0

\* The size core/README.md:36-39 and 281-284 document, "floor(capital / (option
\* fresh mid-price * contract multiplier))" up to max_contracts_per_order, as the
\* comment at engine.py:644 still does. The code sizes from the limit it sends
\* (engine.py:678), which is never below the mid, so it may buy fewer.
SizedFromMid ==
  stage = "sent" /\ capital # None =>
    quantity = Min({(2 * capital) \div ((quote[1] + quote[2]) * Multiplier), MaxContracts})
=============================================================================
