--------------------------- MODULE OrderPlanProofs ---------------------------
(***************************************************************************)
(* Proofs about OrderPlan, for every policy, market rule, quote, capital   *)
(* and configuration the assumptions of OrderPlan allow.                   *)
(*                                                                         *)
(* Most of it is arithmetic, one lemma for each calculation of the code:   *)
(* RoundedDown and RoundedUp (round_to_tick), BuyLimitBest and             *)
(* SellLimitBest (marketable_limit), QuantityFits (_resolve_quantity),     *)
(* ChoiceIn (choose_strike_by_target_range), AllocationSplits              *)
(* (largest_remainder_allocation), StopAtOnTick (_stop_limit_from_trigger).*)
(* The invariants then follow from the one step that makes each true.      *)
(***************************************************************************)
EXTENDS OrderPlan, SumsProofs

-----------------------------------------------------------------------------
(* Whole numbers.                                                              *)

\* Whole division leaves less than the divisor.
LEMMA DivMod ==
  ASSUME NEW n \in Nat, NEW d \in Nat \ {0}
  PROVE  /\ n \div d \in Nat
         /\ (n \div d) * d <= n /\ n < (n \div d) * d + d
OBVIOUS

LEMMA Divides ==
  ASSUME NEW n \in Nat, NEW d \in Nat \ {0}, n % d = 0
  PROVE  n \div d \in Nat /\ n = (n \div d) * d
OBVIOUS

LEMMA Multiple ==
  ASSUME NEW n \in Nat, NEW d \in Nat \ {0}
  PROVE  (n * d) % d = 0
OBVIOUS

LEMMA TimesMonotone ==
  ASSUME NEW a \in Nat, NEW b \in Nat, NEW c \in Nat, a <= b
  PROVE  a * c <= b * c /\ a * c \in Nat /\ b * c \in Nat
OBVIOUS

LEMMA TimesStrict ==
  ASSUME NEW a \in Nat, NEW b \in Nat, NEW c \in Nat \ {0}, a * c < b * c
  PROVE  a < b
BY TimesMonotone

LEMMA TimesExchange ==
  ASSUME NEW a \in Nat, NEW b \in Nat, NEW c \in Nat
  PROVE  a * (b * c) = (a * c) * b /\ b * c \in Nat /\ (a + 1) * c = a * c + c
OBVIOUS

\* The smaller of two prices is one of them and below neither.
LEMMA MinOfTwo ==
  ASSUME NEW a \in Int, NEW b \in Int
  PROVE  /\ Min({a, b}) \in {a, b} /\ Min({a, b}) <= a /\ Min({a, b}) <= b
<1>1. \E x \in {a, b} : \A y \in {a, b} : x <= y
  OBVIOUS
<1> QED
  BY <1>1 DEF Min

-----------------------------------------------------------------------------
(* Ticks.                                                                      *)

LEMMA RuleType ==
  /\ 1 \in DOMAIN Rules /\ DOMAIN Rules = 1..Len(Rules) /\ Len(Rules) \in Nat
  /\ \A i \in DOMAIN Rules : i \in Nat \ {0}
  /\ \A i \in DOMAIN Rules : Rules[i].low \in Nat /\ Rules[i].inc \in Nat \ {0}
<1>1. DOMAIN Rules = 1..Len(Rules) /\ Len(Rules) \in Nat /\ Len(Rules) > 0
  BY RulesAssumption
<1> DEFINE Rule == [low : Nat, inc : Nat \ {0}]
<1>2. \A i \in 1..Len(Rules) : Rules[i] \in Rule
  <2>1. Rules \in Seq(Rule)
    BY RulesAssumption
  <2> HIDE DEF Rule
  <2> QED
    BY <2>1
<1> QED
  BY <1>1, <1>2

\* The band a price n / d lies in.
IsBand(b, n, d) ==
  /\ b \in DOMAIN Rules /\ Rules[b].low * d <= n
  /\ \A j \in DOMAIN Rules : Rules[j].low * d <= n => j <= b

\* Every price lies in one band of the market rule, the last that starts at or
\* below it, and Increment is the increment of that band.
LEMMA BandOf ==
  ASSUME NEW n \in Nat, NEW d \in Nat \ {0}
  PROVE  \E b \in DOMAIN Rules : IsBand(b, n, d) /\ Increment(n, d) = Rules[b].inc
<1> DEFINE below == {i \in DOMAIN Rules : Rules[i].low * d <= n}
           above == [i \in below |-> Len(Rules) - i]
<1>1. 1 \in below
  BY RuleType, RulesAssumption
<1>2. \A i \in below : above[i] \in Nat
  BY RuleType
<1>3. PICK b \in below : \A i \in below : above[b] <= above[i]
  BY <1>1, <1>2, LeastOf
<1>4. \A i \in below : i <= b
  <2> SUFFICES ASSUME NEW i \in below
               PROVE  i <= b
    OBVIOUS
  <2>1. i \in Nat /\ b \in Nat /\ Len(Rules) \in Nat
    BY RuleType
  <2>2. Len(Rules) - b <= Len(Rules) - i
    BY <1>3
  <2> QED
    BY <2>1, <2>2
<1>5. IsBand(b, n, d)
  BY <1>4 DEF IsBand
<1> DEFINE c == CHOOSE i \in DOMAIN Rules :
                  /\ Rules[i].low * d <= n
                  /\ \A j \in DOMAIN Rules : Rules[j].low * d <= n => j <= i
<1>6. IsBand(c, n, d)
  BY <1>5 DEF IsBand
<1>7. c \in DOMAIN Rules
  BY <1>6 DEF IsBand
<1>8. Increment(n, d) = Rules[c].inc
  BY DEF Increment
<1> QED
  BY <1>6, <1>7, <1>8

\* Between its lower edge and that of the next band a price has its increment.
LEMMA InBand ==
  ASSUME NEW p \in Nat, NEW b \in DOMAIN Rules, Rules[b].low <= p,
         \A j \in DOMAIN Rules : j > b => p < Rules[j].low
  PROVE  Increment(p, 1) = Rules[b].inc
<1>1. PICK c \in DOMAIN Rules : IsBand(c, p, 1) /\ Increment(p, 1) = Rules[c].inc
  BY BandOf
<1>2. \A j \in DOMAIN Rules : Rules[j].low * 1 = Rules[j].low
  BY RuleType
<1>3. b <= c
  BY <1>1, <1>2 DEF IsBand
<1>4. c <= b
  BY <1>1, <1>2, RuleType DEF IsBand
<1> QED
  BY <1>1, <1>3, <1>4, RuleType

\* A price rounded down is on a tick, not above the price it was rounded from, and
\* no price on a tick lies between the two.
LEMMA RoundedDown ==
  ASSUME NEW n \in Nat, NEW d \in Nat \ {0}, NEW p, p = RoundDown(n, d, Increment(n, d))
  PROVE  /\ p \in Nat /\ p * d <= n /\ OnTick(p)
         /\ \A r \in Nat : p < r /\ r * d <= n => ~OnTick(r)
<1>1. PICK b \in DOMAIN Rules : IsBand(b, n, d) /\ Increment(n, d) = Rules[b].inc
  BY BandOf
<1> DEFINE inc == Rules[b].inc
           low == Rules[b].low
           q == n \div (d * inc)
           m == low \div inc
<1>2. inc \in Nat \ {0} /\ low \in Nat /\ b \in Nat
  BY RuleType
<1>3. d * inc \in Nat \ {0}
  BY <1>2
<1> HIDE DEF inc, low
<1>4. q \in Nat /\ q * (d * inc) <= n /\ n < q * (d * inc) + d * inc
  BY <1>3, DivMod
<1>5. p = q * inc /\ p \in Nat
  BY <1>1, <1>2, <1>4 DEF RoundDown, inc
<1>6. p * d <= n
  BY <1>2, <1>4, <1>5, TimesExchange
<1>7. m \in Nat /\ low = m * inc
  <2>1. low % inc = 0
    BY RulesAssumption, RuleType DEF low, inc
  <2> QED
    BY <1>2, <2>1, Divides
<1>8. low * d <= n /\ \A j \in DOMAIN Rules : j > b => n < Rules[j].low * d
  <2>1. low * d <= n /\ \A j \in DOMAIN Rules : Rules[j].low * d <= n => j <= b
    BY <1>1 DEF IsBand, low
  <2> SUFFICES ASSUME NEW j \in DOMAIN Rules, j > b
               PROVE  n < Rules[j].low * d
    BY <2>1
  <2>2. Rules[j].low * d \in Nat /\ j \in Nat
    BY RuleType
  <2> QED
    BY <1>2, <2>1, <2>2
<1> HIDE DEF q, m
<1>9. m <= q
  <2> SUFFICES ASSUME q + 1 <= m
               PROVE  FALSE
    BY <1>4, <1>7
  <2>1. (q + 1) * (d * inc) <= m * (d * inc)
    BY <1>3, <1>4, <1>7, TimesMonotone
  <2>2. m * (d * inc) = low * d
    BY <1>2, <1>7, TimesExchange
  <2>3. (q + 1) * (d * inc) = q * (d * inc) + d * inc /\ q * (d * inc) \in Nat
    BY <1>3, <1>4
  <2>4. low * d <= n /\ low * d \in Nat
    BY <1>2, <1>8
  <2> QED
    BY <1>3, <1>4, <2>1, <2>2, <2>3, <2>4
<1>10. low <= p
  BY <1>2, <1>4, <1>5, <1>7, <1>9, TimesMonotone
<1>11. ASSUME NEW r \in Nat, p <= r, r * d <= n
       PROVE  Increment(r, 1) = inc
  <2>1. Rules[b].low <= r
    BY <1>2, <1>5, <1>10, <1>11 DEF low
  <2>2. ASSUME NEW j \in DOMAIN Rules, j > b
        PROVE  r < Rules[j].low
    <3>1. Rules[j].low \in Nat
      BY RuleType
    <3>2. r * d < Rules[j].low * d
      BY <1>8, <1>11, <2>2, <3>1
    <3> QED
      BY <3>1, <3>2, TimesStrict
  <2> QED
    BY <2>1, <2>2, InBand DEF inc
<1>12. OnTick(p)
  <2>1. Increment(p, 1) = inc
    BY <1>5, <1>6, <1>11
  <2> QED
    BY <1>2, <1>4, <1>5, <2>1, Multiple DEF OnTick
<1>13. ASSUME NEW r \in Nat, p < r, r * d <= n, OnTick(r)
       PROVE  FALSE
  <2> DEFINE k == r \div inc
  <2>1. r % inc = 0
    BY <1>5, <1>11, <1>13 DEF OnTick
  <2>2. k \in Nat /\ r = k * inc
    BY <1>2, <2>1, Divides
  <2> HIDE DEF k
  <2>3. q < k
    BY <1>2, <1>4, <1>5, <1>13, <2>2, TimesStrict
  <2>4. (q + 1) * (d * inc) <= k * (d * inc)
    BY <1>3, <1>4, <2>2, <2>3, TimesMonotone
  <2>5. k * (d * inc) = r * d
    BY <1>2, <2>2, TimesExchange
  <2>6. (q + 1) * (d * inc) = q * (d * inc) + d * inc
    BY <1>3, <1>4
  <2> QED
    BY <1>3, <1>4, <1>13, <2>4, <2>5, <2>6
<1> QED
  BY <1>5, <1>6, <1>12, <1>13

\* A price rounded up is on a tick and not below the price it was rounded from.
LEMMA RoundedUp ==
  ASSUME NEW n \in Nat, NEW d \in Nat \ {0}, NEW p, p = RoundUp(n, d, Increment(n, d)),
         NEW b, IsBand(b, n, d)
  PROVE  /\ p \in Nat /\ n <= p * d /\ OnTick(p)
         /\ Rules[b].low <= p /\ \A j \in DOMAIN Rules : j > b => p <= Rules[j].low
<1> DEFINE inc == Rules[b].inc
           low == Rules[b].low
           q == (n + d * inc - 1) \div (d * inc)
<1>1. Increment(n, d) = inc
  <2>1. PICK c \in DOMAIN Rules : IsBand(c, n, d) /\ Increment(n, d) = Rules[c].inc
    BY BandOf
  <2>2. b \in DOMAIN Rules /\ b <= c /\ c <= b
    BY <2>1 DEF IsBand
  <2>3. b = c
    BY <2>2, RuleType
  <2> QED
    BY <2>1, <2>3
<1>2. inc \in Nat \ {0} /\ low \in Nat /\ b \in Nat /\ b \in DOMAIN Rules
  BY RuleType DEF IsBand
<1>3. d * inc \in Nat \ {0} /\ n + d * inc - 1 \in Nat
  BY <1>2
<1> HIDE DEF inc, low
<1>4. /\ q \in Nat /\ q * (d * inc) <= n + d * inc - 1
      /\ n + d * inc - 1 < q * (d * inc) + d * inc
  BY <1>3, DivMod
<1>5. p = q * inc /\ p \in Nat
  BY <1>1, <1>2, <1>4 DEF RoundUp
<1> HIDE DEF q
<1>6. p * d = q * (d * inc)
  BY <1>2, <1>4, <1>5, TimesExchange
<1>7. n <= p * d
  BY <1>3, <1>4, <1>6
<1>8. low * d <= n
  BY DEF IsBand, low
<1>9. low <= p
  <2> SUFFICES ASSUME p + 1 <= low
               PROVE  FALSE
    BY <1>2, <1>5
  <2>1. (p + 1) * d <= low * d
    BY <1>2, <1>5, TimesMonotone
  <2>2. (p + 1) * d = p * d + d /\ p * d \in Nat /\ low * d \in Nat
    BY <1>2, <1>5
  <2> QED
    BY <1>7, <1>8, <2>1, <2>2
<1>10. ASSUME b + 1 \in DOMAIN Rules
       PROVE  p <= Rules[b + 1].low
  <2> DEFINE next == Rules[b + 1].low
             m == next \div inc
  <2>1. next \in Nat /\ next % inc = 0
    <3>1. b + 1 \in 2..Len(Rules) /\ (b + 1) - 1 = b
      <4>1. b + 1 \in 1..Len(Rules) /\ b \in Nat \ {0}
        BY <1>2, <1>10, RuleType
      <4> QED
        BY <4>1
    <3>2. Rules[b + 1].low % Rules[(b + 1) - 1].inc = 0
      BY <3>1, RulesAssumption
    <3> QED
      BY <1>10, <3>1, <3>2, RuleType DEF inc
  <2> HIDE DEF next
  <2>2. m \in Nat /\ next = m * inc
    BY <1>2, <2>1, Divides
  <2> HIDE DEF m
  <2>3. n < next * d
    <3>1. ~(next * d <= n)
      BY <1>2, <1>10 DEF IsBand, next
    <3> QED
      BY <2>1, <3>1
  <2>4. next * d = m * (d * inc)
    BY <1>2, <2>2, TimesExchange
  <2>5. q <= m
    <3> SUFFICES ASSUME m + 1 <= q
                 PROVE  FALSE
      BY <1>4, <2>2
    <3>1. (m + 1) * (d * inc) <= q * (d * inc)
      BY <1>3, <1>4, <2>2, TimesMonotone
    <3>2. (m + 1) * (d * inc) = m * (d * inc) + d * inc /\ m * (d * inc) \in Nat
      BY <1>3, <2>2
    <3>3. q * (d * inc) \in Nat
      BY <1>3, <1>4
    <3> QED
      BY <1>3, <1>4, <2>3, <2>4, <3>1, <3>2, <3>3
  <2>6. q * inc <= m * inc
    BY <1>2, <1>4, <2>2, <2>5, TimesMonotone
  <2> QED
    BY <1>5, <2>2, <2>6 DEF next
<1>11. ASSUME NEW j \in DOMAIN Rules, j > b
       PROVE  b + 1 \in DOMAIN Rules /\ Rules[b + 1].low <= Rules[j].low
  <2>1. b + 1 \in 1..Len(Rules) /\ j \in 1..Len(Rules)
    BY <1>2, <1>11, RuleType
  <2>2. CASE j = b + 1
    BY <2>1, <2>2, RuleType
  <2>3. CASE b + 1 < j
    <3>1. Rules[b + 1].low < Rules[j].low
      BY <2>1, <2>3, RulesAssumption
    <3> QED
      BY <2>1, <3>1, RuleType
  <2> QED
    BY <1>2, <1>11, <2>1, <2>2, <2>3
<1>12. ASSUME NEW j \in DOMAIN Rules, j > b
       PROVE  p <= Rules[j].low
  <2>1. Rules[b + 1].low \in Nat /\ Rules[j].low \in Nat
    BY <1>11, <1>12, RuleType
  <2> QED
    BY <1>5, <1>10, <1>11, <1>12, <2>1
<1>13. OnTick(p)
  <2>1. CASE \A j \in DOMAIN Rules : j > b => p < Rules[j].low
    <3>1. Increment(p, 1) = inc
      BY <1>2, <1>5, <1>9, <2>1, InBand DEF low, inc
    <3> QED
      BY <1>2, <1>4, <1>5, <3>1, Multiple DEF OnTick
  <2>2. CASE \E j \in DOMAIN Rules : j > b /\ ~(p < Rules[j].low)
    <3>1. PICK j \in DOMAIN Rules : j > b /\ ~(p < Rules[j].low)
      BY <2>2
    <3>2. /\ b + 1 \in DOMAIN Rules /\ Rules[b + 1].low <= Rules[j].low
          /\ Rules[b + 1].low \in Nat /\ Rules[j].low \in Nat
      BY <1>11, <3>1, RuleType
    <3>3. p = Rules[b + 1].low
      BY <1>5, <1>10, <1>12, <3>1, <3>2
    <3>4. ASSUME NEW i \in DOMAIN Rules, i > b + 1
          PROVE  p < Rules[i].low
      <4>1. b + 1 \in 1..Len(Rules) /\ i \in 1..Len(Rules)
        BY <3>2, RuleType
      <4> QED
        BY <3>3, <3>4, <4>1, RulesAssumption
    <3>5. Increment(p, 1) = Rules[b + 1].inc
      BY <1>5, <3>2, <3>3, <3>4, InBand
    <3>6. Rules[b + 1].low % Rules[b + 1].inc = 0
      BY <3>2, RulesAssumption, RuleType
    <3> QED
      BY <3>3, <3>5, <3>6 DEF OnTick
  <2> QED
    BY <2>1, <2>2
<1> QED
  BY <1>5, <1>7, <1>9, <1>12, <1>13 DEF low

\* Rounding up keeps prices in order, across bands too.
LEMMA UpMonotone ==
  ASSUME NEW n1 \in Nat, NEW n2 \in Nat, NEW d \in Nat \ {0}, n1 <= n2
  PROVE  RoundUp(n1, d, Increment(n1, d)) <= RoundUp(n2, d, Increment(n2, d))
<1> DEFINE p1 == RoundUp(n1, d, Increment(n1, d))
           p2 == RoundUp(n2, d, Increment(n2, d))
<1>1. PICK b1 \in DOMAIN Rules : IsBand(b1, n1, d) /\ Increment(n1, d) = Rules[b1].inc
  BY BandOf
<1>2. PICK b2 \in DOMAIN Rules : IsBand(b2, n2, d) /\ Increment(n2, d) = Rules[b2].inc
  BY BandOf
<1>3. /\ p1 \in Nat /\ p2 \in Nat /\ Rules[b2].low <= p2
      /\ \A j \in DOMAIN Rules : j > b1 => p1 <= Rules[j].low
  BY <1>1, <1>2, RoundedUp
<1>4. b1 <= b2
  <2>1. Rules[b1].low * d <= n1 /\ Rules[b1].low * d \in Nat
    BY <1>1, RuleType DEF IsBand
  <2>2. Rules[b1].low * d <= n2
    BY <2>1
  <2> QED
    BY <1>2, <2>2 DEF IsBand
<1>5. b1 \in Nat /\ b2 \in Nat /\ Rules[b2].low \in Nat /\ Rules[b1].inc \in Nat \ {0}
  BY RuleType
<1>6. CASE b1 < b2
  BY <1>3, <1>5, <1>6
<1>7. CASE b1 = b2
  <2> DEFINE inc == Rules[b1].inc
             step == d * inc
             q1 == (n1 + step - 1) \div step
             q2 == (n2 + step - 1) \div step
  <2>1. step \in Nat \ {0}
    BY <1>5
  <2> HIDE DEF step
  <2>2. /\ q1 \in Nat /\ q1 * step <= n1 + step - 1
        /\ q2 \in Nat /\ n2 + step - 1 < q2 * step + step
    BY <2>1, DivMod
  <2>3. p1 = q1 * inc /\ p2 = q2 * inc
    BY <1>1, <1>2, <1>7 DEF RoundUp, step
  <2> HIDE DEF q1, q2
  <2>4. q1 <= q2
    <3> SUFFICES ASSUME q2 + 1 <= q1
                 PROVE  FALSE
      BY <2>2
    <3>1. (q2 + 1) * step <= q1 * step
      BY <2>1, <2>2, TimesMonotone
    <3>2. (q2 + 1) * step = q2 * step + step /\ q2 * step \in Nat /\ q1 * step \in Nat
      BY <2>1, <2>2
    <3> QED
      BY <2>1, <2>2, <3>1, <3>2
  <2> QED
    BY <1>5, <2>2, <2>3, <2>4, TimesMonotone
<1> QED
  BY <1>4, <1>5, <1>6, <1>7

-----------------------------------------------------------------------------
(* The candidates, and the one chosen.                                         *)

LEMMA StrikeType ==
  /\ DOMAIN Strikes = 1..Len(Strikes) /\ Len(Strikes) \in Nat /\ Len(Strikes) > 0
  /\ \A i \in DOMAIN Strikes : i \in Nat /\ Strikes[i] \in Int
<1>1. Strikes \in Seq(Int) /\ Len(Strikes) > 0
  BY InputsAssumption
<1>2. DOMAIN Strikes = 1..Len(Strikes) /\ Len(Strikes) \in Nat
  BY <1>1
<1>3. \A i \in 1..Len(Strikes) : Strikes[i] \in Int
  BY <1>1
<1> QED
  BY <1>1, <1>2, <1>3

LEMMA DistanceType ==
  ASSUME NEW a \in Int, NEW b \in Int
  PROVE  AbsDiff(a, b) \in Nat /\ (AbsDiff(a, b) = 0 => a = b)
BY DEF AbsDiff

\* A set in which values may tie has a first member among the least.
LEMMA FirstLeast ==
  ASSUME NEW S, S # {}, NEW f, \A x \in S : f[x] \in Nat,
         NEW g, \A x \in S : g[x] \in Nat
  PROVE  \E x \in S : \A y \in S : f[x] < f[y] \/ (f[x] = f[y] /\ g[x] <= g[y])
<1>1. PICK m \in S : \A y \in S : f[m] <= f[y]
  BY LeastOf
<1> DEFINE least == {x \in S : f[x] = f[m]}
<1>2. PICK x \in least : \A y \in least : g[x] <= g[y]
  BY LeastOf
<1>3. ASSUME NEW y \in S
      PROVE  f[x] < f[y] \/ (f[x] = f[y] /\ g[x] <= g[y])
  BY <1>1, <1>2
<1> QED
  BY <1>3

\* The strike nearest the spot is one of the chain's.
LEMMA AtmIn == ASSUME NEW spot \in Spots PROVE AtmIndex(spot) \in DOMAIN Strikes
<1> DEFINE f == [i \in DOMAIN Strikes |-> AbsDiff(Strikes[i], spot)]
           g == [i \in DOMAIN Strikes |-> i]
<1>1. DOMAIN Strikes # {} /\ \A i \in DOMAIN Strikes : i \in Nat /\ Strikes[i] \in Int
  <2>1. 1 \in DOMAIN Strikes
    BY StrikeType
  <2> QED
    BY <2>1, StrikeType
<1>2. spot \in Int
  BY InputsAssumption
<1>3. \A i \in DOMAIN Strikes : f[i] \in Nat /\ g[i] \in Nat
  BY <1>1, <1>2, DistanceType
<1> HIDE DEF f
<1>4. PICK i \in DOMAIN Strikes :
        \A j \in DOMAIN Strikes : f[i] < f[j] \/ (f[i] = f[j] /\ g[i] <= g[j])
  BY <1>1, <1>3, FirstLeast
<1>5. \A j \in DOMAIN Strikes \ {i} : f[i] < f[j] \/ (f[i] = f[j] /\ i < j)
  BY <1>1, <1>4
<1> QED
  BY <1>5 DEF AtmIndex, f

\* The strike chosen is one that has a quote, and in range if any is.
LEMMA ChoiceIn ==
  ASSUME NEW spot \in Spots, NEW r \in {"C", "P"},
         NEW quoted \in SUBSET Candidates(spot, r), quoted # {}, NEW premium \in [quoted -> Premiums]
  PROVE  /\ Choice(spot, premium) \in quoted
         /\ (\E i \in quoted : InRange(premium[i])) => InRange(premium[Choice(spot, premium)])
<1> DEFINE inRange == {i \in quoted : InRange(premium[i])}
           pool == IF inRange # {} THEN inRange ELSE quoted
           f == [i \in pool |-> FromTarget(premium[i])]
           g == [i \in pool |-> AbsDiff(i, AtmIndex(spot))]
<1>1. pool # {} /\ pool \in SUBSET quoted
  OBVIOUS
<1>2. AtmIndex(spot) \in Int /\ \A i \in quoted : i \in Int
  <2>1. AtmIndex(spot) \in DOMAIN Strikes /\ quoted \subseteq DOMAIN Strikes
    BY AtmIn DEF Candidates
  <2> QED
    BY <2>1, StrikeType
<1>3. \A i \in quoted : premium[i] \in Nat
  BY InputsAssumption
<1>4. \A i \in pool : f[i] \in Nat
  <2>1. TargetLo + TargetHi \in Int
    BY ConfigAssumption
  <2> SUFFICES ASSUME NEW i \in pool
               PROVE  FromTarget(premium[i]) \in Nat
    OBVIOUS
  <2>2. 2 * premium[i] \in Int
    <3>1. premium[i] \in Nat
      BY <1>1, <1>3
    <3> QED
      BY <3>1
  <2> HIDE DEF pool
  <2> QED
    BY <2>1, <2>2, DistanceType DEF FromTarget
<1>5. \A i \in pool : g[i] \in Nat
  BY <1>1, <1>2, DistanceType
<1>6. \A i, j \in quoted : AbsDiff(i, AtmIndex(spot)) = AbsDiff(j, AtmIndex(spot)) => i = j
  <2> SUFFICES ASSUME NEW i \in quoted, NEW j \in quoted,
                      AbsDiff(i, AtmIndex(spot)) = AbsDiff(j, AtmIndex(spot))
               PROVE  i = j
    OBVIOUS
  <2>0. CandidateCount \in Nat
    BY ConfigAssumption
  <2>1. CASE r = "C"
    <3>1. i >= AtmIndex(spot) /\ j >= AtmIndex(spot)
      BY <1>2, <2>0, <2>1 DEF Candidates
    <3> QED
      BY <1>2, <3>1 DEF AbsDiff
  <2>2. CASE r = "P"
    <3>1. i <= AtmIndex(spot) /\ j <= AtmIndex(spot)
      BY <1>2, <2>0, <2>2 DEF Candidates
    <3> QED
      BY <1>2, <3>1 DEF AbsDiff
  <2> QED
    BY <2>1, <2>2
<1> HIDE DEF pool
<1>7. PICK i \in pool : \A j \in pool : f[i] < f[j] \/ (f[i] = f[j] /\ g[i] <= g[j])
  BY <1>1, <1>4, <1>5, FirstLeast
<1>8. \A j \in pool \ {i} : f[i] < f[j] \/ (f[i] = f[j] /\ g[i] < g[j])
  BY <1>1, <1>5, <1>6, <1>7
<1>9. Choice(spot, premium) = CHOOSE x \in pool : \A j \in pool \ {x} :
        \/ FromTarget(premium[x]) < FromTarget(premium[j])
        \/ /\ FromTarget(premium[x]) = FromTarget(premium[j])
           /\ AbsDiff(x, AtmIndex(spot)) < AbsDiff(j, AtmIndex(spot))
  BY DEF Choice, pool
<1>10. Choice(spot, premium) \in pool
  BY <1>8, <1>9
<1> QED
  BY <1>1, <1>10 DEF pool

-----------------------------------------------------------------------------
(* The split over the levels.                                                  *)

\* Before is a strict total order on the levels.
LEMMA LevelType ==
  ASSUME policy \in Policies
  PROVE  /\ Levels = 1..Len(policy.levels) /\ Len(policy.levels) \in Nat
         /\ IsFiniteSet(Levels)
         /\ \A i \in Levels : i \in Nat
         /\ \A i \in Levels : policy.levels[i].share \in Int /\ policy.levels[i].trigger \in Int
<1> DEFINE Level == [trigger : Int, share : Int]
<1>1. policy.levels \in Seq(Level)
  BY InputsAssumption
<1> HIDE DEF Level
<1>2. Levels = 1..Len(policy.levels) /\ Len(policy.levels) \in Nat
  BY <1>1 DEF Levels
<1>3. \A i \in Levels : policy.levels[i] \in Level
  BY <1>1, <1>2
<1>4. \A i \in Levels : i \in Nat
  BY <1>2
<1>5. \A i \in Levels : policy.levels[i].share \in Int /\ policy.levels[i].trigger \in Int
  BY <1>3 DEF Level
<1>6. IsFiniteSet(Levels)
  BY <1>2, FS_Interval
<1> QED
  BY <1>2, <1>4, <1>5, <1>6

\* A whole number is its hundreds and what is left.
LEMMA Hundredths ==
  ASSUME NEW n \in Nat, NEW q, q = n \div 100, NEW r, r = n % 100
  PROVE  q \in Nat /\ r \in 0..99 /\ 100 * q + r = n
<1>1. q \in Nat
  OBVIOUS
<1>2. r \in 0..99
  OBVIOUS
<1>3. 100 * q + r = n
  BY <1>1
<1> QED
  BY <1>1, <1>2, <1>3

\* What is exact of a level's share, and what is left of it.
LEMMA Parts ==
  ASSUME policy \in Policies, ValidPolicy(policy), quantity \in Nat, NEW i \in Levels
  PROVE  /\ Whole(i) \in Nat /\ Remainder(i) \in 0..99 /\ policy.levels[i].share \in Nat
         /\ 100 * Whole(i) + Remainder(i) = quantity * policy.levels[i].share
<1>1. policy.levels[i].share \in Nat
  <2>1. policy.levels[i].share \in 1..100
    BY DEF ValidPolicy, Levels
  <2> QED
    BY <2>1
<1> DEFINE claim == quantity * policy.levels[i].share
<1>2. claim \in Nat
  BY <1>1
<1>3. Whole(i) = claim \div 100 /\ Remainder(i) = claim % 100
  BY DEF Whole, Remainder
<1> HIDE DEF claim
<1>4. Whole(i) \in Nat /\ Remainder(i) \in 0..99 /\ 100 * Whole(i) + Remainder(i) = claim
  BY <1>2, <1>3, Hundredths
<1> QED
  BY <1>1, <1>4 DEF claim

Claimants == {i \in Levels : Remainder(i) > 0}

\* The contracts left over are fewer than the levels with a remainder, or none.
LEMMA LeftoverBound ==
  ASSUME policy \in Policies, ValidPolicy(policy), quantity \in Nat
  PROVE  /\ Leftover \in Nat /\ Leftover <= Cardinality(Claimants)
         /\ Total([i \in Levels |-> Whole(i)], Levels) \in Nat
<1> DEFINE share == [i \in Levels |-> policy.levels[i].share]
           whole == [i \in Levels |-> Whole(i)]
           rest == [i \in Levels |-> Remainder(i)]
           hundreds == [i \in Levels |-> 100 * whole[i]]
           claim == [i \in Levels |-> quantity * share[i]]
           k == Cardinality(Claimants)
<1>1. /\ IsFiniteSet(Levels) /\ IsFiniteSet(Claimants) /\ k \in Nat
  <2>1. IsFiniteSet(Levels)
    BY LevelType
  <2>2. Claimants \in SUBSET Levels
    BY DEF Claimants
  <2> QED
    BY <2>1, <2>2, FS_Subset, FS_CardinalityType
<1>2. \A i \in Levels : /\ whole[i] \in Nat /\ rest[i] \in 0..99 /\ share[i] \in Nat
                        /\ 100 * whole[i] + rest[i] = quantity * share[i]
  BY Parts
<1>3. Total(share, Levels) = 100
  BY DEF ValidPolicy, Levels
<1> HIDE DEF share, whole, rest
<1>4. /\ Total(whole, Levels) \in Nat /\ Total(rest, Levels) \in Nat
  <2>1. \A i \in Levels : whole[i] \in Int /\ rest[i] \in Int
    BY <1>2
  <2> QED
    BY <1>1, <2>1, TotalType
<1>5. Total(claim, Levels) = quantity * 100
  BY <1>1, <1>2, <1>3, TotalTimes
<1>6. Total(hundreds, Levels) = 100 * Total(whole, Levels)
  BY <1>1, <1>2, TotalTimes
<1>7. Total([i \in Levels |-> hundreds[i] + rest[i]], Levels) =
        Total(hundreds, Levels) + Total(rest, Levels)
  <2>1. \A i \in Levels : hundreds[i] \in Nat /\ rest[i] \in Nat
    BY <1>2
  <2> HIDE DEF hundreds
  <2> QED
    BY <1>1, <2>1, TotalAdd
<1>8. Total([i \in Levels |-> hundreds[i] + rest[i]], Levels) = Total(claim, Levels)
  BY <1>2, TotalSame
<1>9. Total(rest, Levels) = 100 * (quantity - Total(whole, Levels))
  BY <1>4, <1>5, <1>6, <1>7, <1>8
<1>10. Total(rest, Levels) <= k * 99
  <2>1. Claimants = {i \in Levels : rest[i] > 0}
    BY DEF Claimants, rest
  <2> QED
    BY <1>1, <1>2, <2>1, TotalAtMost
<1>11. Leftover = quantity - Total(whole, Levels)
  BY DEF Leftover, whole
<1>12. Leftover \in Int
  BY <1>4, <1>11
<1>13. 100 * Leftover >= 0 /\ 100 * Leftover <= k * 99
  BY <1>4, <1>9, <1>10, <1>11
<1>14. Leftover >= 0 /\ Leftover <= k
  BY <1>1, <1>12, <1>13
<1> QED
  BY <1>4, <1>12, <1>14 DEF whole

\* A strict total order on a finite set numbers its members from 0, each by how
\* many come before it: as many members have a number below m as there are numbers.
Rank(i) == Cardinality({j \in Levels : Before(j, i)})

\* Before is a strict total order of the levels: the larger remainder first, and
\* of equal remainders the earlier level.
LEMMA BeforeOrders ==
  ASSUME policy \in Policies, ValidPolicy(policy), quantity \in Nat
  PROVE  /\ \A i \in Levels : ~Before(i, i)
         /\ \A i, j \in Levels : i # j => Before(i, j) \/ Before(j, i)
         /\ \A i, j, k \in Levels : Before(i, j) /\ Before(j, k) => Before(i, k)
<1>1. \A i \in Levels : Remainder(i) \in Nat /\ i \in Nat
  <2> SUFFICES ASSUME NEW i \in Levels
               PROVE  Remainder(i) \in Nat /\ i \in Nat
    OBVIOUS
  <2>1. Remainder(i) \in 0..99
    BY Parts
  <2> QED
    <3>1. i \in Nat
      BY LevelType
    <3> QED
      BY <2>1, <3>1
<1> QED
  BY <1>1 DEF Before

\* A level's rank is below the number of levels, and rises along Before.
LEMMA RankRises ==
  ASSUME policy \in Policies, ValidPolicy(policy), quantity \in Nat,
         NEW i \in Levels, NEW j \in Levels
  PROVE  /\ Rank(i) \in 0..(Cardinality(Levels) - 1) /\ Cardinality(Levels) \in Nat
         /\ Before(i, j) => Rank(i) < Rank(j)
<1> DEFINE below(x) == {y \in Levels : Before(y, x)}
<1>1. IsFiniteSet(Levels)
  BY LevelType
<1>2. \A x \in Levels : /\ below(x) \in SUBSET Levels /\ IsFiniteSet(below(x))
                        /\ x \notin below(x)
  BY <1>1, FS_Subset, BeforeOrders
<1>3. \A x \in Levels : Rank(x) = Cardinality(below(x))
  BY DEF Rank
<1>4. Cardinality(below(i)) \in Nat /\ Cardinality(below(j)) \in Nat
  BY <1>2, FS_CardinalityType
<1>5. Cardinality(Levels) \in Nat
  BY <1>1, FS_CardinalityType
<1>6. Cardinality(below(i)) < Cardinality(Levels)
  <2>1. below(i) \in SUBSET Levels /\ below(i) # Levels
    BY <1>2
  <2>2. Cardinality(below(i)) <= Cardinality(Levels)
        /\ (Cardinality(below(i)) = Cardinality(Levels) => below(i) = Levels)
    BY <1>1, <2>1, FS_Subset
  <2> QED
    BY <1>4, <1>5, <2>1, <2>2
<1>7. ASSUME Before(i, j)
      PROVE  Cardinality(below(i)) < Cardinality(below(j))
  <2>1. below(i) \in SUBSET below(j) /\ i \in below(j) /\ i \notin below(i)
    BY <1>2, <1>7, BeforeOrders
  <2> HIDE DEF below
  <2>2. IsFiniteSet(below(j))
    BY <1>2
  <2>3. Cardinality(below(i)) <= Cardinality(below(j))
        /\ (Cardinality(below(i)) = Cardinality(below(j)) => below(i) = below(j))
    BY <2>1, <2>2, FS_Subset
  <2> QED
    BY <1>4, <2>1, <2>3
<1> HIDE DEF below
<1> QED
  BY <1>3, <1>4, <1>5, <1>6, <1>7

\* So for each m up to the number of levels, m levels have a rank below m.
LEMMA Ranked ==
  ASSUME policy \in Policies, ValidPolicy(policy), quantity \in Nat,
         NEW m \in Nat, m <= Cardinality(Levels)
  PROVE  Cardinality({i \in Levels : Rank(i) < m}) = m
<1> DEFINE rank == [i \in Levels |-> Rank(i)]
           n == Cardinality(Levels)
           ranks == {Rank(i) : i \in Levels}
           first == {i \in Levels : Rank(i) < m}
           rankOf == [i \in first |-> Rank(i)]
<1>1. IsFiniteSet(Levels) /\ n \in Nat
  <2>1. IsFiniteSet(Levels)
    BY LevelType
  <2> QED
    BY <2>1, FS_CardinalityType
<1>2. \A i \in Levels : Rank(i) \in 0..(n - 1)
  BY RankRises
<1>3. \A i, j \in Levels : Rank(i) = Rank(j) => i = j
  <2> SUFFICES ASSUME NEW i \in Levels, NEW j \in Levels, i # j
               PROVE  Rank(i) # Rank(j)
    OBVIOUS
  <2>1. Before(i, j) \/ Before(j, i)
    BY BeforeOrders
  <2>2. Rank(i) < Rank(j) \/ Rank(j) < Rank(i)
    BY <2>1, RankRises
  <2> QED
    BY <1>2, <2>2
<1>4. rank \in Surjection(Levels, ranks) /\ rank \in Injection(Levels, ranks)
  BY <1>3 DEF Surjection, Injection, IsInjective
<1>5. IsFiniteSet(ranks) /\ Cardinality(ranks) = n
  BY <1>1, <1>4, FS_Surjection
<1>6. IsFiniteSet(0..(n - 1)) /\ Cardinality(0..(n - 1)) = n
  <2>1. 0 \in Int /\ n - 1 \in Int /\ n \in Nat
    BY <1>1
  <2>2. IsFiniteSet(0..(n - 1))
    BY <2>1, FS_Interval
  <2>3. Cardinality(0..(n - 1)) = IF 0 > n - 1 THEN 0 ELSE (n - 1) - 0 + 1
    BY <2>1, FS_Interval
  <2> HIDE DEF n
  <2> QED
    BY <2>1, <2>2, <2>3
<1>7. ranks = 0..(n - 1)
  <2>1. ranks \in SUBSET (0..(n - 1))
    BY <1>2
  <2> QED
    BY <1>5, <1>6, <2>1, FS_Subset
<1>8. IsFiniteSet(0..(m - 1)) /\ Cardinality(0..(m - 1)) = m
  <2>1. IsFiniteSet(0..(m - 1))
    BY FS_Interval
  <2>2. Cardinality(0..(m - 1)) = IF 0 > m - 1 THEN 0 ELSE (m - 1) - 0 + 1
    BY FS_Interval
  <2> QED
    BY <2>1, <2>2
<1>9. IsFiniteSet(first)
  BY <1>1, FS_Subset
<1>10. rankOf \in Injection(first, 0..(m - 1))
  <2>1. \A i \in first : Rank(i) \in 0..(m - 1)
    BY <1>2
  <2> QED
    BY <1>3, <2>1 DEF Injection, IsInjective
<1>11. rankOf \in Surjection(first, 0..(m - 1))
  <2> SUFFICES ASSUME NEW x \in 0..(m - 1)
               PROVE  \E i \in first : Rank(i) = x
    BY <1>10 DEF Surjection, Injection
  <2>1. x \in 0..(n - 1) /\ x < m
    BY <1>1
  <2>2. PICK i \in Levels : Rank(i) = x
    BY <1>7, <2>1
  <2> QED
    BY <2>1, <2>2
<1> HIDE DEF first, rankOf
<1>12. Cardinality(first) = Cardinality(0..(m - 1))
  BY <1>8, <1>9, <1>10, <1>11, FS_Surjection
<1> QED
  BY <1>8, <1>12 DEF first

\* The contracts left over go to as many levels, one each.
LEMMA Handed ==
  ASSUME policy \in Policies, ValidPolicy(policy), quantity \in Nat
  PROVE  /\ Cardinality({i \in Levels : Rank(i) < Leftover}) = Leftover
         /\ \A i \in Levels : Rank(i) < Leftover => Remainder(i) > 0
<1>1. IsFiniteSet(Levels) /\ Claimants \in SUBSET Levels
  BY LevelType DEF Claimants
<1>2. /\ Cardinality(Claimants) <= Cardinality(Levels)
      /\ Cardinality(Claimants) \in Nat /\ Cardinality(Levels) \in Nat
  <2>1. IsFiniteSet(Claimants) /\ Cardinality(Claimants) <= Cardinality(Levels)
    BY <1>1, FS_Subset
  <2> QED
    BY <1>1, <2>1, FS_CardinalityType
<1>3. Leftover \in Nat /\ Leftover <= Cardinality(Claimants)
  BY LeftoverBound
<1>4. Cardinality({i \in Levels : Rank(i) < Leftover}) = Leftover
  <2>1. Leftover <= Cardinality(Levels)
    BY <1>2, <1>3
  <2> QED
    BY <1>3, <2>1, Ranked
<1>5. ASSUME NEW i \in Levels, Rank(i) < Leftover, ~(Remainder(i) > 0)
      PROVE  FALSE
  <2> DEFINE below == {j \in Levels : Before(j, i)}
  <2>1. \A j \in Levels : Remainder(j) \in 0..99
    BY Parts
  <2>2. Claimants \in SUBSET below
    BY <1>5, <2>1 DEF Before, Claimants
  <2>3. IsFiniteSet(below)
    BY <1>1, FS_Subset
  <2>4. Cardinality(Claimants) <= Cardinality(below)
    BY <2>2, <2>3, FS_Subset
  <2>5. Cardinality(below) \in Nat
    BY <2>3, FS_CardinalityType
  <2>6. Rank(i) = Cardinality(below)
    BY DEF Rank
  <2> HIDE DEF below
  <2> QED
    BY <1>2, <1>3, <1>5, <2>4, <2>5, <2>6
<1> QED
  BY <1>4, <1>5

\* What largest_remainder_allocation returns.
LEMMA AllocationSplits ==
  ASSUME policy \in Policies, ValidPolicy(policy), quantity \in Nat
  PROVE  /\ Total(Allocation, Levels) = quantity
         /\ \A i \in Levels : AbsDiff(100 * Allocation[i], quantity * policy.levels[i].share) < 100
         /\ \A i, j \in Levels :
              Allocation[i] > Whole(i) /\ Allocation[j] = Whole(j) =>
                \/ Remainder(i) > Remainder(j)
                \/ Remainder(i) = Remainder(j) /\ i < j
<1> DEFINE whole == [i \in Levels |-> Whole(i)]
           extra == [i \in Levels |-> IF Rank(i) < Leftover THEN 1 ELSE 0]
<1>1. /\ Leftover \in Nat /\ Total(whole, Levels) \in Nat
      /\ IsFiniteSet(Levels) /\ Leftover = quantity - Total(whole, Levels)
  BY LeftoverBound, LevelType DEF Leftover
<1>2. \A i \in Levels : whole[i] \in Nat /\ extra[i] \in {0, 1}
  BY Parts
<1>3. Allocation = [i \in Levels |-> whole[i] + extra[i]]
  BY DEF Allocation, Rank
<1>4. {i \in Levels : extra[i] = 1} = {i \in Levels : Rank(i) < Leftover}
  OBVIOUS
<1> HIDE DEF whole, extra
<1>5. Total(extra, Levels) = Leftover
  BY <1>1, <1>2, <1>4, TotalOfOnes, Handed
<1>6. Total(Allocation, Levels) = Total(whole, Levels) + Total(extra, Levels)
  BY <1>1, <1>2, <1>3, TotalAdd
<1>7. Total(Allocation, Levels) = quantity
  BY <1>1, <1>5, <1>6
<1>8. ASSUME NEW i \in Levels
      PROVE  AbsDiff(100 * Allocation[i], quantity * policy.levels[i].share) < 100
  <2> DEFINE claim == quantity * policy.levels[i].share
  <2>1. /\ Whole(i) \in Nat /\ Remainder(i) \in 0..99
        /\ 100 * Whole(i) + Remainder(i) = claim
    BY Parts
  <2>2. Allocation[i] = Whole(i) + extra[i] /\ extra[i] \in {0, 1}
    BY <1>2, <1>3 DEF whole
  <2>3. extra[i] = 1 => Remainder(i) > 0
    BY Handed DEF extra
  <2> HIDE DEF claim
  <2> QED
    BY <2>1, <2>2, <2>3 DEF AbsDiff, claim
<1>9. ASSUME NEW i \in Levels, NEW j \in Levels,
             Allocation[i] > Whole(i), Allocation[j] = Whole(j)
      PROVE  \/ Remainder(i) > Remainder(j)
             \/ Remainder(i) = Remainder(j) /\ i < j
  <2>1. Whole(i) \in Nat /\ Whole(j) \in Nat
    BY Parts
  <2>2. Rank(i) < Leftover /\ ~(Rank(j) < Leftover)
    BY <1>3, <1>9, <2>1 DEF whole, extra
  <2>3. Rank(i) \in Nat /\ Rank(j) \in Nat
    BY RankRises
  <2>4. i # j
    BY <2>2
  <2>5. ~Before(j, i)
    <3> SUFFICES ASSUME Before(j, i)
                 PROVE  FALSE
      OBVIOUS
    <3>1. Rank(j) < Rank(i)
      BY RankRises
    <3> QED
      BY <1>1, <2>2, <2>3, <3>1
  <2>6. Before(i, j)
    BY <2>4, <2>5, BeforeOrders
  <2> QED
    BY <2>6 DEF Before
<1> QED
  BY <1>7, <1>8, <1>9

-----------------------------------------------------------------------------
(* Limits, sizes, fills and exit prices, one trade at a time.                  *)

\* The limits the configuration sets are whole numbers.
LEMMA ConfigType ==
  /\ SlipCents \in Nat /\ SlipPercent \in Nat /\ MinPremium \in Nat /\ MaxPremium \in Nat
  /\ MaxContracts \in Nat \ {0} /\ Multiplier \in Nat \ {0} /\ CandidateCount \in Nat \ {0}
BY ConfigAssumption

LEMMA TriggerType ==
  ASSUME ValidPolicy(policy), NEW i \in Levels
  PROVE  policy.levels[i].trigger \in Nat \ {0}
<1> DEFINE trigger == policy.levels[i].trigger
<1>1. trigger \in 1..1000
  <2>1. \A j \in DOMAIN policy.levels :
          policy.levels[j].trigger \in 1..1000 /\ policy.levels[j].share \in 1..100
    BY Zenon DEF ValidPolicy
  <2> QED
    BY <2>1 DEF Levels
<1> HIDE DEF trigger
<1>2. trigger \in Nat \ {0}
  BY <1>1
<1> QED
  BY <1>2 DEF trigger

\* The slippage allowed is at most the percentage of the price.
LEMMA SlippageType ==
  ASSUME NEW price \in Nat
  PROVE  Slippage(price) \in Nat /\ Slippage(price) <= price * SlipPercent
<1>1. 100 * SlipCents \in Nat /\ price * SlipPercent \in Nat
  BY ConfigType
<1> DEFINE a == 100 * SlipCents
           b == price * SlipPercent
<1>2. Slippage(price) = Min({a, b})
  BY DEF Slippage
<1> HIDE DEF a, b
<1>3. a \in Nat /\ b \in Nat
  BY <1>1 DEF a, b
<1>4. Min({a, b}) \in {a, b} /\ Min({a, b}) <= b
  BY <1>3, MinOfTwo
<1> QED
  BY <1>2, <1>3, <1>4 DEF b

LEMMA IncrementType ==
  ASSUME NEW n \in Nat, NEW d \in Nat \ {0}
  PROVE  Increment(n, d) \in Nat \ {0}
BY BandOf, RuleType

\* RoundedUp, for a reader who does not ask in which band.
LEMMA UpCovers ==
  ASSUME NEW n \in Nat, NEW d \in Nat \ {0}, NEW p, p = RoundUp(n, d, Increment(n, d))
  PROVE  p \in Nat /\ n <= p * d /\ OnTick(p)
<1>1. PICK b \in DOMAIN Rules : IsBand(b, n, d)
  BY BandOf
<1> QED
  BY <1>1, RoundedUp

\* A buy limit is a tick at or above the ask, within the slippage cap, and no
\* higher tick is.
LEMMA BuyLimitBest ==
  ASSUME NEW ask \in Nat \ {0}, NEW price, price = BuyLimit(ask), price # None
  PROVE  /\ price \in Nat \ {0} /\ OnTick(price) /\ ask <= price /\ 100 * price <= Cap(ask)
         /\ \A p \in (price + 1)..(Cap(ask) \div 100) : ~OnTick(p)
<1>1. Cap(ask) \in Nat
  BY SlippageType DEF Cap
<1> DEFINE up == RoundUp(ask, 1, Increment(ask, 1))
           down == RoundDown(Cap(ask), 100, Increment(Cap(ask), 100))
<1>2. price = down /\ ~(price < up)
  BY DEF BuyLimit
<1>3. up \in Nat /\ ask <= up * 1
  BY UpCovers
<1>4. /\ price \in Nat /\ price * 100 <= Cap(ask) /\ OnTick(price)
      /\ \A r \in Nat : price < r /\ r * 100 <= Cap(ask) => ~OnTick(r)
  BY <1>1, <1>2, RoundedDown
<1> HIDE DEF up, down
<1>5. ask <= price
  BY <1>2, <1>3, <1>4
<1>6. ASSUME NEW p \in (price + 1)..(Cap(ask) \div 100)
      PROVE  ~OnTick(p)
  <2>1. Cap(ask) \div 100 \in Nat /\ (Cap(ask) \div 100) * 100 <= Cap(ask)
    BY <1>1, DivMod
  <2>2. p \in Nat /\ price < p /\ p <= Cap(ask) \div 100
    BY <1>4, <2>1
  <2>3. p * 100 <= Cap(ask)
    BY <1>1, <2>1, <2>2
  <2> QED
    BY <1>4, <2>2, <2>3
<1> QED
  BY <1>4, <1>5, <1>6

\* A sell limit is a tick at or below the bid, above the slippage floor, and no
\* higher tick up to the bid is left out.
LEMMA SellLimitBest ==
  ASSUME NEW bid \in Nat \ {0}, NEW price, price = SellLimit(bid), price # None
  PROVE  /\ price \in Nat \ {0} /\ OnTick(price) /\ price <= bid
         /\ SellFloor(bid) <= 100 * price /\ \A p \in (price + 1)..bid : ~OnTick(p)
<1>1. SellFloor(bid) \in Int
  BY SlippageType DEF SellFloor
<1>2. /\ price = RoundDown(bid, 1, Increment(bid, 1))
      /\ ~(SellFloor(bid) <= 0) /\ ~(100 * price < SellFloor(bid))
  BY DEF SellLimit
<1>3. /\ price \in Nat /\ price * 1 <= bid /\ OnTick(price)
      /\ \A r \in Nat : price < r /\ r * 1 <= bid => ~OnTick(r)
  BY <1>2, RoundedDown
<1> QED
  BY <1>1, <1>2, <1>3

\* As many contracts as the capital pays for at the limit, up to the ceiling.
LEMMA QuantityFits ==
  ASSUME capital \in Capitals, NEW price \in Nat \ {0}, NEW bid, NEW ask,
         NEW count, count = ResolveQuantity(price, bid, ask), Sized(count)
  PROVE  /\ count \in 1..MaxContracts
         /\ capital # None =>
              /\ count * price * Multiplier <= capital
              /\ count < MaxContracts => (count + 1) * price * Multiplier > capital
<1>1. CASE capital = None
  BY <1>1, ConfigType DEF ResolveQuantity
<1>2. CASE capital # None
  <2> DEFINE each == price * Multiplier
             most == capital \div each
  <2>1. capital \in Nat
    BY <1>2, InputsAssumption
  <2>2. each \in Nat \ {0}
    BY ConfigType
  <2>3. count = Min({most, MaxContracts})
    BY <1>2 DEF ResolveQuantity
  <2> HIDE DEF each
  <2>4. most \in Nat /\ most * each <= capital /\ capital < most * each + each
    BY <2>1, <2>2, DivMod
  <2> HIDE DEF most
  <2>5. count \in {most, MaxContracts} /\ count <= most /\ count <= MaxContracts
    BY <2>3, <2>4, ConfigType, MinOfTwo
  <2>6. count \in 1..MaxContracts
    BY <2>4, <2>5, ConfigType DEF Sized
  <2>7. count * each <= capital
    <3>1. count * each <= most * each /\ most * each \in Nat /\ count * each \in Nat
      BY <2>2, <2>4, <2>5, <2>6, TimesMonotone
    <3> QED
      BY <2>1, <2>4, <3>1
  <2>8. ASSUME count < MaxContracts
        PROVE  (count + 1) * each > capital
    <3>1. count = most
      BY <2>5, <2>6, <2>8, ConfigType
    <3>2. (most + 1) * each = most * each + each
      BY <2>2, <2>4
    <3> QED
      BY <2>4, <3>1, <3>2
  <2>9. \A x \in Nat : x * price * Multiplier = x * each
    BY ConfigType DEF each
  <2> QED
    BY <2>6, <2>7, <2>8, <2>9
<1> QED
  BY <1>1, <1>2

\* What the fills of an entry cost is above 0.
LEMMA FillPaid ==
  ASSUME NEW q \in Nat \ {0}, NEW price \in Nat \ {0}, NEW better \in 0..q,
         better > 0 => Increment(price - 1, 1) < price
  PROVE  q * price - better * Increment(price - 1, 1) \in Nat \ {0}
<1> DEFINE inc == Increment(price - 1, 1)
<1>1. inc \in Nat
  <2>1. price - 1 \in Nat
    OBVIOUS
  <2> QED
    BY <2>1, IncrementType
<1> HIDE DEF inc
<1>2. CASE better = 0
  <2>1. q * price \in Nat \ {0} /\ better * inc = 0
    BY <1>1, <1>2
  <2> DEFINE whole == q * price
             off == better * inc
  <2>2. whole \in Nat \ {0} /\ off = 0
    BY <2>1
  <2> HIDE DEF whole, off
  <2>3. whole - off \in Nat \ {0}
    BY <2>2
  <2> QED
    BY <2>3 DEF whole, off, inc
<1>3. CASE better > 0
  <2>1. inc + 1 <= price
    BY <1>1, <1>3 DEF inc
  <2>2. better * inc <= q * inc /\ q * inc \in Nat /\ better * inc \in Nat
    BY <1>1, TimesMonotone
  <2>3. (inc + 1) * q <= price * q /\ price * q \in Nat
    BY <1>1, <2>1, TimesMonotone
  <2>4. (inc + 1) * q = q * inc + q /\ price * q = q * price
    BY <1>1
  <2> QED
    BY <2>2, <2>3, <2>4 DEF inc
<1> QED
  BY <1>2, <1>3

\* A stop keeps the trigger asked for; its limit is a tick at or below it.
LEMMA StopAtOnTick ==
  ASSUME NEW t \in Nat, NEW s, s = StopAt(t), s # None
  PROVE  /\ s.trigger = t /\ s.trigger \in Nat /\ s.limit \in Nat
         /\ OnTick(s.limit) /\ s.limit <= t
<1> DEFINE n == 100 * t - Slippage(t)
           down == RoundDown(n, 100, Increment(n, 100))
<1>1. Slippage(t) \in Nat
  BY SlippageType
<1>2. s = [trigger |-> t, limit |-> down] /\ ~(n <= 0)
  BY DEF StopAt
<1>3. n \in Nat /\ n <= 100 * t
  BY <1>1, <1>2
<1> HIDE DEF n
<1>4. down \in Nat /\ down * 100 <= n /\ OnTick(down)
  BY <1>3, RoundedDown
<1> HIDE DEF down
<1>5. down <= t
  BY <1>3, <1>4
<1> QED
  BY <1>2, <1>4, <1>5

\* A cushion of less than the whole price leaves a stop.
LEMMA StopAtLeft ==
  ASSUME NEW t \in Nat \ {0}, SlipPercent < 100
  PROVE  StopAt(t) # None
<1>1. Slippage(t) \in Nat /\ Slippage(t) <= t * SlipPercent
  BY SlippageType
<1>2. t * SlipPercent < 100 * t
  <2>1. SlipPercent + 1 <= 100 /\ SlipPercent \in Nat
    BY ConfigType
  <2>2. (SlipPercent + 1) * t <= 100 * t
    BY <2>1, TimesMonotone
  <2>3. (SlipPercent + 1) * t = t * SlipPercent + t /\ t * SlipPercent \in Nat
    BY <2>1
  <2> QED
    BY <2>2, <2>3
<1>3. ~(t = 0 \/ 100 * t - Slippage(t) <= 0)
  <2>1. t * SlipPercent \in Nat
    BY ConfigType
  <2> QED
    BY <1>1, <1>2, <2>1
<1> DEFINE n == 100 * t - Slippage(t)
           down == RoundDown(n, 100, Increment(n, 100))
<1>4. StopAt(t) = [trigger |-> t, limit |-> down]
  BY <1>3 DEF StopAt
<1>5. n \in Nat
  BY <1>1, <1>3
<1> HIDE DEF n
<1>6. down \in Nat
  BY <1>5, RoundedDown
<1> QED
  BY <1>4, <1>6, InputsAssumption DEF StopPrices

\* The prices of the legs, around an average fill that is not 0.
LEMMA TakeProfitAbove ==
  ASSUME cost \in Nat \ {0}, quantity \in Nat \ {0}, NEW percent \in Nat \ {0}
  PROVE  /\ TakeProfit(percent) \in Nat /\ OnTick(TakeProfit(percent))
         /\ TakeProfit(percent) * quantity > cost
         /\ \A more \in Nat : percent <= more => TakeProfit(percent) <= TakeProfit(more)
<1> DEFINE n(x) == cost * (100 + x)
           d == quantity * 100
           take == TakeProfit(percent)
<1>1. d \in Nat \ {0} /\ n(percent) \in Nat
  OBVIOUS
<1>2. take \in Nat /\ n(percent) <= take * d /\ OnTick(take)
  BY <1>1, UpCovers DEF TakeProfit
<1>3. take * quantity > cost
  <2> HIDE DEF take
  <2>1. take * d = 100 * (take * quantity) /\ take * quantity \in Nat
    BY <1>2
  <2>2. n(percent) = 100 * cost + cost * percent /\ cost * percent \in Nat \ {0}
    OBVIOUS
  <2> QED
    BY <1>2, <2>1, <2>2
<1>4. ASSUME NEW more \in Nat, percent <= more
      PROVE  TakeProfit(percent) <= TakeProfit(more)
  <2>1. n(percent) <= n(more) /\ n(more) \in Nat
    <3>1. 100 + percent <= 100 + more
      BY <1>4
    <3>2. (100 + percent) * cost <= (100 + more) * cost
      BY <3>1, TimesMonotone
    <3> QED
      BY <3>2
  <2> HIDE DEF n, d
  <2>2. RoundUp(n(percent), d, Increment(n(percent), d))
          <= RoundUp(n(more), d, Increment(n(more), d))
    BY <1>1, <2>1, UpMonotone
  <2> QED
    BY <2>2 DEF TakeProfit, n, d
<1> QED
  BY <1>2, <1>3, <1>4

\* The policy's stop triggers at a tick below the average price paid.
LEMMA StopTriggerBelow ==
  ASSUME cost \in Nat \ {0}, quantity \in Nat \ {0}, NEW percent \in 1..100
  PROVE  /\ StopTrigger(percent) \in Nat /\ OnTick(StopTrigger(percent))
         /\ StopTrigger(percent) * quantity < cost
<1> DEFINE n == cost * (100 - percent)
           d == quantity * 100
           t == StopTrigger(percent)
<1>1. d \in Nat \ {0} /\ 100 - percent \in Nat /\ n \in Nat
  OBVIOUS
<1>2. t \in Nat /\ t * d <= n /\ OnTick(t)
  BY <1>1, RoundedDown DEF StopTrigger
<1>3. t * quantity < cost
  <2> HIDE DEF t
  <2>1. t * d = 100 * (t * quantity) /\ t * quantity \in Nat
    BY <1>2
  <2>2. n = 100 * cost - cost * percent /\ cost * percent \in Nat \ {0}
    OBVIOUS
  <2> QED
    BY <1>2, <2>1, <2>2
<1> QED
  BY <1>2, <1>3

\* The breakeven price is a tick, and never below the average price paid.
LEMMA BreakevenCovers ==
  ASSUME cost \in Nat \ {0}, quantity \in Nat \ {0}
  PROVE  /\ Breakeven \in Nat \ {0} /\ OnTick(Breakeven) /\ Breakeven * quantity >= cost
<1>1. Breakeven \in Nat /\ cost <= Breakeven * quantity /\ OnTick(Breakeven)
  BY UpCovers DEF Breakeven
<1>2. Breakeven # 0
  BY <1>1
<1> QED
  BY <1>1, <1>2

\* The trailing price is a tick.
LEMMA TrailingType ==
  ASSUME NEW bid \in Nat, NEW distance \in Nat, distance < 100
  PROVE  Trailing(bid, distance) \in Nat /\ OnTick(Trailing(bid, distance))
<1>1. bid * (100 - distance) \in Nat
  OBVIOUS
<1> QED
  BY <1>1, UpCovers DEF Trailing

-----------------------------------------------------------------------------
(* The first layer: types, and what a trade has passed to be where it is.      *)

Vetted == stage \notin {"received", "blocked"} => ValidPolicy(policy)

Paid == stage \in {"filled"} \cup Protected => cost \in Nat \ {0}

TypeInv == TypeOK /\ Vetted /\ Paid

\* The layer holds of a plan nothing has been decided about.
LEMMA TypeInit == Init => TypeInv
BY DEF Init, TypeInv, TypeOK, Vetted, Paid, Bought, Protected

\* The limit and the size PrepareOpen sends are those of a valid quote.
LEMMA Sent ==
  ASSUME TypeInv, PrepareOpen, stage' = "sent"
  PROVE  /\ limit' \in Nat \ {0} /\ OnTick(limit') /\ quote'[2] <= limit'
         /\ 100 * limit' <= Cap(quote'[2])
         /\ \A p \in (limit' + 1)..(Cap(quote'[2]) \div 100) : ~OnTick(p)
         /\ quantity' \in 1..MaxContracts
         /\ capital # None =>
              /\ quantity' * limit' * Multiplier <= capital
              /\ quantity' < MaxContracts => (quantity' + 1) * limit' * Multiplier > capital
<1>1. PICK q \in Quotes :
        /\ quote' = q /\ ValidQuote(q[1], q[2])
        /\ limit' = BuyLimit(q[2]) /\ limit' # None
        /\ quantity' = ResolveQuantity(limit', q[1], q[2]) /\ Sized(quantity')
  BY DEF PrepareOpen
<1>2. q[2] \in Nat \ {0}
  <2>1. q[1] \in Int /\ q[2] \in Int
    BY InputsAssumption
  <2> QED
    BY <1>1, <2>1 DEF ValidQuote
<1>3. /\ limit' \in Nat \ {0} /\ OnTick(limit') /\ q[2] <= limit' /\ 100 * limit' <= Cap(q[2])
      /\ \A p \in (limit' + 1)..(Cap(q[2]) \div 100) : ~OnTick(p)
  BY <1>1, <1>2, BuyLimitBest
<1>4. capital \in Capitals
  BY DEF TypeInv, TypeOK
<1> QED
  BY <1>1, <1>3, <1>4, QuantityFits

\* What MoveStop leaves behind: the stop there was, or a higher one on a tick.
LEMMA Moved ==
  ASSUME NEW t \in Nat, OnTick(t), NEW s, s = MoveStop(t), s # stop
  PROVE  /\ stop # None /\ t > stop.trigger
         /\ s.trigger = t /\ s.trigger \in Nat /\ s.limit \in Nat
         /\ OnTick(s.trigger) /\ OnTick(s.limit) /\ s.limit <= s.trigger
<1>1. s = StopAt(t) /\ s # None /\ stop # None /\ t > stop.trigger
  BY DEF MoveStop
<1> QED
  BY <1>1, StopAtOnTick

\* The bid a stop trails behind.
LEMMA Trailed ==
  ASSUME TypeInv, TrailFreshBid
  PROVE  stop' = stop \/ \E t \in Nat : OnTick(t) /\ stop' = MoveStop(t)
<1>1. PICK q \in Quotes, distance \in Distances :
        /\ ValidQuote(q[1], q[2])
        /\ stop' = IF distance < 100 THEN MoveStop(Trailing(q[1], distance)) ELSE stop
  BY DEF TrailFreshBid
<1>2. q[1] \in Nat /\ distance \in Nat
  <2>1. q[1] \in Int /\ q[2] \in Int /\ distance \in Nat
    BY InputsAssumption
  <2> QED
    BY <1>1, <2>1 DEF ValidQuote
<1> QED
  BY <1>1, <1>2, TrailingType

\* A step keeps the layer: each action fixes the type of what it assigns.
LEMMA TypeStep == TypeInv /\ [Next]_vars => TypeInv'
<1> SUFFICES ASSUME TypeInv, [Next]_vars
             PROVE  TypeInv'
  OBVIOUS
<1> USE DEF TypeInv, TypeOK, Vetted, Paid, Bought, Protected, request, entry, exits
<1>1. CASE ValidatePolicy
  BY <1>1 DEF ValidatePolicy
<1>2. CASE ChooseStrike
  <2>1. PICK spot \in Spots : \E quoted \in SUBSET Candidates(spot, right) :
          \E premium \in [quoted -> Premiums] :
            IF quoted = {} THEN stage' = "blocked" /\ UNCHANGED strike
            ELSE stage' = "selected" /\ strike' = Choice(spot, premium)
    BY <1>2 DEF ChooseStrike
  <2>2. Candidates(spot, right) \subseteq DOMAIN Strikes
    BY DEF Candidates
  <2>3. strike' \in {None} \cup DOMAIN Strikes /\ stage' \in {"blocked", "selected"}
    BY <2>1, <2>2, ChoiceIn
  <2> QED
    BY <1>2, <2>3 DEF ChooseStrike
<1>3. CASE PrepareOpen
  <2>1. stage' \in {"sent", "blocked"}
    BY <1>3 DEF PrepareOpen
  <2>2. CASE stage' = "sent"
    <3>1. limit' \in Nat \ {0} /\ quantity' \in 1..MaxContracts
      BY <1>3, <2>2, Sent
    <3> QED
      BY <1>3, <2>2, <3>1 DEF PrepareOpen
  <2>3. CASE stage' = "blocked"
    BY <1>3, <2>3 DEF PrepareOpen
  <2> QED
    BY <2>1, <2>2, <2>3
<1>4. CASE Fill
  <2>1. quantity \in Nat \ {0} /\ limit \in Nat \ {0}
    BY <1>4, ConfigType DEF Fill
  <2>2. PICK better \in 0..quantity :
          /\ better > 0 => Increment(limit - 1, 1) < limit
          /\ cost' = quantity * limit - better * Increment(limit - 1, 1)
    BY <1>4 DEF Fill
  <2>3. cost' \in Nat \ {0}
    BY <2>1, <2>2, FillPaid
  <2> QED
    BY <1>4, <2>3 DEF Fill
<1>5. CASE Protect
  <2>1. quantity \in Nat \ {0} /\ cost \in Nat \ {0} /\ ValidPolicy(policy)
    BY <1>5, ConfigType DEF Protect
  <2>2. StopTrigger(policy.stop) \in Nat
    <3>1. policy.stop \in 1..100
      BY <2>1 DEF ValidPolicy
    <3> QED
      BY <2>1, <3>1, StopTriggerBelow
  <2>3. stop' # None => stop'.trigger \in Nat /\ stop'.limit \in Nat
    BY <1>5, <2>2, StopAtOnTick DEF Protect
  <2> QED
    BY <1>5, <2>3 DEF Protect
<1>6. CASE MoveStopToBreakeven
  <2>1. quantity \in Nat \ {0} /\ cost \in Nat \ {0}
    BY <1>6, ConfigType DEF MoveStopToBreakeven
  <2>2. Breakeven \in Nat /\ OnTick(Breakeven)
    BY <2>1, BreakevenCovers
  <2>3. stop' # None => stop'.trigger \in Nat /\ stop'.limit \in Nat
    BY <1>6, <2>2, Moved DEF MoveStopToBreakeven
  <2> QED
    BY <1>6, <2>3 DEF MoveStopToBreakeven
<1>7. CASE TrailFreshBid
  <2>1. stop' # None => stop'.trigger \in Nat /\ stop'.limit \in Nat
    BY <1>7, Trailed, Moved
  <2> QED
    BY <1>7, <2>1 DEF TrailFreshBid
<1>8. CASE Close
  <2>1. PICK q \in Quotes : /\ ValidQuote(q[1], q[2]) /\ limit' = SellLimit(q[1])
                            /\ SellLimit(q[1]) # None
    BY <1>8 DEF Close
  <2>2. q[1] \in Nat \ {0}
    <3>1. q[1] \in Int /\ q[2] \in Int
      BY InputsAssumption
    <3> QED
      BY <2>1, <3>1 DEF ValidQuote
  <2>3. limit' \in Nat \ {0}
    BY <2>1, <2>2, SellLimitBest
  <2> QED
    BY <1>8, <2>3 DEF Close
<1>9. CASE UNCHANGED vars
  BY <1>9 DEF vars
<1> QED
  BY <1>1, <1>2, <1>3, <1>4, <1>5, <1>6, <1>7, <1>8, <1>9 DEF Next

LEMMA TypeHolds == Spec => []TypeInv
BY TypeInit, TypeStep, PTL DEF Spec

\* Every reachable state of a trade is well typed: an order that is sent is for one
\* contract or more, within the ceiling, at a limit above 0.
THEOREM TypeCorrect == Spec => []TypeOK
<1>1. TypeInv => TypeOK
  BY DEF TypeInv
<1> QED
  BY <1>1, TypeHolds, PTL

-----------------------------------------------------------------------------
(* The properties, each from the one step that makes it true.                  *)

\* The strike chosen is never deeper in the money than the one nearest the spot, and
\* in the target range whenever any candidate is.
THEOREM StrikeInBand == Spec => []StrikeWithinBand
<1>1. Init => StrikeWithinBand
  BY DEF Init, StrikeWithinBand
<1>2. TypeInv /\ StrikeWithinBand /\ [Next]_vars => StrikeWithinBand'
  <2> SUFFICES ASSUME TypeInv, StrikeWithinBand, [Next]_vars, stage' = "selected"
               PROVE  StrikeWithinBand'
    BY DEF StrikeWithinBand
  <2>1. CASE ChooseStrike
    <3>1. right \in {"C", "P"} /\ right' = right
      BY <2>1 DEF TypeInv, TypeOK, ChooseStrike, request
    <3>2. PICK spot \in Spots : \E quoted \in SUBSET Candidates(spot, right) :
            \E premium \in [quoted -> Premiums] :
              /\ offers' = [spot |-> spot, premium |-> premium]
              /\ quoted # {} /\ strike' = Choice(spot, premium)
      BY <2>1 DEF ChooseStrike
    <3>3. PICK quoted \in SUBSET Candidates(spot, right) :
            \E premium \in [quoted -> Premiums] :
              /\ offers' = [spot |-> spot, premium |-> premium]
              /\ quoted # {} /\ strike' = Choice(spot, premium)
      BY <3>2
    <3>4. PICK premium \in [quoted -> Premiums] :
            /\ offers' = [spot |-> spot, premium |-> premium]
            /\ quoted # {} /\ strike' = Choice(spot, premium)
      BY <3>3
    <3>5. /\ strike' \in quoted
          /\ (\E i \in quoted : InRange(premium[i])) => InRange(premium[strike'])
      BY <3>1, <3>4, ChoiceIn
    <3>6. IF right = "C" THEN strike' >= AtmIndex(spot) ELSE strike' <= AtmIndex(spot)
      <4>1. AtmIndex(spot) \in Nat /\ CandidateCount \in Nat
        BY AtmIn, StrikeType, ConfigType
      <4>2. strike' \in Candidates(spot, right)
        BY <3>5
      <4> QED
        BY <3>1, <4>1, <4>2 DEF Candidates
    <3>7. offers'.spot = spot /\ offers'.premium = premium /\ DOMAIN premium = quoted
      BY <3>4
    <3> QED
      BY <3>1, <3>5, <3>6, <3>7 DEF StrikeWithinBand
  <2>2. CASE UNCHANGED vars
    BY <2>2 DEF vars, request, StrikeWithinBand
  <2> QED
    BY <2>1, <2>2 DEF Next, ValidatePolicy, PrepareOpen, Fill, Protect,
      MoveStopToBreakeven, TrailFreshBid, Close
<1> QED
  BY <1>1, <1>2, TypeHolds, PTL DEF Spec

\* The worst case of an entry is within the capital, and no smaller than it need be.
THEOREM DebitBounded == Spec => []DebitWithinCapital
<1>1. Init => DebitWithinCapital
  BY DEF Init, DebitWithinCapital, Bought
<1>2. TypeInv /\ DebitWithinCapital /\ [Next]_vars => DebitWithinCapital'
  <2> SUFFICES ASSUME TypeInv, DebitWithinCapital, [Next]_vars
               PROVE  DebitWithinCapital'
    OBVIOUS
  <2>1. CASE PrepareOpen
    <3>1. stage' \in {"sent", "blocked"} /\ capital' = capital
      BY <2>1 DEF PrepareOpen, request
    <3>2. CASE stage' = "sent"
      <4>1. capital # None =>
              /\ quantity' * limit' * Multiplier <= capital
              /\ quantity' < MaxContracts => (quantity' + 1) * limit' * Multiplier > capital
        BY <2>1, <3>2, Sent
      <4> QED
        BY <3>1, <4>1 DEF DebitWithinCapital
    <3>3. CASE stage' = "blocked"
      BY <3>3 DEF DebitWithinCapital, Bought
    <3> QED
      BY <3>1, <3>2, <3>3
  <2>2. CASE Close \/ ValidatePolicy \/ ChooseStrike
    <3>1. stage' \in {"closing", "validated", "blocked", "selected"}
      BY <2>2 DEF Close, ValidatePolicy, ChooseStrike
    <3> QED
      BY <3>1 DEF DebitWithinCapital, Bought
  <2>3. CASE Fill \/ Protect \/ MoveStopToBreakeven \/ TrailFreshBid \/ UNCHANGED vars
    <3>1. /\ UNCHANGED <<limit, quantity, capital>>
          /\ stage' \in Bought \ {"closing"} => stage \in Bought \ {"closing"}
      BY <2>3 DEF Fill, Protect, MoveStopToBreakeven, TrailFreshBid, vars, request, entry,
        Bought
    <3> QED
      BY <3>1 DEF DebitWithinCapital
  <2> QED
    BY <2>1, <2>2, <2>3 DEF Next
<1> QED
  BY <1>1, <1>2, TypeHolds, PTL DEF Spec

\* A limit sent is valid, marketable, within the slippage cap, and there is none
\* nearer to the cap, or to the bid.
THEOREM LimitsBest == Spec => []LimitBest
<1>1. Init => LimitBest
  BY DEF Init, LimitBest
<1>2. TypeInv /\ LimitBest /\ [Next]_vars => LimitBest'
  <2> SUFFICES ASSUME TypeInv, LimitBest, [Next]_vars
               PROVE  LimitBest'
    OBVIOUS
  <2>1. CASE PrepareOpen
    <3>1. stage' \in {"sent", "blocked"}
      BY <2>1 DEF PrepareOpen
    <3>2. stage' = "sent" =>
            /\ OnTick(limit') /\ quote'[2] <= limit' /\ 100 * limit' <= Cap(quote'[2])
            /\ \A p \in (limit' + 1)..(Cap(quote'[2]) \div 100) : ~OnTick(p)
      BY <2>1, Sent
    <3> QED
      BY <3>1, <3>2 DEF LimitBest
  <2>2. CASE Close
    <3>1. PICK q \in Quotes : /\ ValidQuote(q[1], q[2]) /\ SellLimit(q[1]) # None
                              /\ quote' = q /\ limit' = SellLimit(q[1])
      BY <2>2 DEF Close
    <3>2. q[1] \in Nat \ {0}
      <4>1. q[1] \in Int /\ q[2] \in Int
        BY InputsAssumption
      <4> QED
        BY <3>1, <4>1 DEF ValidQuote
    <3>3. /\ OnTick(limit') /\ limit' <= q[1] /\ SellFloor(q[1]) <= 100 * limit'
          /\ \A p \in (limit' + 1)..q[1] : ~OnTick(p)
      BY <3>1, <3>2, SellLimitBest
    <3>4. stage' = "closing"
      BY <2>2 DEF Close
    <3> QED
      BY <3>1, <3>3, <3>4 DEF LimitBest
  <2>3. CASE \/ ValidatePolicy \/ ChooseStrike \/ Fill \/ Protect
             \/ MoveStopToBreakeven \/ TrailFreshBid
    <3>1. stage' \notin {"sent", "closing"}
      BY <2>3 DEF ValidatePolicy, ChooseStrike, Fill, Protect, MoveStopToBreakeven, TrailFreshBid
    <3> QED
      BY <3>1 DEF LimitBest
  <2>4. CASE UNCHANGED vars
    BY <2>4 DEF vars, entry, LimitBest
  <2> QED
    BY <2>1, <2>2, <2>3, <2>4 DEF Next
<1> QED
  BY <1>1, <1>2, TypeHolds, PTL DEF Spec

\* Every contract bought is in exactly one slice, and no level's slice is off its
\* exact share by a whole contract.
THEOREM AllocationCovers == Spec => []AllocationExact
<1>1. Init => AllocationExact
  BY DEF Init, AllocationExact, Protected
<1>2. TypeInv /\ AllocationExact /\ [Next]_vars => AllocationExact'
  <2> SUFFICES ASSUME TypeInv, AllocationExact, [Next]_vars, stage' \in Protected
               PROVE  AllocationExact'
    BY DEF AllocationExact
  <2>1. CASE Protect
    <3>1. policy \in Policies /\ ValidPolicy(policy) /\ quantity \in Nat
      BY <2>1, ConfigType DEF Protect, TypeInv, TypeOK, Vetted, Bought
    <3>2. UNCHANGED <<policy, quantity>> /\ split' = Allocation
      BY <2>1 DEF Protect, request, entry
    <3>3. Levels' = Levels /\ \A i : Whole(i)' = Whole(i) /\ Remainder(i)' = Remainder(i)
      BY <3>2 DEF Levels, Whole, Remainder
    <3>4. Allocation = split'
      BY <3>2
    <3> HIDE DEF Protected
    <3> QED
      BY <3>1, <3>2, <3>3, AllocationSplits DEF AllocationExact
  <2>2. CASE MoveStopToBreakeven \/ TrailFreshBid \/ UNCHANGED vars
    <3>1. /\ UNCHANGED <<policy, quantity, split>>
          /\ stage \in Protected
      BY <2>2 DEF MoveStopToBreakeven, TrailFreshBid, vars, request, entry, exits, Protected
    <3> QED
      BY <3>1 DEF AllocationExact, Levels, Whole, Remainder
  <2> QED
    BY <2>1, <2>2 DEF Next, ValidatePolicy, ChooseStrike, PrepareOpen, Fill, Close, Protected
<1> QED
  BY <1>1, <1>2, TypeHolds, PTL DEF Spec

\* Exits bracket what was paid. CoreConfig lets max_slippage_percent be 100 percent
\* or more; a stop may then have no limit left at breakeven and stay where it was.
THEOREM ExitsBracket ==
  ASSUME SlipPercent < 100
  PROVE  Spec => []ExitsBracketEntry
<1>1. Init => ExitsBracketEntry
  BY DEF Init, ExitsBracketEntry, Protected
<1>2. TypeInv /\ ExitsBracketEntry /\ [Next]_vars => ExitsBracketEntry'
  <2> SUFFICES ASSUME TypeInv, ExitsBracketEntry, [Next]_vars, stage' \in Protected
               PROVE  ExitsBracketEntry'
    BY DEF ExitsBracketEntry
  <2>1. CASE Protect
    <3>1. /\ policy \in Policies /\ ValidPolicy(policy)
          /\ quantity \in Nat \ {0} /\ cost \in Nat \ {0}
      BY <2>1, ConfigType DEF Protect, TypeInv, TypeOK, Vetted, Paid, Bought
    <3>2. /\ UNCHANGED <<policy, quantity, cost>> /\ stage' = "protected"
          /\ takes' = [i \in Levels |-> TakeProfit(policy.levels[i].trigger)]
          /\ stop' = StopAt(StopTrigger(policy.stop))
      BY <2>1 DEF Protect, request, entry
    <3>3. policy.stop \in 1..100
      BY <3>1 DEF ValidPolicy
    <3>4. \A i \in Levels : policy.levels[i].trigger \in Nat \ {0}
      BY <3>1, TriggerType
    <3>5. \A i \in Levels : takes'[i] * quantity > cost /\ OnTick(takes'[i])
      BY <3>1, <3>2, <3>4, TakeProfitAbove
    <3>6. ASSUME NEW i \in Levels \ {1}
          PROVE  takes'[i - 1] <= takes'[i]
      <4>1. i \in 2..Len(policy.levels) /\ i - 1 \in Levels
        BY <3>1, LevelType
      <4>2. policy.levels[i - 1].trigger < policy.levels[i].trigger
        BY <3>1, <4>1 DEF ValidPolicy
      <4>3. /\ policy.levels[i - 1].trigger \in Nat \ {0}
            /\ policy.levels[i].trigger \in Nat \ {0}
        BY <3>4, <4>1
      <4>4. TakeProfit(policy.levels[i - 1].trigger) <= TakeProfit(policy.levels[i].trigger)
        BY <3>1, <4>2, <4>3, TakeProfitAbove
      <4> QED
        BY <3>2, <4>1, <4>4
    <3>7. /\ StopTrigger(policy.stop) \in Nat /\ OnTick(StopTrigger(policy.stop))
          /\ StopTrigger(policy.stop) * quantity < cost
      BY <3>1, <3>3, StopTriggerBelow
    <3>8. stop' # None =>
            /\ OnTick(stop'.trigger) /\ OnTick(stop'.limit) /\ stop'.limit <= stop'.trigger
            /\ stop'.trigger * quantity < cost
      BY <3>2, <3>7, StopAtOnTick
    <3>9. Levels' = Levels
      BY <3>2 DEF Levels
    <3> QED
      BY <3>2, <3>5, <3>6, <3>8, <3>9 DEF ExitsBracketEntry
  <2>2. CASE MoveStopToBreakeven
    <3>1. quantity \in Nat \ {0} /\ cost \in Nat \ {0}
      BY <2>2, ConfigType DEF MoveStopToBreakeven, TypeInv, TypeOK, Paid, Bought, Protected
    <3>2. /\ UNCHANGED <<policy, quantity, cost, takes>>
          /\ stage = "protected" /\ stage' = "breakeven"
          /\ stop # None /\ stop' = MoveStop(Breakeven)
      BY <2>2 DEF MoveStopToBreakeven, request, entry
    <3>3. stop.trigger \in Nat /\ stop.trigger * quantity < cost
      BY <3>2 DEF TypeInv, TypeOK, ExitsBracketEntry, Protected
    <3>4. Breakeven \in Nat \ {0} /\ OnTick(Breakeven) /\ cost <= Breakeven * quantity
      BY <3>1, BreakevenCovers
    <3>5. stop.trigger < Breakeven
      <4>1. stop.trigger * quantity < Breakeven * quantity
        BY <3>1, <3>3, <3>4
      <4> QED
        BY <3>1, <3>3, <3>4, <4>1, TimesStrict
    <3>6. StopAt(Breakeven) # None
      BY <3>4, StopAtLeft
    <3>7. stop' = StopAt(Breakeven) /\ stop' # None
      BY <3>2, <3>5, <3>6 DEF MoveStop
    <3>8. /\ stop'.trigger = Breakeven
          /\ OnTick(stop'.limit) /\ stop'.limit <= stop'.trigger
      BY <3>4, <3>7, StopAtOnTick
    <3>9. Levels' = Levels
      BY <3>2 DEF Levels
    <3> QED
      BY <3>2, <3>4, <3>8, <3>9 DEF ExitsBracketEntry, Protected
  <2>3. CASE TrailFreshBid
    <3>1. quantity \in Nat \ {0} /\ cost \in Nat \ {0}
      BY <2>3, ConfigType DEF TrailFreshBid, TypeInv, TypeOK, Paid, Bought, Protected
    <3>2. /\ UNCHANGED <<policy, quantity, cost, takes>>
          /\ stage = "breakeven" /\ stage' = "trailed"
      BY <2>3 DEF TrailFreshBid, request, entry
    <3>3. Levels' = Levels
      BY <3>2 DEF Levels
    <3>4. CASE stop' = stop
      BY <3>2, <3>3, <3>4 DEF ExitsBracketEntry, Protected
    <3>5. CASE stop' # stop
      <4>1. PICK t \in Nat : OnTick(t) /\ stop' = MoveStop(t)
        BY <2>3, <3>5, Trailed
      <4>2. /\ stop # None /\ t > stop.trigger /\ stop'.trigger = t
            /\ OnTick(stop'.trigger) /\ OnTick(stop'.limit) /\ stop'.limit <= stop'.trigger
        BY <3>5, <4>1, Moved
      <4>3. stop.trigger \in Nat /\ stop.trigger * quantity >= cost
        BY <3>2, <4>2 DEF TypeInv, TypeOK, ExitsBracketEntry, Protected
      <4>4. stop.trigger * quantity <= t * quantity /\ t * quantity \in Nat
        BY <3>1, <4>2, <4>3, TimesMonotone
      <4>5. t * quantity >= cost
        BY <3>1, <4>3, <4>4
      <4> QED
        BY <3>2, <3>3, <4>2, <4>5 DEF ExitsBracketEntry, Protected
    <3> QED
      BY <3>4, <3>5
  <2>4. CASE UNCHANGED vars
    BY <2>4 DEF vars, request, entry, exits, ExitsBracketEntry, Protected, Levels
  <2> QED
    BY <2>1, <2>2, <2>3, <2>4 DEF Next, ValidatePolicy, ChooseStrike, PrepareOpen, Fill, Close,
      Protected
<1> QED
  BY <1>1, <1>2, TypeHolds, PTL DEF Spec
=============================================================================
