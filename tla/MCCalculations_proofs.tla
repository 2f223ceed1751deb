------------------------- MODULE MCCalculations_proofs -------------------------
(***************************************************************************)
(* Proofs about the calculations of MCCalculations, for any numbers.       *)
(*                                                                         *)
(* Rebate agreements.  Every operator on tiers picks an extreme member of a *)
(* set of bands, and says nothing where there is none.  That a highest     *)
(* band and a next tier exist is proved by induction on the number of      *)
(* bands, in the form of a least counterexample; the rest is the order of  *)
(* the thresholds.                                                         *)
(*                                                                         *)
(* Renewals.  A date that months were added to is described by one         *)
(* equation of its month and one of its day; two such equations add up.    *)
(*                                                                         *)
(* Rounding.  ROUND_HALF_EVEN is off by at most half a step, and so is each *)
(* cost, price or number of days that was rounded once.                    *)
(***************************************************************************)
EXTENDS MCCalculations, SequenceTheorems, WellFoundedInduction, TLAPS

-----------------------------------------------------------------------------
(* Extremes                                                                 *)

\* A set of naturals has a least member.
LEMMA Least ==
  ASSUME NEW S, S \subseteq Nat, S # {}
  PROVE  \E i \in S : \A j \in S : i <= j
PROOF
  <1>1. PICK i \in S : \A j \in S : <<j, i>> \notin OpToRel(<, Nat)
    BY WFMin, NatLessThanWellFounded, Zenon
  <1>2. \A j \in S : ~(j < i)
    BY <1>1, Zenon DEF OpToRel
  <1> QED
    BY <1>2

\* i is the first index of R at which v is greatest.
IsTop(v, R, i) == i \in R /\ \A j \in R : v[j] < v[i] \/ (v[j] = v[i] /\ i <= j)

\* Finitely many numbers have a greatest, and a first place where it is.
LEMMA TopExists ==
  ASSUME NEW n \in Nat, NEW R, R \subseteq 1 .. n, R # {}, NEW v, \A i \in R : v[i] \in Int
  PROVE  \E i \in R : IsTop(v, R, i)
PROOF
  <1> DEFINE Part(k) == R \cap (1 .. k)
             Bad     == {k \in 0 .. n : Part(k) # {} /\ ~\E i \in Part(k) : IsTop(v, Part(k), i)}
  <1> SUFFICES Bad = {}
    <2>1. R \cap (1 .. n) = R
      OBVIOUS
    <2>2. n \in 0 .. n
      OBVIOUS
    <2> QED
      BY <2>1, <2>2
  <1> SUFFICES ASSUME Bad # {} PROVE FALSE
    OBVIOUS
  <1>1. PICK k \in Bad : \A j \in Bad : k <= j
    <2>1. Bad \subseteq Nat
      <3>1. Bad \subseteq 0 .. n
        BY Zenon
      <3> HIDE DEF Bad
      <3> QED
        BY <3>1
    <2> HIDE DEF Bad
    <2> QED
      BY <2>1, Least
  <1>2. k \in 1 .. n /\ Part(k) # {} /\ ~\E i \in Part(k) : IsTop(v, Part(k), i)
    OBVIOUS
  <1>3. k - 1 \in 0 .. n /\ k - 1 \notin Bad
    <2>1. PICK j \in 0 .. n : j = k - 1 /\ ~(k <= j)
      BY <1>2
    <2> HIDE DEF Bad
    <2>2. j \notin Bad
      BY <1>1, <2>1, Zenon
    <2> QED
      BY <2>1, <2>2
  <1>4. Part(k - 1) = {} \/ \E i \in Part(k - 1) : IsTop(v, Part(k - 1), i)
    BY <1>3
  <1>5. Part(k) = Part(k - 1) \cup (R \cap {k})
    <2>1. 1 .. k = (1 .. (k - 1)) \cup {k}
      BY <1>2
    <2> QED
      BY <2>1
  <1>6. \A j \in Part(k - 1) : j \in Int /\ j < k /\ v[j] \in Int
    BY <1>2
  <1>7. PICK P, Q : /\ P = Part(k - 1) /\ Q = Part(k)
                    /\ \A j \in P : j \in Int /\ j < k /\ v[j] \in Int
    BY <1>6
  <1> HIDE DEF Bad, Part
  <1>8. CASE k \notin R
    BY <1>2, <1>4, <1>5, <1>7, <1>8
  <1>9. CASE k \in R
    <2>1. v[k] \in Int /\ Q = P \cup {k}
      BY <1>5, <1>7, <1>9
    <2>2. CASE P = {}
      BY <1>2, <1>7, <2>1, <2>2 DEF IsTop
    <2>3. CASE P # {}
      <3>1. PICK i \in P : IsTop(v, P, i)
        BY <1>4, <1>7, <2>3
      <3>2. CASE v[k] > v[i]
        <4>1. IsTop(v, Q, k)
          BY <1>2, <1>7, <2>1, <3>1, <3>2 DEF IsTop
        <4> QED
          BY <1>2, <1>7, <2>1, <4>1
      <3>3. CASE ~(v[k] > v[i])
        <4>1. IsTop(v, Q, i)
          BY <1>2, <1>7, <2>1, <3>1, <3>3 DEF IsTop
        <4> QED
          BY <1>2, <1>7, <2>1, <4>1
      <3> QED
        BY <3>2, <3>3
    <2> QED
      BY <2>2, <2>3
  <1> QED
    BY <1>8, <1>9

-----------------------------------------------------------------------------
(* Rounding                                                                 *)

\* What ROUND_HALF_EVEN returns times the divisor is within half a divisor of what was divided.
LEMMA HalfAStep ==
  ASSUME NEW n \in Int, NEW d \in Nat \ {0}
  PROVE  /\ RoundHalfEven(n, d) \in Int
         /\ 2 * (n - d * RoundHalfEven(n, d)) <= d
         /\ 2 * (d * RoundHalfEven(n, d) - n) <= d
PROOF
  <1>1. PICK q \in Int, r \in 0 .. d - 1 : q = n \div d /\ r = n % d /\ n = d * q + r
    OBVIOUS
  <1>2. PICK result \in Int : /\ result = RoundHalfEven(n, d)
                              /\ \/ result = q /\ 2 * r <= d
                                 \/ result = q + 1 /\ 2 * r >= d
    BY <1>1 DEF RoundHalfEven
  <1>3. PICK product \in Int : product = d * result
    OBVIOUS
  <1>4. CASE result = q /\ 2 * r <= d
    BY <1>1, <1>2, <1>3, <1>4
  <1>5. CASE result = q + 1 /\ 2 * r >= d
    <2>1. product = d * q + d
      BY <1>3, <1>5
    <2>2. PICK whole \in Int : whole = d * q /\ n = whole + r /\ product = whole + d
      BY <1>1, <2>1
    <2> QED
      BY <1>2, <1>3, <1>5, <2>2
  <1> QED
    BY <1>2, <1>4, <1>5

\* Nothing that is not negative is rounded below zero, and no half of a step up.
LEMMA NothingLess ==
  ASSUME NEW n \in Nat, NEW d \in Nat \ {0}
  PROVE  /\ RoundHalfEven(n, d) >= 0
         /\ 2 * n <= d => RoundHalfEven(n, d) = 0
PROOF
  <1>1. PICK q \in Int, r \in 0 .. d - 1 : q = n \div d /\ r = n % d /\ n = d * q + r
    OBVIOUS
  <1>2. q >= 0
    <2>1. ASSUME q <= -1 PROVE FALSE
      <3>1. d * q <= -d
        BY <2>1
      <3> QED
        BY <1>1, <3>1
    <2> QED
      BY <2>1
  <1>3. ASSUME 2 * n <= d PROVE q = 0 /\ 2 * r <= d
    <2>1. ASSUME q >= 1 PROVE FALSE
      <3>1. d * q >= d
        BY <2>1
      <3> QED
        BY <1>1, <1>3, <3>1
    <2>2. q = 0
      BY <1>2, <2>1
    <2> QED
      BY <1>1, <1>3, <2>2
  <1> QED
    BY <1>1, <1>2, <1>3 DEF RoundHalfEven

-----------------------------------------------------------------------------
(* Tiers                                                                    *)

\* The bands of an agreement: some thresholds with their rates, in any order.
BandSeqs == Seq([threshold : Int, rate : Nat])

\* The indices of a sequence of bands.
LEMMA BandsAre ==
  ASSUME NEW bands \in BandSeqs
  PROVE  /\ Len(bands) \in Nat /\ DOMAIN bands = 1 .. Len(bands)
         /\ \A i \in DOMAIN bands : bands[i].threshold \in Int /\ bands[i].rate \in Nat
PROOF
  <1>1. /\ Len(bands) \in Nat /\ DOMAIN bands = 1 .. Len(bands)
        /\ bands \in [1 .. Len(bands) -> [threshold : Int, rate : Nat]]
    BY LenProperties DEF BandSeqs
  <1> QED
    BY <1>1

\* The first of the highest bands that a spend has reached.
IsBest(spent, bands, i) ==
  /\ i \in Reached(spent, bands)
  /\ \A j \in Reached(spent, bands) :
       \/ bands[j].threshold < bands[i].threshold
       \/ bands[j].threshold = bands[i].threshold /\ i <= j

\* calculate_expected_rebate pays at the rate of the highest band that was reached.
LEMMA BestBandIs ==
  ASSUME NEW bands \in BandSeqs, NEW spent \in Int, Reached(spent, bands) # {}
  PROVE  \E i \in DOMAIN bands : IsBest(spent, bands, i) /\ BestBand(spent, bands) = bands[i]
PROOF
  <1> DEFINE v == [i \in DOMAIN bands |-> bands[i].threshold]
             R == Reached(spent, bands)
  <1>1. /\ Len(bands) \in Nat /\ R \subseteq 1 .. Len(bands)
        /\ \A i \in R : v[i] = bands[i].threshold /\ v[i] \in Int
    BY BandsAre DEF Reached
  <1> HIDE DEF v, R
  <1>2. PICK i \in R : IsTop(v, R, i)
    BY <1>1, TopExists DEF R
  <1>3. IsBest(spent, bands, i)
    BY <1>1, <1>2 DEF IsTop, IsBest, R
  <1>4. PICK best : best = CHOOSE k \in Reached(spent, bands) : \A j \in Reached(spent, bands) :
                             \/ bands[j].threshold < bands[k].threshold
                             \/ bands[j].threshold = bands[k].threshold /\ k <= j
    OBVIOUS
  <1>5. IsBest(spent, bands, best)
    BY <1>3, <1>4, Zenon DEF IsBest
  <1>6. BestBand(spent, bands) = bands[best]
    BY <1>4, Zenon DEF BestBand
  <1>7. best \in DOMAIN bands
    BY <1>5 DEF IsBest, Reached
  <1> QED
    BY <1>5, <1>6, <1>7

\* calculate_progress_to_next_tier announces the lowest threshold that is ahead.
LEMMA NextTierIs ==
  ASSUME NEW bands \in BandSeqs, NEW spent \in Int, Ahead(spent, bands) # {}
  PROVE  /\ NextTier(spent, bands) \in Ahead(spent, bands)
         /\ \A t \in Ahead(spent, bands) : NextTier(spent, bands) <= t
PROOF
  <1> DEFINE v == [i \in DOMAIN bands |-> -bands[i].threshold]
             R == {i \in DOMAIN bands : bands[i].threshold > Parts * spent}
  <1>1. /\ Len(bands) \in Nat /\ R \subseteq 1 .. Len(bands) /\ R # {}
        /\ \A i \in R : /\ v[i] = -bands[i].threshold /\ v[i] \in Int
                        /\ bands[i].threshold \in Int
    BY BandsAre DEF Ahead
  <1>2. Ahead(spent, bands) = {bands[i].threshold : i \in R}
    BY DEF Ahead
  <1> HIDE DEF v, R
  <1>3. PICK i \in R : IsTop(v, R, i)
    BY <1>1, TopExists
  <1>4. /\ bands[i].threshold \in Ahead(spent, bands)
        /\ \A t \in Ahead(spent, bands) : bands[i].threshold <= t
    BY <1>1, <1>2, <1>3 DEF IsTop
  <1>5. NextTier(spent, bands) =
          CHOOSE t \in Ahead(spent, bands) : \A u \in Ahead(spent, bands) : t <= u
    BY Zenon DEF NextTier
  <1> QED
    BY <1>4, <1>5, Zenon

\* A larger spend is larger in the unit of the thresholds too.
LEMMA ScaledOrder ==
  ASSUME NEW a \in Int, NEW b \in Int, NEW n \in Nat, a <= b
  PROVE  n * a \in Int /\ n * b \in Int /\ n * a <= n * b
PROOF
  OBVIOUS

\* round_currency never turns a larger amount into a smaller one.
LEMMA RoundingIsMonotonic ==
  ASSUME NEW m \in Int, NEW n \in Int, m <= n
  PROVE  /\ RoundHalfEven(m, RateUnit) \in Int /\ RoundHalfEven(n, RateUnit) \in Int
         /\ RoundHalfEven(m, RateUnit) <= RoundHalfEven(n, RateUnit)
PROOF
  BY DEF RoundHalfEven, RateUnit

\* More spend at no lower a rate is no less rebate.
LEMMA RateIsMonotonic ==
  ASSUME NEW a \in Nat, NEW b \in Nat, NEW p \in Nat, NEW q \in Nat, a <= b, p <= q
  PROVE  AtRate(b, q) >= AtRate(a, p) /\ AtRate(a, p) >= 0
PROOF
  <1>1. a * p \in Int /\ b * q \in Int /\ 0 <= a * p /\ a * p <= b * q
    OBVIOUS
  <1>2. RoundHalfEven(0, RateUnit) = 0
    BY DEF RoundHalfEven, RateUnit
  <1> QED
    BY <1>1, <1>2, RoundingIsMonotonic DEF AtRate


-----------------------------------------------------------------------------
(* The agreement that is bought under                                       *)

IInv == terms \in Agreements \cup {NULL} /\ spend \in Nat

\* The terms stay those of an agreement, and its spend never becomes negative.
LEMMA TypeHolds == Spec => []IInv
PROOF
  <1>1. Init => IInv
    BY DEF Init, IInv
  <1>2. IInv /\ [Next]_vars => IInv'
    <2> SUFFICES ASSUME IInv, [Next]_vars PROVE IInv'
      OBVIOUS
    <2>1. CASE Buy
      <3>1. PICK n \in Steps : spend' = spend + n /\ terms' = terms
        BY <2>1 DEF Buy
      <3> QED
        BY <3>1, TermsAssumption DEF IInv
    <2>2. CASE UNCHANGED vars
      BY <2>2 DEF IInv, vars
    <2> QED
      BY <2>1, <2>2 DEF Next
  <1> QED
    BY <1>1, <1>2, PTL DEF Spec

\* What an agreement is, by its type.
LEMMA AgreementsAre ==
  ASSUME NEW t \in Agreements
  PROVE  \/ t.type = "volume" /\ t.rate \in Nat /\ t.bands = <<>>
         \/ t.type = "fixed_amount" /\ t.fixed = 7
         \/ t.type = "tiered" /\ t.bands \in BandSeqs
PROOF
  <1>1. CASE t \in [type : {"volume"}, rate : Rates, bands : {<<>>}, fixed : {0}]
    BY <1>1, TermsAssumption
  <1>2. CASE t \in [type : {"fixed_amount"}, rate : {0}, bands : {<<>>}, fixed : {7}]
    BY <1>2
  <1>3. CASE t \in [type : {"tiered"}, rate : {0}, fixed : {0}, bands : SeqsTo(Bands, 3) \ {<<>>}]
    <2>1. t.type = "tiered" /\ t.bands \in SeqsTo(Bands, 3)
      BY <1>3
    <2>2. PICK k \in 0 .. 3 : t.bands \in [1 .. k -> Bands]
      BY <2>1 DEF SeqsTo
    <2>3. Bands \subseteq [threshold : Int, rate : Nat]
      BY TermsAssumption DEF Bands
    <2>4. t.bands \in [1 .. k -> [threshold : Int, rate : Nat]]
      BY <2>2, <2>3
    <2>5. t.bands \in BandSeqs
      <3>1. k \in Nat
        OBVIOUS
      <3>2. PICK Row : Row = [threshold : Int, rate : Nat]
        OBVIOUS
      <3>3. Seq(Row) = UNION {[1 .. n -> Row] : n \in Nat}
        BY SeqDef, Zenon
      <3>4. t.bands \in Seq(Row)
        BY <2>4, <3>1, <3>2, <3>3, Zenon
      <3> QED
        BY <3>2, <3>4 DEF BandSeqs
    <2> QED
      BY <2>1, <2>5
  <1> QED
    BY <1>1, <1>2, <1>3 DEF Agreements

\* A banded agreement pays nothing below its bands, and the rate of the best one above.
LEMMA BandedPays ==
  ASSUME NEW t \in Agreements, t.type \in BandedTypes, NEW spent \in Int
  PROVE  /\ t.type = "tiered" /\ t.bands \in BandSeqs
         /\ Reached(spent, t.bands) = {} => ExpectedRebate(spent, t) = 0
         /\ Reached(spent, t.bands) # {} =>
              ExpectedRebate(spent, t) = AtRate(spent, BestBand(spent, t.bands).rate)
PROOF
  <1>1. t.type = "tiered" /\ t.bands \in BandSeqs
    BY AgreementsAre DEF BandedTypes
  <1>2. ExpectedRebate(spent, t) =
          IF Reached(spent, t.bands) = {} THEN 0
          ELSE AtRate(spent, BestBand(spent, t.bands).rate)
    BY <1>1, Zenon DEF ExpectedRebate, FlatTypes, BandedTypes
  <1> QED
    BY <1>1, <1>2

\* More spend under better rates is no less rebate.
LEMMA BandsGrow ==
  ASSUME NEW bands \in BandSeqs, NEW a \in Nat, NEW b \in Nat, a <= b,
         Reached(a, bands) # {},
         \A i, j \in DOMAIN bands :
           /\ bands[i].threshold < bands[j].threshold => bands[i].rate <= bands[j].rate
           /\ bands[i].threshold = bands[j].threshold => bands[i].rate = bands[j].rate
  PROVE  /\ Reached(b, bands) # {}
         /\ AtRate(b, BestBand(b, bands).rate) >= AtRate(a, BestBand(a, bands).rate)
PROOF
  <1>1. /\ Reached(a, bands) \subseteq Reached(b, bands)
        /\ Reached(b, bands) \subseteq DOMAIN bands
    <2>1. PICK m \in Int, n \in Int : m = Parts * a /\ n = Parts * b /\ m <= n
      BY ScaledOrder, PartsAssumption
    <2>2. Reached(a, bands) = {i \in DOMAIN bands : m >= bands[i].threshold}
      BY <2>1 DEF Reached
    <2>3. Reached(b, bands) = {i \in DOMAIN bands : n >= bands[i].threshold}
      BY <2>1 DEF Reached
    <2> QED
      BY <2>1, <2>2, <2>3, BandsAre
  <1>2. PICK i \in DOMAIN bands : IsBest(a, bands, i) /\ BestBand(a, bands) = bands[i]
    BY BestBandIs
  <1>3. PICK j \in DOMAIN bands : IsBest(b, bands, j) /\ BestBand(b, bands) = bands[j]
    BY <1>1, BestBandIs
  <1>4. /\ bands[i].threshold < bands[j].threshold \/ bands[i].threshold = bands[j].threshold
    BY <1>1, <1>2, <1>3 DEF IsBest
  <1>5. /\ bands[i].rate \in Nat /\ bands[j].rate \in Nat
        /\ bands[i].threshold \in Int /\ bands[j].threshold \in Int
    BY BandsAre
  <1>6. bands[i].rate <= bands[j].rate
    BY <1>4, <1>5
  <1>7. AtRate(b, bands[j].rate) >= AtRate(a, bands[i].rate)
    BY <1>5, <1>6, RateIsMonotonic
  <1> QED
    BY <1>1, <1>2, <1>3, <1>7

-----------------------------------------------------------------------------
(* The theorems                                                             *)

\* The tier that is paid and the tier that is announced are neighbours, and a price is
\* escalated at the tier that is paid (calculate_expected_rebate,
\* calculate_progress_to_next_tier, calculate_tiered_escalated_price).
THEOREM TiersAreNeighbours == Spec => []TiersMeet
PROOF
  <1>1. IInv => TiersMeet
    <2> SUFFICES ASSUME IInv, Banded PROVE TiersMeet
      BY DEF TiersMeet
    <2>1. /\ terms \in Agreements /\ terms.type \in BandedTypes
          /\ spend \in Int
      BY DEF IInv, Banded
    <2>2. PICK bands \in BandSeqs : bands = terms.bands
      BY <2>1, BandedPays
    <2>3. ASSUME NEW i \in DOMAIN bands, bands[i].threshold <= Parts * spend
          PROVE  bands[i].threshold <= BestBand(spend, bands).threshold
      <3>1. bands[i].threshold \in Int /\ i \in Reached(spend, bands)
        BY <2>1, <2>3, BandsAre DEF Reached
      <3>2. PICK k \in DOMAIN bands : IsBest(spend, bands, k) /\ BestBand(spend, bands) = bands[k]
        BY <2>1, <3>1, BestBandIs
      <3>3. bands[k].threshold \in Int
        BY BandsAre
      <3> QED
        BY <3>1, <3>2, <3>3 DEF IsBest
    <2>4. ASSUME NEW i \in DOMAIN bands, ~(bands[i].threshold <= Parts * spend)
          PROVE  bands[i].threshold >= NextTier(spend, bands)
      <3>1. bands[i].threshold \in Int /\ bands[i].threshold \in Ahead(spend, bands)
        <4>1. PICK now \in Int : now = Parts * spend
          BY <2>1, PartsAssumption
        <4>2. bands[i].threshold \in Int /\ bands[i].threshold > now
          BY <2>4, <4>1, BandsAre
        <4> QED
          BY <4>1, <4>2 DEF Ahead
      <3>2. /\ NextTier(spend, bands) \in Ahead(spend, bands)
            /\ \A t \in Ahead(spend, bands) : NextTier(spend, bands) <= t
        BY <2>1, <3>1, NextTierIs
      <3>3. \A t \in Ahead(spend, bands) : t \in Int
        BY BandsAre DEF Ahead
      <3> QED
        BY <3>1, <3>2, <3>3
    <2>5. Contract!TieredPrice(15, Parts * spend, bands) =
            IF Reached(spend, bands) = {} THEN Contract!RoundHalfEven(15, Contract!PriceParts)
            ELSE Contract!Compound(15, BestBand(spend, bands).rate, 1)
      BY Zenon DEF Contract!TieredPrice, Reached, BestBand
    <2>6. ASSUME NEW r
          PROVE  Contract!EscalatedPrice(15, "fixed_percentage", {r}, {}, 1)
                   = {Contract!Compound(15, r, 1)}
      BY DEF Contract!EscalatedPrice
    <2>7. Contract!EscalatedPrice(15, "none", {}, {}, 1)
            = {Contract!RoundHalfEven(15, Contract!PriceParts)}
      BY DEF Contract!EscalatedPrice
    <2> QED
      BY <2>2, <2>3, <2>4, <2>5, <2>6, <2>7, Zenon DEF TiersMeet
  <1> QED
    BY <1>1, TypeHolds, PTL

\* Spending exactly the announced remainder ends within half a step of the announced tier:
\* it is reached, or announced again with nothing left to spend
\* (calculate_progress_to_next_tier, calculate_expected_rebate).
THEOREM RemaindersMeetTheirTier == Spec => []RemainderMeetsTier
PROOF
  <1>1. IInv => RemainderMeetsTier
    <2> SUFFICES ASSUME IInv, Banded, NextTier(spend, terms.bands) # NULL
                 PROVE  RemainderMeetsTier
      BY DEF RemainderMeetsTier
    <2>1. /\ terms \in Agreements /\ terms.type \in BandedTypes
          /\ spend \in Int
      BY DEF IInv, Banded
    <2>2. PICK bands \in BandSeqs : bands = terms.bands
      BY <2>1, BandedPays
    <2>3. PICK next \in Int, now \in Int : /\ next = NextTier(spend, bands) /\ now = Parts * spend
                                           /\ next \in Ahead(spend, bands) /\ next > now
                                           /\ \A t \in Ahead(spend, bands) : next <= t
      <3>1. Ahead(spend, bands) # {}
        BY <2>2 DEF NextTier
      <3>2. PICK now \in Int : now = Parts * spend
        BY <2>1, PartsAssumption
      <3>3. \A t \in Ahead(spend, bands) : t \in Int /\ t > now
        BY <3>2, BandsAre DEF Ahead
      <3> QED
        BY <2>1, <3>1, <3>2, <3>3, NextTierIs
    <2>4. PICK left \in Int : /\ left = AmountToNextTier(spend, bands)
                              /\ left = RoundHalfEven(next - now, Parts)
                              /\ 2 * (next - now - Parts * left) <= Parts
                              /\ 2 * (Parts * left - (next - now)) <= Parts
      <3>1. PICK gap \in Int : gap = next - now
        OBVIOUS
      <3>2. AmountToNextTier(spend, bands) = RoundHalfEven(gap, Parts)
        BY <2>2, <2>3, <3>1 DEF AmountToNextTier
      <3> QED
        BY <3>1, <3>2, HalfAStep, PartsAssumption
    <2>5. left >= 0
      BY <2>3, <2>4, PartsAssumption, NothingLess
    <2>6. PICK then \in Int, there \in Int : /\ then = spend + left /\ there = Parts * then
                                             /\ there = now + Parts * left /\ there >= now
      BY <2>1, <2>3, <2>5, PartsAssumption
    <2>7. 2 * Abs(Parts * then - next) <= Parts
      BY <2>3, <2>4, <2>6, PartsAssumption DEF Abs
    <2>8. ASSUME there >= next
          PROVE  BestBand(then, bands).threshold \in next .. there
      <3>1. PICK n \in DOMAIN bands : bands[n].threshold = next
        BY <2>3 DEF Ahead
      <3>2. n \in Reached(then, bands)
        BY <2>6, <2>8, <3>1 DEF Reached
      <3>3. PICK k \in DOMAIN bands : IsBest(then, bands, k) /\ BestBand(then, bands) = bands[k]
        BY <2>6, <3>2, BestBandIs
      <3>4. /\ bands[k].threshold \in Int /\ bands[k].threshold <= there
            /\ next <= bands[k].threshold
        BY <2>6, <3>1, <3>2, <3>3, BandsAre DEF IsBest, Reached
      <3> QED
        BY <3>3, <3>4
    <2>9. ASSUME ~(there >= next)
          PROVE  NextTier(then, bands) = next /\ AmountToNextTier(then, bands) = 0
      <3>1. next \in Ahead(then, bands) /\ \A t \in Ahead(then, bands) : next <= t
        BY <2>3, <2>6, <2>9, BandsAre DEF Ahead
      <3>2. NextTier(then, bands) = next
        <4>1. PICK announced : /\ announced = NextTier(then, bands)
                               /\ announced \in Ahead(then, bands)
                               /\ \A t \in Ahead(then, bands) : announced <= t
          BY <2>6, <3>1, NextTierIs
        <4>2. announced \in Int
          BY <4>1, BandsAre DEF Ahead
        <4> QED
          BY <3>1, <4>1, <4>2
      <3>3. PICK gap \in Int : gap = next - there /\ 0 <= gap /\ 2 * gap <= Parts
        <4>1. PICK made \in Int : made = Parts * left
          BY PartsAssumption
        <4> QED
          BY <2>4, <2>6, <2>9, <4>1, PartsAssumption
      <3>4. AmountToNextTier(then, bands) = RoundHalfEven(gap, Parts)
        BY <2>2, <2>3, <2>6, <3>2, <3>3 DEF AmountToNextTier
      <3> QED
        BY <3>2, <3>3, <3>4, PartsAssumption, NothingLess
    <2> QED
      BY <2>2, <2>3, <2>4, <2>6, <2>7, <2>8, <2>9, Zenon DEF RemainderMeetsTier
  <1> QED
    BY <1>1, TypeHolds, PTL

\* Under progressive terms a buyer never loses rebate by buying more, rounding included
\* (calculate_expected_rebate).
THEOREM RebatesGrowWithSpend == Spec => MoreSpendMoreRebate
PROOF
  <1>1. ASSUME IInv, [Next]_vars, terms # NULL, Progressive, UNCHANGED vars \/ Buy
        PROVE  ExpectedRebate(spend', terms') >= ExpectedRebate(spend, terms)
    <2>1. PICK a, b \in Nat : a = spend /\ b = spend' /\ a <= b
      <3>1. CASE Buy
        BY <1>1, <3>1, TermsAssumption DEF IInv, Buy
      <3>2. CASE UNCHANGED vars
        BY <1>1, <3>2 DEF IInv, vars
      <3> QED
        BY <1>1, <3>1, <3>2
    <2>2. PICK t \in Agreements : t = terms /\ t = terms'
      BY <1>1 DEF IInv, Buy, vars
    <2>3. CASE t.type = "volume"
      <3>1. t.rate \in Nat
        BY <2>3, AgreementsAre
      <3>2. ExpectedRebate(a, t) = AtRate(a, t.rate) /\ ExpectedRebate(b, t) = AtRate(b, t.rate)
        BY <2>3, Zenon DEF ExpectedRebate, FlatTypes, BandedTypes
      <3>3. AtRate(b, t.rate) >= AtRate(a, t.rate)
        BY <2>1, <3>1, RateIsMonotonic
      <3> QED
        BY <2>1, <2>2, <3>2, <3>3, Zenon
    <2>4. CASE t.type = "fixed_amount"
      <3>1. t.fixed = 7
        BY <2>4, AgreementsAre
      <3>2. ExpectedRebate(a, t) = 7 /\ ExpectedRebate(b, t) = 7
        BY <2>4, <3>1 DEF ExpectedRebate, FlatTypes, BandedTypes
      <3> QED
        BY <2>1, <2>2, <3>2
    <2>5. CASE t.type = "tiered"
      <3>1. t.type \in BandedTypes
        BY <2>5 DEF BandedTypes
      <3>2. PICK bands \in BandSeqs : bands = t.bands
        BY <3>1, BandedPays
      <3>3. \A i, j \in DOMAIN bands :
              /\ bands[i].threshold < bands[j].threshold => bands[i].rate <= bands[j].rate
              /\ bands[i].threshold = bands[j].threshold => bands[i].rate = bands[j].rate
        BY <1>1, <2>2, <3>2 DEF Progressive
      <3>4. CASE Reached(a, bands) # {}
        <4>1. /\ Reached(b, bands) # {}
              /\ AtRate(b, BestBand(b, bands).rate) >= AtRate(a, BestBand(a, bands).rate)
          BY <2>1, <3>3, <3>4, BandsGrow
        <4>2. /\ ExpectedRebate(a, t) = AtRate(a, BestBand(a, bands).rate)
              /\ ExpectedRebate(b, t) = AtRate(b, BestBand(b, bands).rate)
          BY <3>1, <3>2, <3>4, <4>1, BandedPays
        <4> QED
          BY <2>1, <2>2, <4>1, <4>2, Zenon
      <3>5. CASE Reached(a, bands) = {}
        <4>1. ExpectedRebate(a, t) = 0
          BY <3>1, <3>2, <3>5, BandedPays
        <4>2. ExpectedRebate(b, t) >= 0
          <5>1. CASE Reached(b, bands) = {}
            BY <3>1, <3>2, <5>1, BandedPays
          <5>2. CASE Reached(b, bands) # {}
            <6>1. PICK j \in DOMAIN bands : BestBand(b, bands) = bands[j]
              BY <5>2, BestBandIs
            <6>2. PICK rate \in Nat : rate = BestBand(b, bands).rate
              BY <6>1, BandsAre
            <6>3. AtRate(b, rate) >= 0
              BY <6>2, RateIsMonotonic
            <6> QED
              BY <3>1, <3>2, <5>2, <6>2, <6>3, BandedPays
          <5> QED
            BY <5>1, <5>2
        <4> QED
          BY <2>1, <2>2, <4>1, <4>2
      <3> QED
        BY <3>4, <3>5
    <2> QED
      BY <2>3, <2>4, <2>5, AgreementsAre
  <1>2. IInv /\ [Next]_vars =>
          [terms # NULL /\ Progressive => ExpectedRebate(spend', terms') >= ExpectedRebate(spend, terms)]_vars
    BY <1>1 DEF Next
  <1> QED
    BY <1>2, TypeHolds, PTL DEF Spec, MoreSpendMoreRebate

-----------------------------------------------------------------------------
(* Months                                                                   *)

\* A month has at least 28 days.
LEMMA MonthLengths ==
  ASSUME NEW year \in Int, NEW month \in Int
  PROVE  Contract!DaysInMonth(year, month) \in 28 .. 31
PROOF
  BY DEF Contract!DaysInMonth

\* The date of renewal lies so many months after the first, and is a day of its month: the first
\* day, or the last of the month where that comes sooner (_add_months).
DateAfter(date, months, later) ==
  LET last == Contract!DaysInMonth(later[1], later[2])
  IN  /\ later \in Int \X (1 .. 12) \X (1 .. 31)
      /\ 12 * later[1] + later[2] = 12 * date[1] + date[2] + months
      /\ later[3] = IF date[3] <= last THEN date[3] ELSE last

\* _add_months returns that date.
LEMMA MonthsAdd ==
  ASSUME NEW date \in Int \X (1 .. 12) \X (1 .. 31), NEW months \in Int
  PROVE  DateAfter(date, months, Contract!AddMonths(date, months))
PROOF
  <1>1. PICK y \in Int, m \in 1 .. 12, d \in 1 .. 31 : date = <<y, m, d>>
    OBVIOUS
  <1>2. PICK index \in Int : index = m - 1 + months
    BY <1>1
  <1>3. PICK year \in Int, month \in 1 .. 12 :
          /\ year = y + (index \div 12) /\ month = (index % 12) + 1
          /\ 12 * year + month = 12 * y + m + months
    BY <1>2
  <1>4. PICK last \in 28 .. 31 : last = Contract!DaysInMonth(year, month)
    BY <1>3, MonthLengths
  <1>5. PICK later : later = <<year, month, IF d <= last THEN d ELSE last>>
    OBVIOUS
  <1>6. Contract!AddMonths(date, months) = later
    BY <1>1, <1>2, <1>3, <1>4, <1>5 DEF Contract!AddMonths
  <1>7. /\ later[1] = year /\ later[2] = month /\ later[3] = IF d <= last THEN d ELSE last
        /\ later \in Int \X (1 .. 12) \X (1 .. 31)
    BY <1>4, <1>5
  <1> QED
    BY <1>1, <1>3, <1>4, <1>6, <1>7 DEF DateAfter

\* A term that is counted in two parts ends in the same month as in one, and not on a later day:
\* a day that was lost in a short month does not come back (_add_months).
THEOREM TermsAddUp ==
  ASSUME NEW date \in Int \X (1 .. 12) \X (1 .. 31), NEW first \in Int, NEW second \in Int
  PROVE  LET once  == Contract!AddMonths(date, first + second)
             twice == Contract!AddMonths(Contract!AddMonths(date, first), second)
         IN  /\ DateAfter(date, first + second, once)
             /\ once[1] = twice[1] /\ once[2] = twice[2] /\ twice[3] <= once[3]
PROOF
  <1>1. PICK both \in Int : both = first + second
    OBVIOUS
  <1>2. PICK once : once = Contract!AddMonths(date, both) /\ DateAfter(date, both, once)
    BY MonthsAdd
  <1>3. PICK half : half = Contract!AddMonths(date, first) /\ DateAfter(date, first, half)
    BY MonthsAdd
  <1>4. half \in Int \X (1 .. 12) \X (1 .. 31)
    BY <1>3 DEF DateAfter
  <1>5. PICK twice : twice = Contract!AddMonths(half, second) /\ DateAfter(half, second, twice)
    BY <1>4, MonthsAdd
  <1>6. /\ once[1] \in Int /\ once[2] \in 1 .. 12 /\ half[1] \in Int /\ half[2] \in 1 .. 12
        /\ twice[1] \in Int /\ twice[2] \in 1 .. 12
        /\ 12 * once[1] + once[2] = 12 * date[1] + date[2] + both
        /\ 12 * half[1] + half[2] = 12 * date[1] + date[2] + first
        /\ 12 * twice[1] + twice[2] = 12 * half[1] + half[2] + second
        /\ date[1] \in Int /\ date[2] \in Int /\ date[3] \in Int
    BY <1>2, <1>3, <1>5 DEF DateAfter
  <1>7. once[1] = twice[1] /\ once[2] = twice[2]
    BY <1>1, <1>6
  <1>8. PICK end \in 28 .. 31, middle \in 28 .. 31 :
          /\ end = Contract!DaysInMonth(once[1], once[2])
          /\ middle = Contract!DaysInMonth(half[1], half[2])
    BY <1>6, MonthLengths
  <1>9. /\ once[3] = IF date[3] <= end THEN date[3] ELSE end
        /\ half[3] = IF date[3] <= middle THEN date[3] ELSE middle
        /\ twice[3] = IF half[3] <= end THEN half[3] ELSE end
    BY <1>2, <1>3, <1>5, <1>7, <1>8 DEF DateAfter
  <1>10. twice[3] <= once[3]
    BY <1>6, <1>9
  <1> QED
    BY <1>1, <1>2, <1>3, <1>5, <1>7, <1>10


\* A question about a renewal is one of the renewals.
LEMMA RenewalsAre ==
  ASSUME NEW q \in Questions, q.kind = "renewal"
  PROVE  q \in Renewals
PROOF
  <1>1. q \notin Ledgers
    BY DEF Ledgers
  <1>2. q \notin Rankings /\ q \notin Trips /\ q \notin Pools
    BY DEF Rankings, Trips, Pools
  <1>3. q \notin Margins /\ q \notin Targets /\ q \notin Moves
    BY DEF Margins, Targets, Moves
  <1>4. q \notin Agings /\ q \notin Capitals /\ q \notin Waterfalls
    BY DEF Agings, Capitals, Waterfalls
  <1>5. q \notin Forecasts /\ q \notin Registers /\ q \notin Projects
    BY DEF Forecasts, Registers, Projects
  <1>6. q \notin Matchings /\ q \notin Summaries /\ q \notin Stocks
    BY DEF Matchings, Summaries, Stocks
  <1> QED
    BY <1>1, <1>2, <1>3, <1>4, <1>5, <1>6, Zenon DEF Questions

\* The renewals that are asked for are due on real dates of the right month, also when the term
\* is counted in two parts (_add_months).
THEOREM RenewalsHold == Spec => []RenewalsKeepTheirMonth
PROOF
  <1> DEFINE Inv == question \in Questions \cup {NULL}
  <1>1. Init => Inv
    BY DEF Init
  <1>2. Inv /\ [Next]_vars => Inv'
    BY DEF Next, Buy, vars
  <1>3. Inv => RenewalsKeepTheirMonth
    <2> SUFFICES ASSUME Inv, Asked("renewal") PROVE RenewalsKeepTheirMonth
      BY DEF RenewalsKeepTheirMonth
    <2>1. PICK q \in Questions : q = question /\ q.kind = "renewal"
      BY DEF Asked
    <2>2. q \in Renewals
      BY <2>1, RenewalsAre
    <2>3. PICK year \in Int, month \in 1 .. 12, day \in 1 .. 31, first \in Int, second \in Int :
            /\ year = q.year /\ month = q.month /\ day = q.day
            /\ first = q.first /\ second = q.second
      <3>1. /\ q.year \in {2023, 2024} /\ q.month \in {1, 2, 11, 12} /\ q.day \in 28 .. 31
            /\ q.first \in {0, 1, 11} /\ q.second \in {0, 1, 12, 13}
        BY <2>2 DEF Renewals
      <3>2. /\ q.year \in Int /\ q.month \in 1 .. 12 /\ q.day \in 1 .. 31
            /\ q.first \in Int /\ q.second \in Int
        BY <3>1
      <3> QED
        BY <3>2, Zenon
    <2>4. PICK date \in Int \X (1 .. 12) \X (1 .. 31) : date = <<year, month, day>>
      OBVIOUS
    <2>5. PICK once, twice :
            /\ once = Contract!AddMonths(date, first + second)
            /\ twice = Contract!AddMonths(Contract!AddMonths(date, first), second)
      OBVIOUS
    <2>6. /\ DateAfter(date, first + second, once)
          /\ once[1] = twice[1] /\ once[2] = twice[2] /\ twice[3] <= once[3]
      BY <2>5, TermsAddUp
    <2>7. /\ 12 * once[1] + once[2] = 12 * year + month + first + second
          /\ once[2] \in 1 .. 12 /\ once[3] <= Contract!DaysInMonth(once[1], once[2])
      <3>1. once \in Int \X (1 .. 12) \X (1 .. 31) /\ once[1] \in Int /\ once[2] \in 1 .. 12
        BY <2>6 DEF DateAfter
      <3>2. PICK last \in 28 .. 31 : last = Contract!DaysInMonth(once[1], once[2])
        BY <3>1, MonthLengths
      <3>3. once[3] = IF date[3] <= last THEN date[3] ELSE last
        BY <2>6, <3>2 DEF DateAfter
      <3>4. 12 * once[1] + once[2] = 12 * year + month + (first + second)
        BY <2>4, <2>6 DEF DateAfter
      <3> QED
        BY <2>4, <3>1, <3>2, <3>3, <3>4
    <2> QED
      BY <2>1, <2>3, <2>4, <2>5, <2>6, <2>7 DEF RenewalsKeepTheirMonth
  <1> QED
    BY <1>1, <1>2, <1>3, PTL DEF Spec


-----------------------------------------------------------------------------
(* Costs and prices                                                        *)

\* The units that share a pool carry its cost, within half a step of the rate for each of them
\* and half a step of their cost (allocate_activity_cost, calculate_allocation_variance).
THEOREM PoolsAreShared ==
  ASSUME NEW cost \in Int, NEW volume \in Nat \ {0},
         NEW type \in Accounts!RecognizedAllocationTypes,
         Accounts!AllocateActivityCost(cost, volume, type) # 0
  PROVE  LET rate  == Accounts!AllocateActivityCost(cost, volume, type)
             check == Accounts!AllocationVariance(volume, rate, cost, FALSE)
         IN  /\ 2 * Accounts!VolumeParts * Abs(check.variance) <= volume + Accounts!VolumeParts
             /\ check.activity_based_cost + check.variance = cost
PROOF
  <1> DEFINE whole == 10 * cost
  <1>1. PICK rate : rate = RoundHalfEven(whole, volume)
    OBVIOUS
  <1>2. /\ rate \in Int /\ 2 * (whole - volume * rate) <= volume
        /\ 2 * (volume * rate - whole) <= volume
    <2>1. whole \in Int
      OBVIOUS
    <2> HIDE DEF whole
    <2> QED
      BY <1>1, <2>1, HalfAStep
  <1>3. Accounts!AllocateActivityCost(cost, volume, type) = rate
    BY <1>1 DEF Accounts!AllocateActivityCost, Accounts!VolumeParts, Accounts!Quotient,
                Accounts!RoundHalfEven, RoundHalfEven
  <1>4. PICK product \in Int, based \in Int :
          /\ product = volume * rate /\ based = RoundHalfEven(product, 10)
          /\ 2 * (product - 10 * based) <= 10 /\ 2 * (10 * based - product) <= 10
    <2>1. PICK product \in Int : product = volume * rate
      BY <1>2
    <2>2. 10 \in Nat \ {0}
      OBVIOUS
    <2>3. PICK based \in Int :
            /\ based = RoundHalfEven(product, 10)
            /\ 2 * (product - 10 * based) <= 10 /\ 2 * (10 * based - product) <= 10
      BY <2>2, HalfAStep
    <2> QED
      BY <2>1, <2>3
  <1>5. PICK check : check = Accounts!AllocationVariance(volume, rate, cost, FALSE)
    OBVIOUS
  <1>6. check.variance = cost - based /\ check.activity_based_cost = based
    <2>1. rate # 0
      BY <1>3
    <2>2. PICK under, sure :
            check = [activity_based_cost |-> based, variance |-> cost - based,
                     is_undercosted |-> under, rate_confidence |-> sure]
      BY <1>4, <1>5, <2>1, Zenon DEF Accounts!AllocationVariance, Accounts!VolumeParts,
                                     Accounts!RoundHalfEven, RoundHalfEven
    <2> QED
      BY <2>2
  <1>7. /\ 2 * Accounts!VolumeParts * Abs(cost - based) <= volume + Accounts!VolumeParts
        /\ based + (cost - based) = cost
    BY <1>2, <1>4 DEF Abs, Accounts!VolumeParts
  <1> QED
    BY <1>3, <1>5, <1>6, <1>7

\* The way out and back and the way between the stops cost what the trip costs, to a unit of
\* the money: each is rounded for itself (calculate_segregated_route_cost).
THEOREM TripsAreShared ==
  ASSUME NEW stem \in Nat \ {0}, NEW drop \in Nat, NEW return \in Nat \ {0},
         NEW pool \in Nat \ {0}
  PROVE  LET cost == Routes!SegregatedRouteCost(stem, drop, return, pool)
         IN  Abs(cost.fixed_stem_cost + cost.variable_drop_cost - pool) <= 1
PROOF
  <1>1. PICK distance \in Nat \ {0}, ends \in Nat :
          distance = stem + drop + return /\ ends = stem + return /\ distance = ends + drop
    OBVIOUS
  <1>2. PICK m \in Int, n \in Int : m = ends * pool /\ n = drop * pool
    OBVIOUS
  <1>3. PICK fixed \in Int : /\ fixed = RoundHalfEven(m, distance)
                             /\ 2 * (m - distance * fixed) <= distance
                             /\ 2 * (distance * fixed - m) <= distance
    BY HalfAStep
  <1>4. PICK variable \in Int : /\ variable = RoundHalfEven(n, distance)
                                /\ 2 * (n - distance * variable) <= distance
                                /\ 2 * (distance * variable - n) <= distance
    BY HalfAStep
  <1>5. m + n = distance * pool
    BY <1>1, <1>2
  <1>6. PICK off \in Int : off = fixed + variable - pool
    OBVIOUS
  <1>7. distance * off = (distance * fixed - m) + (distance * variable - n)
    <2>1. distance * off = distance * fixed + distance * variable - distance * pool
      BY <1>6
    <2> QED
      BY <1>5, <2>1
  <1>8. distance * off <= distance /\ -distance <= distance * off
    BY <1>3, <1>4, <1>7
  <1>9. off \in -1 .. 1
    <2>1. CASE off >= 2
      BY <1>8, <2>1
    <2>2. CASE off <= -2
      BY <1>8, <2>2
    <2> QED
      BY <2>1, <2>2
  <1>10. PICK cost : cost = Routes!SegregatedRouteCost(stem, drop, return, pool)
    OBVIOUS
  <1>11. cost.fixed_stem_cost = fixed /\ cost.variable_drop_cost = variable
    <2>1. cost = [fixed_stem_cost |-> Routes!RoundHalfEven((stem + return) * pool, stem + drop + return),
                  variable_drop_cost |-> Routes!RoundHalfEven(drop * pool, stem + drop + return),
                  total_distance_km |-> stem + drop + return]
      <3>1. ~(stem <= 0 \/ return <= 0 \/ drop < 0 \/ pool <= 0)
        OBVIOUS
      <3> QED
        BY <1>10, <3>1, Zenon DEF Routes!SegregatedRouteCost
    <2>2. /\ cost.fixed_stem_cost = Routes!RoundHalfEven(ends * pool, distance)
          /\ cost.variable_drop_cost = Routes!RoundHalfEven(drop * pool, distance)
      BY <1>1, <2>1
    <2> QED
      BY <1>2, <1>3, <1>4, <2>2 DEF Routes!RoundHalfEven, RoundHalfEven
  <1> QED
    BY <1>6, <1>9, <1>10, <1>11 DEF Abs


\* The price that a margin requires earns that margin, within half a step of the price
\* (calculate_required_selling_price).
THEOREM PricesReachTheirMargin ==
  ASSUME NEW cost \in Int, NEW margin \in Int, margin < 100, margin >= 0
  PROVE  LET price == Review!RequiredSellingPrice(cost, margin)
         IN  Abs(100 * (price - cost) - margin * price) <= 50
PROOF
  <1>1. PICK d \in Nat \ {0}, n \in Int : d = 100 - margin /\ n = 100 * cost
    OBVIOUS
  <1>2. PICK price \in Int : /\ price = RoundHalfEven(n, d)
                             /\ 2 * (n - d * price) <= d /\ 2 * (d * price - n) <= d
    BY HalfAStep
  <1>3. Review!RequiredSellingPrice(cost, margin) = price
    <2>1. Review!RequiredSellingPrice(cost, margin) = Review!RoundHalfEven(100 * cost, 100 - margin)
      <3>1. ~(margin >= 100)
        OBVIOUS
      <3> QED
        BY <3>1, Zenon DEF Review!RequiredSellingPrice
    <2> QED
      BY <1>1, <1>2, <2>1 DEF Review!RoundHalfEven, RoundHalfEven
  <1>4. PICK part \in Int : part = margin * price
    BY <1>2
  <1>5. d * price = 100 * price - part
    BY <1>1, <1>2, <1>4
  <1>6. 100 * (price - cost) - part = d * price - n
    BY <1>1, <1>2, <1>4, <1>5
  <1>7. PICK off \in Int : off = 100 * (price - cost) - margin * price /\ off <= 50 /\ -50 <= off
    BY <1>1, <1>2, <1>4, <1>5, <1>6
  <1> QED
    BY <1>3, <1>7 DEF Abs


-----------------------------------------------------------------------------
(* Working capital                                                          *)

\* A number of days, or None where nothing was sold.
LEMMA DaysAre ==
  ASSUME NEW amount \in Int, NEW base \in Int
  PROVE  (IF base = 0 THEN NULL ELSE Accounts!Quotient(3650 * amount, base)) \in Int \cup {NULL}
PROOF
  <1>1. PICK n \in Int : n = 3650 * amount
    OBVIOUS
  <1>2. CASE base > 0
    <2>1. RoundHalfEven(n, base) \in Int
      BY <1>2, HalfAStep
    <2>2. Accounts!Quotient(3650 * amount, base) = RoundHalfEven(n, base)
      BY <1>1, <1>2 DEF Accounts!Quotient, Accounts!RoundHalfEven, RoundHalfEven
    <2> QED
      BY <1>2, <2>1, <2>2
  <1>3. CASE base < 0
    <2>1. PICK k \in Int, d \in Nat \ {0} : k = -n /\ d = -base /\ k = -(3650 * amount)
      BY <1>1, <1>3
    <2>2. RoundHalfEven(k, d) \in Int
      BY HalfAStep
    <2>3. Accounts!Quotient(3650 * amount, base) = RoundHalfEven(k, d)
      BY <1>3, <2>1 DEF Accounts!Quotient, Accounts!RoundHalfEven, RoundHalfEven
    <2> QED
      BY <1>3, <2>2, <2>3
  <1> QED
    BY <1>2, <1>3

\* Whatever was sold and is owed, a cycle that is stored is made of the three days that are
\* stored with it, and everything stored fits its column; what did not fit is on the list of what
\* was out of range (calculate_working_capital_metrics, _apply_days_metric_storage_boundary).
THEOREM StoredCyclesAreWhole ==
  ASSUME NEW ar \in Int, NEW ap \in Int, NEW inventory \in Int, NEW revenue \in Int,
         NEW cogs \in Int, NEW cash, NULL \notin Int, StorageMax \in Nat
  PROVE  LET found  == Accounts!WorkingCapital(ar, ap, inventory, revenue, cogs, cash)
             stored == Accounts!StorageBoundary(found)
         IN  /\ stored.ccc # NULL => /\ NULL \notin {stored.dso, stored.dio, stored.dpo}
                                     /\ stored.ccc = stored.dio + stored.dso - stored.dpo
             /\ \A n \in {"dso", "dio", "dpo", "ccc"} :
                  /\ stored[n] # NULL => stored[n] \in -StorageMax .. StorageMax
                  /\ stored[n] = NULL /\ found[n] # NULL =>
                       n \in stored.out_of_range \/ (n = "ccc" /\ stored.ccc_unavailable # {})
PROOF
  <1>1. PICK dso \in Int \cup {NULL}, dio \in Int \cup {NULL}, dpo \in Int \cup {NULL} :
          /\ dso = IF revenue = 0 THEN NULL ELSE Accounts!Quotient(3650 * ar, revenue)
          /\ dio = IF cogs = 0 THEN NULL ELSE Accounts!Quotient(3650 * inventory, cogs)
          /\ dpo = IF cogs = 0 THEN NULL ELSE Accounts!Quotient(3650 * ap, cogs)
    <2> DEFINE Days(amount, base) ==
                 IF base = 0 THEN NULL ELSE Accounts!Quotient(3650 * amount, base)
    <2>1. \A amount, base \in Int : Days(amount, base) \in Int \cup {NULL}
      BY DaysAre
    <2> SUFFICES \E dso, dio, dpo \in Int \cup {NULL} :
                   dso = Days(ar, revenue) /\ dio = Days(inventory, cogs) /\ dpo = Days(ap, cogs)
      OBVIOUS
    <2> HIDE DEF Days
    <2> QED
      BY <2>1
  <1>2. PICK ccc \in Int \cup {NULL} :
          ccc = IF NULL \in {dso, dio, dpo} THEN NULL ELSE dio + dso - dpo
    BY <1>1
  <1>3. PICK found : found = Accounts!WorkingCapital(ar, ap, inventory, revenue, cogs, cash)
    OBVIOUS
  <1>4. found.dso = dso /\ found.dio = dio /\ found.dpo = dpo /\ found.ccc = ccc
    <2>1. PICK ratio : found = [dso |-> dso, dio |-> dio, dpo |-> dpo,
                                ccc |-> IF NULL \in {dso, dio, dpo} THEN NULL ELSE dio + dso - dpo,
                                ratio |-> ratio]
      <3>1. PICK ratio : ratio = IF cash = NULL \/ ap = 0 THEN NULL
                                 ELSE Accounts!Quotient(100 * (ar + inventory + cash), ap)
        OBVIOUS
      <3>2. found = [dso |-> dso, dio |-> dio, dpo |-> dpo,
                     ccc |-> IF NULL \in {dso, dio, dpo} THEN NULL ELSE dio + dso - dpo,
                     ratio |-> ratio]
        BY ONLY <1>1, <1>3, <3>1 DEF Accounts!WorkingCapital
      <3> QED
        BY <3>2, Zenon
    <2> QED
      BY <1>2, <2>1
  <1>5. \A days \in Int \cup {NULL} :
          Accounts!OutOfRange(days) <=> days # NULL /\ days \notin -StorageMax .. StorageMax
    BY DEF Accounts!OutOfRange, Accounts!Abs
  <1> DEFINE Out(n) == Accounts!OutOfRange(found[n])
             safe(n) == IF Out(n) THEN NULL ELSE found[n]
             whole == NULL \notin {safe("dso"), safe("dio"), safe("dpo")}
  <1>6. PICK stored : stored = Accounts!StorageBoundary(found)
    OBVIOUS
  <1>7. PICK out : out = {n \in {"dso", "dio", "dpo"} : Out(n)}
    OBVIOUS
  <1>8. /\ stored.dso = safe("dso") /\ stored.dio = safe("dio") /\ stored.dpo = safe("dpo")
        /\ stored.ccc = IF whole /\ ~Out("ccc") THEN ccc ELSE NULL
        /\ stored.out_of_range = out \cup (IF whole /\ Out("ccc") THEN {"ccc"} ELSE {})
        /\ stored.ccc_unavailable = IF whole THEN {} ELSE out
    BY <1>4, <1>6, <1>7 DEF Accounts!StorageBoundary
  <1>9. \A n \in {"dso", "dio", "dpo"} :
          /\ safe(n) # NULL => safe(n) \in -StorageMax .. StorageMax
          /\ safe(n) # NULL => safe(n) = found[n]
          /\ safe(n) = NULL /\ found[n] # NULL => n \in out
    BY <1>1, <1>4, <1>5, <1>7
  <1>10. ~Out("ccc") /\ ccc # NULL => ccc \in -StorageMax .. StorageMax
    BY <1>2, <1>4, <1>5
  <1>11. stored.ccc # NULL => /\ NULL \notin {stored.dso, stored.dio, stored.dpo}
                              /\ stored.ccc = stored.dio + stored.dso - stored.dpo
    <2> HIDE DEF Out, safe
    <2> QED
      BY <1>2, <1>4, <1>8, <1>9
  <1>12. whole => NULL \notin {dso, dio, dpo} /\ ccc \in Int
    <2> HIDE DEF Out, safe
    <2> QED
      BY <1>1, <1>2, <1>4, <1>9
  <1>13. ~whole /\ ccc # NULL => out # {}
    <2> HIDE DEF Out, safe
    <2> QED
      BY <1>2, <1>4, <1>9
  <1> HIDE DEF Out, safe, whole
  <1>14. \A n \in {"dso", "dio", "dpo"} : stored[n] = safe(n)
    BY <1>8
  <1>15. \A n \in {"dso", "dio", "dpo"} :
           /\ stored[n] # NULL => stored[n] \in -StorageMax .. StorageMax
           /\ stored[n] = NULL /\ found[n] # NULL => n \in stored.out_of_range
    BY <1>8, <1>9, <1>14
  <1>16. /\ stored["ccc"] # NULL => stored["ccc"] \in -StorageMax .. StorageMax
         /\ stored["ccc"] = NULL /\ found["ccc"] # NULL =>
              "ccc" \in stored.out_of_range \/ stored.ccc_unavailable # {}
    BY <1>4, <1>8, <1>10, <1>13
  <1> QED
    BY <1>3, <1>6, <1>11, <1>15, <1>16

===============================================================================
