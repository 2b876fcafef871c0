---------------------- MODULE BandwidthWeights_proofs ----------------------
(***************************************************************************)
(* Theorems about BandwidthWeights: for every load and every Scale, the    *)
(* weights that recompute_bw_weights returns are shares of the bandwidth,  *)
(* and no weights could give the position that is worst off more, but for  *)
(* the margin that rounding needs.                                         *)
(*                                                                         *)
(* The bounds multiply weights by loads.  Each proof names the products,   *)
(* states how far rounding puts them from their exact values, and leaves   *)
(* a linear inequality.                                                    *)
(***************************************************************************)
EXTENDS BandwidthWeights, TLAPS

-----------------------------------------------------------------------------
(* The part a / b of Scale, rounded down, is between 0 and Scale, and      *)
(* within 1 of the exact one.                                              *)
LEMMA QuotShare ==
  ASSUME NEW a \in Int, NEW b \in Nat \ {0}, 0 <= a, a <= b
  PROVE  Quot(Scale * a, b) \in 0 .. Scale
<1> DEFINE n == Scale * a
           q == n \div b
<1>0. Scale \in Nat /\ n \in Nat /\ q \in Int
  BY ScaleAssumption, SMT
<1>1. Scale * a <= Scale * b
  BY <1>0, SMT
<1>2. q * b <= n /\ n < (q + 1) * b
  BY <1>0, SMT
<1>3. 0 <= q
  BY <1>0, SMT
<1>4. q <= Scale
  <2>1. CASE q >= Scale + 1
    <3>1. q * b >= (Scale + 1) * b
      BY <2>1, <1>0, SMT
    <3>2. (Scale + 1) * b = Scale * b + b
      BY <1>0, SMT
    <3>3. n \in Int /\ Scale * b \in Int /\ q * b \in Int /\ (Scale + 1) * b \in Int
      BY <1>0, SMT
    <3> HIDE DEF n, q
    <3> QED
      BY <3>1, <3>2, <3>3, <1>1, <1>2 DEF n
  <2> QED
    BY <2>1, <1>0
<1> QED
  BY <1>0, <1>3, <1>4 DEF Quot

(* The half of what is left of Scale.                                      *)
LEMMA QuotHalf ==
  ASSUME NEW a \in 0 .. Scale
  PROVE  /\ Quot(Scale - a, 2) \in 0 .. Scale
         /\ a + 2 * Quot(Scale - a, 2) \in {Scale - 1, Scale}
BY ScaleAssumption, SMT DEF Quot

LEMMA LoadsTyped ==
  ASSUME NEW t \in Totals
  PROVE  /\ t.E \in Nat \ {0} /\ t.G \in Nat \ {0}
         /\ t.D \in Nat \ {0} /\ t.M \in Nat \ {0}
BY DEF Totals

LEMMA Case1Shares ==
  ASSUME NEW t \in Totals, ~ExitsScarce(t), ~GuardsScarce(t)
  PROVE  InRange(Case1(t)) /\ SharesAddUp(Case1(t))
<1> DEFINE third == Scale \div 3
           ee == Quot(Scale * (t.E + t.G + t.M), 3 * t.E)
           mg == Quot(Scale * (2 * t.G - t.E - t.M), 3 * t.G)
<1>1. ee \in 0 .. Scale
  <2>1. /\ t.E + t.G + t.M \in Int /\ 3 * t.E \in Nat \ {0}
        /\ 0 <= t.E + t.G + t.M /\ t.E + t.G + t.M <= 3 * t.E
    BY LoadsTyped, SMT DEF ExitsScarce, Sum
  <2> QED
    BY <2>1, QuotShare
<1>2. mg \in 0 .. Scale
  <2>1. /\ 2 * t.G - t.E - t.M \in Int /\ 3 * t.G \in Nat \ {0}
        /\ 0 <= 2 * t.G - t.E - t.M /\ 2 * t.G - t.E - t.M <= 3 * t.G
    BY LoadsTyped, SMT DEF GuardsScarce, Sum
  <2> QED
    BY <2>1, QuotShare
<1>3. /\ third \in 0 .. Scale
      /\ third + third + third \in Scale - 2 .. Scale
  BY ScaleAssumption, SMT
<1>4. Case1(t) = [gg |-> Scale - mg, gd |-> third, mg |-> mg, me |-> Scale - ee, md |-> third,
                  ee |-> ee, ed |-> third]
  BY DEF Case1
<1> HIDE DEF third, ee, mg
<1> QED
  BY <1>1, <1>2, <1>3, <1>4, ScaleAssumption DEF InRange, SharesAddUp, IsEq, Margin

LEMMA Case2aShares ==
  ASSUME NEW t \in Totals
  PROVE  InRange(Case2a(t)) /\ SharesAddUp(Case2a(t))
BY ScaleAssumption DEF Case2a, InRange, SharesAddUp, IsEq, Margin

LEMMA Case3aShares ==
  ASSUME NEW t \in Totals
  PROVE  InRange(Case3a(t)) /\ SharesAddUp(Case3a(t))
<1> DEFINE me == IF t.E < t.M THEN 0 ELSE Quot(Scale * (t.E - t.M), 2 * t.E)
           mg == IF t.G < t.M THEN 0 ELSE Quot(Scale * (t.G - t.M), 2 * t.G)
<1>1. me \in 0 .. Scale
  <2>1. CASE t.E < t.M
    BY <2>1, ScaleAssumption
  <2>2. CASE ~(t.E < t.M)
    <3>1. /\ t.E - t.M \in Int /\ 2 * t.E \in Nat \ {0}
          /\ 0 <= t.E - t.M /\ t.E - t.M <= 2 * t.E
      BY <2>2, LoadsTyped, SMT
    <3> QED
      BY <2>2, <3>1, QuotShare
  <2> QED
    BY <2>1, <2>2
<1>2. mg \in 0 .. Scale
  <2>1. CASE t.G < t.M
    BY <2>1, ScaleAssumption
  <2>2. CASE ~(t.G < t.M)
    <3>1. /\ t.G - t.M \in Int /\ 2 * t.G \in Nat \ {0}
          /\ 0 <= t.G - t.M /\ t.G - t.M <= 2 * t.G
      BY <2>2, LoadsTyped, SMT
    <3> QED
      BY <2>2, <3>1, QuotShare
  <2> QED
    BY <2>1, <2>2
<1>3. Case3a(t) =
        IF t.G < t.E
        THEN [gg |-> Scale, gd |-> Scale, mg |-> 0, me |-> me, md |-> 0,
              ee |-> Scale - me, ed |-> 0]
        ELSE [gg |-> Scale - mg, gd |-> 0, mg |-> mg, me |-> 0, md |-> 0,
              ee |-> Scale, ed |-> Scale]
  BY DEF Case3a
<1> HIDE DEF me, mg
<1> QED
  BY <1>1, <1>2, <1>3, ScaleAssumption DEF InRange, SharesAddUp, IsEq, Margin

(* In case 3b the scarce position lacks no more than D has, and the other  *)
(* one has as much as the middle.                                          *)
LEMMA Case3bLoads ==
  ASSUME NEW x \in Nat, NEW y \in Nat, NEW d \in Nat, NEW m \in Nat,
         3 * x < x + y + d + m, 3 * y >= x + y + d + m, 3 * (x + d) >= x + y + d + m
  PROVE  /\ 0 <= d - 2 * x + y + m /\ d - 2 * x + y + m <= 3 * d
         /\ y + m <= 2 * y
BY SMT

LEMMA Case3bShares ==
  ASSUME NEW t \in Totals,
         ~(~ExitsScarce(t) /\ ~GuardsScarce(t)), ~(ExitsScarce(t) /\ GuardsScarce(t)),
         ~(3 * (Least(t.E, t.G) + t.D) < Sum(t))
  PROVE  InRange(Case3b(t)) /\ SharesAddUp(Case3b(t))
<1> DEFINE gd == ShareOfD(t, t.G, t.E, t.M)
           ed == ShareOfD(t, t.E, t.G, t.M)
           ee == Quot(Scale * (t.E + t.M), 2 * t.E)
           gg == Quot(Scale * (t.G + t.M), 2 * t.G)
           halfg == Quot(Scale - gd, 2)
           halfe == Quot(Scale - ed, 2)
<1>0. /\ t.E \in Nat \ {0} /\ t.G \in Nat \ {0}
      /\ t.D \in Nat \ {0} /\ t.M \in Nat \ {0}
  BY LoadsTyped
<1>1. Case3b(t) =
        IF t.G < t.E
        THEN [gg |-> Scale, gd |-> gd, mg |-> 0, me |-> Scale - ee, md |-> halfg,
              ee |-> ee, ed |-> halfg]
        ELSE [gg |-> gg, gd |-> halfe, mg |-> Scale - gg, me |-> 0,
              md |-> halfe, ee |-> Scale, ed |-> ed]
  BY DEF Case3b
<1>2. CASE t.G < t.E
  <2>1. /\ 3 * t.G < t.G + t.E + t.D + t.M
        /\ 3 * t.E >= t.G + t.E + t.D + t.M
        /\ 3 * (t.G + t.D) >= t.G + t.E + t.D + t.M
    BY <1>0, <1>2, SMT DEF ExitsScarce, GuardsScarce, Least, Sum
  <2>2. /\ 0 <= t.D - 2 * t.G + t.E + t.M /\ t.D - 2 * t.G + t.E + t.M <= 3 * t.D
        /\ t.E + t.M <= 2 * t.E
    BY <1>0, <2>1, Case3bLoads
  <2>3. gd \in 0 .. Scale
    <3>1. t.D - 2 * t.G + t.E + t.M \in Int /\ 3 * t.D \in Nat \ {0}
      BY <1>0
    <3> QED
      BY <2>2, <3>1, QuotShare DEF ShareOfD
  <2>4. ee \in 0 .. Scale
    <3>1. t.E + t.M \in Int /\ 2 * t.E \in Nat \ {0} /\ 0 <= t.E + t.M
      BY <1>0
    <3> QED
      BY <2>2, <3>1, QuotShare
  <2>5. halfg \in 0 .. Scale /\ gd + 2 * halfg \in {Scale - 1, Scale}
    BY <2>3, QuotHalf
  <2> HIDE DEF gd, ed, ee, gg, halfg, halfe
  <2> QED
    BY <1>1, <1>2, <2>3, <2>4, <2>5, ScaleAssumption DEF InRange, SharesAddUp, IsEq, Margin
<1>3. CASE ~(t.G < t.E)
  <2>1. /\ 3 * t.E < t.E + t.G + t.D + t.M
        /\ 3 * t.G >= t.E + t.G + t.D + t.M
        /\ 3 * (t.E + t.D) >= t.E + t.G + t.D + t.M
    BY <1>0, <1>3, SMT DEF ExitsScarce, GuardsScarce, Least, Sum
  <2>2. /\ 0 <= t.D - 2 * t.E + t.G + t.M /\ t.D - 2 * t.E + t.G + t.M <= 3 * t.D
        /\ t.G + t.M <= 2 * t.G
    BY <1>0, <2>1, Case3bLoads
  <2>3. ed \in 0 .. Scale
    <3>1. t.D - 2 * t.E + t.G + t.M \in Int /\ 3 * t.D \in Nat \ {0}
      BY <1>0
    <3> QED
      BY <2>2, <3>1, QuotShare DEF ShareOfD
  <2>4. gg \in 0 .. Scale
    <3>1. t.G + t.M \in Int /\ 2 * t.G \in Nat \ {0} /\ 0 <= t.G + t.M
      BY <1>0
    <3> QED
      BY <2>2, <3>1, QuotShare
  <2>5. halfe \in 0 .. Scale /\ ed + 2 * halfe \in {Scale - 1, Scale}
    BY <2>3, QuotHalf
  <2> HIDE DEF gd, ed, ee, gg, halfg, halfe
  <2> QED
    BY <1>1, <1>3, <2>3, <2>4, <2>5, ScaleAssumption DEF InRange, SharesAddUp, IsEq, Margin
<1> QED
  BY <1>2, <1>3

(* recompute_bw_weights ends in a panic or with shares, also in the cases  *)
(* 1, 2a, 3a and 3b, whose results it does not check.                      *)
THEOREM RecomputedAreShares ==
  ASSUME NEW t \in Totals, ~Panics(t)
  PROVE  InRange(Recompute(t)) /\ SharesAddUp(Recompute(t))
<1>1. CASE ~ExitsScarce(t) /\ ~GuardsScarce(t)
  BY <1>1, Case1Shares DEF Recompute
<1>2. CASE ExitsScarce(t) /\ GuardsScarce(t) /\ DMakesUp(t)
  <2>1. NoErrorButMid(Case2b(t), t)
    BY <1>2 DEF Panics
  <2>2. Recompute(t) = Case2b(t)
    BY <1>2 DEF Recompute
  <2> QED
    BY <2>1, <2>2 DEF NoErrorButMid
<1>3. CASE ExitsScarce(t) /\ GuardsScarce(t) /\ ~DMakesUp(t)
  BY <1>3, Case2aShares DEF Recompute
<1>4. CASE /\ ~(~ExitsScarce(t) /\ ~GuardsScarce(t))
           /\ ~(ExitsScarce(t) /\ GuardsScarce(t))
  <2>1. CASE 3 * (Least(t.E, t.G) + t.D) < Sum(t)
    BY <1>4, <2>1, Case3aShares DEF Recompute
  <2>2. CASE ~(3 * (Least(t.E, t.G) + t.D) < Sum(t))
    BY <1>4, <2>2, Case3bShares DEF Recompute
  <2> QED
    BY <2>1, <2>2
<1> QED
  BY <1>1, <1>2, <1>3, <1>4

-----------------------------------------------------------------------------
(* Types.                                                                  *)
LEMMA QuotTyped ==
  ASSUME NEW a \in Int, NEW b \in Nat \ {0}
  PROVE  Quot(Scale * a, b) \in Int
<1>1. Scale * a \in Int /\ -(Scale * a) \in Int
  BY ScaleAssumption, SMT
<1> DEFINE n == Scale * a
<1> HIDE DEF n
<1>2. n \in Int /\ -n \in Int
  BY <1>1 DEF n
<1>3. n \div b \in Int /\ (-n) \div b \in Int
  BY <1>2, SMT
<1>4. Quot(n, b) \in Int
  BY <1>3, SMT DEF Quot
<1> QED
  BY <1>4 DEF n

LEMMA HalfTyped ==
  ASSUME NEW a \in Int
  PROVE  Quot(a, 2) \in Int
BY SMT DEF Quot

(* The sums that are multiplied by Scale, and those that divide.           *)
LEMMA LoadSums ==
  ASSUME NEW t \in Totals
  PROVE  /\ t.E + t.G + t.M \in Int /\ 2 * t.G - t.E - t.M \in Int
         /\ t.D - 2 * t.E + 4 * t.G - 2 * t.M \in Int /\ t.G - t.M \in Int
         /\ t.E - t.G + t.M \in Int /\ t.E - t.M \in Int /\ t.E + t.M \in Int
         /\ t.G + t.M \in Int
         /\ t.D - 2 * t.E + t.G + t.M \in Int /\ t.D - 2 * t.M + t.G + t.E \in Int
         /\ t.D - 2 * t.G + t.E + t.M \in Int
         /\ t.E \in Nat \ {0} /\ 3 * t.E \in Nat \ {0} /\ 2 * t.E \in Nat \ {0}
         /\ 3 * t.G \in Nat \ {0} /\ 2 * t.G \in Nat \ {0} /\ 3 * t.D \in Nat \ {0}
BY LoadsTyped

LEMMA Case1Typed ==
  ASSUME NEW t \in Totals
  PROVE  Case1(t) \in Weights
<1> DEFINE ee == Quot(Scale * (t.E + t.G + t.M), 3 * t.E)
           mg == Quot(Scale * (2 * t.G - t.E - t.M), 3 * t.G)
<1>1. ee \in Int /\ mg \in Int
  BY LoadSums, QuotTyped
<1>3. Case1(t) = [gg |-> Scale - mg, gd |-> Scale \div 3, mg |-> mg, me |-> Scale - ee,
                  md |-> Scale \div 3, ee |-> ee, ed |-> Scale \div 3]
  BY DEF Case1
<1> HIDE DEF ee, mg
<1>2. Scale - ee \in Int /\ Scale - mg \in Int /\ Scale \div 3 \in Int
  BY <1>1, ScaleAssumption, SMT
<1> QED
  BY <1>1, <1>2, <1>3 DEF Weights

LEMMA Case2aTyped ==
  ASSUME NEW t \in Totals
  PROVE  Case2a(t) \in Weights
<1>1. Scale \in Int /\ 0 \in Int
  BY ScaleAssumption
<1> QED
  BY <1>1 DEF Case2a, Weights

LEMMA Case2bTyped ==
  ASSUME NEW t \in Totals
  PROVE  Case2b(t) \in Weights
<1>0. Scale \in Int
  BY ScaleAssumption
<1>1. Case2b1(t) \in Weights
  <2> DEFINE ed == Quot(Scale * (t.D - 2 * t.E + 4 * t.G - 2 * t.M), 3 * t.D)
             me == Quot(Scale * (t.G - t.M), t.E)
             ee == Quot(Scale * (t.E - t.G + t.M), t.E)
  <2>1. ed \in Int /\ me \in Int /\ ee \in Int
    BY LoadSums, QuotTyped
  <2>4. Case2b1(t) = [gg |-> Scale, gd |-> Quot(Scale - ed, 2), mg |-> 0, me |-> me,
                      md |-> Quot(Scale - ed, 2), ee |-> ee, ed |-> ed]
    BY DEF Case2b1
  <2> HIDE DEF ed, me, ee
  <2>2. Scale - ed \in Int
    BY <1>0, <2>1
  <2>3. Quot(Scale - ed, 2) \in Int
    BY <2>2, HalfTyped
  <2> QED
    BY <1>0, <2>1, <2>3, <2>4 DEF Weights
<1>2. Case2b2(t) \in Weights
  <2> DEFINE ed == ShareOfD(t, t.E, t.G, t.M)
             fair == ShareOfD(t, t.M, t.G, t.E)
             md == IF fair < 0 THEN 0 ELSE fair
  <2>1. ed \in Int /\ fair \in Int
    BY LoadSums, QuotTyped DEF ShareOfD
  <2>4. Case2b2(t) = [gg |-> Scale, gd |-> Scale - ed - md, mg |-> 0, me |-> 0, md |-> md,
                      ee |-> Scale, ed |-> ed]
    BY DEF Case2b2
  <2> HIDE DEF ed, fair
  <2>2. md \in Int
    BY <2>1
  <2> HIDE DEF md
  <2>3. Scale - ed - md \in Int
    BY <1>0, <2>1, <2>2
  <2> QED
    BY <1>0, <2>1, <2>2, <2>3, <2>4 DEF Weights
<1> QED
  BY <1>1, <1>2 DEF Case2b

LEMMA Case3aTyped ==
  ASSUME NEW t \in Totals
  PROVE  Case3a(t) \in Weights
<1> DEFINE me == IF t.E < t.M THEN 0 ELSE Quot(Scale * (t.E - t.M), 2 * t.E)
           mg == IF t.G < t.M THEN 0 ELSE Quot(Scale * (t.G - t.M), 2 * t.G)
<1>1. me \in Int /\ mg \in Int
  <2>1. Quot(Scale * (t.E - t.M), 2 * t.E) \in Int /\ Quot(Scale * (t.G - t.M), 2 * t.G) \in Int
    BY LoadSums, QuotTyped
  <2> QED
    BY <2>1
<1>3. Case3a(t) = IF t.G < t.E
                  THEN [gg |-> Scale, gd |-> Scale, mg |-> 0, me |-> me, md |-> 0,
                        ee |-> Scale - me, ed |-> 0]
                  ELSE [gg |-> Scale - mg, gd |-> 0, mg |-> mg, me |-> 0, md |-> 0,
                        ee |-> Scale, ed |-> Scale]
  BY DEF Case3a
<1> HIDE DEF me, mg
<1>2. Scale \in Int /\ Scale - me \in Int /\ Scale - mg \in Int
  BY <1>1, ScaleAssumption
<1> QED
  BY <1>1, <1>2, <1>3 DEF Weights

LEMMA Case3bTyped ==
  ASSUME NEW t \in Totals
  PROVE  Case3b(t) \in Weights
<1> DEFINE gd == ShareOfD(t, t.G, t.E, t.M)
           ed == ShareOfD(t, t.E, t.G, t.M)
           ee == Quot(Scale * (t.E + t.M), 2 * t.E)
           gg == Quot(Scale * (t.G + t.M), 2 * t.G)
<1>1. gd \in Int /\ ed \in Int /\ ee \in Int /\ gg \in Int
  BY LoadSums, QuotTyped DEF ShareOfD
<1>4. Case3b(t) = IF t.G < t.E
        THEN [gg |-> Scale, gd |-> gd, mg |-> 0, me |-> Scale - ee, md |-> Quot(Scale - gd, 2),
              ee |-> ee, ed |-> Quot(Scale - gd, 2)]
        ELSE [gg |-> gg, gd |-> Quot(Scale - ed, 2), mg |-> Scale - gg, me |-> 0,
              md |-> Quot(Scale - ed, 2), ee |-> Scale, ed |-> ed]
  BY DEF Case3b
<1> HIDE DEF gd, ed, ee, gg
<1>2. /\ Scale \in Int /\ Scale - gd \in Int /\ Scale - ed \in Int
      /\ Scale - ee \in Int /\ Scale - gg \in Int
  BY <1>1, ScaleAssumption
<1>3. Quot(Scale - gd, 2) \in Int /\ Quot(Scale - ed, 2) \in Int
  BY <1>2, HalfTyped
<1> QED
  BY <1>1, <1>2, <1>3, <1>4 DEF Weights

LEMMA RecomputedTyped ==
  ASSUME NEW t \in Totals
  PROVE  Recompute(t) \in Weights
BY Case1Typed, Case2aTyped, Case2bTyped, Case3aTyped, Case3bTyped DEF Recompute

-----------------------------------------------------------------------------
(* Rounding.  A quotient times its divisor is off by less than the divisor.*)
LEMMA QuotTimes ==
  ASSUME NEW a \in Int, NEW b \in Nat \ {0}
  PROVE  /\ Quot(a, b) \in Int /\ Quot(a, b) * b \in Int
         /\ a - b < Quot(a, b) * b /\ Quot(a, b) * b < a + b
<1>1. CASE a >= 0
  <2> DEFINE q == a \div b
  <2>1. q \in Int /\ q * b <= a /\ a < q * b + b /\ q * b \in Int
    BY SMT
  <2>2. Quot(a, b) = q
    BY <1>1 DEF Quot
  <2> HIDE DEF q
  <2> QED
    BY <2>1, <2>2
<1>2. CASE a < 0
  <2> DEFINE q == (-a) \div b
  <2>1. q \in Int /\ q * b <= -a /\ -a < q * b + b /\ q * b \in Int
    BY SMT
  <2>2. Quot(a, b) = -q
    BY <1>2 DEF Quot
  <2>3. (-q) * b = -(q * b)
    BY <2>1, SMT
  <2> HIDE DEF q
  <2> QED
    BY <2>1, <2>2, <2>3
<1> QED
  BY <1>1, <1>2

LEMMA QuotThird ==
  ASSUME NEW a, NEW c \in Int, a = c, NEW x \in Nat \ {0}
  PROVE  /\ Quot(a, 3 * x) \in Int /\ Quot(a, 3 * x) * x \in Int
         /\ c - 3 * x < 3 * (Quot(a, 3 * x) * x) /\ 3 * (Quot(a, 3 * x) * x) < c + 3 * x
<1> DEFINE b == 3 * x
           q == Quot(a, b)
<1>1. b \in Nat \ {0}
  OBVIOUS
<1>2. q \in Int /\ q * b \in Int /\ a - b < q * b /\ q * b < a + b
  BY <1>1, QuotTimes
<1> HIDE DEF q
<1>3. q * b = 3 * (q * x) /\ q * x \in Int
  BY <1>2, SMT
<1> QED
  BY <1>2, <1>3 DEF q

LEMMA QuotHalved ==
  ASSUME NEW a, NEW c \in Int, a = c, NEW x \in Nat \ {0}
  PROVE  /\ Quot(a, 2 * x) \in Int /\ Quot(a, 2 * x) * x \in Int
         /\ c - 2 * x < 2 * (Quot(a, 2 * x) * x) /\ 2 * (Quot(a, 2 * x) * x) < c + 2 * x
<1> DEFINE b == 2 * x
           q == Quot(a, b)
<1>1. b \in Nat \ {0}
  OBVIOUS
<1>2. q \in Int /\ q * b \in Int /\ a - b < q * b /\ q * b < a + b
  BY <1>1, QuotTimes
<1> HIDE DEF q
<1>3. q * b = 2 * (q * x) /\ q * x \in Int
  BY <1>2, SMT
<1> QED
  BY <1>2, <1>3 DEF q

(* Half of what is left of Scale, of a load x.                             *)
LEMMA HalfOfRest ==
  ASSUME NEW q \in Int, NEW x \in Nat \ {0}
  PROVE  /\ Quot(Scale - q, 2) \in Int /\ Quot(Scale - q, 2) * x \in Int
         /\ Scale * x \in Int /\ q * x \in Int
         /\ Scale * x - q * x - x <= 2 * (Quot(Scale - q, 2) * x)
<1> DEFINE h == Quot(Scale - q, 2)
<1>0. Scale \in Int
  BY ScaleAssumption
<1>1. h \in Int /\ Scale - q - 1 <= 2 * h
  BY <1>0, SMT DEF Quot
<1> HIDE DEF h
<1>2. h * x \in Int /\ Scale * x \in Int /\ q * x \in Int
  BY <1>0, <1>1, SMT
<1> DEFINE r == 2 * h - (Scale - q - 1)
<1>3. r \in Nat
  BY <1>0, <1>1
<1>4. r * x \in Nat
  BY <1>3, SMT
<1>5. r * x = 2 * (h * x) - Scale * x + q * x + x
  BY <1>0, <1>1, SMT DEF r
<1> DEFINE hx == h * x  sx == Scale * x  qx == q * x  rx == r * x
<1>6. hx \in Int /\ sx \in Int /\ qx \in Int /\ rx \in Nat /\ rx = 2 * hx - sx + qx + x
  BY <1>2, <1>4, <1>5
<1> HIDE DEF hx, sx, qx, rx, r
<1>7. sx - qx - x <= 2 * hx
  BY <1>6
<1> QED
  BY <1>1, <1>2, <1>7 DEF h, hx, sx, qx

LEMMA ThirdOf ==
  ASSUME NEW x \in Nat \ {0}
  PROVE  /\ Scale \div 3 \in Int /\ (Scale \div 3) * x \in Int /\ Scale * x \in Int
         /\ Scale * x - 2 * x <= 3 * ((Scale \div 3) * x)
<1> DEFINE h == Scale \div 3
           r == 3 * h - (Scale - 2)
<1>0. Scale \in Int /\ h \in Int /\ r \in Nat
  BY ScaleAssumption, SMT
<1> HIDE DEF h
<1>1. r * x \in Nat /\ h * x \in Int /\ Scale * x \in Int
  BY <1>0, SMT
<1>2. r * x = 3 * (h * x) - Scale * x + 2 * x
  BY <1>0, SMT DEF r
<1> DEFINE hx == h * x  sx == Scale * x  rx == r * x
<1>3. hx \in Int /\ sx \in Int /\ rx \in Nat /\ rx = 3 * hx - sx + 2 * x
  BY <1>1, <1>2
<1> HIDE DEF hx, sx, rx, r
<1>4. sx - 2 * x <= 3 * hx
  BY <1>3
<1> QED
  BY <1>0, <1>1, <1>4 DEF h, hx, sx

(* Loads, in units of 1 / Scale.                                           *)
LEMMA Scaled ==
  ASSUME NEW x \in Int, NEW y \in Int
  PROVE  /\ Scale * x \in Int /\ Scale * y \in Int
         /\ Scale * (x + y) = Scale * x + Scale * y
         /\ Scale * (x - y) = Scale * x - Scale * y
         /\ x <= y => Scale * x <= Scale * y
<1>0. Scale \in Int
  BY ScaleAssumption
<1>1. /\ Scale * x \in Int /\ Scale * y \in Int
      /\ Scale * (x + y) = Scale * x + Scale * y
      /\ Scale * (x - y) = Scale * x - Scale * y
  BY <1>0, SMT
<1>2. ASSUME x <= y PROVE Scale * x <= Scale * y
  <2>1. y - x \in Nat
    BY <1>2
  <2>2. Scale * (y - x) \in Nat
    BY <2>1, ScaleAssumption, SMT
  <2>3. Scale * (y - x) = Scale * y - Scale * x
    BY <1>0, SMT
  <2> QED
    BY <1>1, <2>2, <2>3
<1> QED
  BY <1>1, <1>2

LEMMA Distribute ==
  ASSUME NEW t \in Totals
  PROVE  LET e == Scale * t.E  g == Scale * t.G  d == Scale * t.D  m == Scale * t.M
         IN  /\ e \in Nat /\ g \in Nat /\ d \in Nat /\ m \in Nat
             /\ Scale * (t.E + t.G + t.M) = e + g + m
             /\ Scale * (2 * t.G - t.E - t.M) = 2 * g - e - m
             /\ Scale * (t.D - 2 * t.E + 4 * t.G - 2 * t.M) = d - 2 * e + 4 * g - 2 * m
             /\ Scale * (t.G - t.M) = g - m /\ Scale * (t.E - t.G + t.M) = e - g + m
             /\ Scale * (t.E - t.M) = e - m /\ Scale * (t.E + t.M) = e + m
             /\ Scale * (t.G + t.M) = g + m
             /\ Scale * (t.D - 2 * t.E + t.G + t.M) = d - 2 * e + g + m
             /\ Scale * (t.D - 2 * t.M + t.G + t.E) = d - 2 * m + g + e
             /\ Scale * (t.D - 2 * t.G + t.E + t.M) = d - 2 * g + e + m
             /\ Scale * (6 * (t.G + t.D)) = 6 * (g + d) /\ Scale * (6 * (t.E + t.D)) = 6 * (e + d)
             /\ Scale * (3 * (t.G + t.E + t.D)) = 3 * (g + e + d)
             /\ Scale * (2 * (t.E + t.G + t.D + t.M)) = 2 * (e + g + d + m)
<1> DEFINE E == t.E  G == t.G  D == t.D  M == t.M
<1>1. Scale \in Nat /\ E \in Nat /\ G \in Nat /\ D \in Nat /\ M \in Nat
  BY ScaleAssumption, LoadsTyped
<1> HIDE DEF E, G, D, M
<1>2. LET e == Scale * E  g == Scale * G  d == Scale * D  m == Scale * M
      IN  /\ e \in Nat /\ g \in Nat /\ d \in Nat /\ m \in Nat
          /\ Scale * (E + G + M) = e + g + m
          /\ Scale * (2 * G - E - M) = 2 * g - e - m
          /\ Scale * (D - 2 * E + 4 * G - 2 * M) = d - 2 * e + 4 * g - 2 * m
          /\ Scale * (G - M) = g - m /\ Scale * (E - G + M) = e - g + m
          /\ Scale * (E - M) = e - m /\ Scale * (E + M) = e + m
          /\ Scale * (G + M) = g + m
          /\ Scale * (D - 2 * E + G + M) = d - 2 * e + g + m
          /\ Scale * (D - 2 * M + G + E) = d - 2 * m + g + e
          /\ Scale * (D - 2 * G + E + M) = d - 2 * g + e + m
          /\ Scale * (6 * (G + D)) = 6 * (g + d) /\ Scale * (6 * (E + D)) = 6 * (e + d)
          /\ Scale * (3 * (G + E + D)) = 3 * (g + e + d)
          /\ Scale * (2 * (E + G + D + M)) = 2 * (e + g + d + m)
  BY <1>1, SMT
<1> QED
  BY <1>2, Zenon DEF E, G, D, M

(* Weights are optimal if they reach one of the four bounds.               *)
LEMMA Reaches ==
  ASSUME NEW t \in Totals, NEW w,
         NEW guard \in Int, NEW exit \in Int, NEW middle \in Int,
         GuardCapacity(w, t) = guard, ExitCapacity(w, t) = exit, MiddleCapacity(w, t) = middle,
         NEW bound \in {6 * (Scale * t.G + Scale * t.D), 6 * (Scale * t.E + Scale * t.D),
                       3 * (Scale * t.G + Scale * t.E + Scale * t.D),
                       2 * (Scale * t.E + Scale * t.G + Scale * t.D + Scale * t.M)},
         6 * guard >= bound - 20 * Sum(t), 6 * exit >= bound - 20 * Sum(t),
         6 * middle >= bound - 20 * Sum(t)
  PROVE  Optimal(w, t)
<1> DEFINE b1 == 6 * (t.G + t.D)        b2 == 6 * (t.E + t.D)
           b3 == 3 * (t.G + t.E + t.D)  b4 == 2 * Sum(t)
           worst == Least(Least(guard, exit), middle)
<1>0. /\ t.E \in Int /\ t.G \in Int /\ t.D \in Int /\ t.M \in Int
      /\ Sum(t) = t.E + t.G + t.D + t.M /\ Sum(t) \in Int
  BY LoadsTyped DEF Sum
<1>1. /\ b1 \in Int /\ b2 \in Int /\ b3 \in Int /\ b4 \in Int
      /\ b4 = 2 * (t.E + t.G + t.D + t.M)
  BY <1>0
<1>2. bound \in {Scale * b1, Scale * b2, Scale * b3, Scale * b4}
  <2>1. /\ Scale * b1 = 6 * (Scale * t.G + Scale * t.D)
        /\ Scale * b2 = 6 * (Scale * t.E + Scale * t.D)
        /\ Scale * b3 = 3 * (Scale * t.G + Scale * t.E + Scale * t.D)
    BY Distribute, Zenon
  <2>2. Scale * b4 = 2 * (Scale * t.E + Scale * t.G + Scale * t.D + Scale * t.M)
    <3>1. Scale * (2 * (t.E + t.G + t.D + t.M))
            = 2 * (Scale * t.E + Scale * t.G + Scale * t.D + Scale * t.M)
      BY Distribute, Zenon
    <3> QED
      BY <1>1, <3>1
  <2> HIDE DEF b1, b2, b3, b4
  <2> QED
    BY <2>1, <2>2
<1>3. Bottleneck(t) = Least(Least(b1, b2), Least(b3, b4))
  BY DEF Bottleneck
<1> HIDE DEF b1, b2, b3, b4
<1>4. /\ Bottleneck(t) \in Int
      /\ Bottleneck(t) <= b1 /\ Bottleneck(t) <= b2 /\ Bottleneck(t) <= b3 /\ Bottleneck(t) <= b4
  BY <1>1, <1>3 DEF Least
<1>5. /\ Scale * Bottleneck(t) \in Int
      /\ Scale * b1 \in Int /\ Scale * b2 \in Int /\ Scale * b3 \in Int /\ Scale * b4 \in Int
      /\ Scale * Bottleneck(t) <= Scale * b1 /\ Scale * Bottleneck(t) <= Scale * b2
      /\ Scale * Bottleneck(t) <= Scale * b3 /\ Scale * Bottleneck(t) <= Scale * b4
  BY <1>1, <1>4, Scaled
<1>6. bound \in Int /\ Scale * Bottleneck(t) <= bound
  BY <1>2, <1>5
<1>7. worst \in {guard, exit, middle}
  BY DEF Least
<1>8. 6 * worst >= bound - 20 * Sum(t) /\ worst \in Int
  BY <1>7
<1> HIDE DEF worst
<1>9. 6 * worst >= Scale * Bottleneck(t) - 2 * 10 * Sum(t)
  <2> DEFINE low == Scale * Bottleneck(t)
  <2>1. low \in Int /\ low <= bound
    BY <1>5, <1>6
  <2> HIDE DEF low
  <2>2. 6 * worst >= low - 2 * 10 * Sum(t)
    BY <1>0, <1>6, <1>8, <2>1
  <2> QED
    BY <2>2 DEF low
<1> QED
  BY <1>9 DEF Optimal, Margin, worst

LEMMA Case1Optimal ==
  ASSUME NEW t \in Totals, ~ExitsScarce(t), ~GuardsScarce(t)
  PROVE  Optimal(Case1(t), t)
<1> DEFINE E == t.E  G == t.G  D == t.D  M == t.M
           e == Scale * E  g == Scale * G  d == Scale * D  m == Scale * M
           a1 == Scale * (E + G + M)      c1 == e + g + m
           a2 == Scale * (2 * G - E - M)  c2 == 2 * g - e - m
           ee == Quot(a1, 3 * E)   x == ee * E
           mg == Quot(a2, 3 * G)   y == mg * G
           third == Scale \div 3   z == third * D
           w == Case1(t)
<1>0. /\ E \in Nat \ {0} /\ G \in Nat \ {0} /\ D \in Nat \ {0} /\ M \in Nat \ {0}
      /\ Scale \in Nat \ {0} /\ Sum(t) = E + G + D + M
  BY LoadsTyped, ScaleAssumption DEF Sum
<1>1. w = [gg |-> Scale - mg, gd |-> third, mg |-> mg, me |-> Scale - ee, md |-> third,
           ee |-> ee, ed |-> third]
  BY DEF Case1
<1>2. /\ e \in Nat /\ g \in Nat /\ d \in Nat /\ m \in Nat
      /\ a1 = c1 /\ a2 = c2
  BY Distribute, Zenon
<1>3. c1 \in Int /\ c2 \in Int
  BY <1>2
<1>4. ee \in Int /\ x \in Int /\ c1 - 3 * E < 3 * x /\ 3 * x < c1 + 3 * E
  <2> HIDE DEF E, a1, c1
  <2> QED
    BY <1>0, <1>2, <1>3, QuotThird
<1>5. mg \in Int /\ y \in Int /\ c2 - 3 * G < 3 * y /\ 3 * y < c2 + 3 * G
  <2> HIDE DEF G, a2, c2
  <2> QED
    BY <1>0, <1>2, <1>3, QuotThird
<1>6. third \in Int /\ z \in Int /\ d - 2 * D <= 3 * z
  BY <1>0, ThirdOf
<1> HIDE DEF a1, a2
<1>7. /\ GuardCapacity(w, t) = g - y + z /\ ExitCapacity(w, t) = x + z
      /\ MiddleCapacity(w, t) = m + z + (e - x) + y
  <2>1. /\ GuardCapacity(w, t) = (Scale - mg) * G + third * D
        /\ ExitCapacity(w, t) = ee * E + third * D
        /\ MiddleCapacity(w, t) = M * Scale + third * D + (Scale - ee) * E + mg * G
    BY <1>1 DEF GuardCapacity, ExitCapacity, MiddleCapacity
  <2> HIDE DEF E, G, D, M, ee, mg, third, w
  <2>2. /\ (Scale - mg) * G = g - y /\ (Scale - ee) * E = e - x /\ M * Scale = m
    BY <1>0, <1>4, <1>5, SMT DEF e, g, m, x, y
  <2> QED
    BY <2>1, <2>2
<1> HIDE DEF x, y, z, w, E, G, D, M, e, g, d, m
<1>8. /\ g - y + z \in Int /\ x + z \in Int /\ m + z + (e - x) + y \in Int
      /\ 6 * (g - y + z) >= 2 * (e + g + d + m) - 20 * Sum(t)
      /\ 6 * (x + z) >= 2 * (e + g + d + m) - 20 * Sum(t)
      /\ 6 * (m + z + (e - x) + y) >= 2 * (e + g + d + m) - 20 * Sum(t)
  BY <1>0, <1>2, <1>4, <1>5, <1>6
<1>9. Optimal(w, t)
  BY <1>7, <1>8, Reaches DEF e, g, d, m, E, G, D, M
<1> QED
  BY <1>9 DEF w

(* Comparisons of loads carry over.                                        *)
LEMMA Compare ==
  ASSUME NEW t \in Totals
  PROVE  LET e == Scale * t.E  g == Scale * t.G  d == Scale * t.D  m == Scale * t.M
         IN  /\ t.E + t.D <= t.G => e + d <= g
             /\ t.E + t.D <= t.M => e + d <= m
             /\ t.G + t.D <= t.E => g + d <= e
             /\ t.G + t.D <= t.M => g + d <= m
             /\ 2 * (t.G + t.D) <= t.E + t.M => 2 * (g + d) <= e + m
             /\ 2 * (t.E + t.D) <= t.G + t.M => 2 * (e + d) <= g + m
<1> DEFINE E == t.E  G == t.G  D == t.D  M == t.M
           e == Scale * E  g == Scale * G  d == Scale * D  m == Scale * M
           ed == E + D  gd == G + D  em == E + M  gm == G + M
<1>1. Scale \in Int /\ E \in Int /\ G \in Int /\ D \in Int /\ M \in Int
  BY ScaleAssumption, LoadsTyped
<1> HIDE DEF E, G, D, M
<1>2. /\ ed \in Int /\ gd \in Int /\ em \in Int /\ gm \in Int
      /\ 2 * ed \in Int /\ 2 * gd \in Int
  BY <1>1
<1>3. /\ Scale * ed = e + d /\ Scale * gd = g + d /\ Scale * em = e + m /\ Scale * gm = g + m
      /\ Scale * (2 * ed) = 2 * (e + d) /\ Scale * (2 * gd) = 2 * (g + d)
  BY <1>1, SMT
<1> HIDE DEF ed, gd, em, gm
<1>4. /\ ed <= G => Scale * ed <= g
      /\ ed <= M => Scale * ed <= m
      /\ gd <= E => Scale * gd <= e
      /\ gd <= M => Scale * gd <= m
      /\ 2 * gd <= em => Scale * (2 * gd) <= Scale * em
      /\ 2 * ed <= gm => Scale * (2 * ed) <= Scale * gm
  BY <1>1, <1>2, Scaled
<1>5. /\ ed <= G => e + d <= g
      /\ ed <= M => e + d <= m
      /\ gd <= E => g + d <= e
      /\ gd <= M => g + d <= m
      /\ 2 * gd <= em => 2 * (g + d) <= e + m
      /\ 2 * ed <= gm => 2 * (e + d) <= g + m
  BY <1>3, <1>4, Zenon
<1> QED
  BY <1>5, Zenon DEF E, G, D, M, ed, gd, em, gm

LEMMA Case2aOptimal ==
  ASSUME NEW t \in Totals, ExitsScarce(t), GuardsScarce(t), ~DMakesUp(t)
  PROVE  Optimal(Case2a(t), t)
<1> DEFINE E == t.E  G == t.G  D == t.D  M == t.M
           e == Scale * E  g == Scale * G  d == Scale * D  m == Scale * M
           w == Case2a(t)
<1>0. /\ E \in Nat \ {0} /\ G \in Nat \ {0} /\ D \in Nat \ {0} /\ M \in Nat \ {0}
      /\ Scale \in Nat \ {0} /\ Sum(t) = E + G + D + M
  BY LoadsTyped, ScaleAssumption DEF Sum
<1>1. /\ w.gg = Scale /\ w.ee = Scale /\ w.mg = 0 /\ w.me = 0 /\ w.md = 0
      /\ E < G => w.gd = 0 /\ w.ed = Scale
      /\ ~(E < G) => w.gd = Scale /\ w.ed = 0
  BY DEF Case2a
<1>2. e \in Nat /\ g \in Nat /\ d \in Nat /\ m \in Nat
  BY Distribute, Zenon
<1>3. /\ Scale * G = g /\ Scale * D = d /\ Scale * E = e /\ M * Scale = m
      /\ 0 * D = 0 /\ 0 * E = 0 /\ 0 * G = 0
  BY <1>0, SMT
<1>4. CASE E < G
  <2>1. E + D <= G /\ E + D <= M
    <3> HIDE DEF E, G, D, M
    <3>1. ~(E + D >= G /\ G + D >= E) /\ 3 * G < E + G + D + M
      BY <1>0 DEF DMakesUp, GuardsScarce, E, G, D, M
    <3> QED
      BY <1>0, <1>4, <3>1
  <2>2. e + d <= g /\ e + d <= m
    BY <2>1, Compare, Zenon
  <2>3. w.gd = 0 /\ w.ed = Scale
    BY <1>1, <1>4
  <2> HIDE DEF w, E, G, D, M, e, g, d, m
  <2>4. /\ GuardCapacity(w, t) = g + 0 /\ ExitCapacity(w, t) = e + d
        /\ MiddleCapacity(w, t) = m + 0 + 0 + 0
    <3>1. /\ GuardCapacity(w, t) = w.gg * G + w.gd * D
          /\ ExitCapacity(w, t) = w.ee * E + w.ed * D
          /\ MiddleCapacity(w, t) = M * Scale + w.md * D + w.me * E + w.mg * G
      BY DEF GuardCapacity, ExitCapacity, MiddleCapacity, E, G, D, M
    <3> QED
      BY <1>1, <1>3, <2>3, <3>1
  <2>5. /\ g + 0 \in Int /\ e + d \in Int /\ m + 0 + 0 + 0 \in Int
        /\ 6 * (g + 0) >= 6 * (e + d) - 20 * Sum(t)
        /\ 6 * (e + d) >= 6 * (e + d) - 20 * Sum(t)
        /\ 6 * (m + 0 + 0 + 0) >= 6 * (e + d) - 20 * Sum(t)
    BY <1>0, <1>2, <2>2
  <2>6. Optimal(w, t)
    BY <2>4, <2>5, Reaches DEF e, g, d, m, E, G, D, M
  <2> QED
    BY <2>6 DEF w
<1>5. CASE ~(E < G)
  <2>1. G + D <= E /\ G + D <= M
    <3> HIDE DEF E, G, D, M
    <3>1. ~(E + D >= G /\ G + D >= E) /\ 3 * E < E + G + D + M
      BY <1>0 DEF DMakesUp, ExitsScarce, E, G, D, M
    <3> QED
      BY <1>0, <1>5, <3>1
  <2>2. g + d <= e /\ g + d <= m
    BY <2>1, Compare, Zenon
  <2>3. w.gd = Scale /\ w.ed = 0
    BY <1>1, <1>5
  <2> HIDE DEF w, E, G, D, M, e, g, d, m
  <2>4. /\ GuardCapacity(w, t) = g + d /\ ExitCapacity(w, t) = e + 0
        /\ MiddleCapacity(w, t) = m + 0 + 0 + 0
    <3>1. /\ GuardCapacity(w, t) = w.gg * G + w.gd * D
          /\ ExitCapacity(w, t) = w.ee * E + w.ed * D
          /\ MiddleCapacity(w, t) = M * Scale + w.md * D + w.me * E + w.mg * G
      BY DEF GuardCapacity, ExitCapacity, MiddleCapacity, E, G, D, M
    <3> QED
      BY <1>1, <1>3, <2>3, <3>1
  <2>5. /\ g + d \in Int /\ e + 0 \in Int /\ m + 0 + 0 + 0 \in Int
        /\ 6 * (g + d) >= 6 * (g + d) - 20 * Sum(t)
        /\ 6 * (e + 0) >= 6 * (g + d) - 20 * Sum(t)
        /\ 6 * (m + 0 + 0 + 0) >= 6 * (g + d) - 20 * Sum(t)
    BY <1>0, <1>2, <2>2
  <2>6. Optimal(w, t)
    BY <2>4, <2>5, Reaches DEF e, g, d, m, E, G, D, M
  <2> QED
    BY <2>6 DEF w
<1> QED
  BY <1>4, <1>5

LEMMA QuotWhole ==
  ASSUME NEW a, NEW c \in Int, a = c, NEW x \in Nat \ {0}
  PROVE  /\ Quot(a, x) \in Int /\ Quot(a, x) * x \in Int
         /\ c - x < Quot(a, x) * x /\ Quot(a, x) * x < c + x
BY QuotTimes

LEMMA Case2b1Optimal ==
  ASSUME NEW t \in Totals
  PROVE  Optimal(Case2b1(t), t)
<1> DEFINE E == t.E  G == t.G  D == t.D  M == t.M
           e == Scale * E  g == Scale * G  d == Scale * D  m == Scale * M
           a1 == Scale * (D - 2 * E + 4 * G - 2 * M)  c1 == d - 2 * e + 4 * g - 2 * m
           a2 == Scale * (G - M)                      c2 == g - m
           a3 == Scale * (E - G + M)                  c3 == e - g + m
           ed == Quot(a1, 3 * D)       x == ed * D
           me == Quot(a2, E)           y == me * E
           ee == Quot(a3, E)           z == ee * E
           half == Quot(Scale - ed, 2) h == half * D
           w == Case2b1(t)
<1>0. /\ E \in Nat \ {0} /\ G \in Nat \ {0} /\ D \in Nat \ {0} /\ M \in Nat \ {0}
      /\ Scale \in Nat \ {0} /\ Sum(t) = E + G + D + M
  BY LoadsTyped, ScaleAssumption DEF Sum
<1>1. w = [gg |-> Scale, gd |-> half, mg |-> 0, me |-> me, md |-> half, ee |-> ee, ed |-> ed]
  BY DEF Case2b1
<1>2. /\ e \in Nat /\ g \in Nat /\ d \in Nat /\ m \in Nat
      /\ a1 = c1 /\ a2 = c2 /\ a3 = c3
  BY Distribute, Zenon
<1>3. c1 \in Int /\ c2 \in Int /\ c3 \in Int
  BY <1>2
<1>4. ed \in Int /\ x \in Int /\ c1 - 3 * D < 3 * x /\ 3 * x < c1 + 3 * D
  <2> HIDE DEF D, a1, c1
  <2> QED
    BY <1>0, <1>2, <1>3, QuotThird
<1>5. me \in Int /\ y \in Int /\ c2 - E < y
  <2> HIDE DEF E, a2, c2
  <2> QED
    BY <1>0, <1>2, <1>3, QuotWhole
<1>6. ee \in Int /\ z \in Int /\ c3 - E < z
  <2> HIDE DEF E, a3, c3
  <2> QED
    BY <1>0, <1>2, <1>3, QuotWhole
<1> HIDE DEF a1, a2, a3, ed, me, ee
<1>7. half \in Int /\ h \in Int /\ d - x - D <= 2 * h
  <2> HIDE DEF D
  <2> QED
    BY <1>0, <1>4, HalfOfRest
<1>8. /\ GuardCapacity(w, t) = g + h /\ ExitCapacity(w, t) = z + x
      /\ MiddleCapacity(w, t) = m + h + y + 0
  <2>1. /\ GuardCapacity(w, t) = Scale * G + half * D
        /\ ExitCapacity(w, t) = ee * E + ed * D
        /\ MiddleCapacity(w, t) = M * Scale + half * D + me * E + 0 * G
    BY <1>1 DEF GuardCapacity, ExitCapacity, MiddleCapacity
  <2> HIDE DEF E, G, D, M, half, w
  <2>2. M * Scale = m /\ 0 * G = 0
    BY <1>0, SMT DEF m
  <2> QED
    BY <2>1, <2>2
<1> HIDE DEF x, y, z, h, w, E, G, D, M, e, g, d, m
<1>9. /\ g + h \in Int /\ z + x \in Int /\ m + h + y + 0 \in Int
      /\ 6 * (g + h) >= 2 * (e + g + d + m) - 20 * Sum(t)
      /\ 6 * (z + x) >= 2 * (e + g + d + m) - 20 * Sum(t)
      /\ 6 * (m + h + y + 0) >= 2 * (e + g + d + m) - 20 * Sum(t)
  BY <1>0, <1>2, <1>4, <1>5, <1>6, <1>7
<1>10. Optimal(w, t)
  BY <1>8, <1>9, Reaches DEF e, g, d, m, E, G, D, M
<1> QED
  BY <1>10 DEF w

LEMMA QuotNegative ==
  ASSUME NEW a \in Int, NEW b \in Nat \ {0}, Quot(a, b) < 0
  PROVE  a < 0
<1> SUFFICES ASSUME a >= 0 PROVE FALSE
  OBVIOUS
<1>1. a \div b \in Int /\ a \div b >= 0
  BY SMT
<1> QED
  BY <1>1 DEF Quot

LEMMA WithinThird ==
  ASSUME NEW a \in Int, NEW b \in Int, NEW n \in Nat, IsEq(a, b, (10 * n) \div 3)
  PROVE  3 * (a - b) <= 10 * n /\ -(10 * n) <= 3 * (a - b)
<1> DEFINE q == (10 * n) \div 3
<1>1. q \in Int /\ 3 * q <= 10 * n
  BY SMT
<1>2. a - b \in (-q) .. q
  BY DEF IsEq
<1> HIDE DEF q
<1> QED
  BY <1>1, <1>2

(* The case whose weights are balanced by the check, or by rounding alone. *)
LEMMA Case2b2Optimal ==
  ASSUME NEW t \in Totals, BalancedEG(Case2b2(t), t)
  PROVE  Optimal(Case2b2(t), t)
<1> DEFINE E == t.E  G == t.G  D == t.D  M == t.M
           e == Scale * E  g == Scale * G  d == Scale * D  m == Scale * M
           a1 == Scale * (D - 2 * E + G + M)  c1 == d - 2 * e + g + m
           a2 == Scale * (D - 2 * M + G + E)  c2 == d - 2 * m + g + e
           ed == Quot(a1, 3 * D)    x == ed * D
           fair == Quot(a2, 3 * D)  f == fair * D
           md == IF fair < 0 THEN 0 ELSE fair
           y == md * D
           w == Case2b2(t)
<1>0. /\ E \in Nat \ {0} /\ G \in Nat \ {0} /\ D \in Nat \ {0} /\ M \in Nat \ {0}
      /\ Scale \in Nat \ {0} /\ Sum(t) = E + G + D + M
  BY LoadsTyped, ScaleAssumption DEF Sum
<1>1. w = [gg |-> Scale, gd |-> Scale - ed - md, mg |-> 0, me |-> 0, md |-> md,
           ee |-> Scale, ed |-> ed]
  BY DEF Case2b2, ShareOfD
<1>2. /\ e \in Nat /\ g \in Nat /\ d \in Nat /\ m \in Nat
      /\ a1 = c1 /\ a2 = c2
  BY Distribute, Zenon
<1>3. c1 \in Int /\ c2 \in Int
  BY <1>2
<1>4. ed \in Int /\ x \in Int /\ c1 - 3 * D < 3 * x /\ 3 * x < c1 + 3 * D
  <2> HIDE DEF D, a1, c1
  <2> QED
    BY <1>0, <1>2, <1>3, QuotThird
<1>5. fair \in Int /\ f \in Int /\ c2 - 3 * D < 3 * f /\ 3 * f < c2 + 3 * D
  <2> HIDE DEF D, a2, c2
  <2> QED
    BY <1>0, <1>2, <1>3, QuotThird
<1>6. fair < 0 => c2 < 0
  <2> HIDE DEF D, c2
  <2>1. a2 \in Int /\ 3 * D \in Nat \ {0}
    BY <1>0, <1>2, <1>3
  <2> HIDE DEF a2
  <2>2. fair < 0 => a2 < 0
    BY <2>1, QuotNegative
  <2> QED
    BY <1>2, <2>2
<1> HIDE DEF a1, a2, ed
<1>7. /\ md \in Int /\ y \in Int
      /\ fair < 0 => y = 0
      /\ ~(fair < 0) => y = f
  <2> HIDE DEF fair, D
  <2>1. 0 * D = 0
    BY <1>0, SMT
  <2> QED
    BY <1>5, <2>1
<1> HIDE DEF fair, f, md
<1>8. /\ GuardCapacity(w, t) = g + (d - x - y) /\ ExitCapacity(w, t) = e + x
      /\ MiddleCapacity(w, t) = m + y + 0 + 0
  <2>1. /\ GuardCapacity(w, t) = Scale * G + (Scale - ed - md) * D
        /\ ExitCapacity(w, t) = Scale * E + ed * D
        /\ MiddleCapacity(w, t) = M * Scale + md * D + 0 * E + 0 * G
    BY <1>1 DEF GuardCapacity, ExitCapacity, MiddleCapacity
  <2> HIDE DEF E, G, D, M, w
  <2>2. M * Scale = m /\ 0 * G = 0 /\ 0 * E = 0 /\ (Scale - ed - md) * D = d - x - y
    BY <1>0, <1>4, <1>7, SMT DEF m, d, x, y
  <2> QED
    BY <2>1, <2>2
<1> HIDE DEF x, y
<1>9. /\ g + (d - x - y) \in Int /\ e + x \in Int /\ m + y + 0 + 0 \in Int
  BY <1>2, <1>4, <1>7
<1>10. CASE fair < 0
  <2>1. y = 0 /\ c2 < 0
    BY <1>6, <1>7, <1>10
  <2>2. IsEq(g + (d - x - y), e + x, (10 * Sum(t)) \div 3)
    BY <1>8 DEF BalancedEG, Margin, w
  <2> HIDE DEF w, E, G, D, M, e, g, d, m
  <2>3. /\ 3 * ((g + (d - x - y)) - (e + x)) <= 10 * Sum(t)
        /\ -(10 * Sum(t)) <= 3 * ((g + (d - x - y)) - (e + x))
    <3>1. Sum(t) \in Nat
      BY <1>0
    <3> QED
      BY <1>9, <2>2, <3>1, WithinThird
  <2>4. /\ 6 * (g + (d - x - y)) >= 3 * (g + e + d) - 20 * Sum(t)
        /\ 6 * (e + x) >= 3 * (g + e + d) - 20 * Sum(t)
        /\ 6 * (m + y + 0 + 0) >= 3 * (g + e + d) - 20 * Sum(t)
    BY <1>0, <1>2, <1>4, <1>7, <2>1, <2>2, <2>3
  <2>5. Optimal(w, t)
    BY <1>8, <1>9, <2>4, Reaches DEF e, g, d, m, E, G, D, M
  <2> QED
    BY <2>5 DEF w
<1>11. CASE ~(fair < 0)
  <2>1. y = f
    BY <1>7, <1>11
  <2> HIDE DEF w, E, G, D, M, e, g, d, m
  <2>2. /\ 6 * (g + (d - x - y)) >= 2 * (e + g + d + m) - 20 * Sum(t)
        /\ 6 * (e + x) >= 2 * (e + g + d + m) - 20 * Sum(t)
        /\ 6 * (m + y + 0 + 0) >= 2 * (e + g + d + m) - 20 * Sum(t)
    BY <1>0, <1>2, <1>4, <1>5, <1>7, <2>1
  <2>3. Optimal(w, t)
    BY <1>8, <1>9, <2>2, Reaches DEF e, g, d, m, E, G, D, M
  <2> QED
    BY <2>3 DEF w
<1> QED
  BY <1>10, <1>11

(* Cases 3a and 3b, with guards or exits as the scarce ones.               *)
LEMMA Case3aOptimalG ==
  ASSUME NEW t \in Totals, t.G < t.E, 3 * (t.G + t.D) < Sum(t), 3 * t.E >= Sum(t)
  PROVE  Optimal(Case3a(t), t)
<1> DEFINE E == t.E  G == t.G  D == t.D  M == t.M
           e == Scale * E  g == Scale * G  d == Scale * D  m == Scale * M
           a1 == Scale * (E - M)  c1 == e - m
           me == IF E < M THEN 0 ELSE Quot(a1, 2 * E)
           y == me * E
           w == Case3a(t)
<1>0. /\ E \in Nat \ {0} /\ G \in Nat \ {0} /\ D \in Nat \ {0} /\ M \in Nat \ {0}
      /\ Scale \in Nat \ {0} /\ Sum(t) = E + G + D + M
  BY LoadsTyped, ScaleAssumption DEF Sum
<1>1. w = [gg |-> Scale, gd |-> Scale, mg |-> 0, me |-> me, md |-> 0, ee |-> Scale - me, ed |-> 0]
  BY DEF Case3a
<1>2. /\ e \in Nat /\ g \in Nat /\ d \in Nat /\ m \in Nat
      /\ a1 = c1
  BY Distribute, Zenon
<1>3. c1 \in Int
  BY <1>2
<1>4. G + D <= E /\ 2 * (G + D) <= E + M /\ (E < M => G + D <= M)
  BY <1>0
<1>5. g + d <= e /\ 2 * (g + d) <= e + m /\ (E < M => g + d <= m)
  BY <1>4, Compare, Zenon
<1>6. /\ me \in Int /\ y \in Int
      /\ E < M => y = 0
      /\ ~(E < M) => c1 - 2 * E < 2 * y /\ 2 * y < c1 + 2 * E
  <2> HIDE DEF a1, c1, E, M
  <2>1. CASE E < M
    <3>1. 0 * E = 0
      BY <1>0, SMT
    <3> QED
      BY <2>1, <3>1
  <2>2. CASE ~(E < M)
    <3>1. me = Quot(a1, 2 * E)
      BY <2>2
    <3>2. /\ Quot(a1, 2 * E) \in Int /\ Quot(a1, 2 * E) * E \in Int
          /\ c1 - 2 * E < 2 * (Quot(a1, 2 * E) * E) /\ 2 * (Quot(a1, 2 * E) * E) < c1 + 2 * E
      BY <1>0, <1>2, <1>3, QuotHalved
    <3> HIDE DEF me
    <3> QED
      BY <2>2, <3>1, <3>2
  <2> QED
    BY <2>1, <2>2
<1> HIDE DEF a1, me
<1>7. /\ GuardCapacity(w, t) = g + d /\ ExitCapacity(w, t) = (e - y) + 0
      /\ MiddleCapacity(w, t) = m + 0 + y + 0
  <2>1. /\ GuardCapacity(w, t) = Scale * G + Scale * D
        /\ ExitCapacity(w, t) = (Scale - me) * E + 0 * D
        /\ MiddleCapacity(w, t) = M * Scale + 0 * D + me * E + 0 * G
    BY <1>1 DEF GuardCapacity, ExitCapacity, MiddleCapacity
  <2> HIDE DEF E, G, D, M, w
  <2>2. M * Scale = m /\ 0 * G = 0 /\ 0 * D = 0 /\ (Scale - me) * E = e - y
    BY <1>0, <1>6, SMT DEF m, e, y
  <2> QED
    BY <2>1, <2>2
<1> HIDE DEF y, w, E, G, D, M, e, g, d, m
<1>8. /\ g + d \in Int /\ (e - y) + 0 \in Int /\ m + 0 + y + 0 \in Int
      /\ 6 * (g + d) >= 6 * (g + d) - 20 * Sum(t)
  BY <1>0, <1>2, <1>6
<1>9. /\ 6 * ((e - y) + 0) >= 6 * (g + d) - 20 * Sum(t)
      /\ 6 * (m + 0 + y + 0) >= 6 * (g + d) - 20 * Sum(t)
  <2>1. CASE E < M
    BY <1>0, <1>2, <1>5, <1>6, <2>1
  <2>2. CASE ~(E < M)
    BY <1>0, <1>2, <1>5, <1>6, <2>2
  <2> QED
    BY <2>1, <2>2
<1>10. Optimal(w, t)
  BY <1>7, <1>8, <1>9, Reaches DEF e, g, d, m, E, G, D, M
<1> QED
  BY <1>10 DEF w

LEMMA Case3aOptimalE ==
  ASSUME NEW t \in Totals, ~(t.G < t.E), 3 * (t.E + t.D) < Sum(t), 3 * t.G >= Sum(t)
  PROVE  Optimal(Case3a(t), t)
<1> DEFINE E == t.E  G == t.G  D == t.D  M == t.M
           e == Scale * E  g == Scale * G  d == Scale * D  m == Scale * M
           a1 == Scale * (G - M)  c1 == g - m
           mg == IF G < M THEN 0 ELSE Quot(a1, 2 * G)
           y == mg * G
           w == Case3a(t)
<1>0. /\ E \in Nat \ {0} /\ G \in Nat \ {0} /\ D \in Nat \ {0} /\ M \in Nat \ {0}
      /\ Scale \in Nat \ {0} /\ Sum(t) = E + G + D + M
  BY LoadsTyped, ScaleAssumption DEF Sum
<1>1. w = [gg |-> Scale - mg, gd |-> 0, mg |-> mg, me |-> 0, md |-> 0, ee |-> Scale, ed |-> Scale]
  BY DEF Case3a
<1>2. /\ e \in Nat /\ g \in Nat /\ d \in Nat /\ m \in Nat
      /\ a1 = c1
  BY Distribute, Zenon
<1>3. c1 \in Int
  BY <1>2
<1>4. E + D <= G /\ 2 * (E + D) <= G + M /\ (G < M => E + D <= M)
  BY <1>0
<1>5. e + d <= g /\ 2 * (e + d) <= g + m /\ (G < M => e + d <= m)
  BY <1>4, Compare, Zenon
<1>6. /\ mg \in Int /\ y \in Int
      /\ G < M => y = 0
      /\ ~(G < M) => c1 - 2 * G < 2 * y /\ 2 * y < c1 + 2 * G
  <2> HIDE DEF a1, c1, G, M
  <2>1. CASE G < M
    <3>1. 0 * G = 0
      BY <1>0, SMT
    <3> QED
      BY <2>1, <3>1
  <2>2. CASE ~(G < M)
    <3>1. mg = Quot(a1, 2 * G)
      BY <2>2
    <3>2. /\ Quot(a1, 2 * G) \in Int /\ Quot(a1, 2 * G) * G \in Int
          /\ c1 - 2 * G < 2 * (Quot(a1, 2 * G) * G) /\ 2 * (Quot(a1, 2 * G) * G) < c1 + 2 * G
      BY <1>0, <1>2, <1>3, QuotHalved
    <3> HIDE DEF mg
    <3> QED
      BY <2>2, <3>1, <3>2
  <2> QED
    BY <2>1, <2>2
<1> HIDE DEF a1, mg
<1>7. /\ GuardCapacity(w, t) = (g - y) + 0 /\ ExitCapacity(w, t) = e + d
      /\ MiddleCapacity(w, t) = m + 0 + 0 + y
  <2>1. /\ GuardCapacity(w, t) = (Scale - mg) * G + 0 * D
        /\ ExitCapacity(w, t) = Scale * E + Scale * D
        /\ MiddleCapacity(w, t) = M * Scale + 0 * D + 0 * E + mg * G
    BY <1>1 DEF GuardCapacity, ExitCapacity, MiddleCapacity
  <2> HIDE DEF E, G, D, M, w
  <2>2. M * Scale = m /\ 0 * E = 0 /\ 0 * D = 0 /\ (Scale - mg) * G = g - y
    BY <1>0, <1>6, SMT DEF m, g, y
  <2> QED
    BY <2>1, <2>2
<1> HIDE DEF y, w, E, G, D, M, e, g, d, m
<1>8. /\ (g - y) + 0 \in Int /\ e + d \in Int /\ m + 0 + 0 + y \in Int
      /\ 6 * (e + d) >= 6 * (e + d) - 20 * Sum(t)
  BY <1>0, <1>2, <1>6
<1>9. /\ 6 * ((g - y) + 0) >= 6 * (e + d) - 20 * Sum(t)
      /\ 6 * (m + 0 + 0 + y) >= 6 * (e + d) - 20 * Sum(t)
  <2>1. CASE G < M
    BY <1>0, <1>2, <1>5, <1>6, <2>1
  <2>2. CASE ~(G < M)
    BY <1>0, <1>2, <1>5, <1>6, <2>2
  <2> QED
    BY <2>1, <2>2
<1>10. Optimal(w, t)
  BY <1>7, <1>8, <1>9, Reaches DEF e, g, d, m, E, G, D, M
<1> QED
  BY <1>10 DEF w

LEMMA Case3bOptimalG ==
  ASSUME NEW t \in Totals, t.G < t.E
  PROVE  Optimal(Case3b(t), t)
<1> DEFINE E == t.E  G == t.G  D == t.D  M == t.M
           e == Scale * E  g == Scale * G  d == Scale * D  m == Scale * M
           a1 == Scale * (D - 2 * G + E + M)  c1 == d - 2 * g + e + m
           a2 == Scale * (E + M)              c2 == e + m
           gd == Quot(a1, 3 * D)       x == gd * D
           ee == Quot(a2, 2 * E)       z == ee * E
           half == Quot(Scale - gd, 2) h == half * D
           w == Case3b(t)
<1>0. /\ E \in Nat \ {0} /\ G \in Nat \ {0} /\ D \in Nat \ {0} /\ M \in Nat \ {0}
      /\ Scale \in Nat \ {0} /\ Sum(t) = E + G + D + M
  BY LoadsTyped, ScaleAssumption DEF Sum
<1>1. w = [gg |-> Scale, gd |-> gd, mg |-> 0, me |-> Scale - ee, md |-> half, ee |-> ee, ed |-> half]
  BY DEF Case3b, ShareOfD
<1>2. /\ e \in Nat /\ g \in Nat /\ d \in Nat /\ m \in Nat
      /\ a1 = c1 /\ a2 = c2
  BY Distribute, Zenon
<1>3. c1 \in Int /\ c2 \in Int
  BY <1>2
<1>4. gd \in Int /\ x \in Int /\ c1 - 3 * D < 3 * x /\ 3 * x < c1 + 3 * D
  <2> HIDE DEF D, a1, c1
  <2> QED
    BY <1>0, <1>2, <1>3, QuotThird
<1>5. ee \in Int /\ z \in Int /\ c2 - 2 * E < 2 * z /\ 2 * z < c2 + 2 * E
  <2> HIDE DEF E, a2, c2
  <2> QED
    BY <1>0, <1>2, <1>3, QuotHalved
<1> HIDE DEF a1, a2, gd, ee
<1>6. half \in Int /\ h \in Int /\ d - x - D <= 2 * h
  <2> HIDE DEF D
  <2> QED
    BY <1>0, <1>4, HalfOfRest
<1>7. /\ GuardCapacity(w, t) = g + x /\ ExitCapacity(w, t) = z + h
      /\ MiddleCapacity(w, t) = m + h + (e - z) + 0
  <2>1. /\ GuardCapacity(w, t) = Scale * G + gd * D
        /\ ExitCapacity(w, t) = ee * E + half * D
        /\ MiddleCapacity(w, t) = M * Scale + half * D + (Scale - ee) * E + 0 * G
    BY <1>1 DEF GuardCapacity, ExitCapacity, MiddleCapacity
  <2> HIDE DEF E, G, D, M, half, w
  <2>2. M * Scale = m /\ 0 * G = 0 /\ (Scale - ee) * E = e - z
    BY <1>0, <1>5, SMT DEF m, e, z
  <2> QED
    BY <2>1, <2>2
<1> HIDE DEF x, z, h, w, E, G, D, M, e, g, d, m
<1>8. /\ g + x \in Int /\ z + h \in Int /\ m + h + (e - z) + 0 \in Int
      /\ 6 * (g + x) >= 2 * (e + g + d + m) - 20 * Sum(t)
      /\ 6 * (z + h) >= 2 * (e + g + d + m) - 20 * Sum(t)
      /\ 6 * (m + h + (e - z) + 0) >= 2 * (e + g + d + m) - 20 * Sum(t)
  BY <1>0, <1>2, <1>4, <1>5, <1>6
<1>9. Optimal(w, t)
  BY <1>7, <1>8, Reaches DEF e, g, d, m, E, G, D, M
<1> QED
  BY <1>9 DEF w

LEMMA Case3bOptimalE ==
  ASSUME NEW t \in Totals, ~(t.G < t.E)
  PROVE  Optimal(Case3b(t), t)
<1> DEFINE E == t.E  G == t.G  D == t.D  M == t.M
           e == Scale * E  g == Scale * G  d == Scale * D  m == Scale * M
           a1 == Scale * (D - 2 * E + G + M)  c1 == d - 2 * e + g + m
           a2 == Scale * (G + M)              c2 == g + m
           ed == Quot(a1, 3 * D)       x == ed * D
           gg == Quot(a2, 2 * G)       z == gg * G
           half == Quot(Scale - ed, 2) h == half * D
           w == Case3b(t)
<1>0. /\ E \in Nat \ {0} /\ G \in Nat \ {0} /\ D \in Nat \ {0} /\ M \in Nat \ {0}
      /\ Scale \in Nat \ {0} /\ Sum(t) = E + G + D + M
  BY LoadsTyped, ScaleAssumption DEF Sum
<1>1. w = [gg |-> gg, gd |-> half, mg |-> Scale - gg, me |-> 0, md |-> half, ee |-> Scale, ed |-> ed]
  BY DEF Case3b, ShareOfD
<1>2. /\ e \in Nat /\ g \in Nat /\ d \in Nat /\ m \in Nat
      /\ a1 = c1 /\ a2 = c2
  BY Distribute, Zenon
<1>3. c1 \in Int /\ c2 \in Int
  BY <1>2
<1>4. ed \in Int /\ x \in Int /\ c1 - 3 * D < 3 * x /\ 3 * x < c1 + 3 * D
  <2> HIDE DEF D, a1, c1
  <2> QED
    BY <1>0, <1>2, <1>3, QuotThird
<1>5. gg \in Int /\ z \in Int /\ c2 - 2 * G < 2 * z /\ 2 * z < c2 + 2 * G
  <2> HIDE DEF G, a2, c2
  <2> QED
    BY <1>0, <1>2, <1>3, QuotHalved
<1> HIDE DEF a1, a2, ed, gg
<1>6. half \in Int /\ h \in Int /\ d - x - D <= 2 * h
  <2> HIDE DEF D
  <2> QED
    BY <1>0, <1>4, HalfOfRest
<1>7. /\ GuardCapacity(w, t) = z + h /\ ExitCapacity(w, t) = e + x
      /\ MiddleCapacity(w, t) = m + h + 0 + (g - z)
  <2>1. /\ GuardCapacity(w, t) = gg * G + half * D
        /\ ExitCapacity(w, t) = Scale * E + ed * D
        /\ MiddleCapacity(w, t) = M * Scale + half * D + 0 * E + (Scale - gg) * G
    BY <1>1 DEF GuardCapacity, ExitCapacity, MiddleCapacity
  <2> HIDE DEF E, G, D, M, half, w
  <2>2. M * Scale = m /\ 0 * E = 0 /\ (Scale - gg) * G = g - z
    BY <1>0, <1>5, SMT DEF m, g, z
  <2> QED
    BY <2>1, <2>2
<1> HIDE DEF x, z, h, w, E, G, D, M, e, g, d, m
<1>8. /\ z + h \in Int /\ e + x \in Int /\ m + h + 0 + (g - z) \in Int
      /\ 6 * (z + h) >= 2 * (e + g + d + m) - 20 * Sum(t)
      /\ 6 * (e + x) >= 2 * (e + g + d + m) - 20 * Sum(t)
      /\ 6 * (m + h + 0 + (g - z)) >= 2 * (e + g + d + m) - 20 * Sum(t)
  BY <1>0, <1>2, <1>4, <1>5, <1>6
<1>9. Optimal(w, t)
  BY <1>7, <1>8, Reaches DEF e, g, d, m, E, G, D, M
<1> QED
  BY <1>9 DEF w

(* The weights that recompute_bw_weights returns give the position that is *)
(* worst off as much as any weights could, up to the margin, in all of its *)
(* cases and for all loads: too much bandwidth at the middle is not lost.  *)
THEOREM RecomputedAreOptimal ==
  ASSUME NEW t \in Totals, ~Panics(t)
  PROVE  Optimal(Recompute(t), t)
<1>1. CASE ~ExitsScarce(t) /\ ~GuardsScarce(t)
  BY <1>1, Case1Optimal DEF Recompute
<1>2. CASE ExitsScarce(t) /\ GuardsScarce(t) /\ DMakesUp(t)
  <2>1. Recompute(t) = Case2b(t) /\ NoErrorButMid(Case2b(t), t)
    BY <1>2 DEF Recompute, Panics
  <2>2. CASE NoError(Case2b1(t), t)
    BY <2>1, <2>2, Case2b1Optimal DEF Case2b
  <2>3. CASE ~NoError(Case2b1(t), t)
    <3>1. Recompute(t) = Case2b2(t) /\ BalancedEG(Case2b2(t), t)
      BY <2>1, <2>3 DEF Case2b, NoErrorButMid
    <3> QED
      BY <3>1, Case2b2Optimal
  <2> QED
    BY <2>2, <2>3
<1>3. CASE ExitsScarce(t) /\ GuardsScarce(t) /\ ~DMakesUp(t)
  BY <1>3, Case2aOptimal DEF Recompute
<1>4. CASE /\ ~(~ExitsScarce(t) /\ ~GuardsScarce(t))
           /\ ~(ExitsScarce(t) /\ GuardsScarce(t))
  <2>0. /\ t.E \in Int /\ t.G \in Int /\ t.D \in Int /\ Sum(t) \in Int
    BY LoadsTyped DEF Sum
  <2>1. CASE 3 * (Least(t.E, t.G) + t.D) < Sum(t)
    <3>1. Recompute(t) = Case3a(t)
      BY <1>4, <2>1 DEF Recompute
    <3>2. CASE t.G < t.E
      <4>1. 3 * (t.G + t.D) < Sum(t) /\ 3 * t.E >= Sum(t)
        BY <1>4, <2>0, <2>1, <3>2 DEF Least, ExitsScarce, GuardsScarce
      <4> QED
        BY <3>1, <3>2, <4>1, Case3aOptimalG
    <3>3. CASE ~(t.G < t.E)
      <4>1. 3 * (t.E + t.D) < Sum(t) /\ 3 * t.G >= Sum(t)
        BY <1>4, <2>0, <2>1, <3>3 DEF Least, ExitsScarce, GuardsScarce
      <4> QED
        BY <3>1, <3>3, <4>1, Case3aOptimalE
    <3> QED
      BY <3>2, <3>3
  <2>2. CASE ~(3 * (Least(t.E, t.G) + t.D) < Sum(t))
    <3>1. Recompute(t) = Case3b(t)
      BY <1>4, <2>2 DEF Recompute
    <3> QED
      BY <3>1, Case3bOptimalG, Case3bOptimalE
  <2> QED
    BY <2>1, <2>2
<1> QED
  BY <1>1, <1>2, <1>3, <1>4

=============================================================================
