-------------------------- MODULE BandwidthWeights --------------------------
(***************************************************************************)
(* The bandwidth weights of a consensus (mod bwweights in                  *)
(* src/src/adversaries.rs), which are computed anew when an adversary adds *)
(* relays to it.                                                           *)
(*                                                                         *)
(* Relays count for one of four totals: E (exits), G (guards), D (both)    *)
(* and M (neither).  The weight Wpt says which part of its bandwidth, in   *)
(* units of 1 / Scale, a relay of total t offers for position p: guard     *)
(* (g), middle (m) or exit (e).  Middle relays are only used as middles.   *)
(*                                                                         *)
(* Integers are unbounded here.  The code computes in i64, which holds     *)
(* every intermediate result if the totals stay below 10^13.               *)
(*                                                                         *)
(* A definition whose name ends in Bug is a seeded fault: nothing uses it, *)
(* and a property must fail when it takes the place of the definition      *)
(* that follows it.                                                        *)
(***************************************************************************)
EXTENDS Integers

CONSTANT Scale   \* weightscale (10000)

ASSUME ScaleAssumption == Scale \in Nat \ {0}

Margin == 10

Totals == [E : Nat \ {0}, G : Nat \ {0}, D : Nat \ {0}, M : Nat \ {0}]

Weights == [gg : Int, gd : Int, mg : Int, me : Int, md : Int, ee : Int, ed : Int]

Sum(t) == t.E + t.G + t.D + t.M

(* Rust's division of an integer by a positive one.                        *)
Quot(a, b) == IF a >= 0 THEN a \div b ELSE -((-a) \div b)

-----------------------------------------------------------------------------
(* check_eq and check_range                                                *)
IsEq(a, b, margin) == a - b \in (-margin) .. margin

InRange(w) ==
  /\ w.gg \in 0 .. Scale /\ w.gd \in 0 .. Scale
  /\ w.mg \in 0 .. Scale /\ w.me \in 0 .. Scale /\ w.md \in 0 .. Scale
  /\ w.ee \in 0 .. Scale /\ w.ed \in 0 .. Scale

(* What the positions can carry, in units of 1 / Scale.                    *)
GuardCapacity(w, t) == w.gg * t.G + w.gd * t.D

ExitCapacity(w, t) == w.ee * t.E + w.ed * t.D

MiddleCapacity(w, t) == t.M * Scale + w.md * t.D + w.me * t.E + w.mg * t.G

(* The three sums that make a weight a share of the relay's bandwidth.     *)
SharesAddUp(w) ==
  /\ IsEq(w.ed + w.md + w.gd, Scale, Margin)
  /\ IsEq(w.mg + w.gg, Scale, Margin)
  /\ IsEq(w.me + w.ee, Scale, Margin)

BalancedEG(w, t) ==
  IsEq(GuardCapacity(w, t), ExitCapacity(w, t), (Margin * Sum(t)) \div 3)

BalancedMid(w, t) ==
  IsEq(GuardCapacity(w, t), MiddleCapacity(w, t), (Margin * Sum(t)) \div 3)

(* check_weights_errors with do_balance returns None; returns None or      *)
(* BalanceMid, the check that is made last.                                *)
NoErrorButMid(w, t) == SharesAddUp(w) /\ InRange(w) /\ BalancedEG(w, t)

NoError(w, t) == NoErrorButMid(w, t) /\ BalancedMid(w, t)

-----------------------------------------------------------------------------
ExitsScarce(t) == 3 * t.E < Sum(t)

GuardsScarce(t) == 3 * t.G < Sum(t)

(* The part of D that makes a position of total x as large as those of     *)
(* totals y and z.                                                         *)
ShareOfDBug(t, x, y, z) == Quot(Scale * (t.D - x + y + z), 3 * t.D)

ShareOfD(t, x, y, z) == Quot(Scale * (t.D - 2 * x + y + z), 3 * t.D)

(* Case 1: neither is scarce.                                              *)
Case1(t) ==
  LET third == Scale \div 3
      ee == Quot(Scale * (t.E + t.G + t.M), 3 * t.E)
      mg == Quot(Scale * (2 * t.G - t.E - t.M), 3 * t.G)
  IN  [gg |-> Scale - mg, gd |-> third, mg |-> mg, me |-> Scale - ee, md |-> third,
       ee |-> ee, ed |-> third]

(* Case 2a: both are scarce, and all of D does not make up the difference. *)
Case2a(t) ==
  [gg |-> Scale, gd |-> IF t.E < t.G THEN 0 ELSE Scale, mg |-> 0, me |-> 0, md |-> 0,
   ee |-> Scale, ed |-> IF t.E < t.G THEN Scale ELSE 0]

(* Case 2b: both are scarce, and D is balanced between them.               *)
Case2b1(t) ==
  LET ed == Quot(Scale * (t.D - 2 * t.E + 4 * t.G - 2 * t.M), 3 * t.D)
      half == Quot(Scale - ed, 2)
  IN  [gg |-> Scale, gd |-> half, mg |-> 0, me |-> Quot(Scale * (t.G - t.M), t.E), md |-> half,
       ee |-> Quot(Scale * (t.E - t.G + t.M), t.E), ed |-> ed]

(* Case 2b2, or 2b3 if there is too much bandwidth at the middle position. *)
Case2b2(t) ==
  LET ed == ShareOfD(t, t.E, t.G, t.M)
      fair == ShareOfD(t, t.M, t.G, t.E)
      md == IF fair < 0 THEN 0 ELSE fair
  IN  [gg |-> Scale, gd |-> Scale - ed - md, mg |-> 0, me |-> 0, md |-> md,
       ee |-> Scale, ed |-> ed]

Case2b(t) == IF NoError(Case2b1(t), t) THEN Case2b1(t) ELSE Case2b2(t)

(* Case 3a: one is scarce, even with all of D.                             *)
Case3aBug(t) ==
  LET me == Quot(Scale * (t.E - t.M), 2 * t.E)
      mg == Quot(Scale * (t.G - t.M), 2 * t.G)
  IN  IF t.G < t.E
      THEN [gg |-> Scale, gd |-> Scale, mg |-> 0, me |-> me, md |-> 0,
            ee |-> Scale - me, ed |-> 0]
      ELSE [gg |-> Scale - mg, gd |-> 0, mg |-> mg, me |-> 0, md |-> 0,
            ee |-> Scale, ed |-> Scale]

Case3a(t) ==
  LET me == IF t.E < t.M THEN 0 ELSE Quot(Scale * (t.E - t.M), 2 * t.E)
      mg == IF t.G < t.M THEN 0 ELSE Quot(Scale * (t.G - t.M), 2 * t.G)
  IN  IF t.G < t.E
      THEN [gg |-> Scale, gd |-> Scale, mg |-> 0, me |-> me, md |-> 0,
            ee |-> Scale - me, ed |-> 0]
      ELSE [gg |-> Scale - mg, gd |-> 0, mg |-> mg, me |-> 0, md |-> 0,
            ee |-> Scale, ed |-> Scale]

(* Case 3b: one is scarce, and gets a part of D.                           *)
Case3b(t) ==
  LET gd == ShareOfD(t, t.G, t.E, t.M)
      ed == ShareOfD(t, t.E, t.G, t.M)
      ee == Quot(Scale * (t.E + t.M), 2 * t.E)
      gg == Quot(Scale * (t.G + t.M), 2 * t.G)
  IN  IF t.G < t.E
      THEN [gg |-> Scale, gd |-> gd, mg |-> 0, me |-> Scale - ee, md |-> Quot(Scale - gd, 2),
            ee |-> ee, ed |-> Quot(Scale - gd, 2)]
      ELSE [gg |-> gg, gd |-> Quot(Scale - ed, 2), mg |-> Scale - gg, me |-> 0,
            md |-> Quot(Scale - ed, 2), ee |-> Scale, ed |-> ed]

-----------------------------------------------------------------------------
Least(a, b) == IF a < b THEN a ELSE b

DMakesUp(t) == t.E + t.D >= t.G /\ t.G + t.D >= t.E

(* recompute_bw_weights panics: the weights of case 2b have an error.      *)
Panics(t) ==
  ExitsScarce(t) /\ GuardsScarce(t) /\ DMakesUp(t) /\ ~NoErrorButMid(Case2b(t), t)

(* recompute_bw_weights                                                    *)
Recompute(t) ==
  IF ~ExitsScarce(t) /\ ~GuardsScarce(t) THEN Case1(t)
  ELSE IF ExitsScarce(t) /\ GuardsScarce(t) THEN IF DMakesUp(t) THEN Case2b(t) ELSE Case2a(t)
  ELSE IF 3 * (Least(t.E, t.G) + t.D) < Sum(t) THEN Case3a(t)
  ELSE Case3b(t)

-----------------------------------------------------------------------------
(* No choice of weights can give every position more than Bottleneck / 6:  *)
(* guards have G and D, exits E and D, both together G, E and D, and the   *)
(* three positions share everything.                                       *)
Bottleneck(t) ==
  Least(Least(6 * (t.G + t.D), 6 * (t.E + t.D)), Least(3 * (t.G + t.E + t.D), 2 * Sum(t)))

(* All positions get what the bottleneck allows, up to the margin.         *)
Optimal(w, t) ==
  LET worst == Least(Least(GuardCapacity(w, t), ExitCapacity(w, t)), MiddleCapacity(w, t))
  IN  6 * worst >= Scale * Bottleneck(t) - 2 * Margin * Sum(t)
=============================================================================
