------------------------- MODULE TemporalDecayProofs -------------------------
(***************************************************************************)
(* Proofs about TemporalDecay.Apply for every config Validate accepts,     *)
(* every score and every age.                                              *)
(*                                                                         *)
(* The provers treat 2^n with a variable n as an unknown integer: they     *)
(* evaluate 2^0, 2^1, 2^2, but facts about 2^n for every n need induction, *)
(* which they cannot do.  The theorems about all ages therefore take the   *)
(* two facts of arithmetic they rest on, PowFacts, as a hypothesis.        *)
(***************************************************************************)
EXTENDS TemporalDecay, TLAPS

(* 2^n is a positive integer, and doubles from n to n + 1.                 *)
PowFacts ==
  \A n \in Nat : /\ 2^n \in Nat \ {0}
                 /\ 2^(n + 1) = 2 * 2^n

(* The floor a valid config gives is a weight of [0, 1].                   *)
LEMMA FloorRange ==
  ASSUME NEW cfg \in ConfigRecords, Validate(cfg)
  PROVE  cfg.minWeight \in 0..One
BY DEF ConfigRecords, Validate, One

(* Integer division by a positive divisor: q * d <= x iff q <= x \div d.   *)
LEMMA DivBound ==
  ASSUME NEW x \in Nat, NEW d \in Nat \ {0}, NEW q \in Int, q * d <= x
  PROVE  q <= x \div d
<1>1. x = d * (x \div d) + (x % d) /\ (x % d) \in 0..(d - 1)
  OBVIOUS
<1>2. SUFFICES ASSUME q > x \div d PROVE FALSE
  OBVIOUS
<1>3. q * d >= (x \div d) * d + d
  BY <1>2
<1>4. QED
  BY <1>1, <1>3

(* Below the floor: x * m \div One lies in [x * m \div One, x].             *)
LEMMA FloorBranch ==
  ASSUME NEW x \in Nat, NEW m \in 0..One
  PROVE  (x * m) \div One <= x
<1>1. x * m <= x * One
  BY DEF One
<1>2. ((x * m) \div One) * One <= x * One
  BY <1>1 DEF One
<1>3. QED
  BY <1>2 DEF One

(* Multiplying both sides of an inequality by a natural number.          *)
LEMMA MulMono ==
  ASSUME NEW a \in Int, NEW b \in Int, NEW p \in Nat, a <= b
  PROVE  a * p <= b * p
OBVIOUS

(* Above the floor (m * p <= One): x \div p lies in [x * m \div One, x].    *)
LEMMA FactorBranch ==
  ASSUME NEW x \in Nat, NEW m \in 0..One, NEW p \in Nat \ {0}, m * p <= One
  PROVE  /\ (x * m) \div One <= x \div p
         /\ x \div p <= x
<1> DEFINE q == (x * m) \div One
<1>1. q \in Nat /\ q * One <= x * m
  BY DEF One
<1> HIDE DEF q
<1>2. q * One * p <= x * m * p
  BY <1>1, MulMono DEF One
<1>3. x * m * p <= x * One
  BY DEF One
<1>4. q * p <= x
  BY <1>1, <1>2, <1>3 DEF One
<1>5. q <= x \div p
  BY <1>1, <1>4, DivBound
<1>6. x \div p <= x
  <2>1. (x \div p) * 1 <= (x \div p) * p
    BY DEF One
  <2>2. QED
    BY <2>1
<1>7. QED
  BY <1>5, <1>6 DEF q

(* Spec section 8, invariant 1, for TemporalDecay.Apply: a record dated no *)
(* later than now keeps, with decay enabled, between floor * score and     *)
(* score, whatever the config, the score and the age.                      *)
THEOREM DecayBounded ==
  ASSUME PowFacts,
         NEW cfg \in ConfigRecords, Validate(cfg),
         NEW x \in Nat, NEW age \in Int
  PROVE  DecayWithinFloor(cfg, x, age)
<1> DEFINE m == cfg.minWeight
           p == 2^age
<1> SUFFICES ASSUME cfg.decayEnabled, age \in Nat
             PROVE  /\ (x * m) \div One <= Apply(cfg, x, age)
                    /\ Apply(cfg, x, age) <= x
  BY DEF DecayWithinFloor, m
<1>1. m \in 0..One /\ p \in Nat \ {0}
  BY FloorRange DEF PowFacts
<1> HIDE DEF m, p
<1>2. CASE One < m * p
  <2>1. Apply(cfg, x, age) = (x * m) \div One
    BY <1>2 DEF Apply, FactorBelowFloor, m, p
  <2>2. (x * m) \div One <= x
    BY <1>1, FloorBranch
  <2>3. QED
    BY <1>1, <2>1, <2>2 DEF One
<1>3. CASE ~(One < m * p)
  <2>1. Apply(cfg, x, age) = x \div p
    BY <1>3 DEF Apply, FactorBelowFloor, m, p
  <2>2. m * p <= One
    BY <1>1, <1>3 DEF One
  <2>3. QED
    BY <1>1, <2>1, <2>2, FactorBranch DEF m
<1>4. QED
  BY <1>2, <1>3

(* Spec section 8, invariant 2, for TemporalDecay.Apply: with decay        *)
(* enabled the multiplier is 1 at age 0, 1/2 at one half-life and 1/4 at   *)
(* two, for every config whose floor lies at or below 1/4 (the default's   *)
(* is 0.01); the results are rounded down to the fixed-point unit.         *)
THEOREM HalfLifePoints ==
  ASSUME NEW cfg \in ConfigRecords, Validate(cfg), cfg.decayEnabled,
         4 * cfg.minWeight <= One,
         NEW x \in Nat
  PROVE  /\ Apply(cfg, x, 0) = x
         /\ Apply(cfg, x, 1) = x \div 2
         /\ Apply(cfg, x, 2) = x \div 4
<1>1. 2^0 = 1 /\ 2^1 = 2 /\ 2^2 = 4
  OBVIOUS
<1>2. cfg.minWeight \in 0..One
  BY FloorRange
<1>3. /\ ~FactorBelowFloor(cfg.minWeight, 0)
      /\ ~FactorBelowFloor(cfg.minWeight, 1)
      /\ ~FactorBelowFloor(cfg.minWeight, 2)
  BY <1>1, <1>2 DEF FactorBelowFloor, One
<1>4. x \div 1 = x
  OBVIOUS
<1>5. QED
  BY <1>1, <1>3, <1>4 DEF Apply

(* A conversation record dated after SearchHybrid's now (age < 0, as a     *)
(* skewed clock gives) is multiplied by 2^-age >= 2 with decay enabled:    *)
(* TemporalDecay.Apply clamps the factor from below only.  So the          *)
(* fusion_future violation is no corner of its instance: every enabled     *)
(* config doubles at least every positive score dated a half-life or more  *)
(* into the future, floor or not.                                          *)
THEOREM FutureBoosted ==
  ASSUME PowFacts,
         NEW cfg \in ConfigRecords, Validate(cfg), cfg.decayEnabled,
         NEW x \in Nat, NEW age \in Int, age < 0
  PROVE  /\ Apply(cfg, x, age) = x * 2^(-age)
         /\ Apply(cfg, x, age) >= 2 * x
<1> DEFINE n == -age - 1
           p == 2^(-age)
<1>1. n \in Nat /\ -age = n + 1
  OBVIOUS
<1>2. 2^n \in Nat \ {0} /\ p = 2 * 2^n
  BY <1>1 DEF PowFacts
<1> HIDE DEF p
<1>3. p \in Nat /\ p >= 2
  BY <1>2
<1>4. cfg.minWeight \in 0..One
  BY FloorRange
<1>5. ~FactorBelowFloor(cfg.minWeight, age)
  <2>1. One * p >= One
    BY <1>3 DEF One
  <2>2. FactorBelowFloor(cfg.minWeight, age) <=> One * p < cfg.minWeight
    BY DEF FactorBelowFloor, p
  <2>3. QED
    BY <1>3, <1>4, <2>1, <2>2 DEF One
<1>6. Apply(cfg, x, age) = x * p
  BY <1>5 DEF Apply, p
<1>7. x * p >= 2 * x
  BY <1>3
<1>8. QED
  BY <1>6, <1>7 DEF p

=============================================================================
