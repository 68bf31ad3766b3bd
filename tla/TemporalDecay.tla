---------------------------- MODULE TemporalDecay ----------------------------
(***************************************************************************)
(* TemporalDecay.Apply (retriever/errors.go), the per-record multiplier   *)
(* the fusion engine (module Fusion) and SearchConversation apply to       *)
(* conversation scores.  It is kept apart from Fusion, which folds over    *)
(* lists, so that it can be reasoned about for every input.                *)
(*                                                                         *)
(* A score x is a fixed-point integer; a result's age (currentTime -       *)
(* Timestamp) is a whole number of half-lives, so the factor               *)
(* exp(-ln2 * age) is 2^-age, and minWeight is a multiple of 1/One.        *)
(***************************************************************************)
EXTENDS MergeConfig

(***************************************************************************)
(* decayFactor < minWeight compares 2^-age with minWeight / One.  Nothing  *)
(* bounds the factor above: a timestamp after currentTime (age < 0) gives  *)
(* exp of a positive number.                                               *)
(***************************************************************************)
FactorBelowFloor(m, age) ==
  IF age >= 0 THEN One < m * 2^age ELSE One * 2^(-age) < m

(* Mutant: the decay factor is not raised to minWeight.                    *)
ApplyNoFloor(cfg, x, age) ==
  IF ~cfg.decayEnabled THEN x
  ELSE IF age >= 0 THEN x \div 2^age
  ELSE x * 2^(-age)

(* Apply: score unchanged when disabled, else score * max(factor, floor).  *)
Apply(cfg, x, age) ==
  IF ~cfg.decayEnabled THEN x
  ELSE IF FactorBelowFloor(cfg.minWeight, age) THEN (x * cfg.minWeight) \div One
  ELSE IF age >= 0 THEN x \div 2^age
  ELSE x * 2^(-age)

(* Spec section 8, invariant 1: for every score and timestamp no later    *)
(* than now, and an enabled decay with floor m, m * score <= decay(score)  *)
(* <= score: Apply never raises a past record and never pushes it below    *)
(* the floor.                                                              *)
DecayWithinFloor(cfg, x, age) ==
  cfg.decayEnabled /\ age \in Nat =>
    /\ (x * cfg.minWeight) \div One <= Apply(cfg, x, age)
    /\ Apply(cfg, x, age) <= x

=============================================================================
