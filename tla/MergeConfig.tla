---------------------------- MODULE MergeConfig -----------------------------
(***************************************************************************)
(* MergeConfig and its Validate method (retriever/types.go), shared by the *)
(* coordinator (Retriever) and the fusion engine (Fusion).                 *)
(*                                                                         *)
(* The float fields are fixed-point: a weight or floor w of the code is    *)
(* the integer w * One.  HalfLifeMinutes is kept only for its sign: the    *)
(* fusion engine measures ages in half-lives.                              *)
(***************************************************************************)
EXTENDS Integers

One == 100

ConfigRecords ==
  [staticWeight: Int, conversationWeight: Int, decayEnabled: BOOLEAN,
   halfLife: Int, minWeight: Int, algorithm: STRING, rrfK: Int]

(* Validate: weights and the floor in [0,1] and a positive half-life.      *)
(* Nothing is checked of Algorithm or RRFK.                                *)
Validate(c) ==
  /\ 0 <= c.staticWeight /\ c.staticWeight <= One
  /\ 0 <= c.conversationWeight /\ c.conversationWeight <= One
  /\ c.halfLife > 0
  /\ 0 <= c.minWeight /\ c.minWeight <= One

(* DefaultMergeConfig.                                                     *)
DefaultMergeConfig ==
  [staticWeight |-> 60, conversationWeight |-> 40, decayEnabled |-> TRUE,
   halfLife |-> 30, minWeight |-> 1, algorithm |-> "weighted", rrfK |-> 60]

=============================================================================
