------------------------------ MODULE MCAdapter ------------------------------
(***************************************************************************)
(* Model-checking instance of Adapter: two ids, two scores, one timestamp *)
(* that parses and one that does not, arrays of up to two records.         *)
(***************************************************************************)
EXTENDS AdapterProofs, TLC

MCIds == {"obj-1", "obj-2"}
MCScores == {1, 2}
MCStamps == {"2024-05-01T10:00:00Z", "yesterday"}
MCValidStamps == {"2024-05-01T10:00:00Z"}
=============================================================================
