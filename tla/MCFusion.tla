------------------------------ MODULE MCFusion ------------------------------
(***************************************************************************)
(* Model-checking instance of Fusion, and the fusion the specification     *)
(* describes (spec 4.A, 4.D), written from the specification's formulas    *)
(* to compare the merger's outputs with.                                   *)
(***************************************************************************)
EXTENDS Fusion, TLC

CONSTANTS a, b, c

MCIds == {a, b, c}

(* DefaultMergeConfig with a floor of 0.3, reached by a turn two           *)
(* half-lives old (0.25 < 0.3).                                            *)
CfgFloor == [DefaultMergeConfig EXCEPT !.minWeight = 30]
CfgNoDecay == [DefaultMergeConfig EXCEPT !.decayEnabled = FALSE]
(* The rrf@(0.5,0.5) config of scenario S5, and the algorithm's alias      *)
(* with k = 1 and a floor.                                                 *)
CfgRRF == [DefaultMergeConfig EXCEPT !.algorithm = "rrf",
             !.staticWeight = 50, !.conversationWeight = 50]
CfgRRFAlias == [CfgRRF EXCEPT !.algorithm = "reciprocal_rank_fusion",
                  !.rrfK = 1, !.minWeight = 30]

(* A conversation turn dated one half-life after SearchHybrid's now.       *)
MCFutureAge == -1

MCWeightedCfgs == {DefaultMergeConfig, CfgFloor, CfgNoDecay}
MCRRFCfgs == {CfgRRF, CfgRRFAlias}

-----------------------------------------------------------------------------
(***************************************************************************)
(* The specification's fusion.                                             *)
(***************************************************************************)
RecordsOf(rs) == {rs[i] : i \in DOMAIN rs}
InputIds == {r.id : r \in RecordsOf(staticResults) \cup RecordsOf(convResults)}

(* decay(x) = x * max(m, exp(-ln2 * age)), clamped to 1 for a future      *)
(* timestamp (spec 4.A).  x is in Unit, a multiple of One * 2^MaxAge.      *)
SpecDecay(x, age) ==
  CASE ~mergerCfg.decayEnabled                  -> x
    [] age <= 0                                 -> x
    [] 2^age * mergerCfg.minWeight > One        -> (x * mergerCfg.minWeight) \div One
    [] OTHER                                    -> x \div 2^age

(* score * w in Unit.                                                      *)
SpecProduct(s, w) == s * w * One * 2^MaxAge

(* Weighted mode: the sum over both lists of the records' contributions.  *)
SpecWeightedContribution(r, w) ==
  IF r.age = NoTimestamp THEN SpecProduct(r.score, w)
  ELSE SpecDecay(SpecProduct(r.score, w), r.age)

SpecWeighted(id) ==
  MapThenSumSet(LAMBDA r : SpecProduct(r.score, mergerCfg.staticWeight),
                {r \in RecordsOf(staticResults) : r.id = id})
  + MapThenSumSet(LAMBDA r : SpecWeightedContribution(r, mergerCfg.conversationWeight),
                  {r \in RecordsOf(convResults) : r.id = id})

(* The same sum with every decay multiplier taken as 1.                    *)
SpecUndecayed(id) ==
  MapThenSumSet(LAMBDA r : SpecProduct(r.score, mergerCfg.staticWeight),
                {r \in RecordsOf(staticResults) : r.id = id})
  + MapThenSumSet(LAMBDA r : SpecProduct(r.score, mergerCfg.conversationWeight),
                  {r \in RecordsOf(convResults) : r.id = id})

(* RRF mode: w / (k + rank) in RUnit(k); the conversation list ranked by   *)
(* decayed score, in any order among equal ones.                           *)
SpecRank(w, rank) == (w * RUnit(mergerCfg.rrfK)) \div (One * (mergerCfg.rrfK + rank))

SpecDecayed(r) ==
  IF r.age = NoTimestamp THEN SpecProduct(r.score, One)
  ELSE SpecDecay(SpecProduct(r.score, One), r.age)

ConvRankings ==
  {p \in SetToSeqs(RecordsOf(convResults)) :
     IsSorted(p, LAMBDA x, y : SpecDecayed(x) >= SpecDecayed(y))}

SpecRRF(p, id) ==
  MapThenSumSet(LAMBDA i : SpecRank(mergerCfg.staticWeight, i - 1),
                {i \in DOMAIN staticResults : staticResults[i].id = id})
  + MapThenSumSet(LAMBDA i : SpecRank(mergerCfg.conversationWeight, i - 1),
                  {i \in DOMAIN p : p[i].id = id})

(* out is the top-L of the fused ids, sorted strictly by score (spec 4.D, *)
(* Truncation).                                                            *)
IsTopL(out, Score(_)) ==
  LET outIds == {out[i].id : i \in DOMAIN out}
  IN  /\ Len(out) = IF queryLimit > 0 THEN Min({queryLimit, Cardinality(InputIds)})
                    ELSE Cardinality(InputIds)
      /\ Cardinality(outIds) = Len(out)
      /\ outIds \subseteq InputIds
      /\ \A i \in DOMAIN out : out[i].score = Score(out[i].id)
      /\ IsSorted(out, LAMBDA x, y : x.score >= y.score)
      /\ \A i \in DOMAIN out, id \in InputIds \ outIds : out[i].score >= Score(id)

-----------------------------------------------------------------------------
(***************************************************************************)
(* Properties.                                                             *)
(***************************************************************************)

(* In weighted mode SearchHybrid returns the top-L ids by the spec's       *)
(* fused score: static and conversation contributions summed per id, the  *)
(* conversation ones decayed, the floor applied (mergeWeighted, Apply,     *)
(* the limit in SearchHybrid).                                             *)
WeightedFusionMatchesSpec ==
  mergerCfg.algorithm = "weighted" =>
    \A i \in DOMAIN outs : IsTopL(outs[i], SpecWeighted)

(* In RRF mode SearchHybrid returns the top-L ids by the spec's summed     *)
(* w / (k + rank), the conversation ranks taken after decay and re-sort    *)
(* (mergeRRF, ApplyToResults, the limit in SearchHybrid).                  *)
RRFFusionMatchesSpec ==
  mergerCfg.algorithm \in {"rrf", "reciprocal_rank_fusion"} =>
    \A i \in DOMAIN outs :
      \E p \in ConvRankings : IsTopL(outs[i], LAMBDA id : SpecRRF(p, id))

(* Every past-dated conversation result the merger may be handed keeps,   *)
(* after TemporalDecay.Apply, between floor * score and score (spec        *)
(* section 8, invariant 1), for every config the merger may hold.          *)
DecayBoundsHold ==
  \A i \in DOMAIN convResults :
    DecayWithinFloor(mergerCfg, InUnit(convResults[i].score), convResults[i].age)

(* Two SearchHybrid calls on equal inputs return the same list (spec 4.D:  *)
(* tie-break deterministic given the input order; 4.B: determinism).  The  *)
(* merger builds its output by ranging over a Go map.                      *)
MergeDeterministic ==
  \A i, j \in DOMAIN outs : outs[i] = outs[j]

(* A conversation turn never scores above its undecayed weighted score:    *)
(* the multiplier of a future-dated turn is clamped to 1 (spec 4.A).       *)
(* TemporalDecay.Apply computes exp(-ln2 * dt / H) for any dt.             *)
FutureNotBoosted ==
  mergerCfg.algorithm = "weighted" =>
    \A i \in DOMAIN outs : \A j \in DOMAIN outs[i] :
      outs[i][j].score <= SpecUndecayed(outs[i][j].id)

=============================================================================
