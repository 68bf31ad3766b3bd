------------------------------- MODULE Fusion -------------------------------
(***************************************************************************)
(* The fusion engine: ResultMerger (retriever/types.go) with the decay of  *)
(* module TemporalDecay (retriever/errors.go) and the limit SearchHybrid   *)
(* applies to the merged list (retriever/retriever.go).                   *)
(*                                                                         *)
(* Both are pure functions of their inputs, so they are operators here.   *)
(* Merge returns the SET of lists the Go code may return: the fused        *)
(* scores sit in a Go map whose iteration order is random, and the final   *)
(* sort.Slice reorders only what compares unequal.                         *)
(*                                                                         *)
(* Numbers are fixed-point integers, exact for the inputs of the models:   *)
(*  - an input score s of the code is the integer s * One;                 *)
(*  - a result's age (currentTime - Timestamp) is a whole number of        *)
(*    half-lives, so the decay factor exp(-ln2 * age) is 2^-age;           *)
(*  - a weighted or decayed score x is the integer x * Unit;               *)
(*  - an RRF score x is the integer x * RUnit(k).                          *)
(***************************************************************************)
EXTENDS TemporalDecay, Sequences, SequencesExt, FiniteSets

CONSTANTS
  Ids,          \* object ids (_additional.id)
  NoTimestamp,  \* model value: Timestamp == nil (absent or unparseable)
  MaxLen,       \* the longest result list of one source
  MaxAge,       \* the oldest conversation turn, in half-lives
  MinAge,       \* the newest one: < 0 when a turn is dated after now
  Scores,       \* the scores Weaviate returns, in 1/One
  Cfgs,         \* the MergeConfigs the merger may hold
  Limits        \* query.Limit values

ASSUME FusionAssumption ==
  /\ MaxLen \in Nat \ {0}
  /\ MaxAge \in Nat
  /\ MinAge \in -MaxAge..MaxAge
  /\ NoTimestamp \notin Int
  /\ Scores \subseteq 0..One
  /\ Cfgs \subseteq {c \in ConfigRecords : Validate(c)}
  /\ Limits \subseteq Nat

Unit == One * One * One * 2^MaxAge

(* SearchResult, restricted to what the merger reads.                      *)
Results(ages) == [id: Ids, score: Scores, age: ages \cup {NoTimestamp}]

(* TemporalDecay.Apply, FactorBelowFloor: module TemporalDecay.           *)

(* A score of the code (in 1/One) as a multiple of 1/Unit.                 *)
InUnit(s) == s * (Unit \div One)

(* TemporalDecay.ApplyToResults on conversation results: every one has     *)
(* Source == SourceConversation (parseConversationResults sets it).        *)
ApplyToResults(cfg, rs) ==
  [i \in DOMAIN rs |->
     [rs[i] EXCEPT !.score = IF rs[i].age = NoTimestamp THEN InUnit(@)
                             ELSE Apply(cfg, InUnit(@), rs[i].age)]]

(***************************************************************************)
(* The end of both merges: the map -> slice loop visits the ids in a       *)
(* random order and sort.Slice (insertion sort below 13 elements, so       *)
(* stable) orders by score descending.  Any arrangement sorted by score    *)
(* can come out.                                                           *)
(***************************************************************************)
SortedFromMap(scoreMap) ==
  { [i \in DOMAIN ids |-> [id |-> ids[i], score |-> scoreMap[ids[i]]]] :
      ids \in {s \in SetToSeqs(DOMAIN scoreMap) :
                 IsSorted(s, LAMBDA a, b : scoreMap[a] >= scoreMap[b])} }

EmptyMap == [i \in {} |-> 0]

(* Mutant: a conversation hit replaces the static score of the same id.   *)
AddScoreOverwrite(m, id, v) == (id :> v) @@ m

(* scoreMap[id] = v when id is new, scoreMap[id] += v when it is present.  *)
AddScore(m, id, v) ==
  IF id \in DOMAIN m THEN [m EXCEPT ![id] = @ + v] ELSE (id :> v) @@ m

(***************************************************************************)
(* mergeWeighted: the static loop sets scoreMap[id] = s * StaticWeight     *)
(* (a later duplicate overwrites), the conversation loop adds              *)
(* s * ConversationWeight, decayed when the result has a timestamp.        *)
(***************************************************************************)
WeightedScore(s, w) == s * w * (Unit \div (One * One))

ConvWeighted(cfg, r) ==
  IF r.age = NoTimestamp THEN WeightedScore(r.score, cfg.conversationWeight)
  ELSE Apply(cfg, WeightedScore(r.score, cfg.conversationWeight), r.age)

WeightedMap(cfg, static, conv) ==
  LET afterStatic == FoldLeft(LAMBDA m, r :
                       (r.id :> WeightedScore(r.score, cfg.staticWeight)) @@ m,
                       EmptyMap, static)
  IN  FoldLeft(LAMBDA m, r : AddScore(m, r.id, ConvWeighted(cfg, r)),
               afterStatic, conv)

mergeWeighted(cfg, static, conv) == SortedFromMap(WeightedMap(cfg, static, conv))

(***************************************************************************)
(* mergeRRF: the result at 0-based rank r scores w / (k + r).  The         *)
(* conversation list is first decayed and sorted by decayed score with     *)
(* sort.Slice, stable below 13 elements.  RUnit(k) makes every             *)
(* 1 / (k + r) with r < MaxLen an integer; k = 0 (1 / 0 = +Inf in Go) is   *)
(* outside the operators' range.                                           *)
(***************************************************************************)
RankProduct(k) == ProductSet({k + r : r \in 0..(MaxLen - 1)})

RUnit(k) == One * RankProduct(k)

RankScore(k, w, rank) == w * (RankProduct(k) \div (k + rank))

(* Mutant: the conversation list ranked in its input order, not re-sorted  *)
(* after decay.                                                            *)
StableSortSkipped(rs) == rs

StableSortDesc(rs) ==
  LET perm == CHOOSE p \in SetToSeqs(DOMAIN rs) :
                \A i, j \in DOMAIN p : i < j =>
                   \/ rs[p[i]].score > rs[p[j]].score
                   \/ rs[p[i]].score = rs[p[j]].score /\ p[i] < p[j]
  IN  [i \in DOMAIN rs |-> rs[perm[i]]]

RRFMap(cfg, static, conv) ==
  LET k == cfg.rrfK
      afterStatic == FoldLeftDomain(LAMBDA m, i :
                       (static[i].id :> RankScore(k, cfg.staticWeight, i - 1)) @@ m,
                       EmptyMap, static)
      ranked == StableSortDesc(ApplyToResults(cfg, conv))
  IN  FoldLeftDomain(LAMBDA m, i :
        AddScore(m, ranked[i].id, RankScore(k, cfg.conversationWeight, i - 1)),
        afterStatic, ranked)

mergeRRF(cfg, static, conv) == SortedFromMap(RRFMap(cfg, static, conv))

(* ResultMerger.Merge: the algorithm switch.                               *)
Merge(cfg, static, conv) ==
  IF cfg.algorithm \in {"rrf", "reciprocal_rank_fusion"}
  THEN mergeRRF(cfg, static, conv)
  ELSE mergeWeighted(cfg, static, conv)

(* SearchHybrid's limit: keep the first Limit results when Limit > 0.      *)
ApplyLimit(rs, limit) ==
  IF limit > 0 /\ Len(rs) > limit THEN SubSeq(rs, 1, limit) ELSE rs

(* The lists SearchHybrid may return once both sub-searches are back.      *)
HybridOutputs(cfg, static, conv, limit) ==
  {ApplyLimit(rs, limit) : rs \in Merge(cfg, static, conv)}

-----------------------------------------------------------------------------
(***************************************************************************)
(* SearchHybrid from wg.Wait() on: the merge and the limit, invoked again  *)
(* and again on the same inputs.  Init takes the two result lists the      *)
(* sub-searches can return (a failed one is the empty list): ids unique    *)
(* within a collection, in Weaviate's ranking order (score descending);    *)
(* static results carry no timestamp.  mergerCfg is rm.config, outs what  *)
(* each invocation returned.                                               *)
(***************************************************************************)
VARIABLES staticResults, convResults, mergerCfg, queryLimit, outs

fvars == <<staticResults, convResults, mergerCfg, queryLimit, outs>>

MaxInvocations == 2

RankedLists(ages) ==
  { rs \in UNION {[1..n -> Results(ages)] : n \in 0..MaxLen} :
      /\ \A i, j \in DOMAIN rs : i # j => rs[i].id # rs[j].id
      /\ IsSorted(rs, LAMBDA x, y : x.score >= y.score) }

StaticInputs == RankedLists({})
ConvInputs == RankedLists(MinAge..MaxAge)

FInit ==
  /\ staticResults \in StaticInputs
  /\ convResults \in ConvInputs
  /\ mergerCfg \in Cfgs
  /\ queryLimit \in Limits
  /\ outs = << >>

(* One call: Merge, then the limit (retriever.go after wg.Wait()).         *)
Invoke ==
  /\ Len(outs) < MaxInvocations
  /\ \E rs \in HybridOutputs(mergerCfg, staticResults, convResults, queryLimit) :
        outs' = Append(outs, rs)
  /\ UNCHANGED <<staticResults, convResults, mergerCfg, queryLimit>>

FNext == Invoke

FSpec == FInit /\ [][FNext]_fvars

=============================================================================
