# TLA+ models of the agent-rag retriever

This directory holds TLA+ models of the agent-rag module
(`src/modules/agent-rag/`). It contains TLC configurations that model-check them
on small instances, and TLAPS proofs of the coordinator's safety properties.
`PROJECT.json` lists the components, runs, mutants, findings and hazards. Its
`map` names the source lines behind every definition.

## The system

agent-rag is a retrieval library over two Weaviate collections. One is a static
knowledge base; the other is the agent's conversation memory.

| Part | Source | What it does |
|---|---|---|
| Coordinator `AgentRAGRetriever` | `retriever/retriever.go` | Public methods under a `sync.RWMutex`: the searches, the inserts, pruning, `UpdateConfig`, `Close`, accessors. `SearchHybrid` runs both sub-searches in goroutines joined by a `WaitGroup`, applies an error policy, merges, and applies the query limit. |
| Fusion engine `ResultMerger` | `retriever/types.go:132-288` | Weighted or RRF fusion of the two result lists, keyed by object id, in a Go map, then `sort.Slice`. |
| Temporal decay `TemporalDecay` | `retriever/errors.go:36-113` | `score * max(m, exp(-ln2 * dt / H))`; `ApplyToResults` on a list. |
| `MergeConfig` | `retriever/types.go:29-91` | Weights, decay parameters, algorithm, RRF k; `Validate`; defaults. |
| Adapter `WeaviateClient` | `README.md:1122-1507` (the only copy of its code) | GraphQL over HTTP with a 30 s timeout and the caller's ctx; JSON parsing; REST inserts; batch delete. |
| Query builder | not in the repository (only `graphql/builder_test.go` and `GetResultPath` in `src/unnamed/part_002`) | Renders GraphQL queries. |
| Schema | `src/unnamed/part_001` | Static class definitions. |

How the parts interact:
- Every coordinator method takes `r.mu`.
- Readers take it with `RLock`: the searches, inserts, pruning, health check and accessors. Each checks `r.closed` first, except the accessors, then calls the adapter.
- `UpdateConfig` and `Close` take it with `Lock`.
- `UpdateConfig` validates the new config and stores it three times:
  - `r.config`;
  - `rm.config` and then `rm.temporalDecay`, inside `merger.SetConfig`;
  - `r.temporalDecay`.
- `SearchHybrid` reads `rm.config` to choose the algorithm and weights, and `rm.temporalDecay` to decay conversation hits. It does both with `r.mu` read-locked.

The behaviours that are hard to test, all listed as hazards in `PROJECT.json`, are:
- concurrent readers against a writer that waits for them;
- `Close` against searches in flight;
- ctx cancellation racing the two sub-searches;
- the partial-failure policy;
- the three separate config stores;
- Go's random map order at the end of each merge;
- numeric edges of the decay and RRF formulas.

## Modules

| Module | Models | Notes |
|---|---|---|
| `MergeConfig` | `MergeConfig`, `Validate`, `DefaultMergeConfig` | Floats in hundredths (`One == 100`). |
| `Retriever` | the coordinator with the adapter's call/return | The core. One process per caller. |
| `RetrieverProofs` | theorems about `Retriever` | Inductive invariant `IInv` and the proofs. |
| `AtomicRetriever` | the coordinator's promise (spec 4.E, section 5) | Abstract: a config cell, a closed flag, the callers at work, what each search fused with; every operation atomic. |
| `RetrieverRefinement` | proof that `Retriever` implements `AtomicRetriever` | Refinement mapping `Retriever!Atomic`. |
| `RetrieverAlias` | `Retriever` plus callers writing through the `*MergeConfig` pointer | `retriever.go:201-217`. |
| `MCRetriever` | TLC instance of `Retriever` and `RetrieverAlias` | Callers `c1..c3`; the default config, the integration test's `UpdateConfig` argument, the validation test's bad config. |
| `TemporalDecay` | `TemporalDecay.Apply` (`errors.go:51-72`) | Kept free of recursion so that TLAPS can reason about it; `DecayWithinFloor` is spec section 8, invariant 1. |
| `TemporalDecayProofs` | theorems about `Apply` | `DecayBounded`, `HalfLifePoints`, `FutureBoosted`. |
| `Fusion` | `ResultMerger`, `ApplyToResults`, `SearchHybrid`'s limit | Operators plus a small harness (`FSpec`) that invokes the merge twice on enumerated inputs. |
| `MCFusion` | TLC instance of `Fusion` | Also holds the spec's fusion (spec 4.A, 4.D), written from the spec's formulas, to compare outputs against. |
| `Adapter` | `WeaviateClient`'s response path (`README.md:1172-1208`, `1339-1456`) | One search on one decoded response: the `errors` check, the walk of `GetResultPath`, `parseSearchResults` / `parseConversationResults`, `extractSearchResult`. |
| `AdapterProofs` | theorems about `Adapter` | `ConversationRecordsRetained`, `WrongShapeIsSilent`. |
| `MCAdapter` | TLC instance of `Adapter` | Two ids, two scores, one RFC 3339 stamp and one that does not parse. |

### Retriever: state and actions

State, as VARIABLES:
- `r.mu` is two variables:
  - `rwWriter` is the goroutine that holds the writer mutex and has announced itself;
  - `rwReaders` is the set holding the read lock.
- `r.closed`, `r.config` and `r.temporalDecay` are `closed`, `config` and `decay`.
- `rm.config` and `rm.temporalDecay` are `mergerConfig` and `mergerDecay`. A `TemporalDecay` is identified with the config it was built from.
- Each caller has local state:
  - `pc`, the position in its method;
  - `op`, the method;
  - `arg`, `UpdateConfig`'s argument;
  - `sub`, the two goroutines of `SearchHybrid`;
  - `cancelled`, its ctx;
  - `early`, set when ctx fired while a sub-search was still running;
  - `seenCfg`, the `rm.config` that Merge read.

Actions:
- `CallRead` is `RLock`. It is granted unless a writer has announced itself; otherwise the caller blocks in `rlock`.
- `CallWrite` and `LockAnnounce` are `Lock`. The writer mutex is taken and the writer announced. `rwReaders = {}` in the guard of the writer's steps is its wait for the readers already inside.
- `WUnlock` is `Unlock`. It grants every reader that blocked, as Go's `RWMutex` does.
- Read side:
  - `RejectClosed` is the `if r.closed` early return;
  - `AdapterCall` and `AdapterReturn` are one adapter method: the closed check passed and the client call (`retriever.go:70-74`), then the return with the deferred `RUnlock`. `SearchConversation`'s `ApplyToResults` with `r.temporalDecay` (`retriever.go:96-97`) is part of the return step. It only reads the decay, and the results are abstracted away, so no variable records it; `ReadersSeeOneConfig` and `ReadLockedConfigStable` say which config that read sees;
  - `GetConfig` stands for the accessors, which check nothing.
- `SearchHybrid` is `FanOut`, then `SubReturn` for each goroutine, then one of:
  - `BothFailed`, the composite error;
  - `MergeReadConfig` then `MergeReadDecay`: a failed side becomes empty and Merge reads `rm.config` (`seenCfg`). Then Merge decays with `rm.temporalDecay`, the limit is applied and the method returns (`retriever.go:144-153`). That decay is a read, and `FusedWithOneConfig` relates it to `seenCfg`;
- `Cancel` is the caller's ctx firing. A sub-search still running then fails.
- `UpdateConfig` is one of:
  - `UpdateRejected`, when `Validate` fails;
  - `UpdateSetConfig` then `UpdateSetDecay`. The first stores `r.config` and `rm.config`; the second stores `rm.temporalDecay` and `r.temporalDecay` (`types.go:278-282`, `retriever.go:203-207`), returns, and runs the deferred `Unlock`.
- `Close` is one action.

Only the outcome of a method matters to the properties: success or failure, and which configs it used. The data the adapter moves is abstracted away.

### AtomicRetriever and the refinement

`AtomicRetriever` says what the coordinator promises with each operation one atomic step:
- `Begin(c)`: a method passes its closed check (only while not closed);
- `Fuse(c)`: a search fuses with the config published now;
- `End(c)`: the method returns;
- `Update(new)`: a validated config is published, only while no method is at work;
- `CloseCell`: the retriever closes, only while no method is at work.

`Retriever!Atomic` instantiates it with:
- `cell <- mergerDecay` (`rm.temporalDecay`, the last of `UpdateConfig`'s stores);
- `isClosed <- closed`;
- `inside <-` the callers whose `pc` is in `InFlight`;
- `fused <-` `seenCfg[c]` for a caller in `mergedecay`, else `NoConfig`.

Under it, `RLock`, a rejected call, a rejected update, `UpdateSetConfig`, a sub-search's return and ctx firing are stutters. `AdapterCall`/`FanOut` is `Begin`, `MergeReadConfig` is `Fuse`, the returns are `End`, `UpdateSetDecay` is `Update` and `Close` is `CloseCell`.

### Adapter: decoded JSON

A decoded JSON value is a record tagged with its Go dynamic type: `JMap`, `JList`, `JStr`, `JNum`. Each comma-ok type assertion is a test of the tag. `NavStep` is one iteration of the loop over the path; its two error returns give `NavError`. `Navigate` runs it once per key of `GetResultPath`, which always has two keys. It is written out rather than as a fold so that no proof depends on a RECURSIVE operator. `time.Parse(time.RFC3339, s)` succeeds exactly on the constant `ValidStamps`. The harness enumerates every response over:
- a `data` that lacks `Get`, lacks the collection, or holds there a string, an object or an array of up to two elements;
- elements that are a string or an object;
- `_additional` absent, a number, without `id`, or with a string `score`;
- a timestamp absent, a number, valid or unparseable.

Text, metadata and the GraphQL query are left out: no property reads them.

### Fusion: numbers

Ages are whole numbers of half-lives, so the decay factor is `2^-age`. Scores are integers:
- an input score `s` is `s * 100`;
- a weighted score is in units of `1 / Unit`, with `Unit = 100^3 * 2^MaxAge`;
- an RRF score is in units of `1 / (100 * prod_{r < MaxLen} (k + r))`.

All the arithmetic of the code is exact in these units for the inputs the models enumerate. `Merge` returns the set of lists the code can return, for two reasons:
- the map-to-slice loop iterates in Go's random order;
- `sort.Slice` on at most 12 elements is an insertion sort, so it is stable.

Together, every arrangement sorted by score is possible. RRF's re-sort of the decayed conversation list has a deterministic input order, and it is modelled as a stable sort.

## Runs

| Run | Config | Checks | Result |
|---|---|---|---|
| `retriever_safety` | 3 callers, caller symmetry | `TypeOK`, `NoWorkAfterClose`, `ReadersSeeOneConfig`, `IInv` | pass (36,554 states) |
| `retriever_live` | 2 callers, `FairSpec` | `MethodsReturn` | pass (4,778 states) |
| `retriever_cancel` | 2 callers | `CancellationSurfaced` | violation, a finding |
| `retriever_config` | 2 callers | `PublishedConfigMeetsSpec` | violation, a finding |
| `fusion_weighted` | ids {a,b,c}, up to 2 results per source, scores {0.5,1}, ages 0..2 half-lives or none, limits {0,1}, three weighted configs | `DecayBoundsHold`, `WeightedFusionMatchesSpec` | pass (163,122 states) |
| `fusion_rrf` | same inputs; RRF with k = 60 (scenario S5) and the alias `reciprocal_rank_fusion` with k = 1 and a floor | `RRFFusionMatchesSpec` | pass (174,348 states) |
| `fusion_determinism` | as `fusion_weighted` | `MergeDeterministic` | violation, a finding |
| `fusion_future` | as `fusion_weighted`, with a turn one half-life in the future | `FutureNotBoosted` | violation, a finding |
| `retriever_refinement` | 3 callers, no symmetry | `ReadLockedConfigStable`, `ImplementsAtomic` (`Retriever!Atomic!ASpec`) | pass (206,418 states) |
| `retriever_alias` | 2 callers, `AliasSpec` | `SearchConfigValid` | violation, a finding |
| `adapter_retained` | all responses above, both methods | `RecordsRetained` | pass (13,824 states) |
| `adapter_malformed` | as `adapter_retained` | `MalformedIsParseError` | violation, a finding |

What the violations show:
- `retriever_alias`: c1 starts `SearchHybrid`. c2, between methods, sets `StaticWeight` to 1.5 through the pointer `GetConfig` returned. c1 then merges with a config `Validate` rejects, and `r.temporalDecay` still holds the old decay fields (`retriever.go:216`).
- `adapter_malformed`: the response's `Get.<collection>` is an object rather than an array. The search returns no results and a nil error where the spec (4.C, section 7) asks for a parse error (`README.md:1369`). The same happens to array elements that are not objects; a record without `_additional.id` gets id `""`, so two such records fuse into one.

Each passing property has a mutant in `PROJECT.json`: a plausible bug in the mapped code that TLC catches. The mutants are:
- an `UpdateConfig` without `Validate` (breaks `TypeOK`);
- a `Close` that does not wait for readers (`NoWorkAfterClose`);
- an `UpdateConfig` that rebuilds `rm.temporalDecay` but not `r.temporalDecay` (`ReadersSeeOneConfig`);
- an `UpdateConfig` that does not wait for readers (`IInv`, and `ReadLockedConfigStable` in `retriever_refinement`);
- an `Apply` that does not raise the factor to the floor (`DecayBoundsHold`);
- `RLock` without writer preference (`MethodsReturn`);
- a conversation hit that overwrites instead of adding (`WeightedFusionMatchesSpec`);
- RRF without the re-sort after decay (`RRFFusionMatchesSpec`);
- a `SearchHybrid` that fans out without checking `r.closed` (`ImplementsAtomic`);
- a conversation search that drops records whose timestamp does not parse (`RecordsRetained`).

Why these bounds are enough:
- **Three callers** cover a writer waiting on a reader while a third caller blocks behind the writer. They also cover two writers in a row, and `Close` racing `UpdateConfig` and a search.
- **Two adapter methods** stand for all six. They differ only in what the adapter does with the data, and `SearchConversation` is the one that also reads `r.temporalDecay`.
- **Two results per source over three ids** produce every overlap case: an id in one source, in both, or in neither. They also produce ties within and across sources, reordering by decay, and truncation at a tie.
- **Ages of 0, 1 and 2 half-lives, plus no timestamp:**
  - age 0 is the undecayed case;
  - ages 1 and 2 are exact halvings;
  - the floor of 0.3 bites at age 2;
  - a missing timestamp is the nil-timestamp path.

## Fairness

`FairSpec` assumes two things:
- Weak fairness of each caller's `Step`. The Go scheduler runs every runnable goroutine, and every adapter call returns within the HTTP client's 30 s timeout (`README.md:1164`).
- Strong fairness of `LockAnnounce`. `sync.Mutex` enters starvation mode after 1 ms and then hands the mutex to the longest waiter, so a writer that keeps waiting for the writer mutex eventually gets it.

Callers are not required to call anything, and ctx need not fire.

## What is proved

`RetrieverProofs` proves the following for every set of callers and every set of configs satisfying `ConfigsAssumption` (the initial config valid; `NoCaller` and `NoConfig` distinct from real values):
- `InvariantHolds`: `Spec => []IInv`.
- `TypeCorrect`: `Spec => []TypeOK`. Every config ever stored passed `Validate`.
- `CloseSafe`: `Spec => []NoWorkAfterClose`.
- `FusionAtomic`: `Spec => FusedWithOneConfig`, an action property. No run checks it: `ImplementsAtomic` implies it, so any bug that breaks it breaks the refinement first.

`IInv` strengthens the two safety properties with what `r.mu` and `UpdateConfig`'s store order guarantee:
- `InFlightHoldRLock`: a method past its closed check holds the read lock.
- `WriterAnnounced`: a writer waiting for readers or storing configs is the announced writer, so there is at most one.
- `SetDecayExclusive`: between `UpdateConfig`'s stores, no one holds the read lock.
- `SeenIsMergerConfig`: a Merge in progress saw the current `rm.config`.
- `SetDecayArg` and `MergerPaired`: `rm.temporalDecay` lags `rm.config` only between those stores, and then it is about to receive it.
- `UpdateHasArg`.

Neither property is inductive alone:
- `NoWorkAfterClose` needs `InFlightHoldRLock` to show that `Close`'s wait for readers empties every in-flight state.
- `FusedWithOneConfig` needs all three config facts. A search between its two reads holds the read lock, so no `UpdateConfig` is between its stores, so `mergerDecay = mergerConfig = seenCfg`.

The proof of `IInv /\ [Next]_vars => IInv'` has one step per action. Three lemmas are shared:
- `ReadReturn` covers the five read-locked returns;
- `WriteReturn` covers the three write-locked returns;
- `ReturnTyped` covers the locals after `Return`.

TLC also checks `IInv` in `retriever_safety`.

`ReadersAgree` proves `Spec => []ReadersSeeOneConfig`: whoever holds the read lock sees one config in all four places the code keeps it. Those places are:
- `r.config`, which `GetConfig` returns;
- `r.temporalDecay`, which `SearchConversation` decays with;
- `rm.config` and `rm.temporalDecay`, which `SearchHybrid` fuses and decays with.

The proof adds two facts, `ConfigPaired` and `DecayPaired`: `UpdateConfig` stores `r.config` with `rm.config` in one step and the two decays in the next. `PairedStep` shows every step keeps them. From `IInv`, `SetDecayExclusive` says no reader holds the lock between the two stores, and `MergerPaired` then equates the pairs.

`DefaultValid` proves that `DefaultMergeConfig` passes `Validate`. `ConfigsAssumption` requires the initial config to be valid, and the code justifies this: `NewAgentRAGRetriever` validates its config (`retriever.go:31`) and takes the default for a nil one.

`AdapterProofs` proves two theorems for every set of ids, scores, timestamps and array length:
- `ConversationRecordsRetained`: `ASpec => []RecordsRetained`. A call that returned ok walked the whole path (`NavigateCases`), so it parsed the node at `Get.<collection>`. Its records are the objects of that array (`RecordsAreObjects`), and each timestamp is the RFC 3339 one or nil (`TimestampParsed`).
- `WrongShapeIsSilent`: `ASpec => []PathDecidesError`. For a response without GraphQL errors, the call fails exactly when the path is missing. A node there that is not an array gives ok with no results. This turns the `adapter_malformed` finding into a statement about every response. TLC also checked it on the `adapter_retained` instance before the proof.

Both rest on the invariant `Returned`: the response is one of `Responses`, and once the call has run, `out` is what the method returns on it.

`AtomicRetriever` proves `AtomicConsistent`: `ASpec => [](ATypeOK /\ AConsistent)`, given a valid initial config. `AConsistent` says a search that has fused still sees its config published, and nothing is at work once closed. It is inductive by itself.

`RetrieverRefinement` proves:
- `Refinement`: `Spec => ImplementsAtomic`.
- `Linearizable`: `Spec => []Atomic!AConsistent`, from the two theorems above.

`Refinement` takes the usual two steps. `Init` maps to `AInit`. `StepRefines` shows that from an `IInv` state every step of `Next` is an `ANext` step or a stutter of the mapped variables; it has one case per action. Four lemmas serve it:
- `AtomicStutter`: the mapped state does not change;
- `LocalStep`: a caller that is never at work;
- `BeginStep`;
- `EndStep`.

Three cases need `IInv`:
- `MergeReadConfig` is `Fuse` only if `rm.config = rm.temporalDecay` when Merge reads it. This follows from `InFlightHoldRLock`, `SetDecayExclusive` and `MergerPaired`.
- `UpdateSetDecay` is `Update` only if no method is at work (`InFlightHoldRLock` with the writer's wait) and the argument is valid (`SetDecayArg`).
- `Close` is `CloseCell` only if no method is at work (`InFlightHoldRLock`).

`RetrieverProofs` also proves `ReadersSeeStableConfig`: `Spec => ReadLockedConfigStable`, an action property that `retriever_refinement` checks. No step changes any of the four config fields while a goroutine holds the read lock. `ConfigStores` shows that only `UpdateSetConfig` and `UpdateSetDecay` change them. The first waits until `rwReaders = {}`. The second runs while the writer is still announced, and `SetDecayExclusive` in `IInv` says no reader holds the lock then. `ReadersAgree` speaks of one state; this theorem speaks of every step while the lock is held, so a read-locked method reads the same config from its closed check to its return.

`TemporalDecayProofs` proves three theorems about `TemporalDecay.Apply`, for every config `Validate` accepts and every integer score and age:
- `DecayBounded`: with decay enabled and age >= 0, `floor * score <= Apply <= score` (`DecayWithinFloor`, spec section 8, invariant 1). Lemma `FloorBranch` covers the clamped case. Lemma `FactorBranch` covers the unclamped one: there `m * 2^age <= One`, so `(x * m) \div One <= x \div 2^age`, by `DivBound` on integer division. `fusion_weighted` checks the same bound on its inputs as `DecayBoundsHold`.
- `HalfLifePoints`: with decay enabled and a floor of at most 1/4, the multiplier is 1, 1/2 and 1/4 at ages 0, 1 and 2 half-lives (spec section 8, invariant 2).
- `FutureBoosted`: with decay enabled and age < 0, `Apply` returns `score * 2^-age`, at least twice the score, whatever the floor. This turns the `fusion_future` finding into a statement about every input.

The provers evaluate `2^0`, `2^1` and `2^2`, but they know nothing of `2^n` for a variable `n`. The facts that hold for every `n` would need induction, and the library's induction theorems cannot be instantiated by the installed provers. So `DecayBounded` and `FutureBoosted` take `PowFacts` as a hypothesis: `2^n` is a positive integer and `2^(n+1) = 2 * 2^n`, for every natural `n`. These two facts of arithmetic are all the theorems assume beyond the model.

## What is only model-checked

These are beyond the prover and stay with TLC:
- **Liveness.** `MethodsReturn` depends on fairness and ENABLED.
- **`PowFacts` itself.** It is the hypothesis of the decay theorems, for the reason given above. TLC evaluates `2^n` exactly on every run.
- **What `SelectSeq` returns in general.** For example, that it keeps a list whose elements all pass. This is recursion over the list. So no theorem states what the adapter returns for a well-formed response, namely the ids and scores read back.
- **The Fusion module.** It uses `FoldLeft`, which reaches a RECURSIVE operator of the community modules. Induction over lists is out of the provers' reach in any case.

## What is not modelled, and why

- **The adapter's request side:** GraphQL text, HTTP headers and status, REST bodies, and the batch delete. These are byte conversions with no state. `PruneOldConversations` always returns 0 (`README.md:1505`), and no model is needed to see that.
- **JSON decoding itself.** `json.Unmarshal` is taken as given: `Adapter` starts from its result.
- **The query builder.** Its code is not in the repository.
- **The schema, error sentinels and tests.** They are constants and documentation.
- **`CalculateHalfLifeFromRetention`.** It is a float formula that nothing in the package calls.
- **Aliasing in `Retriever` itself.** `Retriever` passes configs by value. `RetrieverAlias` adds the writes through the pointer, and the refinement is stated of `Retriever` without them: with them it does not hold.
- **NaN weights.** `Validate` accepts NaN, but no integer can represent it.

## Plan for the next sittings

1. Compose `Retriever` with `Fusion` and `Adapter`: the config `SearchHybrid` fuses with comes from `seenCfg`, and the results come from parsed responses. This lets one run relate `UpdateConfig` to the outputs of concurrent searches (scenario S5 in full).
2. Model the query builder's escaping and rendering from the spec (spec-modelled, since its code is absent), with the escape round-trip property.
3. Prove more about `Fusion` once its folds are rewritten as recursive functions: that the output is a permutation of the fused ids, sorted.
