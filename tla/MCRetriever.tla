----------------------------- MODULE MCRetriever -----------------------------
(***************************************************************************)
(* Model-checking instance of Retriever: a few callers and the configs of  *)
(* the repository's defaults and tests.                                    *)
(***************************************************************************)
EXTENDS RetrieverProofs, RetrieverAlias, TLC

CONSTANTS c1, c2, c3

MCCallers == {c1, c2}
MCCallers3 == {c1, c2, c3}

(* The config TestAgentRAGRetriever_ConfigUpdate passes to UpdateConfig:   *)
(* MinTemporalWeight and RRFK left at zero.                                *)
CfgTestUpdate == [staticWeight |-> 70, conversationWeight |-> 30,
                  decayEnabled |-> TRUE, halfLife |-> 60, minWeight |-> 0,
                  algorithm |-> "rrf", rrfK |-> 0]
(* The "weight > 1" config of TestResultMerger_ConfigValidation.           *)
CfgBadWeight == [staticWeight |-> 150, conversationWeight |-> 0,
                 decayEnabled |-> FALSE, halfLife |-> 0, minWeight |-> 0,
                 algorithm |-> "", rrfK |-> 0]

MCConfigs == {DefaultMergeConfig, CfgTestUpdate, CfgBadWeight}
MCInitConfig == DefaultMergeConfig

(* One plain adapter method and the one that also reads r.temporalDecay.   *)
MCAdapterOps == {"SearchConversation", "AddConversationTurn"}

CallerSymmetry == Permutations(MCCallers3)
=============================================================================
