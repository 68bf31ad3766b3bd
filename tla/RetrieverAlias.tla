------------------------------ MODULE RetrieverAlias ------------------------------
(***************************************************************************)
(* The coordinator with the callers' own writes to the live *MergeConfig.  *)
(*                                                                         *)
(* UpdateConfig stores the caller's pointer itself in r.config and, by     *)
(* SetConfig, in rm.config (retriever.go:201-202, types.go:276); GetConfig *)
(* hands r.config back to any caller (retriever.go:216).  Only            *)
(* r.temporalDecay and rm.temporalDecay are copies of its fields.  So any  *)
(* goroutine of the program that got the pointer, from GetConfig or by     *)
(* building the config it passed, writes the fields searches read, with   *)
(* no lock and no Validate.                                               *)
(***************************************************************************)
EXTENDS Retriever

(* A caller between methods writes one field of the live config through   *)
(* its pointer: r.config and rm.config are the same record, the decay      *)
(* parameters built from it stay as they were.                             *)
MutateConfig(c) ==
  /\ pc[c] = "idle"
  /\ \E f \in DOMAIN config, d \in Configs :
       /\ config' = [config EXCEPT ![f] = d[f]]
       /\ mergerConfig' = [mergerConfig EXCEPT ![f] = d[f]]
  /\ UNCHANGED <<rwWriter, rwReaders, closed, decay, mergerDecay, pc,
                 localVars>>

AliasNext == Next \/ \E c \in Callers : MutateConfig(c)

AliasSpec == Init /\ [][AliasNext]_vars

(* Config errors are raised on every update and prevent the change from    *)
(* taking effect (spec section 7): a search fuses only with a config that  *)
(* passed Validate.  Merge reads rm.config, which GetConfig's callers can  *)
(* write.                                                                  *)
SearchConfigValid ==
  \A c \in Callers : pc[c] = "mergedecay" => Validate(seenCfg[c])

=============================================================================
