--------------------------- MODULE RetrieverProofs ---------------------------
(***************************************************************************)
(* Proofs about Retriever, for every set of callers and configs: the       *)
(* type invariant, NoWorkAfterClose and FusedWithOneConfig.                *)
(***************************************************************************)
EXTENDS Retriever, TLAPS

(***************************************************************************)
(* The inductive invariant.  What r.mu guarantees is stated of the model's *)
(* lock variables, and the two config fields the merger keeps are related  *)
(* to the UpdateConfig that may be between its two stores.                 *)
(***************************************************************************)

(* A method past its closed check holds the read lock.                     *)
InFlightHoldRLock ==
  \A c \in Callers : pc[c] \in InFlight => c \in rwReaders

(* Only the announced writer is waiting for readers or storing a config.   *)
WriterAnnounced ==
  \A c \in Callers : pc[c] \in {"wwait", "setdecay"} => rwWriter = c

(* While UpdateConfig stores the config, nobody holds the read lock.       *)
SetDecayExclusive ==
  \A c \in Callers : pc[c] = "setdecay" => rwReaders = {}

(* Merge's rm.config read is still rm.config while it decays.              *)
SeenIsMergerConfig ==
  \A c \in Callers : pc[c] = "mergedecay" => seenCfg[c] = mergerConfig

(* An UpdateConfig between SetConfig's two stores stored its argument, and *)
(* only then can rm.temporalDecay lag behind rm.config.                    *)
SetDecayArg ==
  \A c \in Callers : pc[c] = "setdecay" => arg[c] = mergerConfig
MergerPaired ==
  mergerDecay = mergerConfig \/ \E c \in Callers : pc[c] = "setdecay"

(* UpdateConfig's argument is one of the configs callers pass.            *)
UpdateHasArg ==
  \A c \in Callers : op[c] = "UpdateConfig" => arg[c] \in Configs

IInv ==
  /\ TypeOK
  /\ UpdateHasArg
  /\ InFlightHoldRLock
  /\ WriterAnnounced
  /\ SetDecayExclusive
  /\ SeenIsMergerConfig
  /\ SetDecayArg
  /\ MergerPaired
  /\ NoWorkAfterClose

-----------------------------------------------------------------------------
(* A returning method leaves its caller's locals well-typed.               *)
LEMMA ReturnTyped ==
  ASSUME TypeOK, NEW c \in Callers, Return(c)
  PROVE  /\ pc' \in [Callers -> PcStates]
         /\ op' \in [Callers -> Ops \cup {"none"}]
         /\ arg' \in [Callers -> Configs \cup {NoConfig}]
         /\ sub' \in [Callers -> [Sources -> SubStates]]
         /\ cancelled' \in [Callers -> BOOLEAN]
         /\ early' \in [Callers -> BOOLEAN]
         /\ seenCfg' \in [Callers -> Configs \cup {NoConfig}]
         /\ pc'[c] = "idle" /\ op'[c] = "none"
         /\ \A d \in Callers \ {c} : /\ pc'[d] = pc[d] /\ op'[d] = op[d]
                                    /\ arg'[d] = arg[d]
                                    /\ seenCfg'[d] = seenCfg[d]
BY DEF TypeOK, Return, PcStates, SubStates, IdleSub

(* A read-locked method returns: its caller leaves the readers, nothing    *)
(* else of r.mu, r.closed or the configs changes.  No UpdateConfig can be  *)
(* between its two stores while a reader holds the lock.                   *)
LEMMA ReadReturn ==
  ASSUME IInv, NEW c \in Callers, c \in rwReaders, RUnlock(c), Return(c),
         UNCHANGED <<rwWriter, closed, cfgVars>>
  PROVE  IInv'
<1> USE DEF IInv
<1>1. /\ pc' \in [Callers -> PcStates]
      /\ pc'[c] = "idle" /\ op'[c] = "none"
      /\ \A d \in Callers \ {c} : /\ pc'[d] = pc[d] /\ op'[d] = op[d]
                                 /\ arg'[d] = arg[d]
                                 /\ seenCfg'[d] = seenCfg[d]
  BY ReturnTyped
<1>2. TypeOK'
  BY ReturnTyped DEF TypeOK, RUnlock, cfgVars
<1>3. InFlightHoldRLock'
  BY <1>1 DEF InFlightHoldRLock, RUnlock, InFlight
<1>4. WriterAnnounced'
  BY <1>1 DEF WriterAnnounced
<1>5. SetDecayExclusive'
  BY <1>1 DEF SetDecayExclusive, RUnlock
<1>6. SeenIsMergerConfig'
  BY <1>1 DEF SeenIsMergerConfig, cfgVars
<1>7. SetDecayArg'
  BY <1>1 DEF SetDecayArg, cfgVars
<1>8. MergerPaired'
  <2>1. CASE mergerDecay = mergerConfig
    BY <2>1 DEF MergerPaired, cfgVars
  <2>2. CASE \E d \in Callers : pc[d] = "setdecay"
    <3>1. PICK d \in Callers : pc[d] = "setdecay"
      BY <2>2
    <3>2. rwReaders = {}
      BY <3>1 DEF SetDecayExclusive
    <3>3. QED
      BY <3>2
  <2>3. QED
    BY <2>1, <2>2 DEF MergerPaired
<1>9. NoWorkAfterClose'
  BY <1>1 DEF NoWorkAfterClose, InFlight
<1>10. UpdateHasArg'
  BY <1>1 DEF UpdateHasArg
<1>11. QED
  BY <1>2, <1>3, <1>4, <1>5, <1>6, <1>7, <1>8, <1>9, <1>10

(* A write-locked method returns once the readers have left: it releases  *)
(* r.mu, and the stores it made leave rm.temporalDecay paired with         *)
(* rm.config.  Every other caller is idle or waiting for a lock.           *)
LEMMA WriteReturn ==
  ASSUME IInv, NEW c \in Callers, pc[c] \in {"wwait", "setdecay"},
         rwReaders = {}, WUnlock, Return(c), closed' \in BOOLEAN,
         UNCHANGED <<config, mergerConfig>>,
         {decay', mergerDecay'} \subseteq ValidConfigs,
         mergerDecay' = mergerConfig
  PROVE  IInv'
<1> USE DEF IInv
<1>1. /\ pc' \in [Callers -> PcStates]
      /\ pc'[c] = "idle" /\ op'[c] = "none"
      /\ \A d \in Callers \ {c} : pc'[d] = pc[d] /\ op'[d] = op[d]
                                 /\ arg'[d] = arg[d]
  BY ReturnTyped
<1>2. \A d \in Callers : pc'[d] \notin InFlight \cup {"wwait", "setdecay"}
  <2>1. SUFFICES ASSUME NEW d \in Callers \ {c},
                        pc[d] \in InFlight \cup {"wwait", "setdecay"}
                 PROVE  FALSE
    BY <1>1 DEF InFlight
  <2>2. CASE pc[d] \in InFlight
    BY <2>2 DEF InFlightHoldRLock
  <2>3. CASE pc[d] \in {"wwait", "setdecay"}
    BY <2>3 DEF WriterAnnounced
  <2>4. QED
    BY <2>1, <2>2, <2>3
<1>3. TypeOK'
  BY ReturnTyped DEF TypeOK, WUnlock, ValidConfigs
<1>4. UpdateHasArg'
  BY <1>1 DEF UpdateHasArg
<1>5. QED
  BY <1>1, <1>2, <1>3, <1>4 DEF InFlightHoldRLock, WriterAnnounced, SetDecayExclusive,
     SeenIsMergerConfig, SetDecayArg, MergerPaired, NoWorkAfterClose, InFlight

(* While a writer waits for the readers, no UpdateConfig is between its  *)
(* two stores, so rm.temporalDecay matches rm.config.                      *)
LEMMA WriterSeesPaired ==
  ASSUME IInv, NEW c \in Callers, pc[c] = "wwait"
  PROVE  mergerDecay = mergerConfig
<1>1. \A d \in Callers : pc[d] # "setdecay"
  BY DEF IInv, WriterAnnounced
<1>2. QED
  BY <1>1 DEF IInv, MergerPaired

-----------------------------------------------------------------------------
(* The initial state: everyone idle, no lock held, every config InitConfig.*)
LEMMA InitIInv == Init => IInv
<1> SUFFICES ASSUME Init PROVE IInv
  OBVIOUS
<1>1. TypeOK
  BY ConfigsAssumption
     DEF Init, TypeOK, ValidConfigs, IdleSub, SubStates, PcStates, Ops
<1>2. QED
  BY <1>1 DEF Init, IInv, UpdateHasArg, InFlightHoldRLock, WriterAnnounced,
     SetDecayExclusive, SeenIsMergerConfig, SetDecayArg, MergerPaired,
     NoWorkAfterClose, InFlight

(* Every step of Next keeps IInv: one step per action.                     *)
LEMMA NextIInv == IInv /\ [Next]_vars => IInv'
<1> SUFFICES ASSUME IInv, [Next]_vars PROVE IInv'
  OBVIOUS
<1> USE DEF IInv
<1>1. CASE UNCHANGED vars
  BY <1>1 DEF vars, TypeOK, UpdateHasArg, InFlightHoldRLock, WriterAnnounced,
     SetDecayExclusive, SeenIsMergerConfig, SetDecayArg, MergerPaired,
     NoWorkAfterClose
<1>2. ASSUME NEW c \in Callers, NEW o \in ReadOps, CallRead(c, o) PROVE IInv'
  <2>1. rwReaders' \subseteq rwReaders \cup {c} /\ pc'[c] = "rlock"
        /\ \A d \in Callers \ {c} : pc'[d] = pc[d]
    BY <1>2 DEF CallRead, TypeOK
  <2>2. (\E d \in Callers : pc[d] = "setdecay") => rwReaders' = rwReaders
    BY <1>2, ConfigsAssumption DEF CallRead, WriterAnnounced
  <2>3. TypeOK'
    BY <1>2 DEF CallRead, TypeOK, PcStates, Ops, cfgVars
  <2>4. UpdateHasArg'
    BY <1>2 DEF CallRead, UpdateHasArg, ReadOps, AdapterOps, TypeOK
  <2>5. InFlightHoldRLock' /\ WriterAnnounced' /\ NoWorkAfterClose'
    BY <1>2, <2>1 DEF CallRead, InFlightHoldRLock, WriterAnnounced,
       NoWorkAfterClose, InFlight
  <2>6. SetDecayExclusive'
    BY <2>1, <2>2 DEF SetDecayExclusive
  <2>7. SeenIsMergerConfig' /\ SetDecayArg' /\ MergerPaired'
    BY <1>2, <2>1 DEF CallRead, cfgVars, SeenIsMergerConfig, SetDecayArg,
       MergerPaired
  <2>8. QED
    BY <2>3, <2>4, <2>5, <2>6, <2>7
<1>3. ASSUME NEW c \in Callers, NEW o \in WriteOps, CallWrite(c, o) PROVE IInv'
  BY <1>3 DEF CallWrite, TypeOK, PcStates, Ops, cfgVars, UpdateHasArg,
     InFlightHoldRLock, WriterAnnounced, SetDecayExclusive, SeenIsMergerConfig,
     SetDecayArg, MergerPaired, NoWorkAfterClose, InFlight
<1>4. ASSUME NEW c \in Callers, LockAnnounce(c) PROVE IInv'
  <2>1. \A d \in Callers : pc[d] \notin {"wwait", "setdecay"}
    BY <1>4, ConfigsAssumption DEF LockAnnounce, WriterAnnounced
  <2>2. TypeOK'
    BY <1>4 DEF LockAnnounce, TypeOK, PcStates, cfgVars, localVars
  <2>3. QED
    BY <1>4, <2>1, <2>2 DEF LockAnnounce, cfgVars, localVars, TypeOK,
       UpdateHasArg, InFlightHoldRLock, WriterAnnounced, SetDecayExclusive,
       SeenIsMergerConfig, SetDecayArg, MergerPaired, NoWorkAfterClose, InFlight
<1>5. ASSUME NEW c \in Callers, Cancel(c) PROVE IInv'
  BY <1>5 DEF Cancel, TypeOK, cfgVars, UpdateHasArg, InFlightHoldRLock,
     WriterAnnounced, SetDecayExclusive, SeenIsMergerConfig, SetDecayArg,
     MergerPaired, NoWorkAfterClose
<1>6. ASSUME NEW c \in Callers, GetConfig(c) PROVE IInv'
  BY <1>6, ReadReturn DEF GetConfig
<1>7. ASSUME NEW c \in Callers, RejectClosed(c) PROVE IInv'
  BY <1>7, ReadReturn DEF RejectClosed
<1>8. ASSUME NEW c \in Callers, AdapterCall(c) PROVE IInv'
  BY <1>8 DEF AdapterCall, TypeOK, PcStates, cfgVars, localVars, UpdateHasArg,
     InFlightHoldRLock, WriterAnnounced, SetDecayExclusive, SeenIsMergerConfig,
     SetDecayArg, MergerPaired, NoWorkAfterClose, InFlight
<1>9. ASSUME NEW c \in Callers, AdapterReturn(c) PROVE IInv'
  BY <1>9, ReadReturn DEF AdapterReturn, InFlightHoldRLock, InFlight
<1>10. ASSUME NEW c \in Callers, FanOut(c) PROVE IInv'
  BY <1>10 DEF FanOut, TypeOK, PcStates, SubStates, cfgVars, UpdateHasArg,
     InFlightHoldRLock, WriterAnnounced, SetDecayExclusive, SeenIsMergerConfig,
     SetDecayArg, MergerPaired, NoWorkAfterClose, InFlight
<1>11. ASSUME NEW c \in Callers, NEW s \in Sources, SubReturn(c, s) PROVE IInv'
  BY <1>11 DEF SubReturn, TypeOK, SubStates, cfgVars, UpdateHasArg,
     InFlightHoldRLock, WriterAnnounced, SetDecayExclusive, SeenIsMergerConfig,
     SetDecayArg, MergerPaired, NoWorkAfterClose
<1>12. ASSUME NEW c \in Callers, BothFailed(c) PROVE IInv'
  BY <1>12, ReadReturn DEF BothFailed, InFlightHoldRLock, InFlight
<1>13. ASSUME NEW c \in Callers, MergeReadConfig(c) PROVE IInv'
  BY <1>13 DEF MergeReadConfig, TypeOK, PcStates, ValidConfigs, cfgVars,
     UpdateHasArg, InFlightHoldRLock, WriterAnnounced, SetDecayExclusive,
     SeenIsMergerConfig, SetDecayArg, MergerPaired, NoWorkAfterClose, InFlight
<1>14. ASSUME NEW c \in Callers, MergeReadDecay(c) PROVE IInv'
  BY <1>14, ReadReturn DEF MergeReadDecay, InFlightHoldRLock, InFlight
<1>15. ASSUME NEW c \in Callers, UpdateRejected(c) PROVE IInv'
  <2>1. mergerDecay = mergerConfig
    BY <1>15, WriterSeesPaired DEF UpdateRejected
  <2>2. {decay', mergerDecay'} \subseteq ValidConfigs
    BY <1>15 DEF UpdateRejected, cfgVars, TypeOK
  <2>3. QED
    BY <1>15, <2>1, <2>2, WriteReturn DEF UpdateRejected, cfgVars, TypeOK
<1>16. ASSUME NEW c \in Callers, UpdateSetConfig(c) PROVE IInv'
  <2>1. arg[c] \in ValidConfigs
    BY <1>16 DEF UpdateSetConfig, UpdateHasArg, ValidConfigs
  <2>2. \A d \in Callers : pc[d] \notin InFlight \cup {"setdecay"}
    BY <1>16 DEF UpdateSetConfig, InFlightHoldRLock, WriterAnnounced, InFlight
  <2>3. TypeOK'
    BY <1>16, <2>1 DEF UpdateSetConfig, TypeOK, PcStates, localVars
  <2>4. QED
    BY <1>16, <2>2, <2>3 DEF UpdateSetConfig, localVars, TypeOK, UpdateHasArg,
       InFlightHoldRLock, WriterAnnounced, SetDecayExclusive,
       SeenIsMergerConfig, SetDecayArg, MergerPaired, NoWorkAfterClose, InFlight
<1>17. ASSUME NEW c \in Callers, UpdateSetDecay(c) PROVE IInv'
  <2>1. rwReaders = {} /\ arg[c] = mergerConfig
    BY <1>17 DEF UpdateSetDecay, SetDecayExclusive, SetDecayArg
  <2>2. {decay', mergerDecay'} \subseteq ValidConfigs
    BY <1>17, <2>1 DEF UpdateSetDecay, TypeOK
  <2>3. QED
    BY <1>17, <2>1, <2>2, WriteReturn DEF UpdateSetDecay, TypeOK
<1>18. ASSUME NEW c \in Callers, Close(c) PROVE IInv'
  <2>1. mergerDecay = mergerConfig
    BY <1>18, WriterSeesPaired DEF Close
  <2>2. QED
    BY <1>18, <2>1, WriteReturn DEF Close, cfgVars, TypeOK
<1>19. QED
  BY <1>1, <1>2, <1>3, <1>4, <1>5, <1>6, <1>7, <1>8, <1>9, <1>10, <1>11,
     <1>12, <1>13, <1>14, <1>15, <1>16, <1>17, <1>18 DEF Next, Step

-----------------------------------------------------------------------------
(* IInv holds in every reachable state.                                    *)
THEOREM InvariantHolds == Spec => []IInv
BY InitIInv, NextIInv, PTL DEF Spec

(* Every variable keeps its type: in particular every config the          *)
(* retriever and its merger hold passed Validate (UpdateConfig's Validate  *)
(* before its stores).                                                     *)
THEOREM TypeCorrect == Spec => []TypeOK
<1>1. IInv => TypeOK
  BY DEF IInv
<1>2. QED
  BY <1>1, InvariantHolds, PTL

(* Once Close has set r.closed, no method is past its closed check: Close  *)
(* waits for the read locks in flight and later methods are rejected       *)
(* (Close under r.mu.Lock, the closed checks under r.mu.RLock).            *)
THEOREM CloseSafe == Spec => []NoWorkAfterClose
<1>1. IInv => NoWorkAfterClose
  BY DEF IInv
<1>2. QED
  BY <1>1, InvariantHolds, PTL

(* A SearchHybrid that returns a fused list decayed it with the            *)
(* rm.temporalDecay built from the rm.config it read: UpdateConfig's two   *)
(* stores (SetConfig's rm.config, then rm.temporalDecay) both happen under *)
(* r.mu.Lock, which no reader holds meanwhile.                             *)
THEOREM FusionAtomic == Spec => FusedWithOneConfig
<1>1. ASSUME IInv, NEW c \in Callers, pc[c] = "mergedecay"
      PROVE  seenCfg[c] = mergerDecay
  <2>1. c \in rwReaders /\ seenCfg[c] = mergerConfig
    BY <1>1 DEF IInv, InFlightHoldRLock, SeenIsMergerConfig, InFlight
  <2>2. \A d \in Callers : pc[d] # "setdecay"
    BY <1>1, <2>1 DEF IInv, SetDecayExclusive
  <2>3. QED
    BY <1>1, <2>1, <2>2 DEF IInv, MergerPaired
<1>2. IInv => \A c \in Callers :
                pc[c] = "mergedecay" /\ pc'[c] = "idle" => seenCfg[c] = mergerDecay
  BY <1>1
<1>3. QED
  BY <1>2, InvariantHolds, PTL DEF FusedWithOneConfig

(* NewAgentRAGRetriever validates its config before use, and               *)
(* DefaultMergeConfig, which it takes for a nil one, passes: the initial   *)
(* config of ConfigsAssumption can be the default.                         *)
LEMMA DefaultValid == Validate(DefaultMergeConfig)
BY DEF DefaultMergeConfig, Validate, One

-----------------------------------------------------------------------------
(***************************************************************************)
(* The four copies of the config.  UpdateConfig stores r.config and        *)
(* rm.config in one step and the two decays in the next, so each pair is   *)
(* always equal; the pairs differ only between the stores, when no reader  *)
(* holds r.mu (SetDecayExclusive, MergerPaired).                           *)
(***************************************************************************)
ConfigPaired == config = mergerConfig
DecayPaired == decay = mergerDecay

(* Every step keeps r.config with rm.config and r.temporalDecay with       *)
(* rm.temporalDecay.                                                       *)
LEMMA PairedStep ==
  ASSUME ConfigPaired, DecayPaired, [Next]_vars
  PROVE  ConfigPaired' /\ DecayPaired'
<1>1. CASE UNCHANGED cfgVars
  BY <1>1 DEF ConfigPaired, DecayPaired, cfgVars
<1>2. ASSUME NEW c \in Callers, UpdateSetConfig(c)
      PROVE  ConfigPaired' /\ DecayPaired'
  BY <1>2 DEF UpdateSetConfig, ConfigPaired, DecayPaired
<1>3. ASSUME NEW c \in Callers, UpdateSetDecay(c)
      PROVE  ConfigPaired' /\ DecayPaired'
  BY <1>3 DEF UpdateSetDecay, ConfigPaired, DecayPaired
<1>4. ASSUME NEW c \in Callers,
             \/ \E o \in ReadOps : CallRead(c, o)
             \/ \E o \in WriteOps : CallWrite(c, o)
             \/ LockAnnounce(c) \/ Cancel(c)
             \/ GetConfig(c) \/ RejectClosed(c) \/ AdapterCall(c) \/ AdapterReturn(c)
             \/ FanOut(c) \/ \E s \in Sources : SubReturn(c, s)
             \/ BothFailed(c) \/ MergeReadConfig(c) \/ MergeReadDecay(c)
             \/ UpdateRejected(c) \/ Close(c)
      PROVE  UNCHANGED cfgVars
  BY <1>4 DEF CallRead, CallWrite, LockAnnounce, Cancel, GetConfig, RejectClosed,
              AdapterCall, AdapterReturn, FanOut, SubReturn, BothFailed,
              MergeReadConfig, MergeReadDecay, UpdateRejected, Close, cfgVars
<1>5. QED
  BY <1>1, <1>2, <1>3, <1>4 DEF Next, Step, vars, cfgVars

(* Whoever holds the read lock sees one config in r.config,                *)
(* r.temporalDecay, rm.config and rm.temporalDecay: GetConfig,             *)
(* SearchConversation and SearchHybrid agree on the config, because        *)
(* UpdateConfig makes its four stores under r.mu.Lock.                     *)
THEOREM ReadersAgree == Spec => []ReadersSeeOneConfig
<1>1. Init => ConfigPaired /\ DecayPaired
  BY DEF Init, ConfigPaired, DecayPaired
<1>2. ConfigPaired /\ DecayPaired /\ [Next]_vars => (ConfigPaired /\ DecayPaired)'
  BY PairedStep
<1>3. IInv /\ ConfigPaired /\ DecayPaired => ReadersSeeOneConfig
  <2> SUFFICES ASSUME IInv, ConfigPaired, DecayPaired, rwReaders # {}
               PROVE  mergerConfig = mergerDecay
    BY DEF ReadersSeeOneConfig, ConfigPaired, DecayPaired
  <2>1. \A c \in Callers : pc[c] # "setdecay"
    BY DEF IInv, SetDecayExclusive
  <2>2. QED
    BY <2>1 DEF IInv, MergerPaired
<1>4. Spec => [](ConfigPaired /\ DecayPaired)
  BY <1>1, <1>2, PTL DEF Spec
<1>5. QED
  BY <1>3, <1>4, InvariantHolds, PTL

(* The config fields change only at UpdateConfig's two stores.            *)
LEMMA ConfigStores ==
  ASSUME [Next]_vars
  PROVE  \/ UNCHANGED cfgVars
         \/ \E c \in Callers : UpdateSetConfig(c) \/ UpdateSetDecay(c)
<1>1. ASSUME NEW c \in Callers,
             \/ \E o \in ReadOps : CallRead(c, o)
             \/ \E o \in WriteOps : CallWrite(c, o)
             \/ LockAnnounce(c) \/ Cancel(c)
             \/ GetConfig(c) \/ RejectClosed(c) \/ AdapterCall(c) \/ AdapterReturn(c)
             \/ FanOut(c) \/ \E s \in Sources : SubReturn(c, s)
             \/ BothFailed(c) \/ MergeReadConfig(c) \/ MergeReadDecay(c)
             \/ UpdateRejected(c) \/ Close(c)
      PROVE  UNCHANGED cfgVars
  BY <1>1 DEF CallRead, CallWrite, LockAnnounce, Cancel, GetConfig, RejectClosed,
              AdapterCall, AdapterReturn, FanOut, SubReturn, BothFailed,
              MergeReadConfig, MergeReadDecay, UpdateRejected, Close, cfgVars
<1>2. QED
  BY <1>1 DEF Next, Step, vars, cfgVars

(* No config field changes while a goroutine holds r.mu's read lock:       *)
(* UpdateConfig stores r.config and rm.config with the readers drained     *)
(* (Lock), and the decays while it is still the announced writer, which    *)
(* lets no reader in; so a read-locked method reads one config from its    *)
(* closed check to its return, for any number of callers.                 *)
THEOREM ReadersSeeStableConfig == Spec => ReadLockedConfigStable
<1>1. IInv /\ [Next]_vars => [rwReaders # {} => UNCHANGED cfgVars]_vars
  <2> SUFFICES ASSUME IInv, [Next]_vars, rwReaders # {}
               PROVE  UNCHANGED cfgVars
    BY DEF vars, cfgVars
  <2>1. ASSUME NEW c \in Callers, UpdateSetConfig(c) PROVE FALSE
    BY <2>1 DEF UpdateSetConfig
  <2>2. ASSUME NEW c \in Callers, UpdateSetDecay(c) PROVE FALSE
    BY <2>2 DEF UpdateSetDecay, IInv, SetDecayExclusive
  <2>3. QED
    BY <2>1, <2>2, ConfigStores
<1>2. QED
  BY <1>1, InvariantHolds, PTL DEF Spec, ReadLockedConfigStable

=============================================================================
