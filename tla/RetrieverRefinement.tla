------------------------- MODULE RetrieverRefinement -------------------------
(***************************************************************************)
(* Proof that Retriever implements AtomicRetriever under the mapping of    *)
(* Retriever!Atomic, for every set of callers and configs.  Every step of  *)
(* the coordinator is a step of the atomic coordinator or leaves the       *)
(* mapped state alone; the steps that need more than the action itself     *)
(* (Merge's read of rm.config, UpdateConfig's last store, Close) take what *)
(* r.mu guarantees from the inductive invariant IInv.                      *)
(***************************************************************************)
EXTENDS RetrieverProofs

(* The mapped state.                                                       *)
insideBar == {c \in Callers : pc[c] \in InFlight}
fusedBar == [c \in Callers |-> IF pc[c] = "mergedecay" THEN seenCfg[c] ELSE NoConfig]

(* A step that moves no caller into or out of the methods at work, changes *)
(* no fused config, rm.temporalDecay nor r.closed is a stuttering step of  *)
(* the atomic coordinator.                                                 *)
LEMMA AtomicStutter ==
  ASSUME UNCHANGED <<mergerDecay, closed>>,
         \A d \in Callers : (pc'[d] \in InFlight) = (pc[d] \in InFlight),
         \A d \in Callers : fusedBar'[d] = fusedBar[d]
  PROVE  UNCHANGED Atomic!avars
<1>1. insideBar' = insideBar
  BY DEF insideBar
<1>2. fusedBar' = fusedBar
  BY DEF fusedBar
<1>3. QED
  BY <1>1, <1>2 DEF Atomic!avars, insideBar, fusedBar

(* A caller whose pc alone changes, between two states neither of which is *)
(* at work nor in Merge, and whose seenCfg is then NoConfig or unchanged.  *)
LEMMA LocalStep ==
  ASSUME TypeOK, NEW c \in Callers,
         UNCHANGED <<mergerDecay, closed>>,
         pc' \in [Callers -> PcStates],
         \A d \in Callers \ {c} : pc'[d] = pc[d] /\ seenCfg'[d] = seenCfg[d],
         pc[c] \notin InFlight, pc'[c] \notin InFlight
  PROVE  UNCHANGED Atomic!avars
<1>1. \A d \in Callers : (pc'[d] \in InFlight) = (pc[d] \in InFlight)
  OBVIOUS
<1>2. \A d \in Callers : fusedBar'[d] = fusedBar[d]
  BY DEF fusedBar, InFlight
<1>3. QED
  BY <1>1, <1>2, AtomicStutter

(* A caller passes its closed check: Begin.                                 *)
LEMMA BeginStep ==
  ASSUME TypeOK, NEW c \in Callers, ~closed,
         UNCHANGED <<mergerDecay, closed, seenCfg>>,
         pc[c] = "rlock", NEW p \in {"call", "fanout"},
         pc' = [pc EXCEPT ![c] = p]
  PROVE  Atomic!Begin(c)
<1>1. c \notin insideBar /\ insideBar' = insideBar \cup {c}
  BY DEF insideBar, InFlight, TypeOK
<1>2. fusedBar' = fusedBar
  BY DEF fusedBar, TypeOK
<1>3. QED
  BY <1>1, <1>2 DEF Atomic!Begin, insideBar, fusedBar

(* A caller at work returns: End.                                          *)
LEMMA EndStep ==
  ASSUME TypeOK, NEW c \in Callers, pc[c] \in InFlight,
         UNCHANGED <<mergerDecay, closed>>,
         pc' \in [Callers -> PcStates], pc'[c] = "idle",
         \A d \in Callers \ {c} : pc'[d] = pc[d] /\ seenCfg'[d] = seenCfg[d]
  PROVE  Atomic!End(c)
<1>1. c \in insideBar /\ insideBar' = insideBar \ {c}
  BY DEF insideBar, InFlight, TypeOK
<1>2. fusedBar' = [fusedBar EXCEPT ![c] = NoConfig]
  BY DEF fusedBar, TypeOK
<1>3. QED
  BY <1>1, <1>2 DEF Atomic!End, insideBar, fusedBar

-----------------------------------------------------------------------------
(* Every step of Next, from a state of IInv, is a step of ANext or a       *)
(* stutter of the mapped state.                                            *)
LEMMA StepRefines ==
  ASSUME IInv, [Next]_vars
  PROVE  [Atomic!ANext]_Atomic!avars
<1> USE DEF IInv
<1>1. CASE UNCHANGED vars
  BY <1>1, AtomicStutter DEF vars, fusedBar
<1>2. ASSUME NEW c \in Callers, NEW o \in ReadOps, CallRead(c, o)
      PROVE  [Atomic!ANext]_Atomic!avars
  BY <1>2, LocalStep DEF CallRead, TypeOK, InFlight, PcStates, cfgVars
<1>3. ASSUME NEW c \in Callers, NEW o \in WriteOps, CallWrite(c, o)
      PROVE  [Atomic!ANext]_Atomic!avars
  BY <1>3, LocalStep DEF CallWrite, TypeOK, InFlight, PcStates, cfgVars
<1>4. ASSUME NEW c \in Callers, LockAnnounce(c)
      PROVE  [Atomic!ANext]_Atomic!avars
  BY <1>4, LocalStep DEF LockAnnounce, TypeOK, InFlight, PcStates, cfgVars, localVars
<1>5. ASSUME NEW c \in Callers, Cancel(c) \/ \E s \in Sources : SubReturn(c, s)
      PROVE  [Atomic!ANext]_Atomic!avars
  BY <1>5, AtomicStutter DEF Cancel, SubReturn, cfgVars, fusedBar
<1>6. ASSUME NEW c \in Callers, GetConfig(c) \/ RejectClosed(c)
      PROVE  [Atomic!ANext]_Atomic!avars
  <2>1. pc' \in [Callers -> PcStates] /\ pc'[c] = "idle"
        /\ \A d \in Callers \ {c} : pc'[d] = pc[d] /\ seenCfg'[d] = seenCfg[d]
    BY <1>6, ReturnTyped DEF GetConfig, RejectClosed
  <2>2. QED
    BY <1>6, <2>1, LocalStep DEF GetConfig, RejectClosed, InFlight, cfgVars
<1>7. ASSUME NEW c \in Callers, AdapterCall(c) \/ FanOut(c)
      PROVE  [Atomic!ANext]_Atomic!avars
  <2>1. Atomic!Begin(c)
    BY <1>7, BeginStep DEF AdapterCall, FanOut, cfgVars, localVars
  <2>2. QED
    BY <2>1 DEF Atomic!ANext
<1>8. ASSUME NEW c \in Callers,
             AdapterReturn(c) \/ BothFailed(c) \/ MergeReadDecay(c)
      PROVE  [Atomic!ANext]_Atomic!avars
  <2>1. pc' \in [Callers -> PcStates] /\ pc'[c] = "idle"
        /\ \A d \in Callers \ {c} : pc'[d] = pc[d] /\ seenCfg'[d] = seenCfg[d]
    BY <1>8, ReturnTyped DEF AdapterReturn, BothFailed, MergeReadDecay
  <2>2. Atomic!End(c)
    BY <1>8, <2>1, EndStep DEF AdapterReturn, BothFailed, MergeReadDecay,
                               InFlight, cfgVars
  <2>3. QED
    BY <2>2 DEF Atomic!ANext
<1>9. ASSUME NEW c \in Callers, UpdateRejected(c)
      PROVE  [Atomic!ANext]_Atomic!avars
  <2>1. pc' \in [Callers -> PcStates] /\ pc'[c] = "idle"
        /\ \A d \in Callers \ {c} : pc'[d] = pc[d] /\ seenCfg'[d] = seenCfg[d]
    BY <1>9, ReturnTyped DEF UpdateRejected
  <2>2. QED
    BY <1>9, <2>1, LocalStep DEF UpdateRejected, InFlight, cfgVars
<1>10. ASSUME NEW c \in Callers, UpdateSetConfig(c)
       PROVE  [Atomic!ANext]_Atomic!avars
  BY <1>10, LocalStep DEF UpdateSetConfig, TypeOK, InFlight, PcStates, localVars
<1>11. ASSUME NEW c \in Callers, MergeReadConfig(c)
       PROVE  [Atomic!ANext]_Atomic!avars
  <2>1. mergerConfig = mergerDecay
    BY <1>11 DEF MergeReadConfig, InFlightHoldRLock, SetDecayExclusive,
                 MergerPaired, InFlight
  <2>2. c \in insideBar /\ insideBar' = insideBar
    BY <1>11 DEF MergeReadConfig, insideBar, InFlight, TypeOK
  <2>3. fusedBar[c] = NoConfig /\ fusedBar' = [fusedBar EXCEPT ![c] = mergerDecay]
    BY <1>11, <2>1 DEF MergeReadConfig, fusedBar, TypeOK
  <2>4. Atomic!Fuse(c)
    BY <1>11, <2>2, <2>3 DEF MergeReadConfig, Atomic!Fuse, insideBar, fusedBar,
                             cfgVars
  <2>5. QED
    BY <2>4 DEF Atomic!ANext
<1>12. ASSUME NEW c \in Callers, UpdateSetDecay(c)
       PROVE  [Atomic!ANext]_Atomic!avars
  <2>1. insideBar = {} /\ insideBar' = {}
    BY <1>12 DEF UpdateSetDecay, WUnlock, Return, SetDecayExclusive,
                 InFlightHoldRLock, insideBar, InFlight, TypeOK
  <2>2. arg[c] \in Configs /\ Validate(arg[c])
    BY <1>12 DEF UpdateSetDecay, SetDecayArg, TypeOK, ValidConfigs
  <2>3. fusedBar' = fusedBar
    BY <1>12 DEF UpdateSetDecay, Return, fusedBar, TypeOK
  <2>4. Atomic!Update(arg[c])
    BY <1>12, <2>1, <2>2, <2>3 DEF UpdateSetDecay, Atomic!Update, Atomic!Validate,
                                   Validate, Atomic!One, One, insideBar, fusedBar
  <2>5. QED
    BY <2>2, <2>4 DEF Atomic!ANext
<1>13. ASSUME NEW c \in Callers, Close(c)
       PROVE  [Atomic!ANext]_Atomic!avars
  <2>1. insideBar = {} /\ insideBar' = {}
    BY <1>13 DEF Close, WUnlock, Return, InFlightHoldRLock, insideBar, InFlight,
                 TypeOK
  <2>2. fusedBar' = fusedBar
    BY <1>13 DEF Close, Return, fusedBar, TypeOK
  <2>3. Atomic!CloseCell
    BY <1>13, <2>1, <2>2 DEF Close, Atomic!CloseCell, insideBar, fusedBar, cfgVars
  <2>4. QED
    BY <2>3 DEF Atomic!ANext
<1>14. QED
  BY <1>1, <1>2, <1>3, <1>4, <1>5, <1>6, <1>7, <1>8, <1>9, <1>10, <1>11,
     <1>12, <1>13 DEF Next, Step

-----------------------------------------------------------------------------
(* The coordinator implements the atomic coordinator of AtomicRetriever:  *)
(* UpdateConfig, Close and every method of every caller are linearizable  *)
(* through r.mu (spec section 5, ordering guarantees (2) and (3)).         *)
THEOREM Refinement == Spec => ImplementsAtomic
<1>1. Init => Atomic!AInit
  BY DEF Init, Atomic!AInit, InFlight
<1>2. QED
  BY <1>1, StepRefines, InvariantHolds, PTL DEF Spec, ImplementsAtomic, Atomic!ASpec

(* Hence what the atomic coordinator keeps holds of the coordinator: a    *)
(* search that has fused sees its config still published until it        *)
(* returns, and no method is at work once r.closed is set.                 *)
THEOREM Linearizable == Spec => []Atomic!AConsistent
<1>1. InitConfig \in Configs /\ Validate(InitConfig)
  BY ConfigsAssumption
<1>2. Atomic!ASpec => [](Atomic!ATypeOK /\ Atomic!AConsistent)
  BY <1>1, Atomic!AtomicConsistent DEF Atomic!Validate, Validate, Atomic!One, One
<1>3. QED
  BY <1>2, Refinement, PTL DEF ImplementsAtomic
=============================================================================
