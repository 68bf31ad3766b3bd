------------------------------ MODULE Retriever ------------------------------
(***************************************************************************)
(* The retrieval coordinator AgentRAGRetriever (retriever/retriever.go).   *)
(*                                                                         *)
(* Each caller is a goroutine running one public method at a time.  The    *)
(* sync.RWMutex r.mu is modelled with Go's semantics: RLock is granted at  *)
(* once unless a writer has announced itself; Lock first takes the writer  *)
(* mutex, announces itself (blocking new readers) and then waits for the   *)
(* readers already inside to leave; Unlock grants the read lock to every   *)
(* reader that blocked meanwhile.  SearchHybrid forks two goroutines (one  *)
(* per index) and joins them with a WaitGroup; the caller's context may be *)
(* cancelled at any time while adapter calls are in flight.                *)
(*                                                                         *)
(* Results are abstracted to which index contributed and which config the  *)
(* fusion engine read; the fusion arithmetic is in module Fusion.          *)
(***************************************************************************)
EXTENDS MergeConfig, FiniteSets

CONSTANTS
  Callers,     \* goroutines calling the retriever concurrently
  Configs,     \* *MergeConfig values callers pass to UpdateConfig
  InitConfig,  \* the MergeConfig NewAgentRAGRetriever was built with
  NoCaller,    \* model value: nobody holds or awaits the writer mutex
  NoConfig     \* model value: no config read / returned

ValidConfigs == {c \in Configs : Validate(c)}

ASSUME ConfigsAssumption ==
  /\ Configs \subseteq ConfigRecords
  /\ InitConfig \in Configs
  /\ Validate(InitConfig)
  /\ NoConfig \notin Configs
  /\ NoCaller \notin Callers

(* Methods that reach the adapter (WeaviateClient) once under the read lock. *)
AdapterOps == {"SearchStatic", "SearchConversation", "AddConversationTurn",
               "AddKnowledgeDocument", "PruneOldConversations", "HealthCheck"}
(* GetConfig stands for the read-only accessors GetConfig, GetIndexConfig,  *)
(* IsClosed and GetStats, which read under RLock and check nothing.         *)
ReadOps == AdapterOps \cup {"SearchHybrid", "GetConfig"}
WriteOps == {"UpdateConfig", "Close"}
Ops == ReadOps \cup WriteOps

Sources == {"static", "conversation"}
SubStates == {"idle", "running", "ok", "err"}

PcStates == {"idle", "rlock", "call", "fanout", "mergedecay",
             "wlock", "wwait", "setdecay"}
(* States in which a read-locked method is past its closed check.          *)
InFlight == {"call", "fanout", "mergedecay"}


VARIABLES
  rwWriter,      \* r.mu: goroutine holding the writer mutex (announced)
  rwReaders,     \* r.mu: goroutines granted the read lock
  closed,        \* r.closed
  config,        \* r.config
  decay,         \* r.temporalDecay (the config it was built from)
  mergerConfig,  \* r.merger.config
  mergerDecay,   \* r.merger.temporalDecay (the config it was built from)
  pc,            \* where each caller is in its current method
  op,            \* the method each caller is running
  arg,           \* UpdateConfig's argument
  sub,           \* SearchHybrid's two sub-dispatches
  cancelled,     \* the caller's ctx has fired
  early,         \* ctx fired while a sub-dispatch was still running
  seenCfg        \* the rm.config Merge read

vars == <<rwWriter, rwReaders, closed, config, decay, mergerConfig,
          mergerDecay, pc, op, arg, sub, cancelled, early, seenCfg>>
cfgVars == <<config, decay, mergerConfig, mergerDecay>>
localVars == <<op, arg, sub, cancelled, early, seenCfg>>

TypeOK ==
  /\ rwWriter \in Callers \cup {NoCaller}
  /\ rwReaders \subseteq Callers
  /\ closed \in BOOLEAN
  /\ {config, decay, mergerConfig, mergerDecay} \subseteq ValidConfigs
  /\ pc \in [Callers -> PcStates]
  /\ op \in [Callers -> Ops \cup {"none"}]
  /\ arg \in [Callers -> Configs \cup {NoConfig}]
  /\ sub \in [Callers -> [Sources -> SubStates]]
  /\ cancelled \in [Callers -> BOOLEAN]
  /\ early \in [Callers -> BOOLEAN]
  /\ seenCfg \in [Callers -> Configs \cup {NoConfig}]

IdleSub == [s \in Sources |-> "idle"]

Init ==
  /\ rwWriter = NoCaller
  /\ rwReaders = {}
  /\ closed = FALSE
  /\ config = InitConfig
  /\ decay = InitConfig
  /\ mergerConfig = InitConfig
  /\ mergerDecay = InitConfig
  /\ pc = [c \in Callers |-> "idle"]
  /\ op = [c \in Callers |-> "none"]
  /\ arg = [c \in Callers |-> NoConfig]
  /\ sub = [c \in Callers |-> IdleSub]
  /\ cancelled = [c \in Callers |-> FALSE]
  /\ early = [c \in Callers |-> FALSE]
  /\ seenCfg = [c \in Callers |-> NoConfig]

-----------------------------------------------------------------------------
(* Lock helpers: RUnlock, and Unlock, which grants every blocked reader.   *)
RUnlock(c) == rwReaders' = rwReaders \ {c}
WUnlock == /\ rwWriter' = NoCaller
           /\ rwReaders' = {d \in Callers : pc[d] = "rlock"}

(* A method returns: the caller goes idle and its locals are dropped.      *)
Return(c) ==
  /\ pc' = [pc EXCEPT ![c] = "idle"]
  /\ op' = [op EXCEPT ![c] = "none"]
  /\ arg' = [arg EXCEPT ![c] = NoConfig]
  /\ sub' = [sub EXCEPT ![c] = IdleSub]
  /\ cancelled' = [cancelled EXCEPT ![c] = FALSE]
  /\ early' = [early EXCEPT ![c] = FALSE]
  /\ seenCfg' = [seenCfg EXCEPT ![c] = NoConfig]

-----------------------------------------------------------------------------
(* Mutant: RLock granted even when a writer has announced itself (no      *)
(* writer preference).                                                     *)
CallReadNoWriterPreference(c, o) ==
  /\ pc[c] = "idle"
  /\ pc' = [pc EXCEPT ![c] = "rlock"]
  /\ op' = [op EXCEPT ![c] = o]
  /\ rwReaders' = rwReaders \cup {c}
  /\ UNCHANGED <<rwWriter, closed, cfgVars, arg, sub, cancelled, early, seenCfg>>

(* A caller enters a read-locked method: r.mu.RLock() is granted unless a  *)
(* writer has announced itself, in which case the caller blocks in "rlock".*)
CallRead(c, o) ==
  /\ pc[c] = "idle"
  /\ pc' = [pc EXCEPT ![c] = "rlock"]
  /\ op' = [op EXCEPT ![c] = o]
  /\ rwReaders' = IF rwWriter = NoCaller THEN rwReaders \cup {c} ELSE rwReaders
  /\ UNCHANGED <<rwWriter, closed, cfgVars, arg, sub, cancelled, early, seenCfg>>

(* A caller enters UpdateConfig(new) or Close: r.mu.Lock() is called.      *)
CallWrite(c, o) ==
  /\ pc[c] = "idle"
  /\ \E new \in IF o = "UpdateConfig" THEN Configs ELSE {NoConfig} :
       arg' = [arg EXCEPT ![c] = new]
  /\ pc' = [pc EXCEPT ![c] = "wlock"]
  /\ op' = [op EXCEPT ![c] = o]
  /\ UNCHANGED <<rwWriter, rwReaders, closed, cfgVars, sub, cancelled, early,
                 seenCfg>>

(* Lock: the writer mutex is taken and the writer announced; from now on   *)
(* new RLock calls block.                                                  *)
LockAnnounce(c) ==
  /\ pc[c] = "wlock"
  /\ rwWriter = NoCaller
  /\ rwWriter' = c
  /\ pc' = [pc EXCEPT ![c] = "wwait"]
  /\ UNCHANGED <<rwReaders, closed, cfgVars, localVars>>

-----------------------------------------------------------------------------
(* Read-locked methods, once the read lock is held.                        *)

(* GetConfig and the other accessors read r.config and return.            *)
GetConfig(c) ==
  /\ pc[c] = "rlock" /\ c \in rwReaders
  /\ op[c] = "GetConfig"
  /\ RUnlock(c)
  /\ Return(c)
  /\ UNCHANGED <<rwWriter, closed, cfgVars>>

(* `if r.closed { return ..., ErrClosedRetriever }`                        *)
RejectClosed(c) ==
  /\ pc[c] = "rlock" /\ c \in rwReaders
  /\ op[c] # "GetConfig"
  /\ closed
  /\ RUnlock(c)
  /\ Return(c)
  /\ UNCHANGED <<rwWriter, closed, cfgVars>>

(* A single-index method passes the closed check and calls the adapter.    *)
AdapterCall(c) ==
  /\ pc[c] = "rlock" /\ c \in rwReaders
  /\ op[c] \in AdapterOps
  /\ ~closed
  /\ pc' = [pc EXCEPT ![c] = "call"]
  /\ UNCHANGED <<rwWriter, rwReaders, closed, cfgVars, localVars>>

(* The adapter call returns, with a result or an error (its HTTP client    *)
(* times out after 30 s, so it always returns); SearchConversation then    *)
(* decays the results with r.temporalDecay; the deferred RUnlock runs.     *)
AdapterReturn(c) ==
  /\ pc[c] = "call"
  /\ RUnlock(c)
  /\ Return(c)
  /\ UNCHANGED <<rwWriter, closed, cfgVars>>

(* Mutant: SearchHybrid starts its goroutines without the closed check.   *)
FanOutUnchecked(c) ==
  /\ pc[c] = "rlock" /\ c \in rwReaders
  /\ op[c] = "SearchHybrid"
  /\ pc' = [pc EXCEPT ![c] = "fanout"]
  /\ sub' = [sub EXCEPT ![c] = [s \in Sources |-> "running"]]
  /\ UNCHANGED <<rwWriter, rwReaders, closed, cfgVars, op, arg, cancelled,
                 early, seenCfg>>

(* SearchHybrid passes the closed check and starts both goroutines.        *)
FanOut(c) ==
  /\ pc[c] = "rlock" /\ c \in rwReaders
  /\ op[c] = "SearchHybrid"
  /\ ~closed
  /\ pc' = [pc EXCEPT ![c] = "fanout"]
  /\ sub' = [sub EXCEPT ![c] = [s \in Sources |-> "running"]]
  /\ UNCHANGED <<rwWriter, rwReaders, closed, cfgVars, op, arg, cancelled,
                 early, seenCfg>>

(* One sub-dispatch (client.SearchStatic or client.SearchConversation)     *)
(* returns; it fails if ctx has fired.                                     *)
SubReturn(c, s) ==
  /\ sub[c][s] = "running"
  /\ \E r \in IF cancelled[c] THEN {"err"} ELSE {"ok", "err"} :
       sub' = [sub EXCEPT ![c][s] = r]
  /\ UNCHANGED <<rwWriter, rwReaders, closed, cfgVars, pc, op, arg,
                 cancelled, early, seenCfg>>

(* The caller's context is cancelled while its adapter calls are running.  *)
Cancel(c) ==
  /\ pc[c] \in {"call", "fanout"}
  /\ ~cancelled[c]
  /\ cancelled' = [cancelled EXCEPT ![c] = TRUE]
  /\ early' = [early EXCEPT ![c] =
                 pc[c] = "fanout" /\ \E s \in Sources : sub[c][s] = "running"]
  /\ UNCHANGED <<rwWriter, rwReaders, closed, cfgVars, pc, op, arg, sub,
                 seenCfg>>

(* wg.Wait() returns with both failed: the composite error is returned.    *)
BothFailed(c) ==
  /\ pc[c] = "fanout"
  /\ \A s \in Sources : sub[c][s] = "err"
  /\ RUnlock(c)
  /\ Return(c)
  /\ UNCHANGED <<rwWriter, closed, cfgVars>>

(* wg.Wait() returns with at least one success; a failed side is replaced  *)
(* by an empty result set and Merge starts: it reads rm.config.           *)
MergeReadConfig(c) ==
  /\ pc[c] = "fanout"
  /\ \A s \in Sources : sub[c][s] \in {"ok", "err"}
  /\ \E s \in Sources : sub[c][s] = "ok"
  /\ seenCfg' = [seenCfg EXCEPT ![c] = mergerConfig]
  /\ pc' = [pc EXCEPT ![c] = "mergedecay"]
  /\ UNCHANGED <<rwWriter, rwReaders, closed, cfgVars, op, arg, sub,
                 cancelled, early>>

(* Merge decays the conversation side with rm.temporalDecay, sorts, the    *)
(* limit is applied, and SearchHybrid returns the list with a nil error.   *)
MergeReadDecay(c) ==
  /\ pc[c] = "mergedecay"
  /\ RUnlock(c)
  /\ Return(c)
  /\ UNCHANGED <<rwWriter, closed, cfgVars>>

-----------------------------------------------------------------------------
(* Write-locked methods, once every reader has left.                       *)

(* UpdateConfig: Validate fails, the lock is released, nothing changes.    *)
UpdateRejected(c) ==
  /\ pc[c] = "wwait" /\ rwReaders = {}
  /\ op[c] = "UpdateConfig"
  /\ ~Validate(arg[c])
  /\ WUnlock
  /\ Return(c)
  /\ UNCHANGED <<closed, cfgVars>>

(* Mutant: UpdateConfig stores the config without calling Validate.       *)
UpdateSetConfigUnvalidated(c) ==
  /\ pc[c] = "wwait" /\ rwReaders = {}
  /\ op[c] = "UpdateConfig"
  /\ config' = arg[c]
  /\ mergerConfig' = arg[c]
  /\ pc' = [pc EXCEPT ![c] = "setdecay"]
  /\ UNCHANGED <<rwWriter, rwReaders, closed, decay, mergerDecay, localVars>>

(* Mutant: UpdateConfig swaps the config without waiting for the readers  *)
(* in flight (as if it took r.mu.RLock instead of r.mu.Lock).             *)
UpdateSetConfigNoWait(c) ==
  /\ pc[c] = "wwait"
  /\ op[c] = "UpdateConfig"
  /\ Validate(arg[c])
  /\ config' = arg[c]
  /\ mergerConfig' = arg[c]
  /\ pc' = [pc EXCEPT ![c] = "setdecay"]
  /\ UNCHANGED <<rwWriter, rwReaders, closed, decay, mergerDecay, localVars>>

(* UpdateConfig: r.config = config; r.merger.SetConfig stores rm.config.   *)
UpdateSetConfig(c) ==
  /\ pc[c] = "wwait" /\ rwReaders = {}
  /\ op[c] = "UpdateConfig"
  /\ Validate(arg[c])
  /\ config' = arg[c]
  /\ mergerConfig' = arg[c]
  /\ pc' = [pc EXCEPT ![c] = "setdecay"]
  /\ UNCHANGED <<rwWriter, rwReaders, closed, decay, mergerDecay, localVars>>

(* Mutant: UpdateConfig rebuilds rm.temporalDecay but not                 *)
(* r.temporalDecay.                                                         *)
UpdateSetDecayStale(c) ==
  /\ pc[c] = "setdecay"
  /\ mergerDecay' = arg[c]
  /\ WUnlock
  /\ Return(c)
  /\ UNCHANGED <<closed, config, mergerConfig, decay>>

(* SetConfig rebuilds rm.temporalDecay, UpdateConfig rebuilds             *)
(* r.temporalDecay, and the deferred Unlock runs.                          *)
UpdateSetDecay(c) ==
  /\ pc[c] = "setdecay"
  /\ mergerDecay' = arg[c]
  /\ decay' = arg[c]
  /\ WUnlock
  /\ Return(c)
  /\ UNCHANGED <<closed, config, mergerConfig>>

(* Mutant: Close sets r.closed without waiting for the readers in flight. *)
CloseNoWait(c) ==
  /\ pc[c] = "wwait"
  /\ op[c] = "Close"
  /\ closed' = TRUE
  /\ WUnlock
  /\ Return(c)
  /\ UNCHANGED cfgVars

(* Close: `if r.closed { return nil }; r.closed = true; client.Close()`.   *)
Close(c) ==
  /\ pc[c] = "wwait" /\ rwReaders = {}
  /\ op[c] = "Close"
  /\ closed' = TRUE
  /\ WUnlock
  /\ Return(c)
  /\ UNCHANGED cfgVars

-----------------------------------------------------------------------------
(* Steps the runtime owes a caller once it has called a method.            *)
Step(c) ==
  \/ GetConfig(c) \/ RejectClosed(c) \/ AdapterCall(c) \/ AdapterReturn(c)
  \/ FanOut(c) \/ \E s \in Sources : SubReturn(c, s)
  \/ BothFailed(c) \/ MergeReadConfig(c) \/ MergeReadDecay(c)
  \/ UpdateRejected(c) \/ UpdateSetConfig(c) \/ UpdateSetDecay(c) \/ Close(c)

Next ==
  \E c \in Callers :
    \/ \E o \in ReadOps : CallRead(c, o)
    \/ \E o \in WriteOps : CallWrite(c, o)
    \/ LockAnnounce(c)
    \/ Cancel(c)
    \/ Step(c)

(* Callers start methods and cancel contexts when they like; the Go        *)
(* scheduler runs every runnable goroutine, the HTTP timeout ends every    *)
(* adapter call, and the writer mutex (sync.Mutex, with its starvation     *)
(* mode) is eventually handed to every goroutine that keeps waiting for it.*)
Fairness ==
  \A c \in Callers : /\ WF_vars(Step(c))
                     /\ SF_vars(LockAnnounce(c))

Spec == Init /\ [][Next]_vars
FairSpec == Spec /\ Fairness

-----------------------------------------------------------------------------
(* Properties.                                                             *)

(* Close waits for the methods in flight and every later method is        *)
(* rejected by the closed check: once r.closed is set no method is past    *)
(* its closed check, so the adapter is never used after Close (spec S4).   *)
NoWorkAfterClose ==
  closed => \A c \in Callers : pc[c] \notin InFlight

(* Whoever holds the read lock sees one config in all four places the     *)
(* code keeps it: GetConfig returns r.config, SearchConversation decays   *)
(* with r.temporalDecay, SearchHybrid fuses with rm.config and decays with *)
(* rm.temporalDecay (UpdateConfig stores them separately, under Lock).     *)
ReadersSeeOneConfig ==
  rwReaders # {} =>
    /\ config = mergerDecay
    /\ decay = mergerDecay
    /\ mergerConfig = mergerDecay

(* No config field changes while any goroutine holds r.mu's read lock:     *)
(* UpdateConfig makes its stores to r.config, rm.config, rm.temporalDecay   *)
(* and r.temporalDecay only once Lock has drained the readers, so every    *)
(* read-locked method reads one config from its closed check to its return *)
(* (spec 4.E UpdateConfig: "subsequent searches observe the new config in *)
(* full").                                                                 *)
ReadLockedConfigStable ==
  [][rwReaders # {} => UNCHANGED cfgVars]_vars

(* A SearchHybrid that returns a fused list fused it with one config in    *)
(* full: the rm.temporalDecay Merge decays with was built from the         *)
(* rm.config it read at the start (spec S5: no search mixes the            *)
(* parameters of two configs, even with UpdateConfig running meanwhile).   *)
FusedWithOneConfig ==
  [][\A c \in Callers :
       pc[c] = "mergedecay" /\ pc'[c] = "idle" => seenCfg[c] = mergerDecay]_vars

(* The spec (section 5, Cancellation): if the caller's context fires      *)
(* before the sub-dispatches of SearchHybrid complete, the call returns a  *)
(* cancellation error and partial results are discarded.  So a search     *)
(* whose ctx fired while a sub-dispatch was running never returns a fused  *)
(* list with a nil error.                                                  *)
CancellationSurfaced ==
  [][\A c \in Callers :
       early[c] /\ pc[c] = "mergedecay" => pc'[c] # "idle"]_vars

(* The spec (section 3, MergeConfig): k > 0 and the algorithm is weighted  *)
(* or rrf, "enforced at construction and on every update".  So the config  *)
(* the retriever publishes always satisfies them.                          *)
PublishedConfigMeetsSpec ==
  /\ config.rrfK > 0
  /\ config.algorithm \in {"weighted", "rrf"}

(* The coordinator implements the atomic one of module AtomicRetriever:   *)
(* the published config is rm.temporalDecay's (the last thing UpdateConfig *)
(* stores), the callers at work are those past their closed check, and a   *)
(* search has fused once Merge has read rm.config.  So r.mu makes every    *)
(* method, UpdateConfig and Close linearizable (spec section 5 (2), (3)).  *)
Atomic == INSTANCE AtomicRetriever
            WITH cell <- mergerDecay,
                 isClosed <- closed,
                 inside <- {c \in Callers : pc[c] \in InFlight},
                 fused <- [c \in Callers |->
                             IF pc[c] = "mergedecay" THEN seenCfg[c] ELSE NoConfig]
ImplementsAtomic == Atomic!ASpec

(* Every method a caller enters eventually returns: readers do not starve  *)
(* a waiting UpdateConfig or Close, and writers do not starve readers.     *)
MethodsReturn ==
  \A c \in Callers : (pc[c] # "idle") ~> (pc[c] = "idle")

=============================================================================
