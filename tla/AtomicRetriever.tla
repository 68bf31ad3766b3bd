--------------------------- MODULE AtomicRetriever ---------------------------
(***************************************************************************)
(* What the retrieval coordinator promises (spec 4.E and section 5), with  *)
(* every operation atomic: a config cell that UpdateConfig replaces by a   *)
(* validated config, a closed flag that Close sets, and the callers whose  *)
(* method is at work on the adapter.  A search fuses with the cell as it   *)
(* is at one instant; an update or a close takes effect only when no       *)
(* method is at work, so a search that has fused keeps seeing the config   *)
(* it fused with until it returns, and nothing works once closed.          *)
(*                                                                         *)
(* Retriever implements this specification (Retriever!ImplementsAtomic).   *)
(***************************************************************************)
EXTENDS MergeConfig, TLAPS

CONSTANTS Callers, Configs, InitConfig, NoConfig

VARIABLES
  cell,      \* the published config
  isClosed,  \* the retriever is closed
  inside,    \* callers whose method passed the closed check
  fused      \* the config a caller's search fused with, or NoConfig

avars == <<cell, isClosed, inside, fused>>

ATypeOK ==
  /\ cell \in {c \in Configs : Validate(c)}
  /\ isClosed \in BOOLEAN
  /\ inside \subseteq Callers
  /\ fused \in [Callers -> Configs \cup {NoConfig}]

AInit ==
  /\ cell = InitConfig
  /\ isClosed = FALSE
  /\ inside = {}
  /\ fused = [c \in Callers |-> NoConfig]

(* A method passes the closed check and starts its work.                   *)
Begin(c) ==
  /\ c \notin inside
  /\ ~isClosed
  /\ inside' = inside \cup {c}
  /\ UNCHANGED <<cell, isClosed, fused>>

(* A search fuses its results with the config published now.               *)
Fuse(c) ==
  /\ c \in inside
  /\ fused[c] = NoConfig
  /\ fused' = [fused EXCEPT ![c] = cell]
  /\ UNCHANGED <<cell, isClosed, inside>>

(* The method returns.                                                     *)
End(c) ==
  /\ c \in inside
  /\ inside' = inside \ {c}
  /\ fused' = [fused EXCEPT ![c] = NoConfig]
  /\ UNCHANGED <<cell, isClosed>>

(* UpdateConfig publishes a validated config while no method is at work.   *)
Update(new) ==
  /\ inside = {}
  /\ new \in Configs
  /\ Validate(new)
  /\ cell' = new
  /\ UNCHANGED <<isClosed, inside, fused>>

(* Close takes effect while no method is at work.                          *)
CloseCell ==
  /\ inside = {}
  /\ isClosed' = TRUE
  /\ UNCHANGED <<cell, inside, fused>>

ANext ==
  \/ \E c \in Callers : Begin(c) \/ Fuse(c) \/ End(c)
  \/ \E new \in Configs : Update(new)
  \/ CloseCell

ASpec == AInit /\ [][ANext]_avars

-----------------------------------------------------------------------------
(* A search that has fused still sees its config published (no update     *)
(* slips in before it returns), and nothing is at work once closed.        *)
AConsistent ==
  /\ \A c \in Callers : fused[c] # NoConfig => c \in inside /\ fused[c] = cell
  /\ isClosed => inside = {}

(* The abstract specification keeps its type and AConsistent: the two     *)
(* promises of section 5 (updates linearizable with searches, Close       *)
(* happens-before every rejection) hold of the atomic coordinator.        *)
THEOREM AtomicConsistent ==
  ASSUME InitConfig \in Configs, Validate(InitConfig)
  PROVE  ASpec => [](ATypeOK /\ AConsistent)
<1> DEFINE AInv == ATypeOK /\ AConsistent
<1>1. AInit => AInv
  BY DEF AInit, ATypeOK, AConsistent
<1>2. AInv /\ [ANext]_avars => AInv'
  <2> SUFFICES ASSUME AInv, [ANext]_avars PROVE AInv'
    OBVIOUS
  <2>1. ASSUME NEW c \in Callers, Begin(c) PROVE AInv'
    BY <2>1 DEF Begin, ATypeOK, AConsistent
  <2>2. ASSUME NEW c \in Callers, Fuse(c) PROVE AInv'
    BY <2>2 DEF Fuse, ATypeOK, AConsistent
  <2>3. ASSUME NEW c \in Callers, End(c) PROVE AInv'
    BY <2>3 DEF End, ATypeOK, AConsistent
  <2>4. ASSUME NEW new \in Configs, Update(new) PROVE AInv'
    BY <2>4 DEF Update, ATypeOK, AConsistent
  <2>5. CASE CloseCell
    BY <2>5 DEF CloseCell, ATypeOK, AConsistent
  <2>6. CASE UNCHANGED avars
    BY <2>6 DEF avars, ATypeOK, AConsistent
  <2>7. QED
    BY <2>1, <2>2, <2>3, <2>4, <2>5, <2>6 DEF ANext
<1>3. QED
  BY <1>1, <1>2, PTL DEF ASpec
=============================================================================
