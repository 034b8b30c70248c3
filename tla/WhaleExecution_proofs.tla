----------------------- MODULE WhaleExecution_proofs -----------------------
(***************************************************************************)
(* Theorems about the execution engine for every set of mints and signals, *)
(* every position limit and every class of fault.                          *)
(*                                                                         *)
(* NoDuplicateBuy is not inductive.  What makes it so is the path of a     *)
(* mint through the three places the engine remembers it in: a purchase    *)
(* implies a line in the journal file, and, while the process is up, an    *)
(* entry of the in-memory set that the gate of Admit consults (LedgerInv). *)
(* That a purchase happens once in turn gives every mint at most one task, *)
(* which is what the accounting of permits needs (TaskInv).  The theorems  *)
(* about locks and positions hold under every fault: they say which step   *)
(* accounts for a mint that is still locked or that nobody watches.        *)
(*                                                                         *)
(* The second part is about CircuitBreaker, which the consumer asks.       *)
(***************************************************************************)
EXTENDS WhaleExecution, CircuitBreaker, FiniteSetTheorems, TLAPS

(* What the three memories of a mint have to do with each other.           *)
LedgerInv ==
  /\ NoDuplicateBuy
  /\ ReservedBeforeSubmit
  /\ reserved \subseteq journal
  /\ pc # "down" => \A m \in Mints : buys[m] > 0 => m \in reserved
  /\ pc = "submit" => cur.mint \in reserved /\ buys[cur.mint] = 0

(* A task exists only for a bought mint, and not before it is spawned.     *)
TaskInv ==
  /\ \A m \in Mints : task[m] # "none" => buys[m] > 0
  /\ pc \in {"accept", "landing"} =>
       task[cur.mint] = "none" /\ buys[cur.mint] > 0

IInv == TypeOK /\ LedgerInv /\ TaskInv /\ PermitsConserved

-----------------------------------------------------------------------------
(* Owned is finite, so its cardinality is a number one can count with.     *)
LEMMA OwnedFinite ==
  ASSUME NEW f
  PROVE  /\ IsFiniteSet({m \in Mints : f[m] # "none"})
         /\ Cardinality({m \in Mints : f[m] # "none"}) \in Nat
BY MintsAssumption, FS_Subset, FS_CardinalityType

(* Giving a mint without a task a task adds one owner.                     *)
LEMMA OwnedGrows ==
  ASSUME TypeOK, NEW m \in Mints, task[m] = "none",
         NEW t \in {"confirming", "watching"},
         task' = [task EXCEPT ![m] = t]
  PROVE  Cardinality(Owned') = Cardinality(Owned) + 1
<1>1. Owned' = Owned \cup {m} /\ m \notin Owned
  BY DEF Owned, TypeOK
<1>2. IsFiniteSet(Owned)
  BY OwnedFinite DEF Owned
<1> QED
  BY <1>1, <1>2, FS_AddElement

(* Ending the task of a mint removes one owner.                            *)
LEMMA OwnedShrinks ==
  ASSUME TypeOK, NEW m \in Mints, task[m] # "none",
         task' = [task EXCEPT ![m] = "none"]
  PROVE  /\ Cardinality(Owned') = Cardinality(Owned) - 1
         /\ Cardinality(Owned) > 0
<1>1. Owned' = Owned \ {m} /\ m \in Owned
  BY DEF Owned, TypeOK
<1>2. IsFiniteSet(Owned) /\ IsFiniteSet(Owned') /\ Cardinality(Owned') \in Nat
  BY OwnedFinite DEF Owned
<1>3. Cardinality(Owned') = Cardinality(Owned) - 1
  BY <1>1, <1>2, FS_RemoveElement
<1>4. Cardinality(Owned) \in Nat
  BY OwnedFinite DEF Owned
<1>5. Cardinality(Owned) # 0
  BY <1>1, <1>2, FS_EmptySet
<1> QED
  BY <1>3, <1>4, <1>5

(* Changing the stage of a task leaves the owners as they were.            *)
LEMMA OwnedStays ==
  ASSUME TypeOK, NEW m \in Mints, task[m] # "none",
         NEW t \in {"confirming", "watching"},
         task' = [task EXCEPT ![m] = t]
  PROVE  Owned' = Owned
BY DEF Owned, TypeOK

(* A dead process owns nothing.                                            *)
LEMMA OwnedEmpty ==
  ASSUME task' = [m \in Mints |-> "none"]
  PROVE  Cardinality(Owned') = 0
<1>1. Owned' = {}
  BY DEF Owned
<1> QED
  BY <1>1, FS_EmptySet

-----------------------------------------------------------------------------
(* While the consumer works on a signal, it has one that names a mint.     *)
LEMMA CurrentSignal ==
  ASSUME TypeOK, pc \notin {"idle", "down"}
  PROVE  cur \in Signals /\ cur.mint \in Mints
BY DEF TypeOK, Signals

LEMMA InitIInv == Init => IInv
<1> SUFFICES ASSUME Init PROVE IInv
  OBVIOUS
<1>1. Owned = {}
  BY DEF Init, Owned
<1>2. Cardinality(Owned) = 0
  BY <1>1, FS_EmptySet
<1>3. PermitsConserved
  BY <1>2, PositionsAssumption DEF Init, PermitsConserved, Owners, HoldsPermit
<1>4. TypeOK
  <2>1. cur \in Signals \cup {NoSignal}
    BY DEF Init
  <2>2. task \in [Mints -> {"none", "confirming", "watching"}]
    BY DEF Init
  <2>3. buys \in [Mints -> Nat]
    BY DEF Init
  <2>4. permits \in 0..MaxPositions
    BY PositionsAssumption DEF Init
  <2>5. /\ pc \in PCs /\ (pc \notin {"idle", "down"} => cur \in Signals)
        /\ losses \in Nat /\ received \in Nat /\ restarts \in Nat
        /\ tripped \in BOOLEAN /\ unloadable \in BOOLEAN
    BY DEF Init, PCs
  <2>6. /\ mintLocks \subseteq Mints /\ dedupe \subseteq Signals
        /\ reserved \subseteq Mints /\ journal \subseteq Mints
        /\ inflight \subseteq Mints /\ held \subseteq Mints
        /\ reported \subseteq Mints /\ stranded \subseteq Mints /\ left \subseteq Mints
    BY DEF Init
  <2> QED
    BY <2>1, <2>2, <2>3, <2>4, <2>5, <2>6 DEF TypeOK
<1>5. LedgerInv /\ TaskInv
  BY DEF Init, LedgerInv, TaskInv, NoDuplicateBuy, ReservedBeforeSubmit
<1> QED
  BY <1>3, <1>4, <1>5 DEF IInv

LEMMA ReceiveStep == IInv /\ Receive => IInv'
<1> SUFFICES ASSUME TypeOK, LedgerInv, TaskInv, PermitsConserved, Receive
             PROVE  IInv'
  BY DEF IInv
<1> USE DEF Receive, Goto, Continue, disk, chain, history, bounds
<1>1. Owned' = Owned /\ Cardinality(Owned) \in Nat
  BY OwnedFinite DEF Owned
<1>2. PermitsConserved'
  BY <1>1, PositionsAssumption
     DEF PermitsConserved, Owners, HoldsPermit, TypeOK
<1>3. TypeOK'
  BY <1>1, PositionsAssumption, NoSignalAssumption
     DEF TypeOK, PCs
<1>4. LedgerInv'
  BY DEF LedgerInv, NoDuplicateBuy, ReservedBeforeSubmit, TypeOK
<1>5. TaskInv'
  BY DEF TaskInv, LedgerInv, TypeOK
<1> QED
  BY <1>2, <1>3, <1>4, <1>5 DEF IInv

LEMMA BreakerGateStep == IInv /\ BreakerGate => IInv'
<1> SUFFICES ASSUME TypeOK, LedgerInv, TaskInv, PermitsConserved, BreakerGate
             PROVE  IInv'
  BY DEF IInv
<1> USE DEF BreakerGate, Goto, Continue, disk, chain, history, bounds
<1>1. Owned' = Owned /\ Cardinality(Owned) \in Nat
  BY OwnedFinite DEF Owned
<1>2. PermitsConserved'
  BY <1>1, PositionsAssumption
     DEF PermitsConserved, Owners, HoldsPermit, TypeOK
<1>3. TypeOK'
  <2>1. losses' \in Nat
    BY SMT DEF TypeOK
  <2>t. tripped' \in BOOLEAN
    BY Zenon DEF TypeOK
  <2>2. pc' \in PCs /\ cur' \in Signals \cup {NoSignal}
        /\ (pc' \notin {"idle", "down"} => cur' \in Signals)
    BY CurrentSignal DEF PCs
  <2> QED
    BY <2>1, <2>t, <2>2 DEF TypeOK
<1>4. LedgerInv'
  BY CurrentSignal DEF LedgerInv, NoDuplicateBuy, ReservedBeforeSubmit, TypeOK
<1>5. TaskInv'
  BY CurrentSignal DEF TaskInv, LedgerInv, TypeOK
<1> QED
  BY <1>2, <1>3, <1>4, <1>5 DEF IInv

LEMMA AdmitStep == IInv /\ Admit => IInv'
<1> SUFFICES ASSUME TypeOK, LedgerInv, TaskInv, PermitsConserved, Admit
             PROVE  IInv'
  BY DEF IInv
<1> USE DEF Admit, Goto, Continue, disk, chain, history, bounds
<1>1. Owned' = Owned /\ Cardinality(Owned) \in Nat
  BY OwnedFinite DEF Owned
<1>2. PermitsConserved'
  BY <1>1, PositionsAssumption
     DEF PermitsConserved, Owners, HoldsPermit, TypeOK
<1>3. TypeOK'
  BY <1>1, CurrentSignal, PositionsAssumption
     DEF TypeOK, PCs, PermitsConserved, Owners, HoldsPermit
<1>4. LedgerInv'
  BY CurrentSignal DEF LedgerInv, NoDuplicateBuy, ReservedBeforeSubmit, TypeOK
<1>5. TaskInv'
  BY CurrentSignal DEF TaskInv, LedgerInv, TypeOK
<1> QED
  BY <1>2, <1>3, <1>4, <1>5 DEF IInv

LEMMA LockMintStep == IInv /\ LockMint => IInv'
<1> SUFFICES ASSUME TypeOK, LedgerInv, TaskInv, PermitsConserved, LockMint
             PROVE  IInv'
  BY DEF IInv
<1> USE DEF LockMint, Goto, Continue, disk, chain, history, bounds
<1>1. Owned' = Owned /\ Cardinality(Owned) \in Nat
  BY OwnedFinite DEF Owned
<1>2. PermitsConserved'
  BY <1>1, PositionsAssumption
     DEF PermitsConserved, Owners, HoldsPermit, TypeOK
<1>3. TypeOK'
  BY <1>1, CurrentSignal, PositionsAssumption
     DEF TypeOK, PCs, PermitsConserved, Owners, HoldsPermit
<1>4. LedgerInv'
  BY CurrentSignal DEF LedgerInv, NoDuplicateBuy, ReservedBeforeSubmit, TypeOK
<1>5. TaskInv'
  BY CurrentSignal DEF TaskInv, LedgerInv, TypeOK
<1> QED
  BY <1>2, <1>3, <1>4, <1>5 DEF IInv

LEMMA BuildStep == IInv /\ Build => IInv'
<1> SUFFICES ASSUME TypeOK, LedgerInv, TaskInv, PermitsConserved, Build
             PROVE  IInv'
  BY DEF IInv
<1> USE DEF Build, Goto, Continue, Abandon, disk, chain, history, bounds
<1>1. Owned' = Owned /\ Cardinality(Owned) \in Nat
  BY OwnedFinite DEF Owned
<1>2. PermitsConserved'
  BY <1>1, PositionsAssumption
     DEF PermitsConserved, Owners, HoldsPermit, TypeOK
<1>3. TypeOK'
  BY <1>1, CurrentSignal, PositionsAssumption
     DEF TypeOK, PCs, PermitsConserved, Owners, HoldsPermit
<1>4. LedgerInv'
  BY CurrentSignal DEF LedgerInv, NoDuplicateBuy, ReservedBeforeSubmit, TypeOK
<1>5. TaskInv'
  BY CurrentSignal DEF TaskInv, LedgerInv, TypeOK
<1> QED
  BY <1>2, <1>3, <1>4, <1>5 DEF IInv

LEMMA CheckFreshStep == IInv /\ CheckFresh => IInv'
<1> SUFFICES ASSUME TypeOK, LedgerInv, TaskInv, PermitsConserved, CheckFresh
             PROVE  IInv'
  BY DEF IInv
<1> USE DEF CheckFresh, Goto, Continue, disk, chain, history, bounds
<1>1. Owned' = Owned /\ Cardinality(Owned) \in Nat
  BY OwnedFinite DEF Owned
<1>2. PermitsConserved'
  BY <1>1, PositionsAssumption
     DEF PermitsConserved, Owners, HoldsPermit, TypeOK
<1>3. TypeOK'
  BY <1>1, CurrentSignal, PositionsAssumption
     DEF TypeOK, PCs, PermitsConserved, Owners, HoldsPermit
<1>4. LedgerInv'
  BY CurrentSignal DEF LedgerInv, NoDuplicateBuy, ReservedBeforeSubmit, TypeOK
<1>5. TaskInv'
  BY CurrentSignal DEF TaskInv, LedgerInv, TypeOK
<1> QED
  BY <1>2, <1>3, <1>4, <1>5 DEF IInv

LEMMA TakeDedupeKeyStep == IInv /\ TakeDedupeKey => IInv'
<1> SUFFICES ASSUME TypeOK, LedgerInv, TaskInv, PermitsConserved, TakeDedupeKey
             PROVE  IInv'
  BY DEF IInv
<1> USE DEF TakeDedupeKey, Goto, Continue, Abandon, disk, chain, history, bounds
<1>1. Owned' = Owned /\ Cardinality(Owned) \in Nat
  BY OwnedFinite DEF Owned
<1>2. PermitsConserved'
  BY <1>1, PositionsAssumption
     DEF PermitsConserved, Owners, HoldsPermit, TypeOK
<1>3. TypeOK'
  BY <1>1, CurrentSignal, PositionsAssumption
     DEF TypeOK, PCs, PermitsConserved, Owners, HoldsPermit
<1>4. LedgerInv'
  BY CurrentSignal DEF LedgerInv, NoDuplicateBuy, ReservedBeforeSubmit, TypeOK
<1>5. TaskInv'
  BY CurrentSignal DEF TaskInv, LedgerInv, TypeOK
<1> QED
  BY <1>2, <1>3, <1>4, <1>5 DEF IInv

LEMMA ReserveStep == IInv /\ Reserve => IInv'
<1> SUFFICES ASSUME TypeOK, LedgerInv, TaskInv, PermitsConserved, Reserve
             PROVE  IInv'
  BY DEF IInv
<1> USE DEF Reserve, Goto, Continue, Abandon, WriteReservation, disk, chain, history, bounds
<1>1. Owned' = Owned /\ Cardinality(Owned) \in Nat
  BY OwnedFinite DEF Owned
<1>2. PermitsConserved'
  BY <1>1, PositionsAssumption
     DEF PermitsConserved, Owners, HoldsPermit, TypeOK
<1>3. TypeOK'
  <2>1. unloadable' \in BOOLEAN
    BY Zenon DEF TypeOK
  <2>2. journal' \subseteq Mints /\ reserved' \subseteq Mints
    BY CurrentSignal DEF TypeOK
  <2> QED
    BY <1>1, <2>1, <2>2, CurrentSignal, PositionsAssumption
         DEF TypeOK, PCs, PermitsConserved, Owners, HoldsPermit
<1>4. LedgerInv'
  BY CurrentSignal DEF LedgerInv, NoDuplicateBuy, ReservedBeforeSubmit, TypeOK
<1>5. TaskInv'
  BY CurrentSignal DEF TaskInv, LedgerInv, TypeOK
<1> QED
  BY <1>2, <1>3, <1>4, <1>5 DEF IInv

LEMMA SubmitStep == IInv /\ Submit => IInv'
<1> SUFFICES ASSUME TypeOK, LedgerInv, TaskInv, PermitsConserved, Submit
             PROVE  IInv'
  BY DEF IInv
<1> USE DEF Submit, Goto, Continue, disk, chain, history, bounds
<1>1. Owned' = Owned /\ Cardinality(Owned) \in Nat
  BY OwnedFinite DEF Owned
<1>2. PermitsConserved'
  BY <1>1, PositionsAssumption
     DEF PermitsConserved, Owners, HoldsPermit, TypeOK
<1>3. TypeOK'
  BY <1>1, CurrentSignal, PositionsAssumption
     DEF TypeOK, PCs, PermitsConserved, Owners, HoldsPermit
<1>4. LedgerInv'
  BY CurrentSignal DEF LedgerInv, NoDuplicateBuy, ReservedBeforeSubmit, TypeOK
<1>5. TaskInv'
  BY CurrentSignal DEF TaskInv, LedgerInv, TypeOK
<1> QED
  BY <1>2, <1>3, <1>4, <1>5 DEF IInv

(* What is in hand are mints.                                              *)
LEMMA InHandMints == InHand \subseteq Mints
BY DEF InHand, Owned

(* Losing the process empties the memory and leaves all permits free.      *)
LEMMA LoseProcessFacts ==
  ASSUME LoseProcess
  PROVE  /\ PermitsConserved'
         /\ pc' \in PCs /\ pc' = "down" /\ cur' = NoSignal
         /\ permits' \in 0..MaxPositions /\ losses' \in Nat
         /\ tripped' \in BOOLEAN
         /\ task' \in [Mints -> {"none", "confirming", "watching"}]
<1>1. Cardinality(Owned') = 0
  BY OwnedEmpty DEF LoseProcess
<1>2. PermitsConserved'
  BY <1>1, PositionsAssumption
     DEF LoseProcess, PermitsConserved, Owners, HoldsPermit
<1>3. permits' \in 0..MaxPositions /\ losses' \in Nat
  BY PositionsAssumption DEF LoseProcess
<1>4. task' \in [Mints -> {"none", "confirming", "watching"}]
  BY DEF LoseProcess
<1> QED
  BY <1>2, <1>3, <1>4, Zenon DEF LoseProcess, PCs

LEMMA RecordAcceptanceStep == IInv /\ RecordAcceptance => IInv'
<1> SUFFICES ASSUME TypeOK, LedgerInv, TaskInv, PermitsConserved,
                    RecordAcceptance
             PROVE  IInv'
  BY DEF IInv
<1> USE DEF chain, history, bounds
<1>a. CASE Goto("landing") /\ UNCHANGED <<permits, mintLocks, dedupe, reserved,
              losses, tripped, task, unloadable, left>>
  <2> USE <1>a DEF RecordAcceptance, Goto
  <2>1. Owned' = Owned /\ Cardinality(Owned) \in Nat
    BY OwnedFinite DEF Owned
  <2>2. PermitsConserved'
    BY <2>1, PositionsAssumption
       DEF PermitsConserved, Owners, HoldsPermit, TypeOK
  <2>3. TypeOK'
    BY CurrentSignal DEF TypeOK, PCs
  <2>4. LedgerInv' /\ TaskInv'
    BY DEF LedgerInv, TaskInv, NoDuplicateBuy, ReservedBeforeSubmit
  <2> QED
    BY <2>2, <2>3, <2>4 DEF IInv
<1>b. CASE LoseProcess /\ unloadable' \in {unloadable, TRUE}
  <2> USE <1>b DEF RecordAcceptance
  <2>1. unloadable' \in BOOLEAN
    BY DEF TypeOK
  <2>2. TypeOK'
    BY <2>1, LoseProcessFacts, InHandMints DEF TypeOK, LoseProcess
  <2>3. LedgerInv' /\ TaskInv'
    BY DEF LedgerInv, TaskInv, NoDuplicateBuy, ReservedBeforeSubmit, LoseProcess
  <2> QED
    BY <2>2, <2>3, LoseProcessFacts DEF IInv
<1> QED
  BY <1>a, <1>b DEF RecordAcceptance

LEMMA SpawnHandoffStep == IInv /\ SpawnHandoff => IInv'
<1> SUFFICES ASSUME TypeOK, LedgerInv, TaskInv, PermitsConserved, SpawnHandoff
             PROVE  IInv'
  BY DEF IInv
<1> USE DEF SpawnHandoff, Continue, disk, chain, history, bounds
<1>a. cur.mint \in Mints /\ task[cur.mint] = "none" /\ buys[cur.mint] > 0
  BY CurrentSignal DEF TaskInv
<1>1. Cardinality(Owned') = Cardinality(Owned) + 1 /\ Cardinality(Owned) \in Nat
  BY <1>a, OwnedGrows, OwnedFinite DEF Owned
<1>2. PermitsConserved'
  BY <1>1, PositionsAssumption DEF PermitsConserved, Owners, HoldsPermit, TypeOK
<1>3. TypeOK'
  BY <1>a DEF TypeOK, PCs
<1>4. LedgerInv'
  BY DEF LedgerInv, NoDuplicateBuy, ReservedBeforeSubmit, TypeOK
<1>5. TaskInv'
  BY <1>a DEF TaskInv, TypeOK
<1> QED
  BY <1>2, <1>3, <1>4, <1>5 DEF IInv

(* The end of a task, however it ends: one owner fewer, one permit more.   *)
LEMMA TaskEndFacts ==
  ASSUME TypeOK, PermitsConserved, NEW m \in Mints, task[m] # "none",
         task' = [task EXCEPT ![m] = "none"],
         permits' = permits + 1, pc' = pc
  PROVE  PermitsConserved' /\ permits' \in 0..MaxPositions
<1>1. /\ Cardinality(Owned') = Cardinality(Owned) - 1
      /\ Cardinality(Owned) \in Nat /\ Cardinality(Owned) > 0
  BY OwnedShrinks, OwnedFinite DEF Owned
<1> QED
  BY <1>1, PositionsAssumption
     DEF PermitsConserved, Owners, HoldsPermit, TypeOK

LEMMA ConfirmBuyStep ==
  ASSUME NEW m \in Mints
  PROVE  IInv /\ ConfirmBuy(m) => IInv'
<1> SUFFICES ASSUME TypeOK, LedgerInv, TaskInv, PermitsConserved, ConfirmBuy(m)
             PROVE  IInv'
  BY DEF IInv
<1> USE DEF ConfirmBuy, disk, chain, history, bounds
<1>1. permits' \in 0..MaxPositions /\ PermitsConserved'
  <2>1. CASE /\ m \in held
             /\ task' = [task EXCEPT ![m] = "watching"]
             /\ permits' = permits
    <3>1. Owned' = Owned /\ Cardinality(Owned) \in Nat
      BY <2>1, OwnedStays, OwnedFinite DEF Owned
    <3> QED
      BY <2>1, <3>1, PositionsAssumption
         DEF PermitsConserved, Owners, HoldsPermit, TypeOK
  <2>2. CASE task' = [task EXCEPT ![m] = "none"] /\ permits' = permits + 1
    BY <2>2, TaskEndFacts
  <2> QED
    BY <2>1, <2>2
<1>2. PermitsConserved'
  BY <1>1
<1>3. TypeOK'
  BY <1>1 DEF TypeOK
<1>4. LedgerInv'
  BY DEF LedgerInv, NoDuplicateBuy, ReservedBeforeSubmit, TypeOK
<1>5. TaskInv'
  <2>1. \A n \in Mints : task'[n] # "none" => task[n] # "none"
    BY DEF TypeOK
  <2>2. pc \in {"accept", "landing"} => cur.mint \in Mints
    BY CurrentSignal
  <2> QED
    BY <2>1, <2>2 DEF TaskInv, TypeOK
<1> QED
  BY <1>2, <1>3, <1>4, <1>5 DEF IInv

LEMMA CloseSoldStep ==
  ASSUME NEW m \in Mints
  PROVE  IInv /\ CloseSold(m) => IInv'
<1> SUFFICES ASSUME TypeOK, LedgerInv, TaskInv, PermitsConserved, CloseSold(m)
             PROVE  IInv'
  BY DEF IInv
<1> USE DEF CloseSold, disk, history, bounds
<1>1. permits' \in 0..MaxPositions /\ PermitsConserved'
  BY TaskEndFacts
<1>2. PermitsConserved'
  BY <1>1
<1>3. TypeOK'
  BY <1>1 DEF TypeOK
<1>4. LedgerInv'
  BY DEF LedgerInv, NoDuplicateBuy, ReservedBeforeSubmit, TypeOK
<1>5. TaskInv'
  BY DEF TaskInv, TypeOK
<1> QED
  BY <1>2, <1>3, <1>4, <1>5 DEF IInv

LEMMA GiveUpPositionStep ==
  ASSUME NEW m \in Mints
  PROVE  IInv /\ GiveUpPosition(m) => IInv'
<1> SUFFICES ASSUME TypeOK, LedgerInv, TaskInv, PermitsConserved, GiveUpPosition(m)
             PROVE  IInv'
  BY DEF IInv
<1> USE DEF GiveUpPosition, disk, bounds
<1>1. permits' \in 0..MaxPositions /\ PermitsConserved'
  BY TaskEndFacts
<1>2. PermitsConserved'
  BY <1>1
<1>3. TypeOK'
  BY <1>1 DEF TypeOK
<1>4. LedgerInv'
  BY DEF LedgerInv, NoDuplicateBuy, ReservedBeforeSubmit, TypeOK
<1>5. TaskInv'
  BY DEF TaskInv, TypeOK
<1> QED
  BY <1>2, <1>3, <1>4, <1>5 DEF IInv

LEMMA SettleStep ==
  ASSUME NEW m \in Mints
  PROVE  IInv /\ Settle(m) => IInv'
<1> SUFFICES ASSUME TypeOK, LedgerInv, TaskInv, PermitsConserved, Settle(m)
             PROVE  IInv'
  BY DEF IInv
<1> USE DEF Settle, volatile, disk, history, bounds
<1>1. Owned' = Owned
  BY DEF Owned
<1>2. PermitsConserved'
  BY <1>1 DEF PermitsConserved, Owners, HoldsPermit
<1>3. TypeOK'
  BY DEF TypeOK
<1>4. LedgerInv'
  BY DEF LedgerInv, NoDuplicateBuy, ReservedBeforeSubmit, TypeOK
<1>5. TaskInv'
  BY DEF TaskInv, TypeOK
<1> QED
  BY <1>2, <1>3, <1>4, <1>5 DEF IInv

LEMMA ExpireLockStep ==
  ASSUME NEW m \in Mints
  PROVE  IInv /\ ExpireLock(m) => IInv'
<1> SUFFICES ASSUME TypeOK, LedgerInv, TaskInv, PermitsConserved, ExpireLock(m)
             PROVE  IInv'
  BY DEF IInv
<1> USE DEF ExpireLock, disk, chain, history, bounds
<1>1. Owned' = Owned
  BY DEF Owned
<1>2. PermitsConserved'
  BY <1>1 DEF PermitsConserved, Owners, HoldsPermit
<1>3. TypeOK'
  BY DEF TypeOK
<1>4. LedgerInv'
  BY DEF LedgerInv, NoDuplicateBuy, ReservedBeforeSubmit, TypeOK
<1>5. TaskInv'
  BY DEF TaskInv, TypeOK
<1> QED
  BY <1>2, <1>3, <1>4, <1>5 DEF IInv

LEMMA CrashStep == IInv /\ Crash => IInv'
<1> SUFFICES ASSUME TypeOK, LedgerInv, TaskInv, PermitsConserved, Crash
             PROVE  IInv'
  BY DEF IInv
<1> USE DEF Crash, disk, chain, history, bounds
<1>2. PermitsConserved'
  BY LoseProcessFacts
<1>3. TypeOK'
  BY LoseProcessFacts, InHandMints DEF TypeOK, LoseProcess
<1>4. LedgerInv'
  BY DEF LedgerInv, NoDuplicateBuy, ReservedBeforeSubmit, LoseProcess
<1>5. TaskInv'
  BY DEF TaskInv, LoseProcess
<1> QED
  BY <1>2, <1>3, <1>4, <1>5 DEF IInv

LEMMA RestartStep == IInv /\ Restart => IInv'
<1> SUFFICES ASSUME TypeOK, LedgerInv, TaskInv, PermitsConserved, Restart
             PROVE  IInv'
  BY DEF IInv
<1> USE DEF Restart, disk, chain, history
<1>1. Owned' = Owned
  BY DEF Owned
<1>2. PermitsConserved'
  BY <1>1 DEF PermitsConserved, Owners, HoldsPermit
<1>3. TypeOK'
  BY DEF TypeOK, PCs
<1>4. LedgerInv'
  BY DEF LedgerInv, NoDuplicateBuy, ReservedBeforeSubmit, TypeOK
<1>5. TaskInv'
  BY DEF TaskInv, TypeOK
<1> QED
  BY <1>2, <1>3, <1>4, <1>5 DEF IInv

LEMMA StutterStep == IInv /\ UNCHANGED vars => IInv'
BY DEF IInv, TypeOK, LedgerInv, TaskInv, PermitsConserved, Owners, Owned,
       NoDuplicateBuy, ReservedBeforeSubmit, vars, volatile, disk, chain, history, bounds

LEMMA NextIInv == IInv /\ [Next]_vars => IInv'
<1> SUFFICES ASSUME IInv, [Next]_vars PROVE IInv'
  OBVIOUS
<1>1. CASE Consumer
  BY <1>1, ReceiveStep, BreakerGateStep, AdmitStep, LockMintStep, BuildStep,
     CheckFreshStep, TakeDedupeKeyStep, ReserveStep, SubmitStep,
     RecordAcceptanceStep, SpawnHandoffStep DEF Consumer
<1>2. ASSUME NEW m \in Mints, PositionTask(m) \/ Settle(m) \/ ExpireLock(m)
      PROVE  IInv'
  BY <1>2, ConfirmBuyStep, CloseSoldStep, GiveUpPositionStep, SettleStep,
     ExpireLockStep DEF PositionTask
<1>3. CASE Crash
  BY <1>3, CrashStep
<1>4. CASE Restart
  BY <1>4, RestartStep
<1>5. CASE UNCHANGED vars
  BY <1>5, StutterStep
<1> QED
  BY <1>1, <1>2, <1>3, <1>4, <1>5 DEF Next

-----------------------------------------------------------------------------
(* The inductive invariant holds in every behaviour.                       *)
THEOREM Inductive == Spec => []IInv
BY InitIInv, NextIInv, PTL DEF Spec

(* Type correctness.                                                       *)
THEOREM TypeCorrect == Spec => []TypeOK
<1>1. IInv => TypeOK
  BY DEF IInv
<1> QED
  BY <1>1, Inductive, PTL

(* A mint is bought at most once, whatever lock expires, whatever write    *)
(* fails and however often the process restarts.                           *)
THEOREM BoughtAtMostOnce == Spec => []NoDuplicateBuy
<1>1. IInv => NoDuplicateBuy
  BY DEF IInv, LedgerInv
<1> QED
  BY <1>1, Inductive, PTL

(* No permit leaks and none is returned twice: RAII over two owners, every *)
(* early return of the consumer and every way a task can end.              *)
THEOREM PermitAccounting == Spec => []PermitsConserved
<1>1. IInv => PermitsConserved
  BY DEF IInv
<1> QED
  BY <1>1, Inductive, PTL

-----------------------------------------------------------------------------
(* Every step of the engine reserves, buys or leaves the ledger alone.     *)
LEMMA LedgerStep == IInv /\ [Next]_vars => [Ledger!Next]_(Ledger!vars)
<1> SUFFICES ASSUME IInv, [Next]_vars PROVE [Ledger!Next]_(Ledger!vars)
  OBVIOUS
<1> USE DEF Ledger!Next, Ledger!vars
<1>1. CASE Reserve
  <2>1. CASE UNCHANGED journal
    BY <1>1, <2>1 DEF Reserve, chain
  <2>2. CASE journal' = journal \cup {cur.mint}
    <3>1. {cur.mint} \in SUBSET Mints
      BY <1>1, CurrentSignal DEF IInv, Reserve
    <3>2. Ledger!Reserve({cur.mint})
      BY <1>1, <2>2 DEF Reserve, chain, Ledger!Reserve
    <3> QED
      BY <3>1, <3>2
  <2> QED
    BY <1>1, <2>1, <2>2 DEF Reserve, WriteReservation, disk
<1>2. CASE Submit
  <2>1. cur.mint \in Mints
    BY <1>2, CurrentSignal DEF IInv, Submit
  <2>2. cur.mint \in journal /\ buys[cur.mint] = 0
    BY <1>2 DEF IInv, LedgerInv, Submit
  <2>3. buys' = [buys EXCEPT ![cur.mint] = 1] /\ journal' = journal
    BY <1>2, <2>2 DEF Submit, disk
  <2> QED
    BY <2>1, <2>2, <2>3 DEF Ledger!Buy
<1>3. CASE UNCHANGED <<journal, buys>>
  BY <1>3
<1>4. ASSUME NEW m \in Mints, PositionTask(m) \/ Settle(m) \/ ExpireLock(m)
      PROVE  UNCHANGED <<journal, buys>>
  BY <1>4 DEF PositionTask, ConfirmBuy, CloseSold, GiveUpPosition, Settle,
              ExpireLock, disk, chain
<1>5. Crash \/ Restart \/ UNCHANGED vars
        => UNCHANGED <<journal, buys>>
  BY DEF Crash, Restart, vars, disk, chain
<1>6. Receive \/ BreakerGate \/ Admit \/ LockMint \/ Build \/ CheckFresh
        \/ TakeDedupeKey \/ RecordAcceptance \/ SpawnHandoff
        => UNCHANGED <<journal, buys>>
  BY DEF Receive, BreakerGate, Admit, LockMint, Build, CheckFresh,
         TakeDedupeKey, RecordAcceptance, SpawnHandoff, disk, chain
<1> QED
  BY <1>1, <1>2, <1>3, <1>4, <1>5, <1>6 DEF Next, Consumer

(* The engine implements BuyOnce: every purchase was reserved in the       *)
(* journal file before, and no failure, expiry or restart shows.           *)
THEOREM EngineImplementsBuyOnce == Spec => ImplementsBuyOnce
<1>1. Init => Ledger!Init
  BY DEF Init, Ledger!Init
<1> QED
  BY <1>1, LedgerStep, Inductive, PTL DEF Spec, ImplementsBuyOnce, Ledger!Spec

-----------------------------------------------------------------------------
(* What is locked was committed to, was left behind by a stale signal, or  *)
(* is the mint of an execution that still may fail early.                  *)
LocksCommitted ==
  mintLocks \subseteq
    reserved \cup stranded \cup
             {m \in Mints : pc \in {"build", "fresh", "dedupe", "reserve"}
                              /\ cur.mint = m}

(* No failure on the way from the lock to the reservation leaves its mint  *)
(* locked, crashes and failed journal writes included, but that of a       *)
(* signal that went stale while its transaction was built.                 *)
THEOREM EarlyExitUnlocks == Spec => []EarlyExitReleasesMint
<1>1. Init => LocksCommitted
  BY DEF Init, LocksCommitted
<1>2. IInv /\ LocksCommitted /\ [Next]_vars => LocksCommitted'
  <2> SUFFICES ASSUME IInv, LocksCommitted, [Next]_vars PROVE LocksCommitted'
    OBVIOUS
  <2> USE DEF LocksCommitted, Goto, Continue, history
  <2>1. CASE Consumer
    <3>1. Receive \/ BreakerGate \/ Admit => LocksCommitted'
      BY DEF Receive, BreakerGate, Admit
    <3>2. LockMint => LocksCommitted'
      BY CurrentSignal DEF LockMint, IInv
    <3>3. Build \/ CheckFresh \/ TakeDedupeKey => LocksCommitted'
      BY CurrentSignal DEF Build, CheckFresh, TakeDedupeKey, Abandon, history, IInv
    <3>4. Reserve => LocksCommitted'
      BY DEF Reserve, Abandon
    <3>5. Submit \/ RecordAcceptance \/ SpawnHandoff => LocksCommitted'
      BY DEF Submit, RecordAcceptance, SpawnHandoff, LoseProcess
    <3> QED
      BY <2>1, <3>1, <3>2, <3>3, <3>4, <3>5 DEF Consumer
  <2>2. ASSUME NEW m \in Mints, PositionTask(m) \/ Settle(m) \/ ExpireLock(m)
        PROVE  LocksCommitted'
    BY <2>2 DEF PositionTask, ConfirmBuy, CloseSold, GiveUpPosition, Settle,
                ExpireLock, volatile
  <2>3. CASE Crash
    BY <2>3 DEF Crash, LoseProcess
  <2>4. CASE Restart
    BY <2>4 DEF Restart, IInv, LedgerInv
  <2>5. CASE UNCHANGED vars
    BY <2>5 DEF vars, volatile
  <2> QED
    BY <2>1, <2>2, <2>3, <2>4, <2>5 DEF Next
<1>3. LocksCommitted => EarlyExitReleasesMint
  BY DEF LocksCommitted, EarlyExitReleasesMint
<1> QED
  BY <1>1, <1>2, <1>3, Inductive, PTL DEF Spec

-----------------------------------------------------------------------------
(* A bundle is decided once, and only bought mints are at stake: without   *)
(* this a mint that is sold could come back with no task to watch it.      *)
DecidedOnce ==
  /\ held \cap inflight = {}
  /\ \A m \in held \cup inflight : buys[m] > 0

WatchInv == DecidedOnce /\ NothingUnwatched

(* The process ends: what it had in hand is what it leaves behind.         *)
LEMMA LossWatches ==
  ASSUME WatchInv, LoseProcess, UNCHANGED <<chain, reported>>
  PROVE  WatchInv'
BY DEF WatchInv, DecidedOnce, NothingUnwatched, LoseProcess, chain

(* A bundle leaves the consumer: what is at stake grows by its mint at     *)
(* most, and that is in hand or reported.                                  *)
LEMMA SubmitWatches ==
  ASSUME IInv, WatchInv, Submit
  PROVE  WatchInv'
<1> USE DEF WatchInv, DecidedOnce, NothingUnwatched, InHand, Owned, Goto, Continue
<1>1. cur.mint \in Mints /\ buys[cur.mint] = 0 /\ buys \in [Mints -> Nat]
  BY CurrentSignal DEF IInv, LedgerInv, Submit, TypeOK
<1>2. held' = held /\ task' = task /\ left' = left /\ buys' = [buys EXCEPT ![cur.mint] = 1]
  BY <1>1 DEF Submit
<1>3. inflight' \subseteq inflight \cup {cur.mint}
  BY DEF Submit
<1>4. DecidedOnce'
  BY <1>1, <1>2, <1>3 DEF IInv, TypeOK
<1>5. NothingUnwatched'
  <2>1. CASE inflight' = inflight \cup {cur.mint} /\ Goto("accept") /\ reported' = reported
    BY <1>1, <1>2, <2>1 DEF Submit
  <2>2. CASE reported' = reported \cup {cur.mint}
    BY <1>2, <1>3, <2>2 DEF Submit
  <2> QED
    BY <2>1, <2>2 DEF Submit
<1> QED
  BY <1>4, <1>5

(* The consumer's steps keep what is at stake in somebody's hands.         *)
LEMMA ConsumerWatches ==
  ASSUME IInv, WatchInv, Consumer
  PROVE  WatchInv'
<1> USE DEF WatchInv, DecidedOnce, NothingUnwatched, InHand, Owned, Goto, Continue
<1>1. Receive \/ BreakerGate \/ Admit \/ LockMint => WatchInv'
  BY DEF Receive, BreakerGate, Admit, LockMint, chain, history
<1>2. Build \/ CheckFresh \/ TakeDedupeKey => WatchInv'
  BY DEF Build, CheckFresh, TakeDedupeKey, Abandon, chain, history
<1>3. Reserve => WatchInv'
  BY DEF Reserve, Abandon, chain, history
<1>4. Submit => WatchInv'
  BY SubmitWatches
<1>5. RecordAcceptance => WatchInv'
  <2>1. RecordAcceptance /\ LoseProcess => WatchInv'
    BY LossWatches DEF RecordAcceptance, chain
  <2>2. RecordAcceptance /\ ~LoseProcess => WatchInv'
    BY DEF RecordAcceptance, chain
  <2> QED
    BY <2>1, <2>2
<1>6. CASE SpawnHandoff
  <2>1. cur.mint \in Mints /\ task \in [Mints -> {"none", "confirming", "watching"}]
    BY <1>6, CurrentSignal DEF IInv, TypeOK, SpawnHandoff
  <2> QED
    BY <1>6, <2>1 DEF SpawnHandoff, chain, history
<1> QED
  BY <1>1, <1>2, <1>3, <1>4, <1>5, <1>6 DEF Consumer

(* So do the position tasks and the chain.                                 *)
LEMMA TasksWatch ==
  ASSUME IInv, WatchInv, NEW m \in Mints,
         PositionTask(m) \/ Settle(m) \/ ExpireLock(m)
  PROVE  WatchInv'
<1> USE DEF WatchInv, DecidedOnce, NothingUnwatched, InHand, Owned
<1>1. task \in [Mints -> {"none", "confirming", "watching"}]
  BY DEF IInv, TypeOK
<1>2. ConfirmBuy(m) => WatchInv'
  BY <1>1 DEF ConfirmBuy, chain
<1>3. CloseSold(m) => WatchInv'
  BY <1>1 DEF CloseSold, history
<1>4. GiveUpPosition(m) => WatchInv'
  BY <1>1 DEF GiveUpPosition
<1>5. Settle(m) \/ ExpireLock(m) => WatchInv'
  BY DEF Settle, ExpireLock, volatile, chain, history
<1> QED
  BY <1>2, <1>3, <1>4, <1>5 DEF PositionTask

(* The two together are inductive, whatever fails.                         *)
LEMMA Watched == Spec => []WatchInv
<1>1. Init => WatchInv
  BY DEF Init, WatchInv, DecidedOnce, NothingUnwatched
<1>2. IInv /\ WatchInv /\ [Next]_vars => WatchInv'
  <2> SUFFICES ASSUME IInv, WatchInv, [Next]_vars PROVE WatchInv'
    OBVIOUS
  <2>1. CASE UNCHANGED vars
    BY <2>1 DEF vars, volatile, chain, history, WatchInv, DecidedOnce,
                NothingUnwatched, InHand, Owned
  <2>2. CASE Crash
    BY <2>2, LossWatches DEF Crash
  <2>3. CASE Restart
    BY <2>3 DEF Restart, chain, history, WatchInv, DecidedOnce,
                NothingUnwatched, InHand, Owned
  <2> QED
    BY <2>1, <2>2, <2>3, ConsumerWatches, TasksWatch DEF Next
<1> QED
  BY <1>1, <1>2, Inductive, PTL DEF Spec

(* Tokens held, and bundles that may still bring some, are in somebody's   *)
(* hands or accounted for, over every failed submission, confirmation and  *)
(* sale, every lost feed and every end of the process.                     *)
THEOREM EveryPositionWatched == Spec => []NothingUnwatched
<1>1. WatchInv => NothingUnwatched
  BY DEF WatchInv
<1> QED
  BY <1>1, Watched, PTL

(* What is held and not accounted for is in hand, and whoever has it in    *)
(* hand has a permit: so the permits bound the wallet's live positions.    *)
THEOREM PositionsCapped == Spec => []HeldWithinCap
<1>1. IInv /\ WatchInv => HeldWithinCap
  <2> DEFINE live == held \ (reported \cup left)
  <2> SUFFICES ASSUME IInv, WatchInv PROVE Cardinality(live) <= MaxPositions
    BY DEF HeldWithinCap
  <2>0. live \subseteq InHand
    BY DEF WatchInv, NothingUnwatched
  <2> HIDE DEF live
  <2>1. IsFiniteSet(Owned) /\ Cardinality(Owned) \in Nat
    BY OwnedFinite DEF Owned
  <2>2. permits \in Nat /\ MaxPositions \in Nat
    BY PositionsAssumption DEF IInv, TypeOK
  <2>3. CASE pc \in {"accept", "landing"}
    <3>1. live \subseteq Owned \cup {cur.mint}
      BY <2>0 DEF InHand
    <3>2. cur.mint \notin Owned
      BY <2>3 DEF IInv, TaskInv, Owned
    <3>3. /\ IsFiniteSet(Owned \cup {cur.mint})
          /\ Cardinality(Owned \cup {cur.mint}) = Cardinality(Owned) + 1
      BY <2>1, <3>2, FS_AddElement
    <3>4. Cardinality(live) <= Cardinality(Owned) + 1
      BY <3>1, <3>3, FS_Subset
    <3>5. permits + (Cardinality(Owned) + 1) = MaxPositions
      BY <2>3 DEF IInv, PermitsConserved, Owners, HoldsPermit
    <3>6. Cardinality(live) \in Nat
      BY <3>1, <3>3, FS_Subset, FS_CardinalityType
    <3> QED
      BY <2>1, <2>2, <3>4, <3>5, <3>6
  <2>4. CASE pc \notin {"accept", "landing"}
    <3>1. live \subseteq Owned
      BY <2>0, <2>4 DEF InHand
    <3>2. Cardinality(live) <= Cardinality(Owned) /\ Cardinality(live) \in Nat
      BY <2>1, <3>1, FS_Subset, FS_CardinalityType
    <3>3. Cardinality(Owned) <= MaxPositions
      BY <2>1, <2>2 DEF IInv, PermitsConserved, Owners
    <3> QED
      BY <2>1, <2>2, <3>2, <3>3
  <2> QED
    BY <2>3, <2>4
<1> QED
  BY <1>1, Watched, Inductive, PTL

-----------------------------------------------------------------------------
(* The circuit breaker that the consumer asks before it admits a signal,   *)
(* for any callers, threshold and cooldown.                                *)

LEMMA BreakerTyped ==
  /\ (BreakerInit => BreakerTypeOK)
  /\ (BreakerTypeOK /\ [BreakerNext]_breakerVars => BreakerTypeOK')
<1>1. ASSUME BreakerInit PROVE BreakerTypeOK
  BY <1>1, TripAssumption, CooldownAssumption, LossesAssumption, NotTrippedAssumption
  DEF BreakerInit, BreakerTypeOK
<1>2. ASSUME BreakerTypeOK, [BreakerNext]_breakerVars PROVE BreakerTypeOK'
  <2> USE <1>2, TripAssumption, CooldownAssumption, LossesAssumption, NotTrippedAssumption
      DEF BreakerTypeOK
  <2>1. ASSUME NEW r \in Results, CloseTrade(r) PROVE BreakerTypeOK'
    BY <2>1 DEF CloseTrade
  <2>2. ASSUME NEW c \in Callers, LoadLosses(c) PROVE BreakerTypeOK'
    BY <2>2 DEF LoadLosses
  <2>3. ASSUME NEW c \in Callers, Check(c) PROVE BreakerTypeOK'
    BY <2>3
    DEF Check, BelowThreshold, Trip, StillCooling, AutoReset, Leave
  <2>4. CASE Tick BY <2>4 DEF Tick
  <2>5. CASE UNCHANGED breakerVars BY <2>5 DEF breakerVars
  <2> QED BY <1>2, <2>1, <2>2, <2>3, <2>4, <2>5 DEF BreakerNext
<1> QED BY <1>1, <1>2

(* The streak, the trip mark and what the checks loaded keep their types; *)
(* in particular the counter, a usize, is never taken below zero.          *)
THEOREM BreakerTypeCorrect == BreakerSpec => []BreakerTypeOK
BY BreakerTyped, PTL DEF BreakerSpec
=============================================================================
