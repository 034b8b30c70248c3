--------------------------- MODULE SwapFeed_proofs ---------------------------
(***************************************************************************)
(* Proofs about SwapFeed, for any pools, capacities and bounds.            *)
(*                                                                         *)
(* Two swaps of one epoch may have nothing lost between them because of    *)
(* what holds when the later one is enqueued: every swap is enqueued, lost *)
(* or left out in the order of the chain, and while the listener streams   *)
(* nothing was lost behind an event that carries the current epoch.        *)
(*                                                                         *)
(* What a watcher has got is compared with what is due to it, swap by swap *)
(* along the chain: its mailbox, the event held and the rest of the log    *)
(* are one sequence that leaves out only what was skipped on the way.      *)
(***************************************************************************)
EXTENDS SwapFeed, SequenceTheorems, TLAPS

Passed == Range(log) \cup Range(queue)

(* The last swap that was enqueued, lost or left out.                      *)
Decided == chain - Len(batch)

StreamTyped ==
  /\ chain \in Nat /\ epoch \in Nat
  /\ batch \in Seq([seq : Nat, pool : Pools \cup {Filtered}])
  /\ Len(batch) <= chain
  /\ queue \in Seq([seq : Nat, pool : Pools, epoch : Nat])
  /\ log \in Seq([seq : Nat, pool : Pools, epoch : Nat])

InChainOrder ==
  /\ \A i \in 1..Len(batch) : batch[i].seq = Decided + i
  /\ batch # <<>> => conn = "streaming"
  /\ \A e \in Passed : e.seq <= Decided /\ e.epoch <= epoch
  /\ \A s \in lost : s \in Nat /\ s <= Decided

UnbrokenNow ==
  conn = "streaming" =>
    \A e \in Passed : e.epoch = epoch => \A s \in lost : s <= e.seq

GInv == StreamTyped /\ InChainOrder /\ UnbrokenNow /\ EpochMarksGaps

-----------------------------------------------------------------------------
(* Steps that take nothing from the batch and pass nothing on.             *)
LEMMA PassedTyped ==
  ASSUME StreamTyped, NEW e \in Passed
  PROVE  e.seq \in Nat /\ e.epoch \in Nat
<1>1. (\E i \in DOMAIN log : e = log[i]) \/ (\E i \in DOMAIN queue : e = queue[i])
  BY DEF Passed, Range
<1>2. \A i \in DOMAIN log : log[i] \in [seq : Nat, pool : Pools, epoch : Nat]
  BY ElementOfSeq, LenProperties DEF StreamTyped
<1>3. \A i \in DOMAIN queue : queue[i] \in [seq : Nat, pool : Pools, epoch : Nat]
  BY ElementOfSeq, LenProperties DEF StreamTyped
<1> QED BY <1>1, <1>2, <1>3

LEMMA InitGaps == Init => GInv
<1> SUFFICES ASSUME Init PROVE GInv OBVIOUS
<1>1. StreamTyped BY DEF Init, StreamTyped
<1>2. Passed = {} BY DEF Init, Passed, Range
<1>3. InChainOrder /\ UnbrokenNow BY <1>2 DEF Init, InChainOrder, UnbrokenNow
<1>4. EpochMarksGaps BY <1>2 DEF EpochMarksGaps, Passed
<1> QED BY <1>1, <1>3, <1>4 DEF GInv

(* Steps behind the queue, and those of main, see none of this.            *)
LEMMA ElsewhereKeeps ==
  ASSUME GInv, UNCHANGED <<chain, batch, lost, epoch, queue, log>>,
         conn' = conn \/ (batch = <<>> /\ conn' # "streaming")
  PROVE  GInv'
<1>1. Passed' = Passed /\ Decided' = Decided BY DEF Passed, Decided
<1>2. StreamTyped' BY DEF GInv, StreamTyped
<1>3. InChainOrder' BY <1>1 DEF GInv, InChainOrder
<1>4. UnbrokenNow' BY <1>1 DEF GInv, UnbrokenNow
<1>5. EpochMarksGaps' BY DEF GInv, EpochMarksGaps
<1> QED BY <1>2, <1>3, <1>4, <1>5 DEF GInv

(* A new subscription is a new epoch, which no event carries yet.          *)
LEMMA SubscribedKeeps == GInv /\ Subscribed => GInv'
<1> SUFFICES ASSUME GInv, Subscribed PROVE GInv' OBVIOUS
<1>1. /\ UNCHANGED <<chain, batch, lost, queue, log>>
      /\ epoch' = epoch + 1 /\ epoch \in Nat
  BY DEF GInv, StreamTyped, Subscribed, source, tail
<1>2. Passed' = Passed /\ Decided' = Decided BY <1>1 DEF Passed, Decided
<1>3. StreamTyped' BY <1>1 DEF GInv, StreamTyped
<1>4. \A e \in Passed : e.epoch \in Nat /\ e.epoch <= epoch
  BY PassedTyped DEF GInv, InChainOrder
<1>5. InChainOrder' BY <1>1, <1>2, <1>4 DEF GInv, InChainOrder, Subscribed
<1>6. UnbrokenNow' BY <1>1, <1>2, <1>4 DEF UnbrokenNow
<1>7. EpochMarksGaps' BY <1>1 DEF GInv, EpochMarksGaps
<1> QED BY <1>3, <1>5, <1>6, <1>7 DEF GInv

(* A swap nobody was subscribed for lies behind all that passed.           *)
LEMMA MissKeeps == GInv /\ Miss => GInv'
<1> SUFFICES ASSUME GInv, Miss PROVE GInv' OBVIOUS
<1>1. /\ UNCHANGED <<batch, conn, epoch, queue, log>>
      /\ chain' = chain + 1 /\ lost' = lost \cup {chain + 1}
      /\ conn # "streaming" /\ batch = <<>> /\ chain \in Nat /\ Len(batch) = 0
  BY DEF GInv, StreamTyped, InChainOrder, Miss, tail
<1>2. Passed' = Passed /\ Decided = chain /\ Decided' = chain + 1
  BY <1>1 DEF Passed, Decided
<1>3. \A e \in Passed : e.seq \in Nat /\ e.seq <= chain
  BY <1>2, PassedTyped DEF GInv, InChainOrder
<1>4. StreamTyped' BY <1>1 DEF GInv, StreamTyped
<1>5. InChainOrder'
  <2>1. \A s \in lost : s \in Nat /\ s <= chain
    BY <1>2 DEF GInv, InChainOrder
  <2> QED BY <1>1, <1>2, <1>3, <2>1 DEF GInv, InChainOrder
<1>6. UnbrokenNow' BY <1>1 DEF UnbrokenNow
<1>7. EpochMarksGaps'
  <2> SUFFICES ASSUME NEW e \in Passed, NEW f \in Passed, e.epoch = f.epoch
               PROVE  (lost \cup {chain + 1}) \cap (e.seq + 1)..(f.seq - 1) = {}
    BY <1>1, <1>2 DEF EpochMarksGaps, Passed
  <2>1. lost \cap (e.seq + 1)..(f.seq - 1) = {}
    BY DEF GInv, EpochMarksGaps, Passed
  <2>2. chain + 1 \notin (e.seq + 1)..(f.seq - 1) BY <1>1, <1>3
  <2> QED BY <2>1, <2>2
<1> QED BY <1>4, <1>5, <1>6, <1>7 DEF GInv

LEMMA UndecodableKeeps == GInv /\ Undecodable => GInv'
<1> SUFFICES ASSUME GInv, Undecodable PROVE GInv' OBVIOUS
<1>1. /\ UNCHANGED <<batch, lost, conn, epoch, queue, log>>
      /\ chain' = chain + 1 /\ batch = <<>> /\ chain \in Nat /\ Len(batch) = 0
  BY DEF GInv, StreamTyped, Undecodable, tail
<1>2. Passed' = Passed /\ Decided = chain /\ Decided' = chain + 1
  BY <1>1 DEF Passed, Decided
<1>3. \A e \in Passed : e.seq \in Nat BY PassedTyped DEF GInv
<1>4. StreamTyped' BY <1>1 DEF GInv, StreamTyped
<1>5. InChainOrder' BY <1>1, <1>2, <1>3 DEF GInv, InChainOrder
<1>6. UnbrokenNow' BY <1>1, <1>2 DEF GInv, UnbrokenNow
<1>7. EpochMarksGaps' BY <1>1 DEF GInv, EpochMarksGaps
<1> QED BY <1>4, <1>5, <1>6, <1>7 DEF GInv

LEMMA FunctionIsSeq ==
  ASSUME NEW S, NEW n \in Nat, NEW f \in [1..n -> S]
  PROVE  f \in Seq(S) /\ Len(f) = n
<1>1. f \in Seq(S) BY IsASeq
<1>2. Len(f) \in Nat /\ DOMAIN f = 1..Len(f) /\ DOMAIN f = 1..n
  BY <1>1, LenProperties
<1> QED BY <1>1, <1>2

(* A transaction's swaps are numbered behind the last one.                 *)
LEMMA NotifyKeeps ==
  ASSUME GInv, NEW n \in 1..MaxBatch, NEW pools \in [1..n -> Pools \cup {Filtered}],
         Notify(pools)
  PROVE  GInv'
<1>1. /\ UNCHANGED <<lost, conn, epoch, queue, log>>
      /\ batch = <<>> /\ chain \in Nat /\ Len(batch) = 0 /\ conn = "streaming"
  BY DEF GInv, StreamTyped, Notify, tail
<1>2. n \in Nat /\ DOMAIN pools = 1..n /\ Len(pools) = n
  BY BoundsAssumption, FunctionIsSeq
<1>3. /\ chain' = chain + n
      /\ batch' = [i \in 1..n |-> [seq |-> chain + i, pool |-> pools[i]]]
  BY <1>2 DEF Notify
<1>4. batch' \in Seq([seq : Nat, pool : Pools \cup {Filtered}]) /\ Len(batch') = n
  <2> DEFINE S == [seq : Nat, pool : Pools \cup {Filtered}]
  <2>1. batch' \in [1..n -> S] BY <1>1, <1>2, <1>3
  <2> HIDE DEF S
  <2>2. batch' \in Seq(S) /\ Len(batch') = n BY <1>2, <2>1, FunctionIsSeq
  <2> QED BY <2>2 DEF S
<1>5. Passed' = Passed /\ Decided = chain /\ Decided' = chain
  BY <1>1, <1>2, <1>3, <1>4 DEF Passed, Decided
<1>6. StreamTyped' BY <1>1, <1>2, <1>3, <1>4 DEF GInv, StreamTyped
<1>7. InChainOrder' BY <1>1, <1>2, <1>3, <1>4, <1>5 DEF GInv, InChainOrder
<1>8. UnbrokenNow' BY <1>1, <1>5 DEF GInv, UnbrokenNow
<1>9. EpochMarksGaps' BY <1>1 DEF GInv, EpochMarksGaps
<1> QED BY <1>6, <1>7, <1>8, <1>9 DEF GInv

(* Taking the next swap from the batch: it is the one behind the decided   *)
(* ones, and the rest is still in order.                                   *)
LEMMA TakeHead ==
  ASSUME GInv, batch # <<>>, batch' = Tail(batch), chain' = chain
  PROVE  /\ Head(batch).seq = Decided + 1 /\ Decided \in Nat
         /\ Decided' = Decided + 1 /\ Head(batch).pool \in Pools \cup {Filtered}
         /\ batch' \in Seq([seq : Nat, pool : Pools \cup {Filtered}])
         /\ Len(batch') <= chain'
         /\ \A i \in 1..Len(batch') : batch'[i].seq = Decided' + i
         /\ conn = "streaming"
<1> DEFINE S == [seq : Nat, pool : Pools \cup {Filtered}]
<1>1. /\ batch \in Seq(S) /\ chain \in Nat /\ Len(batch) <= chain
      /\ \A i \in 1..Len(batch) : batch[i].seq = Decided + i
      /\ conn = "streaming"
  BY DEF GInv, StreamTyped, InChainOrder
<1>2. Head(batch) = batch[1] /\ Head(batch).pool \in Pools \cup {Filtered}
  <2>1. Head(batch) \in S BY <1>1, HeadTailProperties
  <2> QED BY <2>1
<1> HIDE DEF S
<1>3. /\ Len(batch) \in Nat \ {0} /\ batch' \in Seq(S)
      /\ Len(batch') = Len(batch) - 1
      /\ \A i \in 1..Len(batch') : batch'[i] = batch[i + 1]
  BY <1>1, HeadTailProperties, EmptySeq
<1>4. Head(batch).seq = Decided + 1 /\ Decided \in Nat /\ Decided' = Decided + 1
  BY <1>1, <1>2, <1>3 DEF Decided
<1>5. \A i \in 1..Len(batch') : batch'[i].seq = Decided' + i
  <2> SUFFICES ASSUME NEW i \in 1..Len(batch') PROVE batch[i + 1].seq = Decided' + i
    BY <1>3
  <2>1. i + 1 \in 1..Len(batch) /\ i \in Nat BY <1>3
  <2> QED BY <1>1, <1>4, <2>1
<1>6. Len(batch') <= chain' BY <1>1, <1>3
<1> QED BY <1>1, <1>2, <1>3, <1>4, <1>5, <1>6 DEF S

LEMMA FilterDropKeeps == GInv /\ FilterDrop => GInv'
<1> SUFFICES ASSUME GInv, FilterDrop PROVE GInv' OBVIOUS
<1>1. /\ UNCHANGED <<chain, lost, conn, epoch, queue, log>>
      /\ batch # <<>> /\ batch' = Tail(batch)
  BY DEF FilterDrop, tail
<1>2. /\ Decided \in Nat /\ Decided' = Decided + 1
      /\ batch' \in Seq([seq : Nat, pool : Pools \cup {Filtered}])
      /\ Len(batch') <= chain'
      /\ \A i \in 1..Len(batch') : batch'[i].seq = Decided' + i
      /\ conn = "streaming"
  BY <1>1, TakeHead
<1>3. Passed' = Passed BY <1>1 DEF Passed
<1>4. \A e \in Passed : e.seq \in Nat BY PassedTyped DEF GInv
<1>5. StreamTyped' BY <1>1, <1>2 DEF GInv, StreamTyped
<1>6. InChainOrder' BY <1>1, <1>2, <1>3, <1>4 DEF GInv, InChainOrder
<1>7. UnbrokenNow' BY <1>1, <1>3 DEF GInv, UnbrokenNow
<1>8. EpochMarksGaps' BY <1>1 DEF GInv, EpochMarksGaps
<1> QED BY <1>5, <1>6, <1>7, <1>8 DEF GInv

(* A full queue: what was lost lies behind all that passed, and nothing    *)
(* carries the new epoch yet.                                              *)
LEMMA QueueFullKeeps == GInv /\ QueueFull => GInv'
<1> SUFFICES ASSUME GInv, QueueFull PROVE GInv' OBVIOUS
<1>1. /\ UNCHANGED <<chain, conn, queue, log>>
      /\ batch # <<>> /\ batch' = Tail(batch) /\ epoch \in Nat
      /\ epoch' = epoch + 1 /\ lost' = lost \cup {Head(batch).seq}
  BY DEF GInv, StreamTyped, QueueFull, tail
<1>2. /\ Head(batch).seq = Decided + 1 /\ Decided \in Nat /\ Decided' = Decided + 1
      /\ batch' \in Seq([seq : Nat, pool : Pools \cup {Filtered}])
      /\ Len(batch') <= chain'
      /\ \A i \in 1..Len(batch') : batch'[i].seq = Decided' + i
      /\ conn = "streaming"
  BY <1>1, TakeHead
<1>3. Passed' = Passed BY <1>1 DEF Passed
<1>4. \A e \in Passed : /\ e.seq \in Nat /\ e.seq <= Decided
                       /\ e.epoch \in Nat /\ e.epoch <= epoch
  BY PassedTyped DEF GInv, InChainOrder
<1>5. StreamTyped' BY <1>1, <1>2 DEF GInv, StreamTyped
<1>6. InChainOrder'
  <2>1. \A s \in lost' : s \in Nat /\ s <= Decided'
    BY <1>1, <1>2 DEF GInv, InChainOrder
  <2> QED BY <1>1, <1>2, <1>3, <1>4, <2>1 DEF GInv, InChainOrder
<1>7. UnbrokenNow' BY <1>1, <1>3, <1>4 DEF UnbrokenNow
<1>8. EpochMarksGaps'
  <2> SUFFICES ASSUME NEW e \in Passed, NEW f \in Passed, e.epoch = f.epoch
               PROVE  (lost \cup {Decided + 1}) \cap (e.seq + 1)..(f.seq - 1) = {}
    BY <1>1, <1>2, <1>3 DEF EpochMarksGaps, Passed
  <2>1. lost \cap (e.seq + 1)..(f.seq - 1) = {}
    BY DEF GInv, EpochMarksGaps, Passed
  <2>2. Decided + 1 \notin (e.seq + 1)..(f.seq - 1) BY <1>2, <1>4
  <2> QED BY <2>1, <2>2
<1> QED BY <1>5, <1>6, <1>7, <1>8 DEF GInv

(* The event that is enqueued carries the current epoch: nothing was lost  *)
(* since the other events that carry it.                                   *)
LEMMA EnqueueKeeps == GInv /\ Enqueue => GInv'
<1> SUFFICES ASSUME GInv, Enqueue PROVE GInv' OBVIOUS
<1> DEFINE new == [seq |-> Head(batch).seq, pool |-> Head(batch).pool, epoch |-> epoch]
           E   == [seq : Nat, pool : Pools, epoch : Nat]
<1>1. /\ UNCHANGED <<chain, lost, conn, epoch, log>>
      /\ batch # <<>> /\ batch' = Tail(batch) /\ epoch \in Nat
      /\ Head(batch).pool # Filtered /\ queue' = Append(queue, new)
      /\ queue \in Seq(E)
  BY DEF GInv, StreamTyped, Enqueue, tail
<1>2. /\ Head(batch).seq = Decided + 1 /\ Decided \in Nat /\ Decided' = Decided + 1
      /\ Head(batch).pool \in Pools \cup {Filtered}
      /\ batch' \in Seq([seq : Nat, pool : Pools \cup {Filtered}])
      /\ Len(batch') <= chain'
      /\ \A i \in 1..Len(batch') : batch'[i].seq = Decided' + i
      /\ conn = "streaming"
  BY <1>1, TakeHead
<1>3. new \in E /\ new.seq = Decided + 1 /\ new.epoch = epoch
  BY <1>1, <1>2
<1> HIDE DEF new, E
<1>4. queue' \in Seq(E) /\ Range(queue') = Range(queue) \cup {new}
  <2>1. /\ queue' \in Seq(E) /\ Len(queue) \in Nat
        /\ DOMAIN queue = 1..Len(queue) /\ DOMAIN queue' = 1..Len(queue) + 1
        /\ \A i \in 1..Len(queue) : queue'[i] = queue[i]
        /\ queue'[Len(queue) + 1] = new
    BY <1>1, <1>3, AppendProperties, LenProperties
  <2> QED BY <2>1 DEF Range
<1>5. Passed' = Passed \cup {new} BY <1>1, <1>4 DEF Passed
<1>6. \A e \in Passed : /\ e.seq \in Nat /\ e.seq <= Decided
                       /\ e.epoch \in Nat /\ e.epoch <= epoch
  BY PassedTyped DEF GInv, InChainOrder
<1>7. \A s \in lost : s \in Nat /\ s <= Decided BY DEF GInv, InChainOrder
<1>8. \A e \in Passed : e.epoch = epoch => \A s \in lost : s <= e.seq
  BY <1>2 DEF GInv, UnbrokenNow
<1>9. StreamTyped' BY <1>1, <1>2, <1>4 DEF GInv, StreamTyped, E
<1>10. InChainOrder'
  BY <1>1, <1>2, <1>3, <1>5, <1>6, <1>7 DEF GInv, InChainOrder
<1>11. UnbrokenNow' BY <1>1, <1>2, <1>3, <1>5, <1>7, <1>8 DEF UnbrokenNow
<1>12. EpochMarksGaps'
  <2> SUFFICES ASSUME NEW e \in Passed \cup {new}, NEW f \in Passed \cup {new},
                      e.epoch = f.epoch
               PROVE  lost \cap (e.seq + 1)..(f.seq - 1) = {}
    BY <1>1, <1>5 DEF EpochMarksGaps, Passed
  <2>1. CASE e \in Passed /\ f \in Passed
    BY <2>1 DEF GInv, EpochMarksGaps, Passed
  <2>2. CASE e = new
    <3>1. \A s \in lost : s \notin (e.seq + 1)..(f.seq - 1)
      BY <1>2, <1>3, <1>6, <1>7, <2>2
    <3> QED BY <3>1
  <2>3. CASE e \in Passed /\ f = new
    <3>1. \A s \in lost : s <= e.seq /\ s \in Nat /\ e.seq \in Nat
      BY <1>3, <1>6, <1>7, <1>8, <2>3
    <3> QED BY <3>1
  <2> QED BY <2>1, <2>2, <2>3
<1> QED BY <1>9, <1>10, <1>11, <1>12 DEF GInv

(* The splitter moves an event along; what has passed stays the same.      *)
LEMMA SplitKeeps == GInv /\ Split => GInv'
<1> SUFFICES ASSUME GInv, Split PROVE GInv' OBVIOUS
<1> DEFINE E == [seq : Nat, pool : Pools, epoch : Nat]
<1>1. /\ UNCHANGED <<chain, batch, lost, conn, epoch>>
      /\ queue # <<>> /\ queue' = Tail(queue) /\ log' = Append(log, Head(queue))
      /\ queue \in Seq(E) /\ log \in Seq(E)
  BY DEF GInv, StreamTyped, Split, source, tail
<1> HIDE DEF E
<1>2. /\ Len(queue) \in Nat \ {0} /\ DOMAIN queue = 1..Len(queue)
      /\ Head(queue) = queue[1] /\ Head(queue) \in E /\ queue' \in Seq(E)
      /\ DOMAIN queue' = 1..Len(queue) - 1
      /\ \A i \in 1..Len(queue) - 1 : queue'[i] = queue[i + 1]
  BY <1>1, EmptySeq, LenProperties, HeadTailProperties
<1>3. Range(queue) = Range(queue') \cup {Head(queue)}
  <2>1. ASSUME NEW i \in DOMAIN queue PROVE queue[i] \in Range(queue') \cup {Head(queue)}
    <3>1. CASE i = 1 BY <1>2, <3>1
    <3>2. CASE i # 1
      <4>1. i - 1 \in DOMAIN queue' /\ queue'[i - 1] = queue[i] BY <1>2, <3>2
      <4> QED BY <4>1 DEF Range
    <3> QED BY <3>1, <3>2
  <2>2. ASSUME NEW i \in DOMAIN queue' PROVE queue'[i] \in Range(queue)
    <3>1. i + 1 \in DOMAIN queue /\ queue'[i] = queue[i + 1] BY <1>2
    <3> QED BY <3>1 DEF Range
  <2>3. Head(queue) \in Range(queue) BY <1>2 DEF Range
  <2> QED BY <2>1, <2>2, <2>3 DEF Range
<1>4. log' \in Seq(E) /\ Range(log') = Range(log) \cup {Head(queue)}
  <2>1. /\ log' \in Seq(E) /\ Len(log) \in Nat
        /\ DOMAIN log = 1..Len(log) /\ DOMAIN log' = 1..Len(log) + 1
        /\ \A i \in 1..Len(log) : log'[i] = log[i]
        /\ log'[Len(log) + 1] = Head(queue)
    BY <1>1, <1>2, AppendProperties, LenProperties
  <2> QED BY <2>1 DEF Range
<1>5. Passed' = Passed BY <1>3, <1>4 DEF Passed
<1>6. Decided' = Decided BY <1>1 DEF Decided
<1>7. StreamTyped' BY <1>1, <1>2, <1>4 DEF GInv, StreamTyped, E
<1>8. InChainOrder' BY <1>1, <1>5, <1>6 DEF GInv, InChainOrder
<1>9. UnbrokenNow' BY <1>1, <1>5 DEF GInv, UnbrokenNow
<1>10. EpochMarksGaps'
  <2>1. (Range(log) \cup Range(queue))' = Range(log) \cup Range(queue)
    BY <1>5 DEF Passed
  <2> QED BY <1>1, <2>1 DEF GInv, EpochMarksGaps
<1> QED BY <1>7, <1>8, <1>9, <1>10 DEF GInv

-----------------------------------------------------------------------------
(* The steps that see the batch, the queue or the epoch are those above.   *)
LEMMA GapsPreserved == GInv /\ [Next]_vars => GInv'
<1> SUFFICES ASSUME GInv, [Next]_vars PROVE GInv' OBVIOUS
<1>1. CASE Listener
  <2>1. CASE StartListener \/ Connect \/ Disconnect
    BY <2>1, ElsewhereKeeps
    DEF GInv, InChainOrder, StartListener, Connect, Disconnect, source, tail
  <2>2. CASE Subscribed BY <2>2, SubscribedKeeps
  <2>3. CASE Miss BY <2>3, MissKeeps
  <2>4. CASE Undecodable BY <2>4, UndecodableKeeps
  <2>5. ASSUME NEW n \in 1..MaxBatch, NEW pools \in [1..n -> Pools \cup {Filtered}],
               Notify(pools)
        PROVE  GInv'
    BY <2>5, NotifyKeeps
  <2> QED BY <1>1, <2>1, <2>2, <2>3, <2>4, <2>5 DEF Listener
<1>2. CASE EnqueueNext
  BY <1>2, FilterDropKeeps, EnqueueKeeps, QueueFullKeeps DEF EnqueueNext
<1>3. CASE Split BY <1>3, SplitKeeps
<1>4. CASE SplitterEnds \/ Position
  <2>1. UNCHANGED <<chain, batch, lost, conn, epoch, queue, log>>
    BY <1>4 DEF SplitterEnds, Position, Handoff, Receive, Lag, Forward, AdapterEnds,
                Watch, Leave, source, tail
  <2> QED BY <2>1, ElsewhereKeeps
<1>5. CASE Shutdown
  <2>1. /\ UNCHANGED <<chain, batch, lost, epoch, queue, log>>
        /\ conn' = conn \/ (batch = <<>> /\ conn' = "ended")
    BY <1>5 DEF Shutdown, Interrupt, WorkerEnded, ListenerAborted, Drained,
                source, tail
  <2> QED BY <2>1, ElsewhereKeeps
<1>6. CASE UNCHANGED vars BY <1>6, ElsewhereKeeps DEF vars, source
<1> QED BY <1>1, <1>2, <1>3, <1>4, <1>5, <1>6 DEF Next

(* The stream epoch is an exact gap marker (enqueue_decoded_swap and       *)
(* STREAM_EPOCH, websocket.rs), for any capacities and any number of swaps *)
(* and reconnections.                                                      *)
THEOREM NoHiddenGap == Spec => []EpochMarksGaps
<1>1. Init => GInv BY InitGaps
<1>2. GInv /\ [Next]_vars => GInv' BY GapsPreserved
<1>3. GInv => EpochMarksGaps BY DEF GInv
<1> QED BY <1>1, <1>2, <1>3, PTL DEF Spec

-----------------------------------------------------------------------------
(* Types.  Each epoch is a subscription, of which the bound admits         *)
(* MaxEpoch, or a swap the full queue refused.                             *)
SourceTyped ==
  /\ chain \in 0..MaxSwaps
  /\ conn \in {"starting", "down", "handshake", "streaming", "ended"}
  /\ batch \in Seq(Swaps)
  /\ epoch \in Nat /\ epoch <= MaxEpoch + Decided
  /\ queue \in Seq(Events) /\ Len(queue) <= QueueCap
  /\ splitter \in {"running", "ended"}
  /\ main \in {"running", "stopping", "returned"}
  /\ lost \subseteq 1..chain
  /\ skipped \subseteq 1..chain

TailTyped ==
  /\ log \in Seq(Events)
  /\ adapter \in {"none", "recv", "hold", "ended"}
  /\ start \in 1..Len(log) + 1
  /\ cursor \in start..Len(log) + 1
  /\ held \in Seq(Events) /\ Len(held) = IF adapter = "hold" THEN 1 ELSE 0
  /\ mail \in Seq(Events) /\ Len(mail) <= MailCap
  /\ got \in Seq(Events)
  /\ watcher \in {"none", "watching", "done"}
  /\ lagged \subseteq 1..Len(log)

TInv == GInv /\ SourceTyped /\ TailTyped

LEMMA TypedIsTypeOK == TInv => TypeOK
<1> SUFFICES ASSUME TInv PROVE TypeOK OBVIOUS
<1>1. epoch \in 0..MaxEpoch + MaxSwaps
  BY BoundsAssumption, LenProperties DEF TInv, SourceTyped, GInv, StreamTyped, Decided
<1> QED BY <1>1 DEF TInv, SourceTyped, TailTyped, TypeOK

LEMMA InitTyped == Init => TInv
<1> SUFFICES ASSUME Init PROVE TInv OBVIOUS
<1>1. \A S : <<>> \in Seq(S) /\ Len(<<>>) = 0 OBVIOUS
<1>2. SourceTyped
  BY <1>1, BoundsAssumption, CapacityAssumption DEF Init, SourceTyped, Decided
<1>3. TailTyped BY <1>1, CapacityAssumption DEF Init, TailTyped
<1> QED BY <1>2, <1>3, InitGaps DEF TInv

(* Steps of the listener.                                                  *)
LEMMA ListenerTyped == TInv /\ Listener => SourceTyped'
<1> SUFFICES ASSUME TInv, Listener PROVE SourceTyped' OBVIOUS
<1>1. /\ chain \in 0..MaxSwaps /\ MaxSwaps \in Nat /\ MaxEpoch \in Nat
      /\ Len(batch) \in Nat /\ Decided = chain - Len(batch) /\ Len(batch) <= chain
  BY BoundsAssumption, LenProperties
  DEF TInv, SourceTyped, GInv, StreamTyped, Decided
<1>2. CASE StartListener \/ Connect \/ Disconnect
  BY <1>2 DEF StartListener, Connect, Disconnect, source, TInv, SourceTyped, Decided
<1>3. CASE Subscribed
  BY <1>1, <1>3 DEF Subscribed, source, TInv, SourceTyped, Decided
<1>4. CASE Miss \/ Undecodable
  <2>1. /\ chain' = chain + 1 /\ chain < MaxSwaps
        /\ lost' \subseteq lost \cup {chain + 1}
        /\ skipped' \subseteq skipped \cup {chain + 1}
        /\ UNCHANGED <<batch, conn, epoch, queue, splitter, main>>
    BY <1>4 DEF Miss, Undecodable
  <2>2. Decided' = Decided + 1 BY <1>1, <2>1 DEF Decided
  <2>3. lost' \subseteq 1..chain' /\ skipped' \subseteq 1..chain'
    BY <1>1, <2>1 DEF TInv, SourceTyped
  <2> QED BY <1>1, <2>1, <2>2, <2>3 DEF TInv, SourceTyped
<1>5. ASSUME NEW n \in 1..MaxBatch, NEW pools \in [1..n -> Pools \cup {Filtered}],
             Notify(pools)
      PROVE  SourceTyped'
  <2>1. n \in Nat /\ DOMAIN pools = 1..n /\ Len(pools) = n
    BY BoundsAssumption, FunctionIsSeq
  <2>2. /\ chain' = chain + n /\ chain + n <= MaxSwaps /\ Len(batch) = 0
        /\ batch' = [i \in 1..n |-> [seq |-> chain + i, pool |-> pools[i]]]
        /\ UNCHANGED <<lost, skipped, conn, epoch, queue, splitter, main>>
    BY <1>5, <2>1 DEF Notify
  <2>3. batch' \in [1..n -> Swaps]
    <3> SUFFICES ASSUME NEW i \in 1..n
                 PROVE  [seq |-> chain + i, pool |-> pools[i]] \in Swaps
      BY <2>2
    <3>1. chain + i \in 1..MaxSwaps BY <1>1, <2>1, <2>2
    <3> QED BY <3>1 DEF Swaps
  <2>4. batch' \in Seq(Swaps) /\ Len(batch') = n BY <2>1, <2>3, FunctionIsSeq
  <2>5. Decided' = Decided BY <1>1, <2>1, <2>2, <2>4 DEF Decided
  <2> QED BY <1>1, <2>1, <2>2, <2>4, <2>5 DEF TInv, SourceTyped
<1> QED BY <1>2, <1>3, <1>4, <1>5 DEF Listener

LEMMA EnqueueTyped == TInv /\ EnqueueNext => SourceTyped'
<1> SUFFICES ASSUME TInv, EnqueueNext PROVE SourceTyped' OBVIOUS
<1>1. batch # <<>> /\ batch' = Tail(batch) /\ chain' = chain
  BY DEF EnqueueNext, FilterDrop, Enqueue, QueueFull
<1>2. /\ Head(batch).seq = Decided + 1 /\ Decided \in Nat /\ Decided' = Decided + 1
      /\ Head(batch).pool \in Pools \cup {Filtered}
  BY <1>1, TakeHead DEF TInv
<1>3. batch \in Seq(Swaps) /\ chain \in 0..MaxSwaps BY DEF TInv, SourceTyped
<1>4. batch' \in Seq(Swaps) BY <1>1, <1>3, HeadTailProperties
<1>5. Head(batch).seq \in 1..chain
  <2>1. Len(batch) \in Nat \ {0} BY <1>1, <1>3, EmptySeq
  <2> QED BY <1>2, <1>3, <2>1 DEF Decided
<1>6. CASE FilterDrop \/ QueueFull
  <2>1. /\ epoch' \in {epoch, epoch + 1} /\ chain' = chain
        /\ lost' \subseteq lost \cup {Head(batch).seq}
        /\ skipped' \subseteq skipped \cup {Head(batch).seq}
        /\ UNCHANGED <<conn, queue, splitter, main>>
    BY <1>6 DEF FilterDrop, QueueFull
  <2>2. lost' \subseteq 1..chain' /\ skipped' \subseteq 1..chain'
    BY <1>5, <2>1 DEF TInv, SourceTyped
  <2>3. epoch' \in Nat /\ epoch' <= MaxEpoch + Decided'
    BY <1>2, <2>1, BoundsAssumption DEF TInv, SourceTyped
  <2> QED BY <1>4, <2>1, <2>2, <2>3 DEF TInv, SourceTyped
<1>8. CASE Enqueue
  <2> DEFINE new == [seq |-> Head(batch).seq, pool |-> Head(batch).pool, epoch |-> epoch]
  <2>1. new \in Events
    <3>1. Head(batch).seq \in 1..MaxSwaps BY <1>3, <1>5, BoundsAssumption
    <3>2. Head(batch).pool \in Pools BY <1>2, <1>8 DEF Enqueue
    <3>3. epoch \in Nat BY DEF TInv, SourceTyped
    <3> QED BY <3>1, <3>2, <3>3 DEF Events
  <2>2. /\ queue' = Append(queue, new) /\ queue \in Seq(Events) /\ Len(queue) < QueueCap
        /\ UNCHANGED <<chain, lost, skipped, conn, epoch, splitter, main>>
    BY <1>8 DEF Enqueue, TInv, SourceTyped, tail
  <2> HIDE DEF new
  <2>3. queue' \in Seq(Events) /\ Len(queue') <= QueueCap
    BY <2>1, <2>2, AppendProperties, LenProperties, CapacityAssumption
  <2> QED BY <1>2, <1>4, <2>2, <2>3, BoundsAssumption DEF TInv, SourceTyped
<1> QED BY <1>6, <1>8 DEF EnqueueNext

(* The splitter moves one event on.                                        *)
LEMMA SplitTyped == TInv /\ Split => SourceTyped' /\ TailTyped'
<1> SUFFICES ASSUME TInv, Split PROVE SourceTyped' /\ TailTyped' OBVIOUS
<1>1. /\ queue # <<>> /\ queue' = Tail(queue) /\ log' = Append(log, Head(queue))
      /\ queue \in Seq(Events) /\ log \in Seq(Events)
  BY DEF TInv, SourceTyped, TailTyped, Split
<1>2. /\ Head(queue) \in Events /\ queue' \in Seq(Events)
      /\ Len(queue) \in Nat /\ Len(queue') = Len(queue) - 1
  BY <1>1, HeadTailProperties, LenProperties
<1>3. /\ log' \in Seq(Events) /\ Len(log') = Len(log) + 1 /\ Len(log) \in Nat
  BY <1>1, <1>2, AppendProperties, LenProperties
<1>4. SourceTyped'
  BY <1>1, <1>2, CapacityAssumption DEF Split, source, TInv, SourceTyped, Decided
<1>5. TailTyped'
  <2>1. UNCHANGED <<adapter, start, cursor, held, mail, got, watcher, lagged>>
    BY DEF Split, tail
  <2>2. /\ start \in 1..Len(log') + 1 /\ cursor \in start..Len(log') + 1
        /\ lagged \subseteq 1..Len(log')
    BY <1>3 DEF TInv, TailTyped
  <2> QED BY <1>3, <2>1, <2>2 DEF TInv, TailTyped
<1> QED BY <1>4, <1>5

LEMMA PositionTyped == TInv /\ Position => TailTyped'
<1> SUFFICES ASSUME TInv, Position PROVE TailTyped' OBVIOUS
<1>1. /\ log \in Seq(Events) /\ Len(log) \in Nat /\ DOMAIN log = 1..Len(log)
      /\ start \in 1..Len(log) + 1 /\ cursor \in start..Len(log) + 1
      /\ held \in Seq(Events) /\ mail \in Seq(Events) /\ got \in Seq(Events)
      /\ lagged \subseteq 1..Len(log)
      /\ BroadcastCap \in Nat \ {0} /\ MailCap \in Nat \ {0}
      /\ Len(mail) \in Nat /\ Len(mail) <= MailCap
  BY LenProperties, CapacityAssumption DEF TInv, TailTyped
<1>2. \A S : <<>> \in Seq(S) /\ Len(<<>>) = 0 OBVIOUS
<1>3. CASE Handoff BY <1>1, <1>3 DEF Handoff, TInv, TailTyped
<1>4. CASE Receive
  <2>1. cursor \in 1..Len(log) /\ cursor' = cursor + 1
    BY <1>1, <1>4 DEF Receive, Behind
  <2>2. <<log[cursor]>> \in Seq(Events) /\ Len(<<log[cursor]>>) = 1
    <3>1. log[cursor] \in Events BY <1>1, <2>1, ElementOfSeq
    <3> QED BY <3>1
  <2>3. cursor' \in start..Len(log) + 1 BY <1>1, <2>1
  <2> QED BY <1>1, <1>4, <2>2, <2>3 DEF Receive, TInv, TailTyped
<1>5. CASE Lag
  <2>1. /\ cursor' = Len(log) + 1 - BroadcastCap
        /\ Len(log) + 1 - cursor > BroadcastCap
        /\ lagged' = lagged \cup cursor..(Len(log) - BroadcastCap)
    BY <1>5 DEF Lag, Behind
  <2>2. cursor' \in start..Len(log) + 1 BY <1>1, <2>1
  <2>3. lagged' \subseteq 1..Len(log)
    <3> SUFFICES ASSUME NEW i \in cursor..(Len(log) - BroadcastCap)
                 PROVE  i \in 1..Len(log)
      BY <1>1, <2>1
    <3>1. /\ cursor \in Nat \ {0} /\ Len(log) - BroadcastCap \in Int
          /\ Len(log) - BroadcastCap <= Len(log)
      BY <1>1
    <3> QED BY <1>1, <3>1
  <2> QED BY <1>1, <1>5, <2>2, <2>3 DEF Lag, TInv, TailTyped
<1>6. CASE Forward
  <2>1. Len(held) = 1 BY <1>6 DEF Forward, TInv, TailTyped
  <2>2. mail \o held \in Seq(Events) /\ Len(mail \o held) = Len(mail) + 1
    BY <1>1, <2>1, ConcatProperties
  <2>3. mail' \in Seq(Events) /\ Len(mail') <= MailCap
    BY <1>1, <1>6, <2>2 DEF Forward
  <2> QED BY <1>1, <1>2, <1>6, <2>3 DEF Forward, TInv, TailTyped
<1>7. CASE AdapterEnds BY <1>1, <1>2, <1>7 DEF AdapterEnds, TInv, TailTyped
<1>8. CASE Watch
  <2>1. /\ Head(mail) \in Events /\ Tail(mail) \in Seq(Events)
        /\ Len(Tail(mail)) = Len(mail) - 1
    BY <1>1, <1>8, HeadTailProperties DEF Watch
  <2>2. got' \in Seq(Events) BY <1>1, <1>8, <2>1, AppendProperties DEF Watch
  <2>3. mail' \in Seq(Events) /\ Len(mail') <= MailCap
    BY <1>1, <1>8, <2>1 DEF Watch
  <2> QED BY <1>8, <2>2, <2>3 DEF Watch, TInv, TailTyped
<1>9. CASE Leave BY <1>1, <1>2, <1>9 DEF Leave, TInv, TailTyped
<1> QED BY <1>3, <1>4, <1>5, <1>6, <1>7, <1>8, <1>9 DEF Position

LEMMA TypedPreserved == TInv /\ [Next]_vars => TInv'
<1> SUFFICES ASSUME TInv, [Next]_vars PROVE TInv' OBVIOUS
<1> DEFINE Goal == SourceTyped' /\ TailTyped'
<1>1. GInv' BY GapsPreserved DEF TInv
<1>2. ASSUME Listener \/ EnqueueNext PROVE Goal
  <2>1. UNCHANGED <<log, tail>>
    BY <1>2 DEF Listener, EnqueueNext, StartListener, Connect, Subscribed, Disconnect,
                Miss, Undecodable, Notify, FilterDrop, Enqueue, QueueFull
  <2>2. TailTyped' BY <2>1 DEF tail, TInv, TailTyped
  <2> QED BY <1>2, <2>2, ListenerTyped, EnqueueTyped
<1>3. ASSUME Split PROVE Goal BY <1>3, SplitTyped
<1>4. ASSUME Position PROVE Goal
  <2>1. UNCHANGED <<source, conn, epoch, queue, splitter, main>>
    BY <1>4 DEF Position, Handoff, Receive, Lag, Forward, AdapterEnds, Watch, Leave
  <2>2. SourceTyped' BY <2>1 DEF source, TInv, SourceTyped, Decided
  <2> QED BY <1>4, <2>2, PositionTyped
<1>5. ASSUME SplitterEnds \/ Shutdown PROVE Goal
  <2>1. /\ UNCHANGED <<source, epoch, queue, log, tail>>
        /\ conn' \in {conn, "ended"} /\ splitter' \in {splitter, "ended"}
        /\ main' \in {main, "stopping", "returned"}
    BY <1>5 DEF SplitterEnds, Shutdown, Interrupt, WorkerEnded, ListenerAborted, Drained
  <2>2. SourceTyped' BY <2>1 DEF source, TInv, SourceTyped, Decided
  <2>3. TailTyped' BY <2>1 DEF tail, TInv, TailTyped
  <2> QED BY <2>2, <2>3
<1>6. ASSUME UNCHANGED vars PROVE Goal
  BY <1>6 DEF vars, source, tail, TInv, SourceTyped, TailTyped, Decided
<1> QED BY <1>1, <1>2, <1>3, <1>4, <1>5, <1>6 DEF Next, TInv

(* Every variable keeps its type and every queue its capacity: the swap    *)
(* queue and the watcher's mailbox never hold more than they were created  *)
(* for, and the epoch stays within subscriptions and refused swaps.        *)
THEOREM TypeCorrect == Spec => []TypeOK
<1>1. Init => TInv BY InitTyped
<1>2. TInv /\ [Next]_vars => TInv' BY TypedPreserved
<1>3. TInv => TypeOK BY TypedIsTypeOK
<1> QED BY <1>1, <1>2, <1>3, PTL DEF Spec
-----------------------------------------------------------------------------
(* The order of the chain, hop by hop: the queue and the broadcast carry   *)
(* the events in it, and the queue's come behind the broadcast's.          *)
Ascending(events) ==
  \A i, j \in DOMAIN events : i < j => events[i].seq < events[j].seq

StreamOrder ==
  /\ Ascending(log) /\ Ascending(queue)
  /\ \A i \in DOMAIN log, j \in DOMAIN queue : log[i].seq < queue[j].seq

(* Before the handoff the position has nothing; what its receiver missed   *)
(* lies between the subscription and its next event.                       *)
NotYet ==
  adapter = "none" =>
    watcher = "none" /\ got = <<>> /\ mail = <<>> /\ held = <<>> /\ lagged = {}

LagBehind == lagged \subseteq start..(cursor - 1)

FeedInv == StreamOrder /\ NotYet /\ LagBehind /\ FeedFaithful

LEMMA AscendingAppend ==
  ASSUME NEW S, NEW events \in Seq(S), NEW e \in S, Ascending(events),
         \A i \in DOMAIN events : events[i].seq < e.seq
  PROVE  Ascending(Append(events, e))
<1> DEFINE longer == Append(events, e)
<1>1. /\ DOMAIN events = 1..Len(events) /\ Len(events) \in Nat
      /\ DOMAIN longer = 1..Len(events) + 1
      /\ \A i \in 1..Len(events) : longer[i] = events[i]
      /\ longer[Len(events) + 1] = e
  BY AppendProperties, LenProperties
<1> HIDE DEF longer
<1>2. ASSUME NEW i \in DOMAIN longer, NEW j \in DOMAIN longer, i < j
      PROVE  longer[i].seq < longer[j].seq
  <2>1. i \in 1..Len(events) BY <1>1, <1>2
  <2>2. CASE j = Len(events) + 1 BY <1>1, <2>1, <2>2
  <2>3. CASE j # Len(events) + 1 BY <1>1, <1>2, <2>1, <2>3 DEF Ascending
  <2> QED BY <2>2, <2>3
<1>3. Ascending(longer) BY <1>2 DEF Ascending
<1> QED BY <1>3 DEF longer

LEMMA TailOf ==
  ASSUME NEW S, NEW events \in Seq(S), events # <<>>
  PROVE  /\ Head(events) = events[1] /\ Head(events) \in S
         /\ Tail(events) \in Seq(S) /\ 1 \in DOMAIN events
         /\ \A i \in DOMAIN Tail(events) :
              i + 1 \in DOMAIN events /\ Tail(events)[i] = events[i + 1]
  <1>1. Len(events) \in Nat \ {0} BY EmptySeq, LenProperties
  <1>2. /\ Head(events) \in S /\ Tail(events) \in Seq(S)
        /\ Len(Tail(events)) = Len(events) - 1
        /\ \A i \in 1..Len(Tail(events)) : Tail(events)[i] = events[i + 1]
    BY HeadTailProperties
  <1>3. /\ DOMAIN events = 1..Len(events)
        /\ DOMAIN Tail(events) = 1..Len(Tail(events))
    BY <1>2, LenProperties
  <1> QED BY <1>1, <1>2, <1>3

(* An event is enqueued behind everything that was decided before it, and  *)
(* the splitter takes the queue's first to the end of the broadcast.       *)
LEMMA OrderPreserved ==
  ASSUME TInv, StreamOrder, [Next]_vars
  PROVE  StreamOrder'
<1>1. queue \in Seq(Events) /\ log \in Seq(Events)
  BY DEF TInv, SourceTyped, TailTyped
<1>2. CASE Enqueue
  <2> DEFINE new == [seq |-> Head(batch).seq, pool |-> Head(batch).pool, epoch |-> epoch]
  <2>1. /\ queue' = Append(queue, new) /\ log' = log
        /\ batch # <<>> /\ batch' = Tail(batch) /\ chain' = chain
    BY <1>2 DEF Enqueue, tail
  <2>2. Head(batch).seq = Decided + 1 /\ Decided \in Nat
        /\ Head(batch).pool \in Pools \cup {Filtered}
    BY <2>1, TakeHead DEF TInv
  <2>3. new.seq = Decided + 1 BY <2>2
  <2>4. /\ new \in [seq : Nat, pool : Pools, epoch : Nat]
        /\ queue \in Seq([seq : Nat, pool : Pools, epoch : Nat])
    <3>1. epoch \in Nat /\ Head(batch).pool # Filtered
      BY <1>2 DEF Enqueue, TInv, SourceTyped
    <3>2. new \in [seq : Nat, pool : Pools, epoch : Nat] BY <2>2, <3>1
    <3> QED BY <3>2 DEF TInv, GInv, StreamTyped
  <2> HIDE DEF new
  <2>5. \A e \in Passed : e.seq \in Nat /\ e.seq <= Decided
    BY PassedTyped DEF TInv, GInv, InChainOrder
  <2>6. \A i \in DOMAIN queue : queue[i].seq < new.seq
    BY <2>2, <2>3, <2>5 DEF Passed, Range
  <2>7. \A i \in DOMAIN log : log[i].seq < new.seq
    BY <2>2, <2>3, <2>5 DEF Passed, Range
  <2>8. Ascending(queue') BY <2>1, <2>4, <2>6, AscendingAppend DEF StreamOrder
  <2>9. ASSUME NEW i \in DOMAIN log, NEW j \in DOMAIN queue'
        PROVE  log[i].seq < queue'[j].seq
    <3>1. \/ j \in DOMAIN queue /\ queue'[j] = queue[j]
          \/ queue'[j] = new
      <4>1. /\ DOMAIN queue = 1..Len(queue) /\ Len(queue) \in Nat
            /\ DOMAIN queue' = 1..Len(queue) + 1
            /\ \A n \in 1..Len(queue) : queue'[n] = queue[n]
            /\ queue'[Len(queue) + 1] = new
        BY <2>1, <2>4, AppendProperties, LenProperties
      <4> QED BY <4>1
    <3> QED BY <2>7, <3>1 DEF StreamOrder
  <2> QED BY <2>1, <2>8, <2>9 DEF StreamOrder
<1>3. CASE Split
  <2>1. queue # <<>> /\ queue' = Tail(queue) /\ log' = Append(log, Head(queue))
    BY <1>3 DEF Split
  <2>2. /\ Head(queue) = queue[1] /\ Head(queue) \in Events /\ 1 \in DOMAIN queue
        /\ \A i \in DOMAIN queue' :
             i + 1 \in DOMAIN queue /\ queue'[i] = queue[i + 1]
    BY <1>1, <2>1, TailOf
  <2>3. DOMAIN queue \subseteq Nat \ {0} /\ DOMAIN queue' \subseteq Nat \ {0}
    BY <1>1, <2>1, LenProperties, HeadTailProperties
  <2>4. Ascending(log') BY <1>1, <2>1, <2>2, AscendingAppend DEF StreamOrder
  <2>5. Ascending(queue') BY <2>2, <2>3 DEF StreamOrder, Ascending
  <2>6. ASSUME NEW i \in DOMAIN log', NEW j \in DOMAIN queue'
        PROVE  log'[i].seq < queue'[j].seq
    <3>1. \/ i \in DOMAIN log /\ log'[i] = log[i]
          \/ log'[i] = queue[1]
      BY <1>1, <2>1, <2>2, AppendProperties, LenProperties
    <3>2. j + 1 \in DOMAIN queue /\ queue'[j] = queue[j + 1] /\ 1 < j + 1
      BY <2>2, <2>3
    <3>3. CASE i \in DOMAIN log /\ log'[i] = log[i]
      BY <3>2, <3>3 DEF StreamOrder
    <3>4. CASE log'[i] = queue[1]
      <4>1. queue[1].seq < queue[j + 1].seq
        BY <2>2, <3>2 DEF StreamOrder, Ascending
      <4> QED BY <3>2, <3>4, <4>1
    <3> QED BY <3>1, <3>3, <3>4
  <2> QED BY <2>4, <2>5, <2>6 DEF StreamOrder
<1>4. ASSUME UNCHANGED <<queue, log>> PROVE StreamOrder'
  BY <1>4 DEF StreamOrder, Ascending
<1>5. CASE Listener \/ FilterDrop \/ QueueFull
  <2>1. UNCHANGED <<queue, log>>
    BY <1>5 DEF Listener, StartListener, Connect, Subscribed, Disconnect,
                Miss, Undecodable, Notify, FilterDrop, QueueFull
  <2> QED BY <1>4, <2>1
<1>6. CASE SplitterEnds \/ Position \/ Shutdown
  <2>1. UNCHANGED <<queue, log>>
    BY <1>6 DEF SplitterEnds, Position, Handoff, Receive, Lag, Forward,
                AdapterEnds, Watch, Leave, Shutdown, Interrupt, WorkerEnded,
                ListenerAborted, Drained
  <2> QED BY <1>4, <2>1
<1>7. CASE UNCHANGED vars BY <1>4, <1>7 DEF vars
<1> QED BY <1>2, <1>3, <1>5, <1>6, <1>7 DEF Next, EnqueueNext

LEMMA FeedInit == Init => FeedInv
<1> SUFFICES ASSUME Init PROVE FeedInv OBVIOUS
<1>1. DOMAIN queue = {} /\ DOMAIN log = {} BY DEF Init
<1>2. StreamOrder BY <1>1 DEF StreamOrder, Ascending
<1>3. NotYet /\ LagBehind /\ FeedFaithful
  BY DEF Init, NotYet, LagBehind, FeedFaithful
<1> QED BY <1>2, <1>3 DEF FeedInv

LEMMA FeedTyped ==
  ASSUME TInv
  PROVE  /\ log \in Seq(Events) /\ Len(log) \in Nat /\ DOMAIN log = 1..Len(log)
         /\ start \in 1..Len(log) + 1 /\ cursor \in start..Len(log) + 1
         /\ held \in Seq(Events) /\ mail \in Seq(Events) /\ got \in Seq(Events)
         /\ got \o mail \in Seq(Events) /\ Fed \in Seq(Events)
         /\ BroadcastCap \in Nat \ {0}
         /\ adapter = "recv" => held = <<>>
         /\ adapter \in {"none", "recv", "hold", "ended"}
         /\ \A i \in 1..Len(log) : log[i].seq \in Nat
<1>1. /\ log \in Seq(Events) /\ start \in 1..Len(log) + 1
      /\ cursor \in start..Len(log) + 1
      /\ held \in Seq(Events) /\ mail \in Seq(Events) /\ got \in Seq(Events)
      /\ Len(held) = (IF adapter = "hold" THEN 1 ELSE 0)
      /\ adapter \in {"none", "recv", "hold", "ended"}
  BY DEF TInv, TailTyped
<1>2. got \o mail \in Seq(Events) BY <1>1, ConcatProperties
<1>3. Fed \in Seq(Events) BY <1>1, <1>2, ConcatProperties DEF Fed
<1>4. adapter = "recv" => held = <<>> BY <1>1, EmptySeq
<1>5. ASSUME NEW i \in 1..Len(log) PROVE log[i].seq \in Nat
  <2>1. log[i] \in Events BY <1>1, ElementOfSeq
  <2> QED BY <2>1, BoundsAssumption DEF Events
<1> QED BY <1>1, <1>2, <1>3, <1>4, <1>5, LenProperties, CapacityAssumption

(* The receiver's next event, if it is wanted, is held behind all others.  *)
LEMMA ReceiveFeeds ==
  ASSUME TInv, FeedInv, Receive, watcher = "watching"
  PROVE  FeedFaithful' /\ LagBehind'
<1>1. /\ cursor \in 1..Len(log) /\ cursor' = cursor + 1 /\ adapter = "recv"
      /\ held = <<>>
      /\ UNCHANGED <<log, start, mail, got, lagged>>
  BY FeedTyped DEF Receive, Behind
<1>2. LagBehind' BY <1>1, FeedTyped DEF FeedInv, LagBehind
<1>3. /\ Range(Fed) = {log[i] : i \in Due}
      /\ \A i, j \in DOMAIN Fed : i < j => Fed[i].seq < Fed[j].seq
  BY <1>1 DEF FeedInv, FeedFaithful
<1>4. Due' = IF log[cursor].pool = Mine THEN Due \cup {cursor} ELSE Due
  <2>1. cursor \notin lagged BY <1>1 DEF FeedInv, LagBehind
  <2>2. start..(cursor' - 1) = (start..(cursor - 1)) \cup {cursor}
    BY <1>1, FeedTyped
  <2> QED BY <1>1, <2>1, <2>2 DEF Due, Wanted
<1>5. CASE log[cursor].pool # Mine
  <2>1. held' = held BY <1>5 DEF Receive
  <2>2. Fed' = Fed BY <1>1, <2>1 DEF Fed
  <2>3. Due' = Due BY <1>4, <1>5
  <2> HIDE DEF Fed, Due
  <2> QED BY <1>1, <1>2, <1>3, <2>2, <2>3 DEF FeedFaithful
<1>6. CASE log[cursor].pool = Mine
  <2> DEFINE x == log[cursor]
  <2>1. held' = <<x>> BY <1>6 DEF Receive
  <2>2. x \in Events BY <1>1, FeedTyped, ElementOfSeq
  <2>3. Fed = got \o mail BY <1>1, FeedTyped, ConcatEmptySeq DEF Fed
  <2>4. Fed' = Append(Fed, x)
    BY <1>1, <2>1, <2>2, <2>3, FeedTyped, AppendIsConcat DEF Fed
  <2> HIDE DEF Fed
  <2>5. /\ DOMAIN Fed = 1..Len(Fed) /\ Len(Fed) \in Nat
        /\ DOMAIN Fed' = 1..Len(Fed) + 1
        /\ \A i \in 1..Len(Fed) : Fed'[i] = Fed[i]
        /\ Fed'[Len(Fed) + 1] = x
    BY <2>2, <2>4, FeedTyped, AppendProperties, LenProperties
  <2>6. Range(Fed') = Range(Fed) \cup {x} BY <2>5 DEF Range
  <2>7. Range(Fed') = {log[i] : i \in Due'} BY <1>3, <1>4, <1>6, <2>6
  <2>8. \A i \in DOMAIN Fed : Fed[i].seq < x.seq
    <3> SUFFICES ASSUME NEW i \in DOMAIN Fed PROVE Fed[i].seq < x.seq OBVIOUS
    <3>1. PICK k \in Due : Fed[i] = log[k] BY <1>3 DEF Range
    <3>2. k \in DOMAIN log /\ cursor \in DOMAIN log /\ k < cursor
      BY <1>1, <3>1, FeedTyped DEF Due
    <3> QED BY <3>1, <3>2 DEF FeedInv, StreamOrder, Ascending
  <2>9. Ascending(Fed') BY <1>3, <2>2, <2>4, <2>8, FeedTyped, AscendingAppend
    DEF Ascending
  <2> HIDE DEF Due
  <2>10. log' = log BY <1>1
  <2> QED BY <1>2, <2>7, <2>9, <2>10 DEF FeedFaithful, Ascending
<1> QED BY <1>5, <1>6

(* What a slow receiver misses is what it is told it missed.               *)
LEMMA LagFeeds ==
  ASSUME TInv, FeedInv, Lag, watcher = "watching"
  PROVE  FeedFaithful' /\ LagBehind'
<1> USE FeedTyped
<1>1. /\ adapter = "recv" /\ Len(log) + 1 - cursor > BroadcastCap
      /\ cursor' = Len(log) + 1 - BroadcastCap
      /\ lagged' = lagged \cup cursor..(Len(log) - BroadcastCap)
      /\ UNCHANGED <<log, start, mail, got, held>>
  BY DEF Lag, Behind
<1>2. start..(cursor' - 1) =
        (start..(cursor - 1)) \cup cursor..(Len(log) - BroadcastCap)
  BY <1>1
<1>3. LagBehind' BY <1>1, <1>2 DEF FeedInv, LagBehind
<1>4. (start..(cursor - 1)) \cap (cursor..(Len(log) - BroadcastCap)) = {}
  BY <1>1
<1>5. Due' = Due BY <1>1, <1>2, <1>4 DEF Due, Wanted
<1>6. Fed' = Fed BY <1>1 DEF Fed
<1> HIDE DEF Due, Fed
<1> QED BY <1>1, <1>3, <1>5, <1>6 DEF FeedInv, FeedFaithful

(* Forwarding and watching move an event on without changing the order.    *)
LEMMA ForwardFeeds ==
  ASSUME TInv, Forward
  PROVE  Fed' = Fed
<1>0. held \in Seq(Events) /\ mail \in Seq(Events) /\ got \in Seq(Events)
  BY FeedTyped
<1>1. held' = <<>> /\ mail' = mail \o held /\ got' = got BY DEF Forward
<1>2. mail \o held \in Seq(Events) BY <1>0, ConcatProperties
<1>3. got \o (mail \o held) = (got \o mail) \o held
  BY <1>0, ConcatAssociative
<1>4. (got \o (mail \o held)) \o <<>> = got \o (mail \o held)
  BY <1>0, <1>2, ConcatProperties, ConcatEmptySeq
<1> QED BY <1>1, <1>3, <1>4 DEF Fed

LEMMA HeadMoves ==
  ASSUME NEW S, NEW a \in Seq(S), NEW b \in Seq(S), b # <<>>
  PROVE  Append(a, Head(b)) \o Tail(b) = a \o b
<1> DEFINE h == <<Head(b)>>
<1>1. Head(b) \in S /\ Tail(b) \in Seq(S) BY HeadTailProperties
<1>2. Append(a, Head(b)) = a \o h BY <1>1, AppendIsConcat
<1>3. h \in Seq(S) /\ Len(h) = 1 /\ h[1] = Head(b) BY <1>1
<1> HIDE DEF h
<1>4. (a \o h) \o Tail(b) = a \o (h \o Tail(b)) BY <1>1, <1>3, ConcatAssociative
<1>5. h \o Tail(b) = b
  <2>1. /\ Len(b) \in Nat \ {0} /\ Len(Tail(b)) = Len(b) - 1 /\ Head(b) = b[1]
        /\ \A i \in 1..Len(Tail(b)) : Tail(b)[i] = b[i + 1]
    BY EmptySeq, LenProperties, HeadTailProperties
  <2>2. /\ h \o Tail(b) \in Seq(S) /\ Len(h \o Tail(b)) = 1 + Len(Tail(b))
        /\ \A i \in 1..1 + Len(Tail(b)) :
             (h \o Tail(b))[i] = IF i <= 1 THEN h[i] ELSE Tail(b)[i - 1]
    <3> DEFINE t == Tail(b)
    <3>1. t \in Seq(S) BY <1>1
    <3> HIDE DEF t
    <3>2. h \in Seq(S) /\ Len(h) = 1 BY <1>3
    <3>3. /\ h \o t \in Seq(S) /\ Len(h \o t) = Len(h) + Len(t)
          /\ \A i \in 1..Len(h) + Len(t) :
               (h \o t)[i] = IF i <= Len(h) THEN h[i] ELSE t[i - Len(h)]
      BY <3>1, <3>2, ConcatProperties
    <3>4. /\ h \o t \in Seq(S) /\ Len(h \o t) = 1 + Len(t)
          /\ \A i \in 1..1 + Len(t) :
               (h \o t)[i] = IF i <= 1 THEN h[i] ELSE t[i - 1]
      BY <3>2, <3>3
    <3> QED BY <3>4 DEF t
  <2>3. \A i \in 1..Len(b) : (h \o Tail(b))[i] = b[i]
    <3> SUFFICES ASSUME NEW i \in 1..Len(b) PROVE (h \o Tail(b))[i] = b[i]
      OBVIOUS
    <3>1. CASE i = 1 BY <1>3, <2>1, <2>2, <3>1
    <3>2. CASE i # 1
      <4>1. i - 1 \in 1..Len(Tail(b)) /\ (i - 1) + 1 = i BY <2>1, <3>2
      <4> QED BY <2>1, <2>2, <3>2, <4>1
    <3> QED BY <3>1, <3>2
  <2> QED BY <2>1, <2>2, <2>3, SeqEqual
<1> QED BY <1>2, <1>4, <1>5

LEMMA WatchFeeds ==
  ASSUME TInv, Watch
  PROVE  Fed' = Fed
<1>0. held \in Seq(Events) /\ mail \in Seq(Events) /\ got \in Seq(Events)
  BY FeedTyped
<1>1. /\ mail # <<>> /\ got' = Append(got, Head(mail)) /\ mail' = Tail(mail)
      /\ held' = held
  BY DEF Watch
<1>2. Append(got, Head(mail)) \o Tail(mail) = got \o mail BY <1>0, <1>1, HeadMoves
<1> QED BY <1>1, <1>2 DEF Fed

LEMMA FeedPreserved ==
  ASSUME TInv, FeedInv, [Next]_vars
  PROVE  FeedInv'
<1> USE FeedTyped
<1>1. StreamOrder' BY OrderPreserved DEF FeedInv
<1>2. SUFFICES NotYet' /\ LagBehind' /\ FeedFaithful' BY <1>1 DEF FeedInv
<1>3. ASSUME \A i \in 1..Len(log) : log'[i] = log[i],
             UNCHANGED <<adapter, start, cursor, held, mail, got, watcher, lagged>>
      PROVE  NotYet' /\ LagBehind' /\ FeedFaithful'
  <2>1. NotYet' /\ LagBehind' BY <1>3 DEF FeedInv, NotYet, LagBehind
  <2>2. Fed' = Fed BY <1>3 DEF Fed
  <2>3. Due' = Due /\ \A i \in Due : log'[i] = log[i] BY <1>3 DEF Due, Wanted
  <2> HIDE DEF Due, Fed
  <2> QED BY <1>3, <2>1, <2>2, <2>3 DEF FeedInv, FeedFaithful
<1>4. CASE Listener \/ EnqueueNext \/ SplitterEnds \/ Shutdown \/ UNCHANGED vars
  <2>1. UNCHANGED <<log, tail>>
    BY <1>4 DEF Listener, EnqueueNext, StartListener, Connect, Subscribed, Disconnect,
                Miss, Undecodable, Notify, FilterDrop, Enqueue, QueueFull,
                SplitterEnds, Shutdown, Interrupt, WorkerEnded, ListenerAborted,
                Drained, vars
  <2> QED BY <1>3, <2>1 DEF tail
<1>5. CASE Split
  <2>1. log' = Append(log, Head(queue)) /\ UNCHANGED tail BY <1>5 DEF Split
  <2>2. Head(queue) \in Events
    BY <1>5, HeadTailProperties DEF Split, TInv, SourceTyped
  <2>3. \A i \in 1..Len(log) : log'[i] = log[i] BY <2>1, <2>2, AppendProperties
  <2> QED BY <1>3, <2>1, <2>3 DEF tail
<1>6. CASE Handoff
  <2>1. /\ adapter = "none" /\ adapter' = "recv" /\ watcher' = "watching"
        /\ start' = Len(log) + 1 /\ cursor' = Len(log) + 1
        /\ got' = <<>> /\ mail' = <<>> /\ held' = <<>> /\ lagged' = {}
    BY <1>6 DEF Handoff, FeedInv, NotYet
  <2>2. NotYet' /\ LagBehind' BY <2>1 DEF NotYet, LagBehind
  <2>3. Due' = {} BY <2>1 DEF Due
  <2>4. Fed' = <<>> BY <2>1 DEF Fed
  <2>5. Range(Fed') = {} /\ DOMAIN Fed' = {} BY <2>4 DEF Range
  <2> HIDE DEF Fed, Due
  <2> QED BY <2>2, <2>3, <2>5 DEF FeedFaithful
<1>7. CASE Receive \/ Lag
  <2>1. adapter = "recv" /\ watcher' = watcher /\ adapter' \in {"recv", "hold"}
    BY <1>7 DEF Receive, Lag
  <2>2. NotYet' BY <2>1 DEF NotYet
  <2>3. CASE watcher = "watching" BY <1>7, <2>2, <2>3, ReceiveFeeds, LagFeeds
  <2>4. CASE watcher # "watching"
    <3>1. FeedFaithful' BY <2>1, <2>4 DEF FeedFaithful
    <3>2. LagBehind /\ start \in Nat /\ cursor \in Nat /\ start <= cursor
          /\ Len(log) \in Nat /\ BroadcastCap \in Nat
      BY DEF FeedInv
    <3>3. CASE Receive
      <4>1. cursor' = cursor + 1 /\ start' = start /\ lagged' = lagged
        BY <3>3 DEF Receive
      <4> QED BY <2>2, <3>1, <3>2, <4>1 DEF LagBehind
    <3>4. CASE Lag
      <4>1. /\ cursor' = Len(log) + 1 - BroadcastCap /\ start' = start
            /\ cursor < cursor'
            /\ lagged' = lagged \cup cursor..(Len(log) - BroadcastCap)
        BY <3>2, <3>4 DEF Lag, Behind
      <4>2. start..(cursor' - 1) =
              (start..(cursor - 1)) \cup cursor..(Len(log) - BroadcastCap)
        BY <3>2, <4>1
      <4>3. LagBehind' BY <3>2, <4>1, <4>2 DEF LagBehind
      <4> QED BY <2>2, <3>1, <4>3
    <3> QED BY <1>7, <3>3, <3>4
  <2> QED BY <2>3, <2>4
<1>8. CASE Forward \/ Watch
  <2>1. /\ UNCHANGED <<log, start, cursor, lagged, watcher>>
        /\ watcher = "watching" /\ adapter' \in {adapter, "recv"}
        /\ (adapter' = "ended" => adapter = "ended")
        /\ (adapter' = "none" => adapter = "none")
        /\ (adapter = "ended" => adapter' = "ended")
    BY <1>8 DEF Forward, Watch
  <2>2. Fed' = Fed BY <1>8, ForwardFeeds, WatchFeeds
  <2>3. Due' = Due BY <2>1 DEF Due, Wanted
  <2>4. adapter' # "none" BY <2>1 DEF FeedInv, NotYet
  <2>5. NotYet' /\ LagBehind' BY <2>1, <2>4 DEF FeedInv, NotYet, LagBehind
  <2> HIDE DEF Fed, Due
  <2> QED BY <2>1, <2>2, <2>3, <2>5 DEF FeedInv, FeedFaithful
<1>9. CASE AdapterEnds
  BY <1>9 DEF AdapterEnds, FeedInv, NotYet, LagBehind, FeedFaithful
<1>10. CASE Leave
  <2>1. adapter # "none" BY <1>10 DEF Leave, FeedInv, NotYet
  <2> QED BY <1>10, <2>1 DEF Leave, FeedInv, NotYet, LagBehind, FeedFaithful
<1> QED BY <1>4, <1>5, <1>6, <1>7, <1>8, <1>9, <1>10 DEF Next, Position

(* A watcher gets every swap of its pool since the handoff, once and in    *)
(* the order of the chain, except those its adapter was told it lagged     *)
(* behind (confirm_and_handoff and its adapter task, execution.rs), for    *)
(* any capacities of the queue, the broadcast and the mailbox.             *)
THEOREM NothingLostSilently == Spec => []FeedFaithful
<1>1. Init => TInv /\ FeedInv BY InitTyped, FeedInit
<1>2. TInv /\ [Next]_vars => TInv' BY TypedPreserved
<1>3. TInv /\ FeedInv /\ [Next]_vars => FeedInv' BY FeedPreserved
<1>4. FeedInv => FeedFaithful BY DEF FeedInv
<1> QED BY <1>1, <1>2, <1>3, <1>4, PTL DEF Spec

=============================================================================
