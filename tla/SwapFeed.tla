------------------------------ MODULE SwapFeed ------------------------------
(***************************************************************************)
(* The price feed of an open position, from the websocket to its watcher,  *)
(* and the shutdown of the process along the same chain.                   *)
(*                                                                         *)
(* The listener task decodes the swaps of a transaction and tries to put   *)
(* each into a bounded queue; an operating-system thread, the splitter,    *)
(* moves the queue into a broadcast channel; an adapter task per position  *)
(* follows the channel and passes the swaps of its pool through a bounded  *)
(* mailbox to the watcher.  Only the first hop may refuse an event and only*)
(* the broadcast may overrun one.                                          *)
(*                                                                         *)
(* Swaps are numbered in the order of the chain.  lost, skipped and lagged *)
(* are history variables.                                                  *)
(***************************************************************************)
EXTENDS Naturals, Sequences, SequencesExt

CONSTANTS
  Pools,                \* pools of the decoded swaps
  Mine,                 \* source_pool_id of the position
  Filtered,             \* what the filter rejects, in place of its pool
  QueueCap,             \* SWAP_CHANNEL_CAPACITY
  BroadcastCap,         \* EXIT_BROADCAST_CAPACITY
  MailCap,              \* capacity of the adapter's channel
  MaxBatch,             \* bound: swaps of one transaction
  MaxSwaps,             \* bound: swaps on the chain
  MaxEpoch              \* bound: the listener subscribes below it

ASSUME PoolsAssumption == Mine \in Pools /\ Filtered \notin Pools
ASSUME CapacityAssumption ==
  /\ QueueCap \in Nat \ {0}
  /\ BroadcastCap \in Nat \ {0}
  /\ MailCap \in Nat \ {0}
ASSUME BoundsAssumption ==
  /\ MaxBatch \in Nat \ {0}
  /\ MaxSwaps \in Nat
  /\ MaxEpoch \in Nat

VARIABLES
  chain,                \* swaps on the chain so far
  conn,                 \* where run_listener is
  batch,                \* decoded swaps still to be enqueued
  epoch,                \* STREAM_EPOCH
  queue,                \* ws_tx to ws_rx
  splitter,             \* the splitter thread: "running" or "ended"
  log,                  \* every event broadcast, in order
  adapter,              \* the adapter: "none", "recv", "hold" or "ended"
  start,                \* index in log of the first event after subscribe
  cursor,               \* index in log of the receiver's next event
  held,                 \* the event whose send().await is pending
  mail,                 \* watcher_tx to watcher_rx
  got,                  \* events the watcher has taken
  watcher,              \* "none", "watching" or "done"
  main,                 \* main: "running", "stopping" or "returned"
  lost,                 \* swaps that never reached the queue
  skipped,              \* swaps left out by decoder or filter
  lagged                \* indices of log the receiver was told it missed

source == <<chain, batch, lost, skipped>>
tail   == <<adapter, start, cursor, held, mail, got, watcher, lagged>>
vars == <<source, conn, epoch, queue, splitter, log, tail, main>>

Events == [seq : 1..MaxSwaps, pool : Pools, epoch : Nat]

(* A decoded swap: for a pool, or one the filter will reject.              *)
Swaps == [seq : 1..MaxSwaps, pool : Pools \cup {Filtered}]

TypeOK ==
  /\ chain \in 0..MaxSwaps
  /\ conn \in {"starting", "down", "handshake", "streaming", "ended"}
  /\ batch \in Seq(Swaps)
  /\ epoch \in 0..MaxEpoch + MaxSwaps
  /\ queue \in Seq(Events) /\ Len(queue) <= QueueCap
  /\ splitter \in {"running", "ended"}
  /\ log \in Seq(Events)
  /\ adapter \in {"none", "recv", "hold", "ended"}
  /\ start \in 1..Len(log) + 1
  /\ cursor \in start..Len(log) + 1
  /\ held \in Seq(Events) /\ Len(held) = IF adapter = "hold" THEN 1 ELSE 0
  /\ mail \in Seq(Events) /\ Len(mail) <= MailCap
  /\ got \in Seq(Events)
  /\ watcher \in {"none", "watching", "done"}
  /\ main \in {"running", "stopping", "returned"}
  /\ lost \subseteq 1..chain
  /\ skipped \subseteq 1..chain
  /\ lagged \subseteq 1..Len(log)

Init ==
  /\ chain = 0
  /\ conn = "starting"
  /\ batch = <<>>
  /\ epoch = 0
  /\ queue = <<>>
  /\ splitter = "running"
  /\ log = <<>>
  /\ adapter = "none"
  /\ start = 1
  /\ cursor = 1
  /\ held = <<>>
  /\ mail = <<>>
  /\ got = <<>>
  /\ watcher = "none"
  /\ main = "running"
  /\ lost = {}
  /\ skipped = {}
  /\ lagged = {}

-----------------------------------------------------------------------------
(* The listener.                                                           *)

(* run_listener checks the address and reads the watchlist once; either    *)
(* can fail, and then the worker ends.                                     *)
StartListener ==
  /\ conn = "starting"
  /\ conn' \in {"down", "ended"}
  /\ UNCHANGED <<source, epoch, queue, splitter, log, tail, main>>

(* connect_async succeeds; a failure is retried and changes nothing.       *)
Connect ==
  /\ conn = "down"
  /\ conn' = "handshake"
  /\ UNCHANGED <<source, epoch, queue, splitter, log, tail, main>>

(* subscribe_and_wait_for_ack returns an accepted acknowledgement.         *)
Subscribed ==
  /\ conn = "handshake"
  /\ epoch < MaxEpoch
  /\ conn' = "streaming"
  /\ epoch' = epoch + 1
  /\ UNCHANGED <<source, queue, splitter, log, tail, main>>

(* The handshake fails or takes ten seconds; or the connection loop breaks *)
(* off: closed, failed read, ping or pong, protocol error, silent day.     *)
Disconnect ==
  /\ conn \in {"handshake", "streaming"}
  /\ batch = <<>>
  /\ conn' = "down"
  /\ UNCHANGED <<source, epoch, queue, splitter, log, tail, main>>

(* A swap happens while nothing is subscribed, or was still on its way     *)
(* when the connection broke off.                                          *)
Miss ==
  /\ conn # "streaming"
  /\ chain < MaxSwaps
  /\ chain' = chain + 1
  /\ lost' = lost \cup {chain + 1}
  /\ UNCHANGED <<batch, skipped, conn, epoch, queue, splitter, log, tail, main>>

(* process_notification_payload: a transaction is discarded as a whole     *)
(* when it cannot be decoded.                                              *)
Undecodable ==
  /\ conn = "streaming"
  /\ batch = <<>>
  /\ chain < MaxSwaps
  /\ chain' = chain + 1
  /\ skipped' = skipped \cup {chain + 1}
  /\ UNCHANGED <<batch, lost, conn, epoch, queue, splitter, log, tail, main>>

Notify(pools) ==
  /\ conn = "streaming"
  /\ batch = <<>>
  /\ chain + Len(pools) <= MaxSwaps
  /\ chain' = chain + Len(pools)
  /\ batch' = [i \in DOMAIN pools |-> [seq |-> chain + i, pool |-> pools[i]]]
  /\ UNCHANGED <<lost, skipped, conn, epoch, queue, splitter, log, tail, main>>

(* enqueue_decoded_swap, for the next swap of the batch.  The queue cannot *)
(* be disconnected: the splitter holds its other end until the listener is *)
(* gone.                                                                   *)
FilterDrop ==
  /\ batch # <<>>
  /\ Head(batch).pool = Filtered
  /\ batch' = Tail(batch)
  /\ skipped' = skipped \cup {Head(batch).seq}
  /\ UNCHANGED <<chain, lost, conn, epoch, queue, splitter, log, tail, main>>

Enqueue ==
  /\ batch # <<>>
  /\ Head(batch).pool # Filtered
  /\ Len(queue) < QueueCap
  /\ batch' = Tail(batch)
  /\ queue' = Append(queue, [seq   |-> Head(batch).seq,
                             pool  |-> Head(batch).pool,
                             epoch |-> epoch])
  /\ UNCHANGED <<chain, lost, skipped, conn, epoch, splitter, log, tail, main>>

(* Faulty variant of QueueFull: the drop is not marked in the epoch.       *)
QueueFullUnmarked ==
  /\ batch # <<>>
  /\ Head(batch).pool # Filtered
  /\ Len(queue) = QueueCap
  /\ batch' = Tail(batch)
  /\ lost' = lost \cup {Head(batch).seq}
  /\ UNCHANGED <<chain, skipped, conn, epoch, queue, splitter, log, tail, main>>

QueueFull ==
  /\ batch # <<>>
  /\ Head(batch).pool # Filtered
  /\ Len(queue) = QueueCap
  /\ batch' = Tail(batch)
  /\ lost' = lost \cup {Head(batch).seq}
  /\ epoch' = epoch + 1
  /\ UNCHANGED <<chain, skipped, conn, queue, splitter, log, tail, main>>

-----------------------------------------------------------------------------
(* The splitter thread.                                                    *)

Split ==
  /\ queue # <<>>
  /\ queue' = Tail(queue)
  /\ log' = Append(log, Head(queue))
  /\ UNCHANGED <<source, conn, epoch, splitter, tail, main>>

(* Faulty variant of SplitterEnds: main holds a sender of its own.         *)
SplitterEndsAfterMain ==
  /\ splitter = "running"
  /\ queue = <<>>
  /\ conn = "ended"
  /\ main = "returned"
  /\ splitter' = "ended"
  /\ UNCHANGED <<source, conn, epoch, queue, log, tail, main>>

(* The queue is empty and its only sender, the listener's, is dropped.     *)
SplitterEnds ==
  /\ splitter = "running"
  /\ queue = <<>>
  /\ conn = "ended"
  /\ splitter' = "ended"
  /\ UNCHANGED <<source, conn, epoch, queue, log, tail, main>>

-----------------------------------------------------------------------------
(* The adapter and the watcher of one position.                            *)

(* confirm_and_handoff subscribes, then spawns adapter and watcher.        *)
Handoff ==
  /\ adapter = "none"
  /\ main # "returned"
  /\ adapter' = "recv"
  /\ start' = Len(log) + 1
  /\ cursor' = Len(log) + 1
  /\ watcher' = "watching"
  /\ UNCHANGED <<source, conn, epoch, queue, splitter, log, held, mail, got, lagged, main>>

Behind == Len(log) + 1 - cursor

(* recv().await yields the next event; only the position's pool matters.   *)
Receive ==
  /\ adapter = "recv"
  /\ Behind \in 1..BroadcastCap
  /\ cursor' = cursor + 1
  /\ IF log[cursor].pool = Mine
     THEN adapter' = "hold" /\ held' = <<log[cursor]>>
     ELSE UNCHANGED <<adapter, held>>
  /\ UNCHANGED <<source, conn, epoch, queue, splitter, log, start, mail, got, watcher,
                 lagged, main>>

(* RecvError::Lagged: the oldest events are gone, the receiver goes on     *)
(* with the first that is left.                                            *)
Lag ==
  /\ adapter = "recv"
  /\ Behind > BroadcastCap
  /\ cursor' = Len(log) + 1 - BroadcastCap
  /\ lagged' = lagged \cup cursor..(Len(log) - BroadcastCap)
  /\ UNCHANGED <<source, conn, epoch, queue, splitter, log, adapter, start, held, mail, got,
                 watcher, main>>

(* Faulty variant of Forward: an event for a full mailbox is dropped.      *)
ForwardTrying ==
  /\ adapter = "hold"
  /\ watcher = "watching"
  /\ adapter' = "recv"
  /\ held' = <<>>
  /\ mail' = IF Len(mail) < MailCap THEN mail \o held ELSE mail
  /\ UNCHANGED <<source, conn, epoch, queue, splitter, log, start, cursor, got, watcher,
                 lagged, main>>

(* watcher_tx.send(event).await                                            *)
Forward ==
  /\ adapter = "hold"
  /\ watcher = "watching"
  /\ Len(mail) < MailCap
  /\ adapter' = "recv"
  /\ held' = <<>>
  /\ mail' = mail \o held
  /\ UNCHANGED <<source, conn, epoch, queue, splitter, log, start, cursor, got, watcher,
                 lagged, main>>

(* The watcher has gone, noticed only by sending to it; or every sender of *)
(* the broadcast has, main's being the last.                               *)
AdapterEnds ==
  /\ \/ adapter = "hold" /\ watcher = "done"
     \/ adapter = "recv" /\ Behind = 0 /\ main = "returned"
  /\ adapter' = "ended"
  /\ held' = <<>>
  /\ UNCHANGED <<source, conn, epoch, queue, splitter, log, start, cursor, mail, got,
                 watcher, lagged, main>>

(* The watcher reads a tick; between ticks it may be selling for minutes.  *)
Watch ==
  /\ watcher = "watching"
  /\ mail # <<>>
  /\ got' = Append(got, Head(mail))
  /\ mail' = Tail(mail)
  /\ UNCHANGED <<source, conn, epoch, queue, splitter, log, adapter, start, cursor, held,
                 watcher, lagged, main>>

(* It has sold, given up, timed out, or seen its channel closed.           *)
Leave ==
  /\ watcher = "watching"
  /\ watcher' = "done"
  /\ mail' = <<>>
  /\ UNCHANGED <<source, conn, epoch, queue, splitter, log, adapter, start, cursor, held,
                 got, lagged, main>>

-----------------------------------------------------------------------------
(* The end of the process.                                                 *)

(* The select of main: ctrl-C, or the listener or another worker is gone;  *)
(* then abort_all.                                                         *)
Interrupt ==
  /\ main = "running"
  /\ main' = "stopping"
  /\ UNCHANGED <<source, conn, epoch, queue, splitter, log, tail>>

WorkerEnded ==
  /\ conn = "ended" \/ splitter = "ended"
  /\ Interrupt

(* The listener is aborted at its next await, never inside a batch.        *)
ListenerAborted ==
  /\ main = "stopping"
  /\ conn # "ended"
  /\ batch = <<>>
  /\ conn' = "ended"
  /\ UNCHANGED <<source, epoch, queue, splitter, log, tail, main>>

(* join_next until no worker is left: the listener, and the monitor, which *)
(* is blocked in the splitter's join and cannot be aborted.                *)
Drained ==
  /\ main = "stopping"
  /\ conn = "ended"
  /\ splitter = "ended"
  /\ main' = "returned"
  /\ UNCHANGED <<source, conn, epoch, queue, splitter, log, tail>>

-----------------------------------------------------------------------------
Listener ==
  \/ StartListener \/ Connect \/ Subscribed \/ Disconnect \/ Miss \/ Undecodable
  \/ \E n \in 1..MaxBatch : \E pools \in [1..n -> Pools \cup {Filtered}] : Notify(pools)

EnqueueNext == FilterDrop \/ Enqueue \/ QueueFull

Position == Handoff \/ Receive \/ Lag \/ Forward \/ AdapterEnds \/ Watch \/ Leave

Shutdown == Interrupt \/ WorkerEnded \/ ListenerAborted \/ Drained

Next == Listener \/ EnqueueNext \/ Split \/ SplitterEnds \/ Position \/ Shutdown

Spec == Init /\ [][Next]_vars

(* The batch is enqueued without an await, the splitter is a thread, and   *)
(* main polls its workers until they are gone.                             *)
FairSpec ==
  /\ Spec
  /\ WF_vars(EnqueueNext)
  /\ WF_vars(Split)
  /\ WF_vars(SplitterEnds)
  /\ WF_vars(WorkerEnded)
  /\ WF_vars(ListenerAborted)
  /\ WF_vars(Drained)

-----------------------------------------------------------------------------
(* The stream epoch is an exact gap marker: between two events of one      *)
(* epoch no swap was dropped by the full queue or missed by a broken       *)
(* connection, so a consumer that sees the epoch unchanged has an unbroken *)
(* run of prices.  What the decoder or the filter left out is not marked.  *)
EpochMarksGaps ==
  \A e, f \in Range(log) \cup Range(queue) :
    e.epoch = f.epoch => lost \cap (e.seq + 1)..(f.seq - 1) = {}

(* The watcher's mailbox carries the swaps of its pool since the handoff,  *)
(* each once and in the order of the chain, and lacks only those its       *)
(* adapter was told it lagged behind: a watcher that is busy selling slows *)
(* its adapter down but loses nothing silently.                            *)
Wanted(i) == log[i].pool = Mine /\ i \notin lagged

Fed == got \o mail \o held

Due == {i \in start..(cursor - 1) : Wanted(i)}

FeedFaithful ==
  watcher = "watching" /\ adapter # "ended" =>
    /\ Range(Fed) = {log[i] : i \in Due}
    /\ \A i, j \in DOMAIN Fed : i < j => Fed[i].seq < Fed[j].seq

(* Once a worker has ended or a signal has arrived, main returns: aborting *)
(* the listener drops the last sender of the queue, that ends the splitter *)
(* and lets the monitor, which cannot be aborted, join it.                 *)
ShutdownCompletes ==
  (main = "stopping" \/ conn = "ended") ~> (main = "returned")

(* Before main returns, the feed of a watcher is closed, as the comment on *)
(* abort_all has it: "The math loop and exit watchers then terminate."     *)
WatchersToldFirst ==
  main = "returned" /\ watcher = "watching" => adapter = "ended"
=============================================================================
