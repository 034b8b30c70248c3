--------------------------- MODULE WhaleExecution ---------------------------
(***************************************************************************)
(* The execution consumer (run_whale_execution_consumer), the handoff and  *)
(* watcher tasks it spawns, and the process that hosts them.  One consumer *)
(* takes whale signals off a channel one at a time and turns each into at  *)
(* most one buy bundle; every accepted bundle gets a task of its own that  *)
(* owns the position permit until the position is closed or given up.      *)
(*                                                                         *)
(* The consumer's pc names the await it has reached, so that every task,   *)
(* the chain and a crash may act between two of its steps.  Time is        *)
(* abstracted: a lock or a cooldown whose age only makes it expire may     *)
(* expire at any moment.                                                   *)
(***************************************************************************)
EXTENDS Naturals, FiniteSets

CONSTANTS
  Mints,                \* token mints named by signals
  Whales,               \* whale wallets that trigger signals
  Epochs,               \* signal timestamps, in whole seconds
  NoSignal,             \* the consumer is not working on a signal
  MaxPositions,         \* MAX_CONCURRENT_POSITIONS
  BreakerThreshold,     \* CIRCUIT_BREAKER_THRESHOLD
  MaxSignals,           \* bound: signals delivered in a behaviour
  MaxRestarts,          \* bound: process restarts in a behaviour
  Faults                \* the classes of adverse event a run admits

FaultClasses ==
  { "stale",            \* a signal outlives max_signal_age while being built
    "capital",          \* the reservation would exceed the capital limit
    "journal",          \* an append to the journal fails
    "ambiguous",        \* every region fails, yet the bundle may still land
    "confirm",          \* a landed (or late) buy is not confirmed in time
    "sell",             \* a sell is not confirmed within its polls
    "feed",             \* the watcher gives up: feed lost or four-hour limit
    "crash" }           \* the process dies

ASSUME MintsAssumption     == IsFiniteSet(Mints)
ASSUME PositionsAssumption == MaxPositions \in Nat \ {0}
ASSUME ThresholdAssumption == BreakerThreshold \in Nat \ {0}
ASSUME BoundsAssumption    == MaxSignals \in Nat /\ MaxRestarts \in Nat
ASSUME FaultsAssumption    == Faults \subseteq FaultClasses

(* WhaleSignal, without the amounts: whale_wallet is also what the dedupe  *)
(* key uses as its pool.                                                   *)
Signals == [mint : Mints, whale : Whales, epoch : Epochs]

ASSUME NoSignalAssumption == NoSignal \notin Signals

VARIABLES
  pc,                   \* where the consumer loop is
  cur,                  \* the signal it is working on
  permits,              \* position_semaphore.available_permits()
  mintLocks,            \* keys of BotState.traded_mints
  dedupe,               \* keys OpportunityDeduplicator has seen
  reserved,             \* ExecutionJournal.reserved_mints, in memory
  losses,               \* BotState.consecutive_losses
  tripped,              \* circuit_breaker_tripped_at is Some
  task,                 \* per mint: the task that owns its permit
  journal,              \* mints a Reserved line was written for
  unloadable,           \* the file holds a line that load() rejects
  buys,                 \* per mint: fan_out_submit calls (history)
  inflight,             \* bundles handed to Jito whose fate is open
  held,                 \* mints whose tokens the wallet holds
  reported,             \* mints logged as failed, for a human (history)
  stranded,             \* mints a stale signal left locked (history)
  left,                 \* mints in hand when a process ended (history)
  received,             \* signals delivered so far
  restarts              \* restarts so far

volatile == <<pc, cur, permits, mintLocks, dedupe, reserved, losses, tripped,
              task>>
disk     == <<journal, unloadable>>
chain    == <<buys, inflight, held>>
history  == <<reported, stranded, left>>
bounds   == <<received, restarts>>
vars     == <<volatile, disk, chain, history, bounds>>

PCs == {"idle", "breaker", "admit", "lock", "build", "fresh", "dedupe",
        "reserve", "submit", "accept", "landing", "down"}

(* Points at which the consumer itself owns a permit.                      *)
HoldsPermit == {"lock", "build", "fresh", "dedupe", "reserve", "submit",
                "accept", "landing"}

TypeOK ==
  /\ pc \in PCs
  /\ cur \in Signals \cup {NoSignal}
  /\ pc \notin {"idle", "down"} => cur \in Signals
  /\ permits \in 0..MaxPositions
  /\ mintLocks \subseteq Mints
  /\ dedupe \subseteq Signals
  /\ reserved \subseteq Mints
  /\ losses \in Nat
  /\ tripped \in BOOLEAN
  /\ task \in [Mints -> {"none", "confirming", "watching"}]
  /\ journal \subseteq Mints
  /\ unloadable \in BOOLEAN
  /\ buys \in [Mints -> Nat]
  /\ inflight \subseteq Mints
  /\ held \subseteq Mints
  /\ reported \subseteq Mints
  /\ stranded \subseteq Mints
  /\ left \subseteq Mints
  /\ received \in Nat
  /\ restarts \in Nat

-----------------------------------------------------------------------------
(* BotState::new, an empty journal and a fresh wallet.                     *)
Init ==
  /\ pc = "idle"
  /\ cur = NoSignal
  /\ permits = MaxPositions
  /\ mintLocks = {}
  /\ dedupe = {}
  /\ reserved = {}
  /\ losses = 0
  /\ tripped = FALSE
  /\ task = [m \in Mints |-> "none"]
  /\ journal = {}
  /\ unloadable = FALSE
  /\ buys = [m \in Mints |-> 0]
  /\ inflight = {}
  /\ held = {}
  /\ reported = {}
  /\ stranded = {}
  /\ left = {}
  /\ received = 0
  /\ restarts = 0

(* `continue`: the loop turns to the next signal.                          *)
Continue == pc' = "idle" /\ cur' = NoSignal

Goto(label) == pc' = label /\ UNCHANGED cur

(* Faulty variant of Abandon: unlock_mint is forgotten.                    *)
AbandonKeepingLock ==
  /\ permits' = permits + 1
  /\ Continue
  /\ UNCHANGED mintLocks

(* The early exits that undo their claim: unlock_mint, then `continue`     *)
(* drops the permit.                                                       *)
Abandon ==
  /\ mintLocks' = mintLocks \ {cur.mint}
  /\ permits' = permits + 1
  /\ Continue

(* The mints whose fate is in the hands of a position task, or of the      *)
(* consumer between the ack of the bundle and the spawn of its task.       *)
Owned == {m \in Mints : task[m] # "none"}

InHand ==
  Owned \cup {m \in Mints : pc \in {"accept", "landing"} /\ cur.mint = m}

(* Everything the process keeps in memory is gone; its tasks die with it,  *)
(* and nothing is logged about the positions they had in hand.             *)
LoseProcess ==
  /\ left' = left \cup InHand
  /\ pc' = "down"
  /\ cur' = NoSignal
  /\ permits' = MaxPositions
  /\ mintLocks' = {}
  /\ dedupe' = {}
  /\ reserved' = {}
  /\ losses' = 0
  /\ tripped' = FALSE
  /\ task' = [m \in Mints |-> "none"]

-----------------------------------------------------------------------------
(* signal_rx.recv()                                                        *)
Receive ==
  /\ pc = "idle"
  /\ received < MaxSignals
  /\ received' = received + 1
  /\ cur' \in Signals
  /\ pc' = "breaker"
  /\ UNCHANGED <<permits, mintLocks, dedupe, reserved, losses, tripped, task,
                 disk, chain, history, restarts>>

(* is_circuit_breaker_active: below the threshold the trip mark is cleared *)
(* and the signal passes; the first check above it sets the mark; a later  *)
(* one blocks until the cooldown has run out and then resets the count.    *)
BreakerGate ==
  /\ pc = "breaker"
  /\ \/ /\ losses < BreakerThreshold
        /\ tripped' = FALSE
        /\ Goto("admit")
        /\ UNCHANGED losses
     \/ /\ losses >= BreakerThreshold
        /\ tripped' = TRUE
        /\ Continue
        /\ UNCHANGED losses
     \/ /\ losses >= BreakerThreshold
        /\ tripped
        /\ tripped' = FALSE
        /\ losses' = 0
        /\ Goto("admit")
  /\ UNCHANGED <<permits, mintLocks, dedupe, reserved, task, disk, chain,
                 history, bounds>>

(* journal.contains, then try_acquire_position.                            *)
Admit ==
  /\ pc = "admit"
  /\ IF cur.mint \notin reserved /\ permits > 0
     THEN permits' = permits - 1 /\ Goto("lock")
     ELSE UNCHANGED permits /\ Continue
  /\ UNCHANGED <<mintLocks, dedupe, reserved, losses, tripped, task, disk,
                 chain, history, bounds>>

(* try_lock_mint; when it fails the permit goes out of scope.              *)
LockMint ==
  /\ pc = "lock"
  /\ IF cur.mint \notin mintLocks
     THEN /\ mintLocks' = mintLocks \cup {cur.mint}
          /\ Goto("build")
          /\ UNCHANGED permits
     ELSE /\ permits' = permits + 1
          /\ Continue
          /\ UNCHANGED mintLocks
  /\ UNCHANGED <<dedupe, reserved, losses, tripped, task, disk, chain,
                 history, bounds>>

(* Tip gate, pool resolution or the PumpPortal fallback, tip account,      *)
(* blockhash and signing.  Each can fail, and each failure abandons.       *)
Build ==
  /\ pc = "build"
  /\ \/ Goto("fresh") /\ UNCHANGED <<mintLocks, permits>>
     \/ Abandon
  /\ UNCHANGED <<dedupe, reserved, losses, tripped, task, disk, chain,
                 history, bounds>>

(* ensure_signal_fresh: the stale path drops the permit and nothing else.  *)
CheckFresh ==
  /\ pc = "fresh"
  /\ \/ Goto("dedupe") /\ UNCHANGED <<permits, stranded>>
     \/ /\ "stale" \in Faults
        /\ stranded' = stranded \cup {cur.mint}
        /\ permits' = permits + 1
        /\ Continue
  /\ UNCHANGED <<mintLocks, dedupe, reserved, losses, tripped, task, disk,
                 chain, reported, left, bounds>>

(* try_acquire_dedupe on the key {mint, whale, second}.                    *)
TakeDedupeKey ==
  /\ pc = "dedupe"
  /\ IF cur \in dedupe
     THEN Abandon /\ UNCHANGED dedupe
     ELSE /\ dedupe' = dedupe \cup {cur}
          /\ Goto("reserve")
          /\ UNCHANGED <<mintLocks, permits>>
  /\ UNCHANGED <<reserved, losses, tripped, task, disk, chain, history,
                 bounds>>

(* Effect of a Reserved line reaching the file: a second line for the same *)
(* mint makes every later load() fail.                                     *)
WriteReservation(m) ==
  /\ journal' = journal \cup {m}
  /\ unloadable' = (unloadable \/ m \in journal)

(* Faulty variant of Reserve: the mint is remembered but never written.    *)
ReserveInMemory ==
  /\ pc = "reserve"
  /\ reserved' = reserved \cup {cur.mint}
  /\ Goto("submit")
  /\ UNCHANGED <<mintLocks, permits, disk, dedupe, losses, tripped, task,
                 chain, history, bounds>>

(* journal.reserve.  A failed append may leave the line, a torn piece of   *)
(* it, or nothing in the file; the caller sees one error for all three and *)
(* abandons, keeping the dedupe key.                                       *)
Reserve ==
  /\ pc = "reserve"
  /\ \/ /\ cur.mint \notin reserved
        /\ WriteReservation(cur.mint)
        /\ reserved' = reserved \cup {cur.mint}
        /\ Goto("submit")
        /\ UNCHANGED <<mintLocks, permits>>
     \/ /\ cur.mint \in reserved \/ "capital" \in Faults
        /\ Abandon
        /\ UNCHANGED <<reserved, disk>>
     \/ /\ "journal" \in Faults
        /\ Abandon
        /\ \/ WriteReservation(cur.mint)
           \/ unloadable' = TRUE /\ UNCHANGED journal
           \/ UNCHANGED disk
        /\ UNCHANGED reserved
  /\ UNCHANGED <<dedupe, losses, tripped, task, chain, history, bounds>>

(* Faulty variant of Submit: the permit of a failed submission leaks.      *)
SubmitLeakingPermit ==
  /\ pc = "submit"
  /\ buys' = [buys EXCEPT ![cur.mint] = @ + 1]
  /\ \/ inflight' = inflight \cup {cur.mint} /\ Goto("accept")
     \/ UNCHANGED inflight /\ Continue
  /\ UNCHANGED <<permits, mintLocks, dedupe, reserved, losses, tripped, task,
                 disk, held, history, bounds>>

(* fan_out_submit.  With an ack the bundle is in flight.  Without one the  *)
(* failure is logged, the permit dropped and the mint stays locked: the    *)
(* bundle may have been accepted before the answer was lost.               *)
Submit ==
  /\ pc = "submit"
  /\ buys' = [buys EXCEPT ![cur.mint] = @ + 1]
  /\ \/ /\ inflight' = inflight \cup {cur.mint}
        /\ Goto("accept")
        /\ UNCHANGED <<permits, reported>>
     \/ /\ inflight' \in {inflight} \cup
             IF "ambiguous" \in Faults THEN {inflight \cup {cur.mint}} ELSE {}
        /\ reported' = reported \cup {cur.mint}
        /\ permits' = permits + 1
        /\ Continue
  /\ UNCHANGED <<mintLocks, dedupe, reserved, losses, tripped, task, disk,
                 held, stranded, left, bounds>>

(* record_acceptance(..).await?  An error ends the consumer, and with it   *)
(* the process, before the bundle has been handed to a task.               *)
RecordAcceptance ==
  /\ pc = "accept"
  /\ \/ /\ Goto("landing")
        /\ UNCHANGED <<permits, mintLocks, dedupe, reserved, losses, tripped,
                       task, unloadable, left>>
     \/ /\ "journal" \in Faults
        /\ LoseProcess
        /\ unloadable' \in {unloadable, TRUE}
  /\ UNCHANGED <<journal, chain, reported, stranded, bounds>>

(* Faulty variants of SpawnHandoff: a closed tracker channel ends the      *)
(* iteration; the wait for the tracker has no timeout.                     *)
SpawnUnlessClosed ==
  /\ pc = "landing"
  /\ \/ task' = [task EXCEPT ![cur.mint] = "confirming"] /\ UNCHANGED permits
     \/ permits' = permits + 1 /\ UNCHANGED task
  /\ Continue
  /\ UNCHANGED <<mintLocks, dedupe, reserved, losses, tripped, disk, chain,
                 history, bounds>>

SpawnOnceSettled ==
  /\ pc = "landing"
  /\ cur.mint \notin inflight
  /\ task' = [task EXCEPT ![cur.mint] = "confirming"]
  /\ Continue
  /\ UNCHANGED <<permits, mintLocks, dedupe, reserved, losses, tripped, disk,
                 chain, history, bounds>>

(* The tracker answers, closes its channel or stays silent for             *)
(* BUNDLE_LANDING_WAIT; then confirm_and_handoff is spawned with the       *)
(* permit.                                                                 *)
SpawnHandoff ==
  /\ pc = "landing"
  /\ task' = [task EXCEPT ![cur.mint] = "confirming"]
  /\ Continue
  /\ UNCHANGED <<permits, mintLocks, dedupe, reserved, losses, tripped, disk,
                 chain, history, bounds>>

-----------------------------------------------------------------------------
(* Faulty variants of ConfirmBuy: the permit is dropped when the handoff   *)
(* returns; the wait for the confirmation has no limit.                    *)
ConfirmDroppingPermit(m) ==
  /\ task[m] = "confirming"
  /\ m \in held
  /\ task' = [task EXCEPT ![m] = "watching"]
  /\ permits' = permits + 1
  /\ UNCHANGED <<pc, cur, mintLocks, dedupe, reserved, losses, tripped, disk,
                 chain, history, bounds>>

ConfirmWithoutLimit(m) ==
  /\ task[m] = "confirming"
  /\ m \in held
  /\ task' = [task EXCEPT ![m] = "watching"]
  /\ UNCHANGED <<permits, pc, cur, mintLocks, dedupe, reserved, losses,
                 tripped, disk, chain, history, bounds>>

(* confirm_and_handoff: polls the chain, reads the balance back and spawns *)
(* the watcher; on failure the permit is dropped, nobody watches, and the  *)
(* position is logged for manual review.                                   *)
ConfirmBuy(m) ==
  /\ task[m] = "confirming"
  /\ \/ /\ m \in held
        /\ task' = [task EXCEPT ![m] = "watching"]
        /\ UNCHANGED <<permits, reported>>
     \/ /\ m \notin held \cup inflight \/ "confirm" \in Faults
        /\ task' = [task EXCEPT ![m] = "none"]
        /\ permits' = permits + 1
        /\ reported' = reported \cup {m}
  /\ UNCHANGED <<pc, cur, mintLocks, dedupe, reserved, losses, tripped, disk,
                 chain, stranded, left, bounds>>

(* The watcher sells everything and the sell is confirmed: the position is *)
(* closed and the result counted (a win clears the streak).                *)
CloseSold(m) ==
  /\ task[m] = "watching"
  /\ m \in held
  /\ held' = held \ {m}
  /\ losses' \in {0, losses + 1}
  /\ task' = [task EXCEPT ![m] = "none"]
  /\ permits' = permits + 1
  /\ UNCHANGED <<pc, cur, mintLocks, dedupe, reserved, tripped, disk, buys,
                 inflight, history, bounds>>

(* The watcher returns without a confirmed sell: execute_sell_with_retry   *)
(* said false (the sell may have landed all the same), the feed was lost,  *)
(* or the four-hour limit struck.  Each is logged; PositionGuard drops the *)
(* permit.                                                                 *)
GiveUpPosition(m) ==
  /\ task[m] = "watching"
  /\ \/ "sell" \in Faults /\ held' \in {held, held \ {m}}
     \/ "feed" \in Faults /\ UNCHANGED held
  /\ reported' = reported \cup {m}
  /\ task' = [task EXCEPT ![m] = "none"]
  /\ permits' = permits + 1
  /\ UNCHANGED <<pc, cur, mintLocks, dedupe, reserved, losses, tripped, disk,
                 buys, inflight, stranded, left, bounds>>

-----------------------------------------------------------------------------
(* The chain decides a bundle: it lands or it is dropped.                  *)
Settle(m) ==
  /\ m \in inflight
  /\ inflight' = inflight \ {m}
  /\ held' \in {held, held \cup {m}}
  /\ UNCHANGED <<volatile, disk, buys, history, bounds>>

(* A mint lock reaches its four hours.  (Dedupe keys never expire: nothing *)
(* calls prune_dedupe.)                                                    *)
ExpireLock(m) ==
  /\ m \in mintLocks
  /\ mintLocks' = mintLocks \ {m}
  /\ UNCHANGED <<pc, cur, permits, dedupe, reserved, losses, tripped, task,
                 disk, chain, history, bounds>>

(* The process is killed or shut down, or another worker of it ends, which *)
(* ends them all: main aborts its workers and exits.                       *)
Crash ==
  /\ "crash" \in Faults
  /\ pc # "down"
  /\ LoseProcess
  /\ UNCHANGED <<disk, chain, reported, stranded, bounds>>

(* Faulty variant of Restart: the journal is opened but not replayed.      *)
RestartForgetful ==
  /\ pc = "down"
  /\ restarts < MaxRestarts
  /\ ~unloadable
  /\ restarts' = restarts + 1
  /\ pc' = "idle"
  /\ reserved' = {}
  /\ UNCHANGED <<cur, permits, mintLocks, dedupe, losses, tripped, task, disk,
                 chain, history, received>>

(* ExecutionJournal::load: replays the reservations, or refuses to start.  *)
Restart ==
  /\ pc = "down"
  /\ restarts < MaxRestarts
  /\ ~unloadable
  /\ restarts' = restarts + 1
  /\ pc' = "idle"
  /\ reserved' = journal
  /\ UNCHANGED <<cur, permits, mintLocks, dedupe, losses, tripped, task, disk,
                 chain, history, received>>

-----------------------------------------------------------------------------
Consumer ==
  \/ Receive \/ BreakerGate \/ Admit \/ LockMint \/ Build \/ CheckFresh
  \/ TakeDedupeKey \/ Reserve \/ Submit \/ RecordAcceptance \/ SpawnHandoff

PositionTask(m) == ConfirmBuy(m) \/ CloseSold(m) \/ GiveUpPosition(m)

Next ==
  \/ Consumer
  \/ \E m \in Mints : PositionTask(m) \/ Settle(m) \/ ExpireLock(m)
  \/ Crash
  \/ Restart

Spec == Init /\ [][Next]_vars

(* Every await of the consumer ends: RPC calls, the request to PumpPortal  *)
(* (its client has a timeout, unlike that of a sale), fan_out_submit and   *)
(* the wait for the tracker carry timeouts.  A handoff is cut off after    *)
(* CONFIRMATION_HARD_TIMEOUT and a watcher after four hours, so every task *)
(* ends.  Signals, the chain, crashes and restarts are not fair.           *)
Fairness ==
  /\ WF_vars(Consumer /\ pc # "idle")
  /\ \A m \in Mints : WF_vars(PositionTask(m))

FairSpec == Spec /\ Fairness

-----------------------------------------------------------------------------
(* Tasks and the consumer as owners of position permits.                   *)
Owners == Cardinality(Owned) + IF pc \in HoldsPermit THEN 1 ELSE 0

(* No bundle is sent for a mint without a Reserved line in the journal     *)
(* file: the reservation precedes the first SendBundle attempt.            *)
ReservedBeforeSubmit == \A m \in Mints : buys[m] > 0 => m \in journal

(* A mint is bought at most once, whatever expires, fails or restarts.     *)
NoDuplicateBuy == \A m \in Mints : buys[m] <= 1

(* Every permit is either free or owned by exactly one of the consumer and *)
(* the position tasks: none leaks, none is returned twice.                 *)
PermitsConserved == permits + Owners = MaxPositions

(* Whatever happens after a bundle is submitted, tokens the wallet holds   *)
(* or may still receive from it have a task that will sell them, or a      *)
(* consumer about to spawn one; or the step that let go of them logged the *)
(* mint ("the permit is dropped (slot restored) and the position is logged *)
(* for manual review"); or the process ended with them in hand.            *)
NothingUnwatched == held \cup inflight \subseteq InHand \cup reported \cup left

(* "Hard cap on simultaneous open positions": of the mints the wallet      *)
(* holds, those nobody was told of and no process left behind never        *)
(* outnumber the permits.  (A failed handoff restores its slot, so mints   *)
(* logged for review may come on top.)                                     *)
HeldWithinCap == Cardinality(held \ (reported \cup left)) <= MaxPositions

(* Between two signals only mints that were committed to are locked in     *)
(* traded_mints: an execution that failed early has released its mint,     *)
(* unless it failed because its signal went stale, the one exit that does  *)
(* not.                                                                    *)
EarlyExitReleasesMint ==
  pc = "idle" => mintLocks \subseteq reserved \cup stranded

(* "Dedupe now only blocks genuine re-submission of an opportunity we      *)
(* already committed capital to": a signal that the dedupe gate turns away *)
(* names a mint with a reservation.                                        *)
DedupeBlocksOnlyCommitted ==
  pc = "dedupe" /\ cur \in dedupe => cur.mint \in reserved

(* A signal that finds a free slot is turned away at the gates only while  *)
(* its mint is inside the four-hour window of traded_mints, which is       *)
(* documented as letting the bot re-enter a token afterwards.              *)
ReentryAfterExpiry ==
  [][pc = "admit" /\ pc' = "idle" => permits = 0 \/ cur.mint \in mintLocks]_vars

(* The consumer always gets back to its channel (or the process is gone):  *)
(* no signal can wedge it.                                                 *)
ConsumerReturns == pc # "idle" ~> pc \in {"idle", "down"}

(* Every position task ends and gives its permit back.                     *)
TasksEnd == \A m \in Mints : task[m] # "none" ~> task[m] = "none"

(* The engine, crashes included, behaves like BuyOnce, the journal file    *)
(* being the durable reservations.                                         *)
Ledger == INSTANCE BuyOnce WITH reserved <- journal

ImplementsBuyOnce == Ledger!Spec
=============================================================================
