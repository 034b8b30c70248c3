----------------------------- MODULE ExitWatcher -----------------------------
(***************************************************************************)
(* One open position: the watcher that reads price ticks and decides when  *)
(* to sell, and the sell pipeline that sends up to MaxAttempts bundles and *)
(* waits for the confirmation of the one that was acknowledged.  The chain *)
(* and the four-hour deadline act between any two steps.                   *)
(*                                                                         *)
(* A price is an integer, in the unit of Entry; the ratios of the code are *)
(* exact, so only their order counts.  The trail distance derived from the *)
(* velocity average is any member of Trails.                               *)
(***************************************************************************)
EXTENDS Integers, Sequences

CONSTANTS
  Prices,               \* prices of ticks
  Entry,                \* entry price
  Acquired,             \* acquired_amount, in raw token units
  Trails,               \* trail distances, in basis points
  MaxStale,             \* MAX_CONSECUTIVE_STALE_TICKS
  MaxAttempts,          \* MAX_SELL_ATTEMPTS
  MaxTicks,             \* bound: fresh ticks in a behaviour
  NoSale                \* no sale is in progress

ASSUME PricesAssumption ==
  /\ Prices \subseteq Nat \ {0}
  /\ Entry \in Nat \ {0}
  /\ Acquired \in Nat \ {0}
ASSUME LimitsAssumption ==
  /\ MaxStale \in Nat \ {0}
  /\ MaxAttempts \in Nat \ {0}
  /\ MaxTicks \in Nat
ASSUME TrailsAssumption == Trails \subseteq 300..2000 /\ Trails # {}

Sales == [amount : 0..Acquired, price : Prices, final : BOOLEAN]

ASSUME NoSaleAssumption == NoSale \notin Sales

VARIABLES
  phase,                \* where the watcher task is
  prev,                 \* price of the last fresh tick that did not exit
  hwm,                  \* high-water mark
  locked,               \* profit_lock_active
  partialSold,          \* partial_sold
  stale,                \* consecutive_stale
  amount,               \* position.acquired_amount
  early,                \* at most 60 s since the entry
  viaPortal,            \* no pool keys: PumpPortal builds the sell transaction
  ticks,                \* fresh ticks so far
  sale,                 \* arguments of execute_sell_with_retry
  attempt,              \* attempt number of attempt_sell_bundle
  acked,                \* index of the acknowledged bundle
  bundles,              \* sell bundles sent: amount and fate
  wallet,               \* tokens the wallet holds on chain
  closed,               \* db::close_position calls
  streak,               \* loss-streak updates: "win" and "loss", in order
  outcome               \* how the last sale ended

decision == <<prev, hwm, locked, partialSold, stale, amount, ticks>>
pipeline == <<sale, attempt, acked>>
chain    == <<bundles, wallet>>
books    == <<closed, streak, outcome>>
vars == <<phase, decision, early, viaPortal, pipeline, chain, books>>

TypeOK ==
  /\ phase \in {"ticks", "connect", "attempt", "portal", "signed", "confirm",
                "done"}
  /\ prev \in Prices \cup {Entry}
  /\ hwm \in Prices \cup {Entry}
  /\ locked \in BOOLEAN
  /\ partialSold \in BOOLEAN
  /\ stale \in 0..MaxStale
  /\ amount \in 0..Acquired
  /\ early \in BOOLEAN
  /\ viaPortal \in BOOLEAN
  /\ ticks \in 0..MaxTicks
  /\ sale \in Sales \cup {NoSale}
  /\ phase \notin {"ticks", "done"} => sale \in Sales
  /\ attempt \in 0..MaxAttempts
  /\ acked \in 0..Len(bundles)
  /\ bundles \in Seq([amount : 0..Acquired, fate : {"open", "landed", "failed"}])
  /\ wallet \in 0..Acquired
  /\ closed \in Nat
  /\ streak \in Seq({"win", "loss"})
  /\ outcome \in {"none", "confirmed", "failed"}

-----------------------------------------------------------------------------
(* spawn_position_watcher, with the tokens read back from the chain and    *)
(* the pool keys, or without them.                                         *)
Init ==
  /\ phase = "ticks"
  /\ prev = Entry
  /\ hwm = Entry
  /\ locked = FALSE
  /\ partialSold = FALSE
  /\ stale = 0
  /\ amount = Acquired
  /\ early = TRUE
  /\ viaPortal \in BOOLEAN
  /\ ticks = 0
  /\ sale = NoSale
  /\ attempt = 0
  /\ acked = 0
  /\ bundles = <<>>
  /\ wallet = Acquired
  /\ closed = 0
  /\ streak = <<>>
  /\ outcome = "none"

-----------------------------------------------------------------------------
(* The tests a fresh tick at price p goes through.                         *)

(* A log-return below -0.128, that is a ratio below 0.87985.               *)
Crashed(p, last) == 100000 * p < 87985 * last

(* compute_pnl_bps(p) > bps, for bps below zero.                           *)
PnlAbove(p, bps) == 10000 * (p - Entry) > bps * Entry

HighWater(p) == IF p > hwm THEN p ELSE hwm

LockedAt(p) == locked \/ p >= (130 * Entry) \div 100

IsPanic(p)    == Crashed(p, prev) /\ PnlAbove(p, -1500)
IsSnapback(p) == p >= Entry
IsScaleOut(p) == ~partialSold /\ early /\ p >= 2 * Entry

IsTrailStop(p, trail) ==
  /\ LockedAt(p)
  /\ \/ 10000 * p < HighWater(p) * (10000 - trail)
     \/ 100 * p < 110 * Entry

(* The sale a tick decides on: C, VWAP, A and B, in the order of the code. *)
(* Every one but the scale-out sells the whole bag and is final.           *)
Decision(p, trail) ==
  IF ~IsPanic(p) /\ ~IsSnapback(p) /\ IsScaleOut(p)
  THEN [amount |-> amount \div 2, price |-> p, final |-> FALSE]
  ELSE IF IsPanic(p) \/ IsSnapback(p) \/ IsTrailStop(p, trail)
  THEN [amount |-> amount, price |-> p, final |-> TRUE]
  ELSE NoSale

(* A fresh tick of the position's pool.                                    *)
Tick(p) ==
  /\ phase = "ticks"
  /\ ticks < MaxTicks
  /\ ticks' = ticks + 1
  /\ stale' = 0
  /\ hwm' = HighWater(p)
  /\ locked' = LockedAt(p)
  /\ \E trail \in Trails : sale' = Decision(p, trail)
  /\ IF sale' = NoSale
     THEN prev' = p /\ UNCHANGED phase
     ELSE phase' = "connect" /\ UNCHANGED prev
  /\ UNCHANGED <<partialSold, amount, early, viaPortal, attempt, acked, chain,
                 books>>

(* Faulty variant of MissTick: a missing tick is not counted.              *)
MissTickUncounted ==
  /\ phase = "ticks"
  /\ stale' = 0
  /\ UNCHANGED <<phase, prev, hwm, locked, partialSold, amount, ticks, early,
                 viaPortal, pipeline, chain, books>>

(* PRICE_FEED_TIMEOUT without a tick, or a tick older than                 *)
(* MAX_TICK_STALENESS_MS.                                                  *)
MissTick ==
  /\ phase = "ticks"
  /\ stale' = stale + 1
  /\ phase' = IF stale' >= MaxStale THEN "done" ELSE "ticks"
  /\ UNCHANGED <<prev, hwm, locked, partialSold, amount, ticks, early,
                 viaPortal, pipeline, chain, books>>

(* The feed's channel closes.                                              *)
CloseFeed ==
  /\ phase = "ticks"
  /\ phase' = "done"
  /\ UNCHANGED <<decision, early, viaPortal, pipeline, chain, books>>

(* WATCHER_MAX_LIFETIME cancels the watcher wherever it is.                *)
Deadline ==
  /\ phase # "done"
  /\ phase' = "done"
  /\ UNCHANGED <<decision, early, viaPortal, pipeline, chain, books>>

(* The first minute after the entry is over.                               *)
Elapse ==
  /\ early
  /\ early' = FALSE
  /\ UNCHANGED <<phase, decision, viaPortal, pipeline, chain, books>>

-----------------------------------------------------------------------------
(* The sale is over; execute_sell_with_retry returned false.  A final sale *)
(* ends the watcher whatever it returned.                                  *)
SaleFails ==
  /\ outcome' = "failed"
  /\ phase' = IF sale.final THEN "done" ELSE "ticks"
  /\ sale' = NoSale
  /\ attempt' = 0
  /\ UNCHANGED <<decision, closed, streak>>

(* attempt_sell_bundle up to its loop: without a first connection to Jito  *)
(* (or without tokens) there is no attempt at all.                         *)
Connect ==
  /\ phase = "connect"
  /\ \/ /\ sale.amount > 0
        /\ phase' = "attempt"
        /\ attempt' = 1
        /\ UNCHANGED <<decision, sale, books>>
     \/ SaleFails
  /\ UNCHANGED <<early, viaPortal, acked, chain>>

(* Faulty variant of NextAttempt: the loop runs once too often.            *)
NextAttemptTooMany ==
  IF attempt > MaxAttempts
  THEN SaleFails
  ELSE /\ attempt' = attempt + 1
       /\ phase' = "attempt"
       /\ UNCHANGED <<decision, sale, books>>

NextAttempt ==
  IF attempt = MaxAttempts
  THEN SaleFails
  ELSE /\ attempt' = attempt + 1
       /\ phase' = "attempt"
       /\ UNCHANGED <<decision, sale, books>>

(* Without pool keys, PumpPortal is asked for the transaction.             *)
AskPortal ==
  /\ phase = "attempt"
  /\ viaPortal
  /\ phase' = "portal"
  /\ UNCHANGED <<decision, early, viaPortal, pipeline, chain, books>>

(* It answers with a transaction, or the request, its status or its body   *)
(* is an error.  The request is the one that has no timeout.               *)
PortalAnswers ==
  /\ phase = "portal"
  /\ \/ phase' = "signed" /\ UNCHANGED <<decision, sale, attempt, books>>
     \/ NextAttempt
  /\ UNCHANGED <<early, viaPortal, acked, chain>>

(* The attempt fails and Jito gets no bundle: reconnect, blockhash,        *)
(* compile, sign, serialize or send.  A Raydium instruction that cannot be *)
(* built ends the sale at once.                                            *)
FailAttempt ==
  /\ phase \in {"attempt", "signed"}
  /\ NextAttempt \/ (~viaPortal /\ SaleFails)
  /\ UNCHANGED <<early, viaPortal, acked, chain>>

Signed == phase = IF viaPortal THEN "signed" ELSE "attempt"

Sent == Append(bundles, [amount |-> sale.amount, fate |-> "open"])

(* send_bundle is acknowledged with a bundle id.                           *)
SendAcked ==
  /\ Signed
  /\ bundles' = Sent
  /\ acked' = Len(Sent)
  /\ phase' = "confirm"
  /\ UNCHANGED <<decision, early, viaPortal, sale, attempt, wallet, books>>

(* send_bundle errs, times out or answers without an id, yet the block     *)
(* engine has the bundle: the loop takes it for a failed attempt.          *)
SendLost ==
  /\ Signed
  /\ bundles' = Sent
  /\ NextAttempt
  /\ UNCHANGED <<early, viaPortal, acked, wallet>>

(* Faulty variant of Confirm: an accepted bundle is taken to land.         *)
ConfirmOnAcceptance ==
  /\ phase = "confirm"
  /\ outcome' = "confirmed"
  /\ sale' = NoSale
  /\ attempt' = 0
  /\ IF sale.final
     THEN /\ phase' = "done"
          /\ closed' = closed + 1
          /\ streak' = Append(streak,
                         IF PnlAbove(sale.price, -1) THEN "win" ELSE "loss")
          /\ UNCHANGED <<amount, partialSold>>
     ELSE /\ phase' = "ticks"
          /\ amount' = amount - sale.amount
          /\ partialSold' = TRUE
          /\ UNCHANGED <<closed, streak>>
  /\ UNCHANGED <<prev, hwm, locked, stale, ticks, early, viaPortal, acked,
                 chain>>

(* A poll sees the acknowledged bundle confirmed: a final sale closes the  *)
(* position and counts its result, a partial one shrinks the bag.          *)
Confirm ==
  /\ phase = "confirm"
  /\ bundles[acked].fate = "landed"
  /\ outcome' = "confirmed"
  /\ sale' = NoSale
  /\ attempt' = 0
  /\ IF sale.final
     THEN /\ phase' = "done"
          /\ closed' = closed + 1
          /\ streak' = Append(streak,
                         IF PnlAbove(sale.price, -1) THEN "win" ELSE "loss")
          /\ UNCHANGED <<amount, partialSold>>
     ELSE /\ phase' = "ticks"
          /\ amount' = amount - sale.amount
          /\ partialSold' = TRUE
          /\ UNCHANGED <<closed, streak>>
  /\ UNCHANGED <<prev, hwm, locked, stale, ticks, early, viaPortal, acked,
                 chain>>

(* Fifteen polls see no confirmation, or an error status: it failed, is    *)
(* late, or the RPC node did not say.                                      *)
FailConfirm ==
  /\ phase = "confirm"
  /\ SaleFails
  /\ UNCHANGED <<early, viaPortal, acked, chain>>

-----------------------------------------------------------------------------
(* The chain decides a bundle.  It cannot land without the tokens.         *)
Settle(i) ==
  /\ bundles[i].fate = "open"
  /\ \/ /\ wallet >= bundles[i].amount
        /\ wallet' = wallet - bundles[i].amount
        /\ bundles' = [bundles EXCEPT ![i].fate = "landed"]
     \/ /\ bundles' = [bundles EXCEPT ![i].fate = "failed"]
        /\ UNCHANGED wallet
  /\ UNCHANGED <<phase, decision, early, viaPortal, pipeline, books>>

-----------------------------------------------------------------------------
SellPipeline ==
  \/ Connect \/ AskPortal \/ FailAttempt \/ SendAcked \/ SendLost
  \/ Confirm \/ FailConfirm

Next ==
  \/ \E p \in Prices : Tick(p)
  \/ MissTick \/ CloseFeed \/ Deadline \/ Elapse
  \/ SellPipeline
  \/ PortalAnswers
  \/ \E i \in DOMAIN bundles : Settle(i)

Spec == Init /\ [][Next]_vars

(* The wait for a tick has a timeout, and so has each request of the sell  *)
(* pipeline to Jito and to the RPC node.  The request to PumpPortal has    *)
(* none, neither for the answer nor for its body, so PortalAnswers is left *)
(* without fairness; and so is the deadline, to show what rests on it.     *)
Fairness == WF_vars(MissTick) /\ WF_vars(SellPipeline)

FairSpec == Spec /\ Fairness

-----------------------------------------------------------------------------
(* The books are closed, once, exactly for a position that is sold on      *)
(* chain: a close without tokens sold would hide an open position, and a   *)
(* second one would move the loss streak twice.                            *)
ClosedMeansSold ==
  /\ closed = Len(streak)
  /\ closed <= 1
  /\ closed = 1 => wallet = 0 /\ outcome = "confirmed"

(* A sale that is retried after a lost answer never sells more than the    *)
(* bag: at most one of its bundles lands, and the wallet shows it.         *)
RetrySellsOnce ==
  LET landed == {i \in DOMAIN bundles : bundles[i].fate = "landed"}
  IN  /\ Len(bundles) <= MaxAttempts
      /\ \A i, j \in landed : i = j
      /\ wallet = IF landed = {} THEN Acquired ELSE 0

(* With a silent feed, and whatever else fails, the watcher ends and gives *)
(* its permit back, the four-hour deadline apart; only a PumpPortal that   *)
(* never answers can hold it until that deadline.                          *)
WatcherEnds == <>(phase = "done") \/ <>[](phase = "portal")

(* "Retries up to MAX_SELL_ATTEMPTS times": a sale that ends unsold before *)
(* a bundle of it was accepted has used up its attempts.                   *)
SalesAreRetried ==
  [][phase # "confirm" /\ outcome' = "failed" /\ sale # NoSale /\ sale' = NoSale
       => attempt = MaxAttempts]_vars

(* "TRAIL_MAX = 20% loss from high-water mark" is "the absolute stop-loss  *)
(* floor before profit lock activates": a watcher does not go on waiting   *)
(* for ticks after one that was further below the high-water mark.         *)
StopLossHolds == phase = "ticks" => 10 * prev >= 8 * hwm

(* "100%+ ROI" within 60 s scales half of the bag out.                     *)
ScaleOutReached ==
  [][sale = NoSale /\ sale' # NoSale /\ early /\ ~partialSold
       /\ sale'.price >= 2 * Entry => ~sale'.final]_vars

(* When the pipeline gives up on a sale, "the position remains open".      *)
ExhaustionMeansOpen == outcome = "failed" => wallet > 0
=============================================================================
