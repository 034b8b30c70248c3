--------------------------- MODULE SwapPreparation ---------------------------
(***************************************************************************)
(* From an admitted signal to the signed bundle: the tip gate over the     *)
(* telemetry that a task of its own refreshes, the concurrent requests     *)
(* about pool, price and wallet while the wallet changes, the checks of    *)
(* their answers, the instruction and its sentinel, and the PumpPortal     *)
(* fallback; next to it, the transactions the feed decodes.                *)
(*                                                                         *)
(* free, fetched and the fields of bundle but for its instruction are      *)
(* history.  A slot of the chain that carries pools does not change.       *)
(***************************************************************************)
EXTENDS PoolResolution, Tipping

CONSTANTS
  Signals,              \* admitted signals
  Chain,                \* accounts of pools, markets and mints
  Lists,                \* answers of the pool list
  Records,              \* answers of the pool-key lookup, sets of records
  Quotes,               \* answers of the quote service
  SourceAccounts,       \* states of the wallet's WSOL account
  TargetAccounts,       \* states of its account for the target mint
  Floors,               \* answers of the tip-floor service
  Traffic,              \* transactions the feed is notified of, each with the swaps it
                        \* executed, in the order of their instructions
  Owner,                \* the payer
  Ata,                  \* its associated token account, per mint
  Sentinel,             \* jito_dont_front_pubkey
  MaxSlippage,          \* max_slippage_bps of the configuration
  MaxSignalAge,         \* max_signal_age
  MaxNow                \* bound: the clock

ASSUME SlippageAssumption == MaxSlippage \in 1..10000
ASSUME SignalsAssumption == \A s \in Signals : s.amountIn \in Nat
ASSUME QuotesAssumption == \A q \in Quotes : q.output \in Nat

\* Nobody uses the address of the sentinel: it has no account on the chain, no authority
\* over one, and is none of the accounts of a trade.
ASSUME SentinelAssumption ==
  /\ Sentinel \notin DOMAIN Chain
  /\ \A a \in DOMAIN Chain : Chain[a].kind = "token" => Chain[a].authority # Sentinel
  /\ Sentinel \notin {SplToken, OpenBook, Owner, Ata[Wsol]}
  /\ \A s \in Signals : Ata[s.target] # Sentinel
ASSUME FloorsAssumption == \A entries \in Floors : entries \in Seq(Percentiles)
ASSUME ClockAssumption == MaxSignalAge \in Nat \ {0} /\ MaxNow \in Nat \ {0}

-----------------------------------------------------------------------------
(* What the network does with the swaps of a transaction.  One moves the   *)
(* amount paid into one vault of its pool, and the amount got out of the   *)
(* other; the vaults are those that the pool's account on the chain names. *)
Transfers ==
  [pool : DOMAIN Chain, at : Nat \X Nat, into : DOMAIN Chain, from : DOMAIN Chain,
   paid : Nat, got : Nat]

(* The balance of a vault after the first n swaps, for every n.            *)
Ledger(executed, vault, before) ==
  LET ledger[n \in 0..Len(executed)] ==
        IF n = 0 THEN before
        ELSE ledger[n - 1] + (IF executed[n].into = vault THEN executed[n].paid ELSE 0)
                           - (IF executed[n].from = vault THEN executed[n].got ELSE 0)
  IN  ledger

HoldsTokens(tx, address) ==
  \E b \in tx.pre \cup tx.post : b.index \in DOMAIN tx.keys /\ tx.keys[b.index] = address

(* An instruction has the two vaults side by side.  The accounts around    *)
(* them are Raydium's and the market's, which are no token accounts.       *)
Executes(tx, ix, e) ==
  /\ tx.keys[ix.accounts[2]] = e.pool /\ ix.at = e.at
  /\ e.into # e.from
  /\ {e.into, e.from} = {Chain[e.pool].state.base_vault, Chain[e.pool].state.quote_vault}
  /\ \E p \in {5, 6} :
       /\ {tx.keys[ix.accounts[p]], tx.keys[ix.accounts[p + 1]]} = {e.into, e.from}
       /\ ~HoldsTokens(tx, tx.keys[ix.accounts[p - 1]])
       /\ ~HoldsTokens(tx, tx.keys[ix.accounts[p + 2]])

(* Nothing but its swaps moves tokens into or out of the vaults.           *)
Balanced(tx, executed) ==
  \A b \in tx.pre, c \in tx.post :
    b.index = c.index /\ b.index \in DOMAIN tx.keys =>
      LET vault == tx.keys[b.index]
      IN  vault \in {executed[i].into : i \in DOMAIN executed}
                      \cup {executed[i].from : i \in DOMAIN executed} =>
            /\ b.mint = Chain[vault].mint /\ c.mint = Chain[vault].mint
            /\ b.amount \in Nat /\ c.amount \in Nat
            /\ c.amount = Ledger(executed, vault, b.amount)[Len(executed)]

ASSUME TrafficAssumption ==
  \A notice \in Traffic : LET tx == notice.tx IN
    /\ IsFiniteSet(DOMAIN tx.keys)
    /\ ~tx.failed =>
         /\ notice.executed \in Seq(Transfers)
         /\ DOMAIN notice.executed = DOMAIN SwapsIn(tx)
         /\ \A i \in DOMAIN SwapsIn(tx) : Executes(tx, SwapsIn(tx)[i], notice.executed[i])
         /\ Balanced(tx, notice.executed)

-----------------------------------------------------------------------------

VARIABLES
  now,                  \* the clock
  telemetry,            \* the snapshot of the tip engine
  fetched,              \* time of the last successful fetch
  stage,                \* where the consumer is
  signal,               \* the signal in hand
  bid,                  \* tip_lamports
  wallet,               \* the wallet's accounts on the chain
  free,                 \* what of the wallet was seen free of the target mint since the
                        \* signal: its associated account, its other accounts
  answers,              \* per request: its answer
  bundle,               \* the bundle signed
  seen                  \* the swaps of a transaction, and what the feed made of it

engine   == <<telemetry, fetched>>
consumer == <<stage, signal, bid, answers, bundle>>
purse    == <<wallet, free>>
vars == <<now, engine, consumer, purse, seen>>

Stages == {"idle", "reading", "pump", "signed", "dropped", "panicked"}

Requests == {"pool", "quote", "accounts", "owned"}

TypeOK ==
  /\ now \in 1..MaxNow
  /\ telemetry \subseteq [floor : Percentiles, observedAt : 1..now]
  /\ \A t \in telemetry : t.floor.p50 <= t.floor.p75 /\ t.floor.p75 <= t.floor.p95
  /\ fetched \subseteq 1..now /\ Cardinality(fetched) <= 1
  /\ stage \in Stages
  /\ signal \subseteq Signals
  /\ bid \subseteq Nat
  /\ wallet.source \in SourceAccounts /\ wallet.target \in TargetAccounts
  /\ wallet.others \in BOOLEAN
  /\ free \subseteq {"target", "others"}
  /\ DOMAIN answers = Requests
  /\ bundle # {} <=> stage = "signed"
  /\ Cardinality(telemetry) <= 1 /\ Cardinality(signal) <= 1 /\ Cardinality(bid) <= 1
  /\ Cardinality(bundle) <= 1 /\ Cardinality(seen) <= 1

FreeNow(w) ==
  (IF w.target = {} \/ \A a \in w.target : a.amount = 0 THEN {"target"} ELSE {})
  \cup (IF w.others THEN {} ELSE {"others"})

NoAnswers == [r \in Requests |-> {}]

Init ==
  /\ now = 1
  /\ telemetry = {}
  /\ fetched = {}
  /\ stage = "idle"
  /\ signal = {}
  /\ bid = {}
  /\ wallet \in [source : SourceAccounts, target : TargetAccounts, others : BOOLEAN]
  /\ free = {}
  /\ answers = NoAnswers
  /\ bundle = {}
  /\ seen = {}

Tick ==
  /\ now < MaxNow
  /\ now' = now + 1
  /\ UNCHANGED <<engine, consumer, purse, seen>>

-----------------------------------------------------------------------------
(* The tip engine's task.  It never stops; its snapshot is read by the tip *)
(* gate alone, and what it fetches after that is left out.                 *)

Refresh(entries) ==
  /\ stage = "idle"
  /\ ParseTipFloor(entries) # {}
  /\ telemetry' = {[floor |-> f, observedAt |-> now] : f \in ParseTipFloor(entries)}
  /\ fetched' = {now}
  /\ UNCHANGED <<now, consumer, purse, seen>>

(* Faulty variant of RefreshFails: the old snapshot passes for a new one.  *)
RefreshRestamped(entries) ==
  /\ stage = "idle"
  /\ ParseTipFloor(entries) = {}
  /\ telemetry' = {[t EXCEPT !.observedAt = now] : t \in telemetry}
  /\ UNCHANGED <<now, fetched, consumer, purse, seen>>

(* No answer, or one that does not parse: the snapshot stays.              *)
RefreshFails(entries) ==
  /\ stage = "idle"
  /\ ParseTipFloor(entries) = {}
  /\ UNCHANGED vars

-----------------------------------------------------------------------------
(* The wallet, which trades of its own and transfers by others change.     *)

WalletChanges(target, others) ==
  /\ stage = "reading"
  /\ wallet' = [wallet EXCEPT !.target = target, !.others = others]
  /\ free' = free \cup FreeNow(wallet')
  /\ UNCHANGED <<now, engine, consumer, seen>>

-----------------------------------------------------------------------------
(* The consumer.                                                           *)

Slippage(s) ==
  CASE s.lane = "Sniper"       -> 250
    [] s.lane = "Degen"        -> 200
    [] s.lane = "Swing"        -> 150
    [] s.lane = "Conservative" -> 100
    [] OTHER                   -> MaxSlippage

(* ensure_signal_fresh; a timestamp ahead of the clock counts as new.      *)
Fresh(s) == s.timestamp # 0 /\ now <= s.timestamp + MaxSignalAge

(* The tip gate, then the checks before the requests go out.               *)
Begin(s) ==
  /\ stage = "idle"
  /\ signal' = {s}
  /\ bid' = CalculateTip(telemetry, s.amountIn \div 100, now)
  /\ stage' = CASE bid' = {} -> "dropped"
                [] bid' # {} /\ Fresh(s) /\ s.target # Wsol -> "reading"
                [] OTHER -> IF s.pump THEN "pump" ELSE "dropped"
  /\ free' = FreeNow(wallet)
  /\ UNCHANGED <<now, engine, wallet, answers, bundle, seen>>

(* A Raydium error: PumpPortal is asked about a mint of its own.           *)
Reject(s) ==
  /\ stage' = IF s.pump THEN "pump" ELSE "dropped"
  /\ answers' = NoAnswers

(* try_join: the answers come in any order, and the first error is the end *)
(* of all.  The request for the rent, an amount, is left out.              *)
Answer(r, values) ==
  \E s \in signal :
    /\ stage = "reading"
    /\ answers[r] = {}
    /\ IF values = {} THEN Reject(s)
       ELSE stage' = stage /\ answers' = [answers EXCEPT ![r] = values]
    /\ UNCHANGED <<now, engine, signal, bid, bundle, purse, seen>>

AnswerPool(list, records) ==
  \E s \in signal : Answer("pool", ResolvePoolKeys(Chain, list, records, s.target))

AnswerQuote(q) == Answer("quote", {q})

AnswerAccounts ==
  Answer("accounts", {[source |-> wallet.source, target |-> wallet.target]})

(* getTokenAccountsByOwner lists the associated account with the others.   *)
AnswerOwned ==
  Answer("owned", {[target |-> wallet.target # {}, others |-> wallet.others]})

RequestFails(r) == Answer(r, {})

-----------------------------------------------------------------------------
(* What is made of the answers.                                            *)

(* validate_user_token_account                                             *)
ValidAccount(a, mint, minimum, native) ==
  /\ a.owner = SplToken
  /\ a.ready
  /\ a.mint = mint
  /\ a.authority = Owner
  /\ a.amount >= minimum
  /\ native => a.native

(* Faulty variant of TargetUnowned: an account with tokens is taken for    *)
(* the empty one.                                                          *)
TargetUnownedByCount(s, accounts, owned) ==
  /\ ~owned.others
  /\ accounts.target # {} => owned.target

(* The wallet owns the target mint nowhere, or has just the empty account. *)
TargetUnowned(s, accounts, owned) ==
  /\ ~owned.others
  /\ \A a \in accounts.target : ValidAccount(a, s.target, 0, FALSE) /\ a.amount = 0
  /\ owned.target = (accounts.target # {})

(* calculate_local_minimum_amount_out                                      *)
LocalMinimum(quoted, slippage) == (quoted * (10000 - slippage)) \div 10000

(* validate_quote: what was asked for, a threshold between the local       *)
(* minimum and the output, one hop through the pool.                       *)
QuoteFits(q, keys, s) ==
  /\ q.swapType = "BaseIn"
  /\ q.inputMint = Wsol /\ q.outputMint = s.target
  /\ q.slippage = Slippage(s)
  /\ q.input = s.amountIn
  /\ q.threshold # 0 /\ q.threshold \in LocalMinimum(q.output, Slippage(s))..q.output
  /\ LocalMinimum(q.output, Slippage(s)) # 0
  /\ q.route = <<[pool |-> keys.amm_id, inputMint |-> Wsol, outputMint |-> s.target]>>

(* The protected instruction, preceded by the creation of the target       *)
(* account when there is none.                                             *)
Prepared(s) ==
  UNION { UNION { Protect(ix, Sentinel) :
                    ix \in Construct(c.keys, Owner, Ata[Wsol], Ata[s.target], s.amountIn,
                                     c.quote.threshold) } :
            c \in { c \in [keys  : answers["pool"],     quote : answers["quote"],
                           accts : answers["accounts"], owned : answers["owned"]] :
                      /\ ValidAccount(c.accts.source, Wsol, s.amountIn, TRUE)
                      /\ TargetUnowned(s, c.accts, c.owned)
                      /\ QuoteFits(c.quote, c.keys, s) } }

AllAnswered == \A r \in Requests : answers[r] # {}

RejectAnswers ==
  \E s \in signal :
    /\ stage = "reading" /\ AllAnswered
    /\ Prepared(s) = {}
    /\ Reject(s)
    /\ UNCHANGED <<now, engine, signal, bid, bundle, purse, seen>>

(* A table of lookup addresses makes the transaction smaller, or is not    *)
(* there.  Tip account, blockhash, compilation, signature and size are in  *)
(* order, and the signal is still fresh.                                   *)
Sign ==
  \E s \in signal : \E ix \in Prepared(s) : \E b \in bid :
    /\ stage = "reading" /\ AllAnswered
    /\ Fresh(s)
    /\ stage' = "signed"
    /\ bundle' = {[kind |-> "raydium", ix |-> ix, tip |-> b, free |-> free]}
    /\ UNCHANGED <<now, engine, signal, bid, answers, purse, seen>>

(* One of these is not, or the signal is too old.                          *)
SignFails ==
  /\ stage = "reading" /\ AllAnswered
  /\ \E s \in signal : Prepared(s) # {}
  /\ stage' = "dropped"
  /\ answers' = NoAnswers
  /\ UNCHANGED <<now, engine, signal, bid, bundle, purse, seen>>

(* resolve_pumpportal_swap: the transaction is PumpPortal's, the tip pays  *)
(* from a second one.                                                      *)
PumpSign ==
  \E s \in signal : \E b \in bid :
    /\ stage = "pump"
    /\ Fresh(s)
    /\ stage' = "signed"
    /\ bundle' = {[kind |-> "pump", ix |-> {}, tip |-> b, free |-> free]}
    /\ UNCHANGED <<now, engine, signal, bid, answers, purse, seen>>

PumpFails ==
  /\ stage = "pump"
  /\ stage' = "dropped"
  /\ UNCHANGED <<now, engine, signal, bid, answers, bundle, purse, seen>>

(* No region has a tip account: unwrap.                                    *)
PumpPanics ==
  /\ stage = "pump"
  /\ \E s \in signal : Fresh(s)
  /\ stage' = "panicked"
  /\ UNCHANGED <<now, engine, signal, bid, answers, bundle, purse, seen>>

-----------------------------------------------------------------------------
(* process_notification_payload                                            *)
Notify(notice) ==
  /\ seen' = {[executed |-> notice.executed, swaps |-> Decode(notice.tx)]}
  /\ UNCHANGED <<now, engine, consumer, purse>>

Gather ==
  \/ \E list \in Lists, records \in Records : AnswerPool(list, records)
  \/ \E q \in Quotes : AnswerQuote(q)
  \/ AnswerAccounts \/ AnswerOwned
  \/ \E r \in Requests : RequestFails(r)

Prepare ==
  \/ \E entries \in Floors : Refresh(entries) \/ RefreshFails(entries)
  \/ \E target \in TargetAccounts, others \in BOOLEAN : WalletChanges(target, others)
  \/ \E s \in Signals : Begin(s)
  \/ Gather
  \/ RejectAnswers \/ Sign \/ SignFails
  \/ PumpSign \/ PumpFails \/ PumpPanics

(* Feed and consumer share nothing but the clock, so a behaviour is one of *)
(* either.                                                                 *)
Listen ==
  /\ stage = "idle" /\ now = 1 /\ telemetry = {}
  /\ \E notice \in Traffic : Notify(notice)

Next == seen = {} /\ (Tick \/ Prepare \/ Listen)

Spec == Init /\ [][Next]_vars

-----------------------------------------------------------------------------
(* A bid is made on a tip floor that was really fetched, no longer ago     *)
(* than allowed, whatever fetches failed since; it covers neither more     *)
(* than the top percentile nor more than the share of an expected profit   *)
(* that is at least twice the median tip.                                  *)
BidOnFreshFloor ==
  [][\A b \in bid' \ bid, t \in telemetry, s \in signal' :
       /\ \E f \in fetched : now - f <= MaxTelemetryAge
       /\ b <= t.floor.p95
       /\ b * 10000 <= (s.amountIn \div 100) * MaxProfitShareBps
       /\ 2 * t.floor.p50 <= s.amountIn \div 100]_vars

(* A Raydium bundle is only signed if, while its signal was in hand, the   *)
(* associated account held nothing of the target mint and no other account *)
(* of the wallet existed for it: the two requests that look at the wallet  *)
(* may see different moments, but neither lets a second bag through.       *)
NoSecondBag ==
  \A b \in bundle : b.kind = "raydium" => b.free = {"target", "others"}

(* What is signed trades with the pool that quote, API and chain agree on: *)
(* without its sentinel the instruction reads, in the feed's own layout,   *)
(* as a swap of that pool and of the vaults its account on the chain       *)
(* names; it spends what was quoted, which the wallet has, and accepts     *)
(* less than was quoted only within the slippage of the signal's lane.     *)
AsRead(accounts) ==
  SwapInstruction(accounts, [accounts |-> [i \in DOMAIN accounts |-> i], at |-> <<1, 0>>])

NamesVaultsOf(r) ==
  Chain[r.pool].state.base_vault = r.base /\ Chain[r.pool].state.quote_vault = r.quote

EndsInSentinel(accounts) ==
  {i \in 1..Len(accounts) : accounts[i] = Sentinel} = {Len(accounts)}

TradesPool(accounts, pool, target) ==
  \E swap \in AsRead(accounts) :
    /\ swap.pool = pool
    /\ NamesVaultsOf(swap)
    /\ {Chain[swap.base].mint, Chain[swap.quote].mint} = {Wsol, target}

SignedForVerifiedPool ==
  \A b \in bundle, s \in signal : b.kind = "raydium" =>
    LET read  == SubSeq(b.ix.accounts, 1, Len(b.ix.accounts) - 1)
        quote == TheOne(answers["quote"])
    IN  /\ EndsInSentinel(b.ix.accounts)
        /\ TradesPool(read, quote.route[1].pool, s.target)
        /\ b.ix.amountIn = quote.input
        /\ \E a \in answers["accounts"] : a.source.amount >= b.ix.amountIn
        /\ b.ix.minimumOut <= quote.output
        /\ (b.ix.minimumOut + 1) * 10000 > quote.output * (10000 - Slippage(s))

(* What the feed is to make of a swap.                                     *)
Outcome(e) ==
  LET buy == Chain[e.into].mint = Wsol
  IN  [pool   |-> e.pool,
       at     |-> e.at,
       target |-> Chain[IF buy THEN e.from ELSE e.into].mint,
       tokens |-> IF buy THEN e.got ELSE e.paid,
       wsol   |-> IF buy THEN e.paid ELSE e.got]

(* The feed reports the swaps of a transaction as they were executed, or   *)
(* nothing of it: amounts are taken from balance changes of the whole      *)
(* transaction, yet never mixed up between its swaps.                      *)
DecodedAsExecuted ==
  \A e \in seen : \A swaps \in e.swaps :
    swaps = [i \in DOMAIN e.executed |-> Outcome(e.executed[i])]

(* The sentinel leaves the swap as it was: the doc comment of              *)
(* apply_jitodontfront_protection has it that the program "reads a fixed,  *)
(* positional prefix of accounts and does not validate the *total* account *)
(* count, so trailing accounts beyond the documented layout are ignored".  *)
SentinelIgnored ==
  \A b \in bundle : b.kind = "raydium" =>
    \A swap \in AsRead(b.ix.accounts) : NamesVaultsOf(swap)

(* The wallet's tokens stop a second buy on the PumpPortal path as well.   *)
NoSecondBagPump ==
  \A b \in bundle : b.free = {"target", "others"}
=============================================================================
