----------------------- MODULE SwapPreparation_proofs -----------------------
(***************************************************************************)
(* Proofs about SwapPreparation, for any signals, answers, accounts, tip   *)
(* floors and limits.  The bid rests on TelemetryFetched: what the engine  *)
(* holds was fetched when it says so.  NoSecondBag rests on AnswersSeen:   *)
(* each of the two answers about the wallet was true at some moment since  *)
(* the signal.  SignedForVerifiedPool rests on AnswersVerified: the pool   *)
(* keys at hand passed the checks against the chain, for this signal.      *)
(* DecodedAsExecuted rests on VaultsMatch and OneSwapMoves: the vaults are *)
(* read where they are, and one swap alone accounts for their balances.    *)
(***************************************************************************)
EXTENDS SwapPreparation, FiniteSetTheorems, SequenceTheorems, WellFoundedInduction, TLAPS

TelemetryFetched ==
  /\ \A t, u \in telemetry : t = u
  /\ \A t \in telemetry : t.observedAt \in fetched

AnswersSeen ==
  /\ \A a \in answers["accounts"] : (\A t \in a.target : t.amount = 0) => "target" \in free
  /\ \A o \in answers["owned"] : ~o.others => "others" \in free

(* Answers are gathered while reading, from a wallet as free as recorded.  *)
InOrder ==
  /\ stage = "idle" => answers = NoAnswers
  /\ stage = "reading" => FreeNow(wallet) \subseteq free

IInv == TypeOK /\ TelemetryFetched /\ AnswersSeen /\ InOrder /\ NoSecondBag

-----------------------------------------------------------------------------
(* The bid keeps within its caps.                                          *)
LEMMA BidCapped ==
  ASSUME NEW floor \in Percentiles, floor.p50 <= floor.p75, floor.p75 <= floor.p95,
         NEW profit \in Nat
  PROVE  /\ Tip(floor, profit) \in Nat
         /\ Tip(floor, profit) <= floor.p95
         /\ Tip(floor, profit) * 10000 <= profit * MaxProfitShareBps
<1> DEFINE share == profit * MaxProfitShareBps
<1>1. share \in Nat BY TippingAssumption
<1>2. share \div 10000 \in Nat /\ (share \div 10000) * 10000 <= share
  BY <1>1
<1>3. floor.p50 \in Nat /\ floor.p75 \in Nat /\ floor.p95 \in Nat
  BY DEF Percentiles
<1>4. (profit * 2500) \div 10000 \in Nat OBVIOUS
<1>5. Candidate(floor, profit) \in Nat /\ Candidate(floor, profit) <= floor.p95
  BY <1>3, <1>4 DEF Candidate, Lesser
<1>6. Tip(floor, profit) = Lesser(Candidate(floor, profit), share \div 10000)
  BY DEF Tip
<1> HIDE DEF share
<1>7. /\ Tip(floor, profit) \in Nat /\ Tip(floor, profit) <= floor.p95
      /\ Tip(floor, profit) * 10000 <= share
  BY <1>1, <1>2, <1>3, <1>5, <1>6 DEF Lesser
<1> QED BY <1>7 DEF share

(* A parsed tip floor is in order.                                         *)
LEMMA ParsedInOrder ==
  ASSUME NEW entries \in Floors
  PROVE  /\ ParseTipFloor(entries) \subseteq Percentiles
         /\ \A f, g \in ParseTipFloor(entries) : f = g
         /\ \A f \in ParseTipFloor(entries) : f.p50 <= f.p75 /\ f.p75 <= f.p95
<1>1. entries \in Seq(Percentiles) BY FloorsAssumption
<1>2. CASE entries = <<>> BY <1>2 DEF ParseTipFloor
<1>3. CASE entries # <<>>
  <2>1. entries[Len(entries)] \in Percentiles BY <1>1, <1>3
  <2> QED BY <1>3, <2>1 DEF ParseTipFloor
<1> QED BY <1>2, <1>3

(* A prepared instruction stands on answers that found no tokens.          *)
LEMMA PreparedUnowned ==
  ASSUME NEW s, NEW ix \in Prepared(s)
  PROVE  \E a \in answers["accounts"], o \in answers["owned"] : TargetUnowned(s, a, o)
<1>1. PICK c \in [keys  : answers["pool"],     quote : answers["quote"],
                  accts : answers["accounts"], owned : answers["owned"]] :
        TargetUnowned(s, c.accts, c.owned)
  BY DEF Prepared
<1> QED BY <1>1
(* A set whose elements are all the same has at most one.                  *)
LEMMA AtMostOne ==
  ASSUME NEW S, \A x, y \in S : x = y
  PROVE  Cardinality(S) <= 1
<1>1. CASE S = {} BY <1>1, FS_EmptySet
<1>2. CASE S # {}
  <2>1. PICK x : x \in S BY <1>2
  <2>2. S = {x} BY <2>1
  <2> QED BY <2>2, FS_Singleton
<1> QED BY <1>1, <1>2

LEMMA OneElement == \A x : Cardinality({x}) <= 1
<1> SUFFICES ASSUME NEW x PROVE Cardinality({x}) <= 1 OBVIOUS
<1>1. \A y, z \in {x} : y = z OBVIOUS
<1> QED BY <1>1, AtMostOne

(* What the tip gate lets through: a bid on the telemetry it read.         *)
LEMMA BidOnTelemetry ==
  ASSUME IInv, NEW s \in Signals, NEW b \in CalculateTip(telemetry, s.amountIn \div 100, now)
  PROVE  /\ b \in Nat
         /\ CalculateTip(telemetry, s.amountIn \div 100, now) = {b}
         /\ \A t \in telemetry :
              /\ \E f \in fetched : now - f <= MaxTelemetryAge
              /\ b <= t.floor.p95
              /\ b * 10000 <= (s.amountIn \div 100) * MaxProfitShareBps
              /\ 2 * t.floor.p50 <= s.amountIn \div 100
<1> DEFINE profit == s.amountIn \div 100
<1>1. profit \in Nat BY SignalsAssumption
<1> HIDE DEF profit
<1>2. PICK t \in telemetry : /\ b = Tip(t.floor, profit)
                             /\ now <= t.observedAt + MaxTelemetryAge
                             /\ profit >= 2 * t.floor.p50
  BY DEF CalculateTip, profit
<1>3. /\ t.floor \in Percentiles /\ t.observedAt \in 1..now /\ now \in Nat
      /\ t.floor.p50 <= t.floor.p75 /\ t.floor.p75 <= t.floor.p95
      /\ t.observedAt \in fetched
  BY ClockAssumption DEF IInv, TypeOK, TelemetryFetched
<1>4. /\ b \in Nat /\ b <= t.floor.p95
      /\ b * 10000 <= profit * MaxProfitShareBps
  BY <1>1, <1>2, <1>3, BidCapped
<1>5. \A u \in telemetry : u = t BY DEF IInv, TelemetryFetched
<1>6. CalculateTip(telemetry, profit, now) = {b}
  BY <1>2, <1>5 DEF CalculateTip, profit
<1>7. now - t.observedAt <= MaxTelemetryAge BY <1>2, <1>3, TippingAssumption
<1>8. 2 * t.floor.p50 <= profit BY <1>1, <1>2, <1>3 DEF Percentiles
<1> QED BY <1>3, <1>4, <1>5, <1>6, <1>7, <1>8 DEF profit

(* The initial state satisfies the inductive invariant.                    *)
LEMMA InitEstablishes == Init => IInv
<1> SUFFICES ASSUME Init PROVE IInv OBVIOUS
<1>1. TypeOK
  <2>1. Cardinality({}) = 0 BY FS_EmptySet
  <2>2. now \in 1..MaxNow BY ClockAssumption DEF Init
  <2> QED BY <2>1, <2>2 DEF Init, TypeOK, Stages, NoAnswers
<1>2. TelemetryFetched BY DEF Init, TelemetryFetched
<1>3. AnswersSeen BY DEF Init, AnswersSeen, NoAnswers, Requests
<1>4. InOrder BY DEF Init, InOrder
<1>5. NoSecondBag BY DEF Init, NoSecondBag
<1> QED BY <1>1, <1>2, <1>3, <1>4, <1>5 DEF IInv
-----------------------------------------------------------------------------
(* The clock, the tip engine, the wallet and the feed.                     *)
LEMMA TickPreserves ==
  ASSUME IInv, Tick PROVE IInv'
<1> USE DEF IInv
<1>1. /\ now' = now + 1 /\ now' \in 1..MaxNow /\ now \in Nat
      /\ UNCHANGED <<engine, consumer, purse, seen>>
  BY ClockAssumption DEF Tick, TypeOK
<1>2. 1..now \subseteq 1..now' BY <1>1
<1>3. TypeOK'
  <2>1. telemetry' \subseteq [floor : Percentiles, observedAt : 1..now']
    BY <1>1, <1>2 DEF TypeOK, engine
  <2>2. fetched' \subseteq 1..now' BY <1>1, <1>2 DEF TypeOK, engine
  <2> QED BY <1>1, <2>1, <2>2 DEF TypeOK, engine, consumer, purse
<1>4. TelemetryFetched' BY <1>1 DEF TelemetryFetched, engine
<1>5. AnswersSeen' BY <1>1 DEF AnswersSeen, consumer, purse
<1>6. InOrder' BY <1>1 DEF InOrder, consumer, purse
<1>7. NoSecondBag' BY <1>1 DEF NoSecondBag, consumer
<1> QED BY <1>3, <1>4, <1>5, <1>6, <1>7

LEMMA RefreshPreserves ==
  ASSUME IInv, NEW entries \in Floors, Refresh(entries)
  PROVE  IInv'
<1> USE DEF IInv
<1>1. /\ telemetry' = {[floor |-> f, observedAt |-> now] : f \in ParseTipFloor(entries)}
      /\ fetched' = {now} /\ now \in 1..now
      /\ UNCHANGED <<now, consumer, purse, seen>>
  BY ClockAssumption DEF Refresh, TypeOK
<1>2. \A t \in telemetry' : /\ t \in [floor : Percentiles, observedAt : 1..now]
                            /\ t.floor \in ParseTipFloor(entries) /\ t.observedAt = now
                            /\ t = [floor |-> t.floor, observedAt |-> now]
  BY <1>1, ParsedInOrder
<1>3. \A t, u \in telemetry' : t = u BY <1>2, ParsedInOrder
<1>4. TypeOK'
  <2>1. Cardinality(telemetry') <= 1 BY <1>3, AtMostOne
  <2>2. Cardinality(fetched') <= 1 BY <1>1, OneElement
  <2>3. /\ telemetry' \subseteq [floor : Percentiles, observedAt : 1..now']
        /\ fetched' \subseteq 1..now'
        /\ \A t \in telemetry' : t.floor.p50 <= t.floor.p75 /\ t.floor.p75 <= t.floor.p95
    BY <1>1, <1>2, ParsedInOrder
  <2> QED BY <1>1, <2>1, <2>2, <2>3 DEF TypeOK, consumer, purse
<1>5. TelemetryFetched' BY <1>1, <1>2, <1>3 DEF TelemetryFetched
<1>6. AnswersSeen' BY <1>1 DEF AnswersSeen, consumer, purse
<1>7. InOrder' BY <1>1 DEF InOrder, consumer, purse
<1>8. NoSecondBag' BY <1>1 DEF NoSecondBag, consumer
<1> QED BY <1>4, <1>5, <1>6, <1>7, <1>8

LEMMA WalletChangesPreserves ==
  ASSUME IInv, NEW target \in TargetAccounts, NEW others \in BOOLEAN,
         WalletChanges(target, others)
  PROVE  IInv'
<1> USE DEF IInv
<1>1. /\ wallet' = [wallet EXCEPT !.target = target, !.others = others]
      /\ free' = free \cup FreeNow(wallet')
      /\ UNCHANGED <<now, engine, consumer, seen>>
  BY DEF WalletChanges
<1>2. free' \subseteq {"target", "others"} BY <1>1 DEF TypeOK, FreeNow
<1>3. TypeOK'
  <2>1. /\ wallet'.source \in SourceAccounts /\ wallet'.target \in TargetAccounts
        /\ wallet'.others \in BOOLEAN
    BY <1>1 DEF TypeOK
  <2> QED BY <1>1, <1>2, <2>1 DEF TypeOK, engine, consumer
<1>4. TelemetryFetched' BY <1>1 DEF TelemetryFetched, engine
<1>5. AnswersSeen' BY <1>1 DEF AnswersSeen, consumer
<1>6. InOrder' BY <1>1 DEF InOrder, consumer
<1>7. NoSecondBag' BY <1>1 DEF NoSecondBag, consumer
<1> QED BY <1>3, <1>4, <1>5, <1>6, <1>7

LEMMA NotifyPreserves ==
  ASSUME IInv, NEW notice, Notify(notice)
  PROVE  IInv'
<1> USE DEF IInv
<1>1. UNCHANGED <<now, engine, consumer, purse>> /\ Cardinality(seen') <= 1
  BY OneElement DEF Notify
<1>2. TypeOK' BY <1>1 DEF TypeOK, engine, consumer, purse
<1> QED
  BY <1>1, <1>2
  DEF TelemetryFetched, AnswersSeen, InOrder, NoSecondBag, engine, consumer, purse

(* The consumer.                                                           *)
LEMMA BeginPreserves ==
  ASSUME IInv, NEW s \in Signals, Begin(s)
  PROVE  IInv'
<1> USE DEF IInv
<1>1. /\ stage = "idle" /\ signal' = {s}
      /\ bid' = CalculateTip(telemetry, s.amountIn \div 100, now)
      /\ stage' \in {"reading", "pump", "dropped"}
      /\ free' = FreeNow(wallet)
      /\ UNCHANGED <<now, engine, wallet, answers, bundle, seen>>
  BY DEF Begin
<1>2. free' \subseteq {"target", "others"} BY <1>1 DEF FreeNow
<1>3. bid' \subseteq Nat /\ Cardinality(bid') <= 1
  <2>1. \A b, c \in bid' : b = c /\ b \in Nat BY <1>1, BidOnTelemetry
  <2> QED BY <2>1, AtMostOne
<1>4. TypeOK'
  <2>1. signal' \subseteq Signals /\ Cardinality(signal') <= 1
    BY <1>1, OneElement
  <2>2. bundle' # {} <=> stage' = "signed" BY <1>1 DEF TypeOK
  <2>3. stage' \in Stages BY <1>1 DEF Stages
  <2> QED BY <1>1, <1>2, <1>3, <2>1, <2>2, <2>3 DEF TypeOK, engine
<1>5. TelemetryFetched' BY <1>1 DEF TelemetryFetched, engine
<1>6. AnswersSeen'
  BY <1>1 DEF AnswersSeen, InOrder, NoAnswers, Requests
<1>7. InOrder' BY <1>1 DEF InOrder
<1>8. NoSecondBag' BY <1>1 DEF NoSecondBag
<1> QED BY <1>4, <1>5, <1>6, <1>7, <1>8
(* An answer about the wallet is true of it at that moment; any answer may *)
(* be an error.                                                            *)
LEMMA AnswerPreserves ==
  ASSUME IInv, NEW r \in Requests, NEW values, Answer(r, values),
         r = "accounts" => \A a \in values : a.target = wallet.target,
         r = "owned" => \A o \in values : o.others = wallet.others
  PROVE  IInv'
<1> USE DEF IInv
<1>1. /\ stage = "reading" /\ UNCHANGED <<now, engine, signal, bid, bundle, purse, seen>>
      /\ \/ stage' \in {"pump", "dropped"} /\ answers' = NoAnswers
         \/ stage' = stage /\ answers' = [answers EXCEPT ![r] = values]
  BY DEF Answer, Reject
<1>2. TypeOK'
  BY <1>1 DEF TypeOK, Stages, NoAnswers, engine, purse
<1>3. TelemetryFetched' BY <1>1 DEF TelemetryFetched, engine
<1>4. AnswersSeen'
  <2>1. CASE answers' = NoAnswers BY <2>1 DEF AnswersSeen, NoAnswers, Requests
  <2>2. CASE answers' = [answers EXCEPT ![r] = values]
    <3>1. DOMAIN answers = Requests BY DEF TypeOK
    <3>2. FreeNow(wallet) \subseteq free BY <1>1 DEF InOrder
    <3>3. (\A t \in wallet.target : t.amount = 0) => "target" \in free
      BY <3>2 DEF FreeNow
    <3>4. ~wallet.others => "others" \in free BY <3>2 DEF FreeNow
    <3>5. \A q \in Requests : answers'[q] = IF q = r THEN values ELSE answers[q]
      BY <2>2, <3>1
    <3>6. "accounts" \in Requests /\ "owned" \in Requests BY DEF Requests
    <3> QED BY <1>1, <3>3, <3>4, <3>5, <3>6 DEF AnswersSeen, purse
  <2> QED BY <1>1, <2>1, <2>2
<1>5. InOrder' BY <1>1 DEF InOrder, purse
<1>6. NoSecondBag' BY <1>1 DEF NoSecondBag
<1> QED BY <1>2, <1>3, <1>4, <1>5, <1>6

LEMMA GatherPreserves == IInv /\ Gather => IInv'
<1> SUFFICES ASSUME IInv, Gather PROVE IInv' OBVIOUS
<1>1. /\ "pool" \in Requests /\ "quote" \in Requests
      /\ "accounts" \in Requests /\ "owned" \in Requests
  BY DEF Requests
<1>2. ASSUME NEW list, NEW records, AnswerPool(list, records) PROVE IInv'
  <2>1. PICK s : Answer("pool", ResolvePoolKeys(Chain, list, records, s.target))
    BY <1>2 DEF AnswerPool
  <2> QED BY <1>1, <2>1, AnswerPreserves
<1>3. ASSUME NEW q, AnswerQuote(q) PROVE IInv'
  BY <1>1, <1>3, AnswerPreserves DEF AnswerQuote
<1>4. CASE AnswerAccounts
  <2>1. \A a \in {[source |-> wallet.source, target |-> wallet.target]} :
          a.target = wallet.target
    OBVIOUS
  <2> QED BY <1>1, <1>4, <2>1, AnswerPreserves DEF AnswerAccounts
<1>5. CASE AnswerOwned
  <2>1. \A o \in {[target |-> wallet.target # {}, others |-> wallet.others]} :
          o.others = wallet.others
    OBVIOUS
  <2> QED BY <1>1, <1>5, <2>1, AnswerPreserves DEF AnswerOwned
<1>6. ASSUME NEW r \in Requests, RequestFails(r) PROVE IInv'
  BY <1>6, AnswerPreserves DEF RequestFails
<1> QED BY <1>2, <1>3, <1>4, <1>5, <1>6 DEF Gather

(* A step that ends the signal, or goes on to PumpPortal.                  *)
LEMMA EndPreserves ==
  ASSUME IInv, stage \in {"reading", "pump"}, stage' \in {"pump", "dropped", "panicked"},
         answers' = NoAnswers \/ answers' = answers,
         UNCHANGED <<now, engine, signal, bid, bundle, purse, seen>>
  PROVE  IInv'
<1> USE DEF IInv
<1>1. TypeOK' BY DEF TypeOK, Stages, NoAnswers, engine, purse
<1>2. TelemetryFetched' BY DEF TelemetryFetched, engine
<1>3. AnswersSeen' BY DEF AnswersSeen, NoAnswers, Requests, purse
<1>4. InOrder' BY DEF InOrder, purse
<1>5. NoSecondBag' BY DEF NoSecondBag
<1> QED BY <1>1, <1>2, <1>3, <1>4, <1>5

LEMMA SignedPreserves ==
  ASSUME IInv, stage \in {"reading", "pump"}, stage' = "signed",
         NEW k \in {"raydium", "pump"}, NEW ix, NEW b,
         bundle' = {[kind |-> k, ix |-> ix, tip |-> b, free |-> free]},
         k = "raydium" => free = {"target", "others"},
         UNCHANGED <<now, engine, signal, bid, answers, purse, seen>>
  PROVE  IInv'
<1> USE DEF IInv
<1>1. TypeOK'
  <2>1. Cardinality(bundle') <= 1 /\ bundle' # {} BY OneElement
  <2> QED BY <2>1 DEF TypeOK, Stages, engine, purse
<1>2. TelemetryFetched' BY DEF TelemetryFetched, engine
<1>3. AnswersSeen' BY DEF AnswersSeen, purse
<1>4. InOrder' BY DEF InOrder
<1>5. NoSecondBag' BY DEF NoSecondBag
<1> QED BY <1>1, <1>2, <1>3, <1>4, <1>5

LEMMA SignPreserves ==
  ASSUME IInv, Sign PROVE IInv'
<1>0. PICK s \in signal :
        \E ix \in Prepared(s), b \in bid :
          /\ stage = "reading" /\ stage' = "signed"
          /\ bundle' = {[kind |-> "raydium", ix |-> ix, tip |-> b, free |-> free]}
          /\ UNCHANGED <<now, engine, signal, bid, answers, purse, seen>>
  BY DEF Sign
<1>1. PICK ix \in Prepared(s), b \in bid :
        /\ stage = "reading" /\ stage' = "signed"
        /\ bundle' = {[kind |-> "raydium", ix |-> ix, tip |-> b, free |-> free]}
        /\ UNCHANGED <<now, engine, signal, bid, answers, purse, seen>>
  BY <1>0
<1>2. PICK a \in answers["accounts"], o \in answers["owned"] : TargetUnowned(s, a, o)
  BY PreparedUnowned
<1>3. "target" \in free /\ "others" \in free
  BY <1>2 DEF IInv, AnswersSeen, TargetUnowned
<1>4. free = {"target", "others"} BY <1>3 DEF IInv, TypeOK
<1> QED BY <1>1, <1>4, SignedPreserves

LEMMA PumpSignPreserves ==
  ASSUME IInv, PumpSign PROVE IInv'
<1>1. PICK b \in bid :
        /\ stage = "pump" /\ stage' = "signed"
        /\ bundle' = {[kind |-> "pump", ix |-> {}, tip |-> b, free |-> free]}
        /\ UNCHANGED <<now, engine, signal, bid, answers, purse, seen>>
  BY DEF PumpSign
<1> QED BY <1>1, SignedPreserves

(* Every step preserves the inductive invariant.                           *)
LEMMA StepPreserves == IInv /\ [Next]_vars => IInv'
<1> SUFFICES ASSUME IInv, [Next]_vars PROVE IInv' OBVIOUS
<1>1. ASSUME UNCHANGED vars PROVE IInv'
  <2>1. TypeOK' BY <1>1 DEF IInv, TypeOK, vars, engine, consumer, purse
  <2> QED
    BY <1>1, <2>1
    DEF IInv, TelemetryFetched, AnswersSeen, InOrder, NoSecondBag, vars, engine, consumer,
        purse
<1>2. CASE Prepare
  <2>1. ASSUME NEW entries \in Floors, RefreshFails(entries) PROVE IInv'
    BY <1>1, <2>1 DEF RefreshFails
  <2>2. CASE RejectAnswers BY <2>2, EndPreserves DEF RejectAnswers, Reject
  <2>3. CASE SignFails BY <2>3, EndPreserves DEF SignFails
  <2>4. CASE PumpFails BY <2>4, EndPreserves DEF PumpFails
  <2>5. CASE PumpPanics BY <2>5, EndPreserves DEF PumpPanics
  <2> QED
    BY <1>2, <2>1, <2>2, <2>3, <2>4, <2>5, RefreshPreserves, WalletChangesPreserves,
       BeginPreserves, GatherPreserves, SignPreserves, PumpSignPreserves
    DEF Prepare
<1>3. CASE Listen BY <1>3, NotifyPreserves DEF Listen
<1> QED BY <1>1, <1>2, <1>3, TickPreserves DEF Next

(* A step that bids is one through the tip gate.                           *)
LEMMA OnlyBeginBids ==
  ASSUME Next
  PROVE  bid' = bid \/ \E s \in Signals : Begin(s)
  BY DEF Next, Tick, Listen, Notify, Prepare, Refresh, RefreshFails, WalletChanges, Gather,
         AnswerPool, AnswerQuote, AnswerAccounts, AnswerOwned, RequestFails, Answer,
         RejectAnswers, Sign, SignFails, PumpSign, PumpFails, PumpPanics, consumer, vars

-----------------------------------------------------------------------------
(* IInv holds throughout every behaviour.                                  *)
THEOREM Inductive == Spec => []IInv
  BY InitEstablishes, StepPreserves, PTL DEF Spec

(* Everything keeps its type; in particular the percentiles the engine     *)
(* holds are in order and no older than the clock.                         *)
THEOREM TypeCorrect == Spec => []TypeOK
<1>1. IInv => TypeOK BY DEF IInv
<1> QED BY <1>1, Inductive, PTL

(* For any wallets and answers, a Raydium bundle is signed only for a      *)
(* wallet that was seen without the target mint: both requests that look   *)
(* at it are answered after the signal, whatever changes between them.     *)
THEOREM SecondBagRefused == Spec => []NoSecondBag
<1>1. IInv => NoSecondBag BY DEF IInv
<1> QED BY <1>1, Inductive, PTL

(* Every bid is made on a tip floor fetched no longer ago than allowed and *)
(* keeps within the top percentile and the share of the profit, for any    *)
(* amounts and limits.                                                     *)
THEOREM BidsAreCapped == Spec => BidOnFreshFloor
<1> DEFINE Capped ==
      \A b \in bid' \ bid, t \in telemetry, s \in signal' :
        /\ \E f \in fetched : now - f <= MaxTelemetryAge
        /\ b <= t.floor.p95
        /\ b * 10000 <= (s.amountIn \div 100) * MaxProfitShareBps
        /\ 2 * t.floor.p50 <= s.amountIn \div 100
<1>1. IInv /\ [Next]_vars => [Capped]_vars
  <2> SUFFICES ASSUME IInv, Next, NEW b \in bid' \ bid, NEW t \in telemetry,
                      NEW s \in signal'
               PROVE  /\ \E f \in fetched : now - f <= MaxTelemetryAge
                      /\ b <= t.floor.p95
                      /\ b * 10000 <= (s.amountIn \div 100) * MaxProfitShareBps
                      /\ 2 * t.floor.p50 <= s.amountIn \div 100
    OBVIOUS
  <2>1. /\ s \in Signals
        /\ bid' = CalculateTip(telemetry, s.amountIn \div 100, now)
    BY OnlyBeginBids DEF Begin
  <2> QED BY <2>1, BidOnTelemetry
<1> QED BY <1>1, Inductive, PTL DEF Spec, BidOnFreshFloor

-----------------------------------------------------------------------------
(* What the checks of a pool leave.                                        *)
Verified(keys, target) ==
  /\ Valid(keys) /\ VerifyPoolKeysOnChain(Chain, keys)
  /\ {keys.base_mint, keys.quote_mint} = {Wsol, target}
  /\ keys.market_program_id = OpenBook
  /\ target # Wsol

AnswersVerified ==
  /\ \A s, t \in signal : s = t
  /\ \A s \in signal, keys \in answers["pool"] : Verified(keys, s.target)
  /\ \A q, r \in answers["quote"] : q = r
  /\ answers["quote"] \subseteq Quotes

LEMMA ResolvedVerified ==
  ASSUME NEW list, NEW records, NEW target,
         NEW keys \in ResolvePoolKeys(Chain, list, records, target)
  PROVE  Verified(keys, target)
<1>1. PICK r \in records :
        /\ keys = r.keys /\ target # Wsol /\ Valid(r.keys)
        /\ VerifyPoolKeysOnChain(Chain, r.keys)
        /\ \E s \in Selected(list, target) : RecordMatches(r, s, target)
  BY DEF ResolvePoolKeys
<1>2. keys.market_program_id = OpenBook /\ {keys.base_mint, keys.quote_mint} = {Wsol, target}
  BY <1>1 DEF RecordMatches, MintPairMatches
<1> QED BY <1>1, <1>2 DEF Verified

(* The three accounts that tell the pool are three, and the chain's.       *)
LEMMA VaultsApart ==
  ASSUME NEW target, NEW keys, Verified(keys, target)
  PROVE  /\ keys.amm_id # keys.base_vault /\ keys.amm_id # keys.quote_vault
         /\ keys.base_vault # keys.quote_vault
         /\ NoKey \notin {keys.amm_id, keys.base_vault, keys.quote_vault}
         /\ Chain[keys.amm_id].state.base_vault = keys.base_vault
         /\ Chain[keys.amm_id].state.quote_vault = keys.quote_vault
         /\ Chain[keys.base_vault].mint = keys.base_mint
         /\ Chain[keys.quote_vault].mint = keys.quote_mint
<1>1. /\ OwnedBy(Chain, keys.amm_id, RaydiumV4)
      /\ VerifyAmmState(Chain[keys.amm_id], keys)
      /\ VerifyTokenAccount(Chain, keys.base_vault, keys.base_mint, keys.authority)
      /\ VerifyTokenAccount(Chain, keys.quote_vault, keys.quote_mint, keys.authority)
  BY DEF Verified, VerifyPoolKeysOnChain
<1>2. /\ Chain[keys.amm_id].owner = RaydiumV4
      /\ Chain[keys.base_vault].owner = SplToken
      /\ Chain[keys.quote_vault].owner = SplToken
      /\ Chain[keys.base_vault].mint = keys.base_mint
      /\ Chain[keys.quote_vault].mint = keys.quote_mint
  BY <1>1 DEF OwnedBy, VerifyTokenAccount
<1>3. keys.base_mint # keys.quote_mint BY DEF Verified
<1>4. /\ Chain[keys.amm_id].state["base_vault"] = keys["base_vault"]
      /\ Chain[keys.amm_id].state["quote_vault"] = keys["quote_vault"]
  <2>1. "base_vault" \in StateFields /\ "quote_vault" \in StateFields BY DEF StateFields
  <2> QED BY <1>1, <2>1 DEF VerifyAmmState
<1>5. /\ keys["amm_id"] # NoKey /\ keys["base_vault"] # NoKey /\ keys["quote_vault"] # NoKey
  <2>1. Valid(keys) BY DEF Verified
  <2>2. "amm_id" \in KeyNames /\ "base_vault" \in KeyNames /\ "quote_vault" \in KeyNames
    BY DEF KeyNames
  <2> QED BY <2>1, <2>2 DEF Valid
<1> QED BY <1>2, <1>3, <1>4, <1>5, ProgramsAssumption

(* None of the accounts of the swap is the sentinel.                       *)
LEMMA AccountsApart ==
  ASSUME NEW s \in Signals, NEW keys, Verified(keys, s.target)
  PROVE  \A i \in 1..17 :
           SwapAccounts(keys, Owner, Ata[Wsol], Ata[s.target])[i] # Sentinel
<1>1. /\ OwnedBy(Chain, keys.amm_id, RaydiumV4)
      /\ \A name \in {"open_orders", "market_id", "market_bids", "market_asks",
                      "market_event_queue"} : keys[name] \in DOMAIN Chain
      /\ VerifyTokenAccount(Chain, keys.base_vault, keys.base_mint, keys.authority)
      /\ VerifyTokenAccount(Chain, keys.quote_vault, keys.quote_mint, keys.authority)
      /\ VerifyTokenAccount(Chain, keys.market_base_vault, keys.base_mint,
                            keys.market_vault_signer)
      /\ VerifyTokenAccount(Chain, keys.market_quote_vault, keys.quote_mint,
                            keys.market_vault_signer)
  BY DEF Verified, VerifyPoolKeysOnChain, OwnedBy
<1>2. /\ keys["open_orders"] \in DOMAIN Chain /\ keys["market_id"] \in DOMAIN Chain
      /\ keys["market_bids"] \in DOMAIN Chain /\ keys["market_asks"] \in DOMAIN Chain
      /\ keys["market_event_queue"] \in DOMAIN Chain
  BY <1>1
<1>3. /\ keys.amm_id \in DOMAIN Chain
      /\ keys.base_vault \in DOMAIN Chain /\ keys.quote_vault \in DOMAIN Chain
      /\ keys.market_base_vault \in DOMAIN Chain /\ keys.market_quote_vault \in DOMAIN Chain
      /\ Chain[keys.base_vault].kind = "token"
      /\ Chain[keys.base_vault].authority = keys.authority
      /\ Chain[keys.market_base_vault].kind = "token"
      /\ Chain[keys.market_base_vault].authority = keys.market_vault_signer
  BY <1>1 DEF VerifyTokenAccount, OwnedBy
<1>4. keys.authority # Sentinel /\ keys.market_vault_signer # Sentinel
  BY <1>3, SentinelAssumption
<1>5. keys.market_program_id = OpenBook BY DEF Verified
<1> QED BY <1>2, <1>3, <1>4, <1>5, SentinelAssumption DEF SwapAccounts

LEMMA FunctionIsSeq ==
  ASSUME NEW S, NEW n \in Nat, NEW f \in [1..n -> S]
  PROVE  f \in Seq(S) /\ Len(f) = n
<1>1. f \in Seq(S) BY IsASeq
<1>2. Len(f) \in Nat /\ DOMAIN f = 1..Len(f) /\ DOMAIN f = 1..n
  BY <1>1, LenProperties
<1> QED BY <1>1, <1>2

LEMMA ThreeElements ==
  ASSUME NEW x, NEW y, NEW z, x # y, x # z, y # z
  PROVE  Cardinality({x, y, z}) = 3
<1>1. IsFiniteSet({x}) /\ Cardinality({x}) = 1 BY FS_Singleton
<1>2. PICK pair : pair = {x} \cup {y} OBVIOUS
<1>3. IsFiniteSet(pair) /\ Cardinality(pair) = 2
  <2>1. y \notin {x} OBVIOUS
  <2> QED BY <1>1, <1>2, <2>1, FS_AddElement
<1>4. Cardinality(pair \cup {z}) = 3
  <2>1. z \notin pair BY <1>2
  <2> QED BY <1>3, <2>1, FS_AddElement
<1>5. pair \cup {z} = {x, y, z} BY <1>2
<1> QED BY <1>4, <1>5

(* The accounts a, and the sentinel behind them.                           *)
Extended(accounts, a) ==
  /\ DOMAIN accounts = 1..18 /\ Len(accounts) = 18
  /\ \A i \in 1..18 : accounts[i] = Sentinel <=> i = 18
  /\ \A i \in 1..17 : accounts[i] = a[i]
  /\ SubSeq(accounts, 1, 17) = a

LEMMA Places == VaultPlaces(17) = {<<5, 6>>} /\ VaultPlaces(18) = {<<6, 7>>}
<1>1. 17 # 18 OBVIOUS
<1>2. VaultPlaces(17) = {<<5, 6>>} BY <1>1, Zenon DEF VaultPlaces
<1>3. VaultPlaces(18) = {<<6, 7>>} BY <1>1, Zenon DEF VaultPlaces
<1> QED BY <1>2, <1>3

(* Accounts with three different addresses where the layout of their       *)
(* number expects pool and vaults are read as a swap of these.             *)
LEMMA AsReadAt ==
  ASSUME NEW a, NEW n \in Nat, NEW x \in 3..n, NEW y \in 3..n,
         DOMAIN a = 1..n, VaultPlaces(n) = {<<x, y>>},
         a[1] = SplToken, NoKey \notin {a[2], a[x], a[y]},
         a[2] # a[x], a[2] # a[y], a[x] # a[y]
  PROVE  \E swap \in AsRead(a) : swap.pool = a[2] /\ swap.base = a[x] /\ swap.quote = a[y]
<1>1. PICK at : at = [i \in DOMAIN a |-> i] OBVIOUS
<1>2. at \in Seq(1..n) /\ Len(at) = n
  <2>1. at \in [1..n -> 1..n] BY <1>1
  <2> QED BY <2>1, FunctionIsSeq
<1>3. /\ 1 \in 1..n /\ 2 \in 1..n /\ x \in 1..n /\ y \in 1..n
      /\ at[1] = 1 /\ at[2] = 2 /\ at[x] = x /\ at[y] = y
  <2>1. 1 \in 1..n /\ 2 \in 1..n /\ x \in 1..n /\ y \in 1..n OBVIOUS
  <2> QED BY <1>1, <2>1
<1>4. PICK ix : ix = [accounts |-> at, at |-> <<1, 0>>] OBVIOUS
<1>5. ix.accounts = at /\ VaultPlaces(Len(ix.accounts)) = {<<x, y>>} BY <1>2, <1>4
<1>6. PICK q : q = <<x, y>> OBVIOUS
<1>7. PICK named : named = <<ix.accounts[2], ix.accounts[q[1]], ix.accounts[q[2]]>> OBVIOUS
<1>8. /\ q[1] = x /\ q[2] = y
      /\ named[1] = 2 /\ named[2] = x /\ named[3] = y
  BY <1>3, <1>5, <1>6, <1>7
<1>9. {named[i] : i \in 1..3} = {2, x, y} BY <1>8
<1>10. {a[named[i]] : i \in 1..3} = {a[2], a[x], a[y]} BY <1>8
<1>11. Cardinality({a[2], a[x], a[y]}) = 3 BY ThreeElements
<1>12. PICK swap : swap = [pool  |-> a[ix.accounts[2]], base |-> a[ix.accounts[q[1]]],
                           quote |-> a[ix.accounts[q[2]]], at |-> ix.at]
  OBVIOUS
<1>13. /\ {ix.accounts[1]} \cup {named[i] : i \in 1..3} \subseteq DOMAIN a
       /\ a[ix.accounts[1]] = SplToken
  <2>1. ix.accounts[1] = 1 BY <1>3, <1>5
  <2>2. {1} \cup {2, x, y} \subseteq 1..n BY <1>3
  <2>3. {ix.accounts[1]} \cup {named[i] : i \in 1..3} = {1} \cup {2, x, y}
    BY <1>9, <2>1
  <2> QED BY <2>1, <2>2, <2>3
<1>14. swap \in SwapInstruction(a, ix)
  <2>1. q \in VaultPlaces(Len(ix.accounts)) BY <1>5, <1>6
  <2>2. /\ NoKey \notin {a[named[i]] : i \in 1..3}
        /\ Cardinality({a[named[i]] : i \in 1..3}) = 3
    BY <1>10, <1>11
  <2>3. q \in { r \in VaultPlaces(Len(ix.accounts)) :
                 LET places == <<ix.accounts[2], ix.accounts[r[1]], ix.accounts[r[2]]>>
                 IN  /\ {ix.accounts[1]} \cup {places[i] : i \in 1..3} \subseteq DOMAIN a
                     /\ a[ix.accounts[1]] = SplToken
                     /\ NoKey \notin {a[places[i]] : i \in 1..3}
                     /\ Cardinality({a[places[i]] : i \in 1..3}) = 3 }
    BY <1>7, <1>13, <2>1, <2>2, Zenon
  <2> QED BY <1>12, <2>3, Zenon DEF SwapInstruction
<1>15. swap.pool = a[2] /\ swap.base = a[x] /\ swap.quote = a[y]
  BY <1>3, <1>5, <1>8, <1>12
<1> QED BY <1>1, <1>4, <1>14, <1>15 DEF AsRead

(* The feed's layout reads the accounts of a swap as that swap's.          *)
LEMMA AsReadPool ==
  ASSUME NEW target, NEW keys, Verified(keys, target), NEW o, NEW src, NEW dst
  PROVE  \E swap \in AsRead(SwapAccounts(keys, o, src, dst)) :
           /\ swap.pool = keys.amm_id
           /\ swap.base = keys.base_vault /\ swap.quote = keys.quote_vault
<1>1. PICK a : a = SwapAccounts(keys, o, src, dst) OBVIOUS
<1>2. /\ DOMAIN a = 1..17
      /\ a[1] = SplToken /\ a[2] = keys.amm_id
      /\ a[5] = keys.base_vault /\ a[6] = keys.quote_vault
  BY <1>1 DEF SwapAccounts
<1>3. /\ a[2] # a[5] /\ a[2] # a[6] /\ a[5] # a[6] /\ NoKey \notin {a[2], a[5], a[6]}
  BY <1>2, VaultsApart
<1>4. PICK n, x, y : /\ n = 17 /\ x = 5 /\ y = 6
                  /\ n \in Nat /\ x \in 3..n /\ y \in 3..n
  OBVIOUS
<1>5. \E swap \in AsRead(a) : swap.pool = a[2] /\ swap.base = a[x] /\ swap.quote = a[y]
  <2>1. /\ DOMAIN a = 1..n /\ VaultPlaces(n) = {<<x, y>>}
        /\ n \in Nat /\ x \in 3..n /\ y \in 3..n
    BY <1>2, <1>4, Places
  <2>2. /\ a[2] # a[x] /\ a[2] # a[y] /\ a[x] # a[y]
        /\ a[1] = SplToken /\ NoKey \notin {a[2], a[x], a[y]}
    BY <1>2, <1>3, <1>4
  <2> QED BY <2>1, <2>2, AsReadAt
<1> QED BY <1>1, <1>2, <1>4, <1>5

(* With one account more, its layout is another: the quote vault stands    *)
(* for the base vault, and the market's program for the quote vault.       *)
LEMMA AsReadMisled ==
  ASSUME NEW target, NEW keys, NEW a, NEW o, NEW src, NEW dst,
         Verified(keys, target), OpenBook \notin DOMAIN Chain,
         Extended(a, SwapAccounts(keys, o, src, dst))
  PROVE  \E swap \in AsRead(a) : ~NamesVaultsOf(swap)
<1>1. /\ a[1] = SplToken /\ a[2] = keys.amm_id
      /\ a[6] = keys.quote_vault /\ a[7] = keys.market_program_id
  BY DEF SwapAccounts, Extended
<1>2. a[7] = OpenBook BY <1>1 DEF Verified
<1>3. keys.amm_id \in DOMAIN Chain /\ keys.quote_vault \in DOMAIN Chain
  BY DEF Verified, VerifyPoolKeysOnChain, VerifyTokenAccount, OwnedBy
<1>4. OpenBook # NoKey
  <2>1. "market_program_id" \in KeyNames BY DEF KeyNames
  <2>2. keys["market_program_id"] # NoKey BY <2>1 DEF Verified, Valid
  <2> QED BY <2>2 DEF Verified
<1>5. a[2] # a[6] /\ a[2] # a[7] /\ a[6] # a[7] /\ NoKey \notin {a[2], a[6], a[7]}
  BY <1>1, <1>2, <1>3, <1>4, VaultsApart
<1>6. PICK n, x, y : /\ n = 18 /\ x = 6 /\ y = 7
                  /\ n \in Nat /\ x \in 3..n /\ y \in 3..n
  OBVIOUS
<1>7. PICK swap \in AsRead(a) : swap.pool = a[2] /\ swap.base = a[x] /\ swap.quote = a[y]
  <2>1. /\ DOMAIN a = 1..n /\ VaultPlaces(n) = {<<x, y>>}
        /\ n \in Nat /\ x \in 3..n /\ y \in 3..n
    BY <1>6, Places DEF Extended
  <2>2. /\ a[2] # a[x] /\ a[2] # a[y] /\ a[x] # a[y]
        /\ a[1] = SplToken /\ NoKey \notin {a[2], a[x], a[y]}
    BY <1>1, <1>5, <1>6
  <2> QED BY <2>1, <2>2, AsReadAt
<1>8. Chain[swap.pool].state.base_vault # swap.base BY <1>1, <1>6, <1>7, VaultsApart
<1> QED BY <1>8 DEF NamesVaultsOf

LEMMA SlippageBounded == \A s : Slippage(s) \in 0..10000
  BY SlippageAssumption DEF Slippage

(* The threshold of a quote that fits is within the slippage.              *)
LEMMA ThresholdWithin ==
  ASSUME NEW s, NEW keys, NEW q, q.output \in Nat, QuoteFits(q, keys, s)
  PROVE  /\ q.threshold <= q.output
         /\ (q.threshold + 1) * 10000 > q.output * (10000 - Slippage(s))
<1>0. q.output \in Nat /\ Slippage(s) \in 0..10000 BY SlippageBounded
<1>1. PICK output, slippage, threshold :
        /\ output = q.output /\ slippage = Slippage(s) /\ threshold = q.threshold
        /\ output \in Nat /\ slippage \in 0..10000
  BY <1>0
<1>2. PICK product : product = output * (10000 - slippage) OBVIOUS
<1>3. product \in Int BY <1>2
<1>4. threshold \in (product \div 10000)..output
  BY <1>1, <1>2 DEF QuoteFits, LocalMinimum
<1>5. /\ threshold \in Int /\ product \div 10000 \in Int
      /\ threshold >= product \div 10000 /\ threshold <= output
  BY <1>3, <1>4
<1>6. (product \div 10000 + 1) * 10000 > product BY <1>3
<1>7. (threshold + 1) * 10000 > product BY <1>3, <1>5, <1>6
<1> QED BY <1>1, <1>2, <1>5, <1>7

LEMMA OneMore ==
  ASSUME NEW S, NEW a \in Seq(S), NEW n \in Nat, Len(a) = n, NEW x \in S, NEW b,
         b = Append(a, x)
  PROVE  /\ b \in Seq(S) /\ Len(b) = n + 1 /\ b[n + 1] = x
         /\ \A i \in 1..n : b[i] = a[i]
         /\ SubSeq(b, 1, n) = a
<1>1. /\ b \in Seq(S) /\ Len(b) = n + 1 /\ b[n + 1] = x
      /\ \A i \in 1..n : b[i] = a[i]
  BY AppendProperties
<1>2. SubSeq(b, 1, n) = a
  <2>1. PICK c : c = SubSeq(b, 1, n) OBVIOUS
  <2>2. \A i \in 1..n : b[i] \in S BY <1>1, ElementOfSeq
  <2>3. c \in Seq(S) /\ Len(c) = n /\ \A i \in 1..n : c[i] = b[i]
    BY <2>1, <2>2, SubSeqProperties
  <2>4. \A i \in 1..Len(c) : c[i] = a[i] BY <1>1, <2>3
  <2> QED BY <2>1, <2>3, <2>4, SeqEqual
<1> QED BY <1>1, <1>2
(* An instruction with one more account, the sentinel, at its end.         *)
LEMMA SentinelLast ==
  ASSUME NEW s \in Signals, NEW keys, NEW accounts, Verified(keys, s.target),
         accounts = Append(SwapAccounts(keys, Owner, Ata[Wsol], Ata[s.target]), Sentinel)
  PROVE  Extended(accounts, SwapAccounts(keys, Owner, Ata[Wsol], Ata[s.target]))
<1>1. PICK a : a = SwapAccounts(keys, Owner, Ata[Wsol], Ata[s.target]) OBVIOUS
<1>2. PICK S : S = {a[i] : i \in 1..17} \cup {Sentinel} OBVIOUS
<1>3. a \in Seq(S) /\ Len(a) = 17
  <2>1. DOMAIN a = 1..17 /\ a = [i \in DOMAIN a |-> a[i]] BY <1>1 DEF SwapAccounts
  <2>2. a \in [1..17 -> S] BY <1>2, <2>1
  <2> QED BY <2>2, FunctionIsSeq
<1>4. /\ Len(accounts) = 17 + 1 /\ accounts[17 + 1] = Sentinel
      /\ \A i \in 1..17 : accounts[i] = a[i]
      /\ SubSeq(accounts, 1, 17) = a
  <2>1. Sentinel \in S BY <1>2
  <2>2. accounts = Append(a, Sentinel) BY <1>1
  <2>3. PICK n \in Nat : n = 17 OBVIOUS
  <2>4. Len(a) = n BY <1>3, <2>3
  <2>5. /\ Len(accounts) = n + 1 /\ accounts[n + 1] = Sentinel
        /\ \A i \in 1..n : accounts[i] = a[i]
        /\ SubSeq(accounts, 1, n) = a
    BY <1>3, <2>1, <2>2, <2>4, OneMore
  <2> QED BY <2>3, <2>5
<1>5. \A i \in 1..17 : a[i] # Sentinel
  <2>1. \A i \in 1..17 :
          SwapAccounts(keys, Owner, Ata[Wsol], Ata[s.target])[i] # Sentinel
    BY AccountsApart
  <2> QED BY <1>1, <2>1
<1>6. \A i \in 1..18 : accounts[i] = Sentinel <=> i = 18
  <2>1. \A i \in 1..18 : i \in 1..17 \/ i = 18 OBVIOUS
  <2>2. accounts[18] = Sentinel BY <1>4
  <2> QED BY <1>4, <1>5, <2>1, <2>2
<1>7. Len(accounts) = 18 BY <1>4
<1>8. DOMAIN accounts = 1..18
  <2>1. accounts \in Seq(S) BY <1>1, <1>2, <1>3, AppendProperties
  <2> QED BY <1>7, <2>1, LenProperties
<1> QED BY <1>1, <1>4, <1>6, <1>7, <1>8, Zenon DEF Extended

(* What passes the checks of the answers is a swap with verified keys, its *)
(* accounts followed by the sentinel.                                      *)
LEMMA PreparedAs ==
  ASSUME AnswersVerified, signal \subseteq Signals,
         NEW s \in signal, NEW ix \in Prepared(s)
  PROVE  \E keys \in answers["pool"], quote \in answers["quote"],
            accts \in answers["accounts"] :
           /\ Verified(keys, s.target) /\ QuoteFits(quote, keys, s)
           /\ ValidAccount(accts.source, Wsol, s.amountIn, TRUE)
           /\ ix.accounts = Append(SwapAccounts(keys, Owner, Ata[Wsol], Ata[s.target]),
                                   Sentinel)
           /\ ix.amountIn = s.amountIn /\ ix.minimumOut = quote.threshold
<1>1. PICK c \in [keys  : answers["pool"],     quote : answers["quote"],
                  accts : answers["accounts"], owned : answers["owned"]] :
        /\ ValidAccount(c.accts.source, Wsol, s.amountIn, TRUE)
        /\ QuoteFits(c.quote, c.keys, s)
        /\ ix \in UNION { Protect(ix0, Sentinel) :
                            ix0 \in Construct(c.keys, Owner, Ata[Wsol], Ata[s.target],
                                             s.amountIn, c.quote.threshold) }
  BY Zenon DEF Prepared
<1>2. PICK keys, quote, accts :
        /\ keys = c.keys /\ quote = c.quote /\ accts = c.accts
        /\ keys \in answers["pool"] /\ quote \in answers["quote"]
        /\ accts \in answers["accounts"]
  OBVIOUS
<1>3. PICK a : a = SwapAccounts(keys, Owner, Ata[Wsol], Ata[s.target]) OBVIOUS
<1>4. s \in Signals /\ Verified(keys, s.target) BY <1>2 DEF AnswersVerified
<1>5. PICK ix0 : /\ ix0 = [program    |-> RaydiumV4,
                           op         |-> "baseIn",
                           accounts   |-> a,
                           amountIn   |-> s.amountIn,
                           minimumOut |-> quote.threshold]
                 /\ ix \in Protect(ix0, Sentinel)
  BY <1>1, <1>2, <1>3 DEF Construct
<1>6. /\ ix.accounts = Append(a, Sentinel)
      /\ ix.amountIn = s.amountIn /\ ix.minimumOut = quote.threshold
  <2>1. DOMAIN a = 1..17 BY <1>3 DEF SwapAccounts
  <2>2. \A i \in 1..17 : a[i] # Sentinel BY <1>3, <1>4, AccountsApart
  <2>3. ~ \E i \in DOMAIN ix0.accounts : ix0.accounts[i] = Sentinel
    BY <1>5, <2>1, <2>2
  <2>4. ix \in {[ix0 EXCEPT !.accounts = Append(@, Sentinel)]}
    BY <1>5, <2>3, Zenon DEF Protect
  <2> QED BY <1>5, <2>4
<1> QED BY <1>1, <1>2, <1>3, <1>4, <1>6

(* What SignedForVerifiedPool says of one instruction.                     *)
Trade(ix, s) ==
  LET read  == SubSeq(ix.accounts, 1, Len(ix.accounts) - 1)
      quote == TheOne(answers["quote"])
  IN  /\ EndsInSentinel(ix.accounts)
      /\ TradesPool(read, quote.route[1].pool, s.target)
      /\ ix.amountIn = quote.input
      /\ \E a \in answers["accounts"] : a.source.amount >= ix.amountIn
      /\ ix.minimumOut <= quote.output
      /\ (ix.minimumOut + 1) * 10000 > quote.output * (10000 - Slippage(s))

(* What is signed is such a trade.                                         *)
LEMMA PreparedTrades ==
  ASSUME AnswersVerified, signal \subseteq Signals,
         NEW s \in signal, NEW ix \in Prepared(s)
  PROVE  Trade(ix, s)
<1>1. PICK keys \in answers["pool"], quote \in answers["quote"],
           accts \in answers["accounts"] :
        /\ Verified(keys, s.target) /\ QuoteFits(quote, keys, s)
        /\ ValidAccount(accts.source, Wsol, s.amountIn, TRUE)
        /\ ix.accounts = Append(SwapAccounts(keys, Owner, Ata[Wsol], Ata[s.target]), Sentinel)
        /\ ix.amountIn = s.amountIn /\ ix.minimumOut = quote.threshold
  BY PreparedAs
<1>2. /\ keys \in answers["pool"] /\ quote \in answers["quote"]
      /\ accts \in answers["accounts"]
  OBVIOUS
<1>3. PICK a : a = SwapAccounts(keys, Owner, Ata[Wsol], Ata[s.target]) OBVIOUS
<1>4. s \in Signals /\ Verified(keys, s.target) BY <1>1
<1>5. /\ ix.accounts = Append(a, Sentinel)
      /\ ix.amountIn = s.amountIn /\ ix.minimumOut = quote.threshold
  BY <1>1, <1>3
<1>6. /\ Len(ix.accounts) = 18
      /\ \A i \in 1..18 : ix.accounts[i] = Sentinel <=> i = 18
      /\ SubSeq(ix.accounts, 1, 17) = a
  <2>1. PICK accounts : accounts = ix.accounts OBVIOUS
  <2>2. accounts = Append(SwapAccounts(keys, Owner, Ata[Wsol], Ata[s.target]), Sentinel)
    BY <1>3, <1>5, <2>1
  <2>3. Extended(accounts, SwapAccounts(keys, Owner, Ata[Wsol], Ata[s.target]))
    BY <1>4, <2>2, SentinelLast
  <2> QED BY <1>3, <2>1, <2>3, Zenon DEF Extended
<1>7. TheOne(answers["quote"]) = quote BY <1>2 DEF AnswersVerified, TheOne
<1>8. QuoteFits(quote, keys, s) BY <1>1, <1>2
<1>9. TradesPool(a, quote.route[1].pool, s.target)
  <2>1. PICK swap \in AsRead(a) :
          /\ swap.pool = keys.amm_id
          /\ swap.base = keys.base_vault /\ swap.quote = keys.quote_vault
    BY <1>3, <1>4, AsReadPool
  <2>2. quote.route[1].pool = keys.amm_id BY <1>8 DEF QuoteFits
  <2>3. NamesVaultsOf(swap) BY <1>4, <2>1, VaultsApart DEF NamesVaultsOf
  <2>4. /\ Chain[swap.base].mint = keys.base_mint
        /\ Chain[swap.quote].mint = keys.quote_mint
    BY <1>4, <2>1, VaultsApart
  <2>5. {keys.base_mint, keys.quote_mint} = {Wsol, s.target} BY <1>4 DEF Verified
  <2> QED BY <2>1, <2>2, <2>3, <2>4, <2>5 DEF TradesPool
<1>10. /\ ix.amountIn = quote.input
       /\ \E x \in answers["accounts"] : x.source.amount >= ix.amountIn
  BY <1>1, <1>2, <1>5, <1>8 DEF QuoteFits, ValidAccount
<1>11. /\ ix.minimumOut <= quote.output
       /\ (ix.minimumOut + 1) * 10000 > quote.output * (10000 - Slippage(s))
  <2>1. quote.output \in Nat BY <1>2, QuotesAssumption DEF AnswersVerified
  <2> QED BY <1>5, <1>8, <2>1, ThresholdWithin
<1>12. /\ EndsInSentinel(ix.accounts)
       /\ SubSeq(ix.accounts, 1, Len(ix.accounts) - 1) = a
  <2>1. Len(ix.accounts) - 1 = 17 /\ 18 \in 1..18 BY <1>6
  <2>2. {i \in 1..18 : ix.accounts[i] = Sentinel} = {18} BY <1>6, <2>1
  <2> QED BY <1>6, <2>1, <2>2 DEF EndsInSentinel
<1>13. TradesPool(SubSeq(ix.accounts, 1, Len(ix.accounts) - 1),
                  TheOne(answers["quote"]).route[1].pool, s.target)
  BY <1>7, <1>9, <1>12
<1>14. ix.amountIn = TheOne(answers["quote"]).input BY <1>7, <1>10
<1>15. ix.minimumOut <= TheOne(answers["quote"]).output BY <1>7, <1>11
<1>16. (ix.minimumOut + 1) * 10000
         > TheOne(answers["quote"]).output * (10000 - Slippage(s))
  BY <1>7, <1>11
<1>17. \E x \in answers["accounts"] : x.source.amount >= ix.amountIn BY <1>10
<1> QED BY <1>12, <1>13, <1>14, <1>15, <1>16, <1>17 DEF Trade

-----------------------------------------------------------------------------
(* Every step keeps the answers verified and the signed trade as it is.    *)
Kept == AnswersVerified /\ SignedForVerifiedPool

LEMMA KeptInit == Init => Kept
  BY DEF Init, Kept, AnswersVerified, SignedForVerifiedPool, NoAnswers, Requests

LEMMA KeptUnchanged ==
  ASSUME Kept, UNCHANGED <<signal, answers, bundle>>
  PROVE  Kept'
<1>1. AnswersVerified' BY DEF Kept, AnswersVerified
<1>2. SignedForVerifiedPool'
  <2>1. \A b \in bundle, s \in signal : b.kind = "raydium" => Trade(b.ix, s)
    BY DEF Kept, SignedForVerifiedPool, Trade
  <2>2. \A b \in bundle', s \in signal' : b.kind = "raydium" => Trade(b.ix, s)'
    BY <2>1 DEF Trade
  <2> QED BY <2>2 DEF SignedForVerifiedPool, Trade
<1> QED BY <1>1, <1>2 DEF Kept

(* Before there is a bundle, the answers are all that counts.              *)
LEMMA KeptUnsigned ==
  ASSUME Kept, bundle' = {} \/ \A b \in bundle' : b.kind = "pump",
         UNCHANGED signal,
         NEW r \in Requests, NEW values,
         answers' = NoAnswers \/ answers' = answers
           \/ (DOMAIN answers = Requests /\ answers' = [answers EXCEPT ![r] = values]),
         r = "pool" => \A s \in signal, keys \in values : Verified(keys, s.target),
         r = "quote" => values \subseteq Quotes /\ \A p, q \in values : p = q
  PROVE  Kept'
<1>1. AnswersVerified'
  <2>0. "pool" \in Requests /\ "quote" \in Requests /\ AnswersVerified
    BY DEF Kept, Requests
  <2>1. CASE answers' = NoAnswers BY <2>0, <2>1 DEF AnswersVerified, NoAnswers
  <2>2. CASE answers' = answers BY <2>0, <2>2 DEF AnswersVerified
  <2>3. CASE DOMAIN answers = Requests /\ answers' = [answers EXCEPT ![r] = values]
    <3>1. /\ answers'["pool"] = IF r = "pool" THEN values ELSE answers["pool"]
          /\ answers'["quote"] = IF r = "quote" THEN values ELSE answers["quote"]
      BY <2>0, <2>3
    <3> QED BY <2>0, <3>1 DEF AnswersVerified
  <2> QED BY <2>1, <2>2, <2>3
<1>2. SignedForVerifiedPool' BY DEF SignedForVerifiedPool
<1> QED BY <1>1, <1>2 DEF Kept

LEMMA KeptBegin ==
  ASSUME IInv, Kept, NEW s \in Signals, Begin(s)
  PROVE  Kept'
<1>1. /\ stage = "idle" /\ signal' = {s} /\ answers' = answers /\ bundle' = bundle
  BY DEF Begin
<1>2. answers' = NoAnswers /\ bundle' = {} BY <1>1 DEF IInv, InOrder, TypeOK
<1>3. AnswersVerified' BY <1>1, <1>2 DEF AnswersVerified, NoAnswers, Requests
<1>4. SignedForVerifiedPool' BY <1>2 DEF SignedForVerifiedPool
<1> QED BY <1>3, <1>4 DEF Kept

LEMMA KeptAnswer ==
  ASSUME IInv, Kept, NEW r \in Requests, NEW values, Answer(r, values),
         r = "pool" => \A s \in signal, keys \in values : Verified(keys, s.target),
         r = "quote" => values \subseteq Quotes /\ \A p, q \in values : p = q
  PROVE  Kept'
<1>1. /\ stage = "reading" /\ UNCHANGED <<signal, bundle>>
      /\ \/ answers' = NoAnswers
         \/ answers' = [answers EXCEPT ![r] = values]
  BY DEF Answer, Reject
<1>2. bundle' = {} /\ DOMAIN answers = Requests BY <1>1 DEF IInv, TypeOK
<1> QED BY <1>1, <1>2, KeptUnsigned

LEMMA KeptGather ==
  ASSUME IInv, Kept, Gather PROVE Kept'
<1>1. /\ "pool" \in Requests /\ "quote" \in Requests
      /\ "accounts" \in Requests /\ "owned" \in Requests
  BY DEF Requests
<1>2. ASSUME NEW list, NEW records, AnswerPool(list, records) PROVE Kept'
  <2>1. PICK s \in signal : Answer("pool", ResolvePoolKeys(Chain, list, records, s.target))
    BY <1>2 DEF AnswerPool
  <2>2. PICK values : values = ResolvePoolKeys(Chain, list, records, s.target) OBVIOUS
  <2>3. \A t \in signal : t = s BY DEF Kept, AnswersVerified
  <2>4. \A t \in signal, keys \in values : Verified(keys, t.target)
    BY <2>2, <2>3, ResolvedVerified
  <2>5. Answer("pool", values) BY <2>1, <2>2
  <2> QED BY <1>1, <2>4, <2>5, KeptAnswer
<1>3. ASSUME NEW q \in Quotes, AnswerQuote(q) PROVE Kept'
  BY <1>1, <1>3, KeptAnswer DEF AnswerQuote
<1>4. CASE AnswerAccounts BY <1>1, <1>4, KeptAnswer DEF AnswerAccounts
<1>5. CASE AnswerOwned BY <1>1, <1>5, KeptAnswer DEF AnswerOwned
<1>6. ASSUME NEW r \in Requests, RequestFails(r) PROVE Kept'
  BY <1>6, KeptAnswer DEF RequestFails
<1> QED BY <1>2, <1>3, <1>4, <1>5, <1>6 DEF Gather

LEMMA KeptSign ==
  ASSUME IInv, Kept, Sign PROVE Kept'
<1>1. PICK s \in signal :
        \E ix \in Prepared(s), b \in bid :
          /\ bundle' = {[kind |-> "raydium", ix |-> ix, tip |-> b, free |-> free]}
          /\ UNCHANGED <<signal, answers>>
  BY DEF Sign
<1>2. PICK ix \in Prepared(s), b \in bid :
        /\ bundle' = {[kind |-> "raydium", ix |-> ix, tip |-> b, free |-> free]}
        /\ UNCHANGED <<signal, answers>>
  BY <1>1
<1>3. Trade(ix, s)
  <2>1. signal \subseteq Signals BY DEF IInv, TypeOK
  <2> QED BY <2>1, PreparedTrades DEF Kept
<1>4. Trade(ix, s)' BY <1>2, <1>3 DEF Trade
<1>5. \A c \in bundle' : c.ix = ix BY <1>2
<1>6. \A t \in signal' : t = s BY <1>2 DEF Kept, AnswersVerified
<1>7. \A c \in bundle', t \in signal' : Trade(c.ix, t)' BY <1>4, <1>5, <1>6
<1>8. SignedForVerifiedPool' BY <1>7 DEF SignedForVerifiedPool, Trade
<1>9. AnswersVerified' BY <1>2 DEF Kept, AnswersVerified
<1> QED BY <1>8, <1>9 DEF Kept

LEMMA KeptStep == IInv /\ Kept /\ [Next]_vars => Kept'
<1> SUFFICES ASSUME IInv, Kept, [Next]_vars PROVE Kept' OBVIOUS
<1>1. CASE Prepare
  <2>1. CASE \E entries \in Floors : Refresh(entries) \/ RefreshFails(entries)
    BY <2>1, KeptUnchanged DEF Refresh, RefreshFails, vars, consumer
  <2>2. CASE \E target \in TargetAccounts, others \in BOOLEAN : WalletChanges(target, others)
    BY <2>2, KeptUnchanged DEF WalletChanges, consumer
  <2>3. CASE RejectAnswers \/ SignFails
    <3>1. bundle' = {} /\ UNCHANGED signal /\ answers' = NoAnswers /\ "owned" \in Requests
      BY <2>3 DEF RejectAnswers, Reject, SignFails, IInv, TypeOK, Requests
    <3> QED BY <3>1, KeptUnsigned
  <2>4. CASE PumpSign
    <3>1. /\ \A b \in bundle' : b.kind = "pump"
          /\ UNCHANGED <<signal, answers>> /\ "owned" \in Requests
      BY <2>4 DEF PumpSign, Requests
    <3> QED BY <3>1, KeptUnsigned
  <2>5. CASE PumpFails \/ PumpPanics
    BY <2>5, KeptUnchanged DEF PumpFails, PumpPanics
  <2> QED BY <1>1, <2>1, <2>2, <2>3, <2>4, <2>5, KeptBegin, KeptGather, KeptSign DEF Prepare
<1>2. CASE Tick \/ Listen \/ UNCHANGED vars
  BY <1>2, KeptUnchanged DEF Tick, Listen, Notify, vars, consumer
<1> QED BY <1>1, <1>2 DEF Next

(* For any pool list, records, quotes and accounts, a Raydium bundle swaps *)
(* the quoted amount in the pool that quote, API and chain agree on, and   *)
(* accepts less than was quoted only within the slippage of its lane.      *)
THEOREM SignedTradesVerifiedPool == Spec => []SignedForVerifiedPool
<1>1. Kept => SignedForVerifiedPool BY DEF Kept
<1> QED BY <1>1, Inductive, KeptInit, KeptStep, PTL DEF Spec
-----------------------------------------------------------------------------
(* The opposite of SentinelIgnored: whatever is signed is read, with its   *)
(* sentinel, as a swap of other vaults.                                    *)
SentinelMisleads ==
  \A b \in bundle : b.kind = "raydium" =>
    \E swap \in AsRead(b.ix.accounts) : ~NamesVaultsOf(swap)

LEMMA PreparedMisleads ==
  ASSUME AnswersVerified, signal \subseteq Signals, OpenBook \notin DOMAIN Chain,
         NEW s \in signal, NEW ix \in Prepared(s)
  PROVE  \E swap \in AsRead(ix.accounts) : ~NamesVaultsOf(swap)
<1>1. PICK keys \in answers["pool"] :
        /\ Verified(keys, s.target)
        /\ ix.accounts = Append(SwapAccounts(keys, Owner, Ata[Wsol], Ata[s.target]), Sentinel)
  BY PreparedAs
<1>2. PICK accounts : accounts = ix.accounts OBVIOUS
<1>3. accounts = Append(SwapAccounts(keys, Owner, Ata[Wsol], Ata[s.target]), Sentinel)
  BY <1>1, <1>2
<1>4. Extended(accounts, SwapAccounts(keys, Owner, Ata[Wsol], Ata[s.target]))
  BY <1>1, <1>3, SentinelLast
<1>5. \E swap \in AsRead(accounts) : ~NamesVaultsOf(swap)
  BY <1>1, <1>4, AsReadMisled
<1> QED BY <1>2, <1>5

(* No pool escapes the second layout: every Raydium bundle that is signed  *)
(* carries a swap that reads, sentinel included, as one of other vaults.   *)
(* The market's program, owned by a loader, is no account of a pool.       *)
THEOREM SentinelAlwaysMisleads ==
  ASSUME OpenBook \notin DOMAIN Chain
  PROVE  Spec => []SentinelMisleads
<1>1. Init => SentinelMisleads BY DEF Init, SentinelMisleads
<1>2. IInv /\ Kept /\ SentinelMisleads /\ [Next]_vars => SentinelMisleads'
  <2> SUFFICES ASSUME IInv, Kept, SentinelMisleads, [Next]_vars,
                      NEW b \in bundle', b \notin bundle, b.kind = "raydium"
               PROVE  \E swap \in AsRead(b.ix.accounts) : ~NamesVaultsOf(swap)
    BY DEF SentinelMisleads
  <2>1. PICK s \in signal : \E ix \in Prepared(s) : b.ix = ix
    <3>1. CASE Sign
      <4>1. PICK s \in signal : \E ix \in Prepared(s), t \in bid :
              bundle' = {[kind |-> "raydium", ix |-> ix, tip |-> t, free |-> free]}
        BY <3>1 DEF Sign
      <4> QED BY <4>1
    <3>2. CASE PumpSign BY <3>2 DEF PumpSign
    <3>3. CASE ~Sign /\ ~PumpSign
      <4>1. bundle' = bundle
        BY <3>3
        DEF Next, Tick, Listen, Notify, Prepare, Refresh, RefreshFails, WalletChanges, Begin,
            Gather, AnswerPool, AnswerQuote, AnswerAccounts, AnswerOwned, RequestFails,
            Answer, RejectAnswers, SignFails, PumpFails, PumpPanics, consumer, vars
      <4> QED BY <4>1
    <3> QED BY <3>1, <3>2, <3>3
  <2>2. AnswersVerified /\ signal \subseteq Signals BY DEF Kept, IInv, TypeOK
  <2> QED BY <2>1, <2>2, PreparedMisleads
<1> QED BY <1>1, <1>2, Inductive, KeptInit, KeptStep, PTL DEF Spec

-----------------------------------------------------------------------------
(* Decoding.  The balance of a vault is defined by recursion over the      *)
(* swaps, so facts about it need induction: a set of numbers that holds 0  *)
(* and every successor is all of Nat, since it would miss a least one.     *)
LEMMA SetInduction ==
  ASSUME NEW S, 0 \in S, \A n \in Nat : n \in S => n + 1 \in S
  PROVE  Nat \subseteq S
<1> DEFINE Missed == Nat \ S
           R == {p \in Nat \X Nat : p[1] < p[2]}
<1>1. SUFFICES ASSUME Missed # {} PROVE FALSE OBVIOUS
<1>2. IsWellFoundedOn(R, Nat) BY NatLessThanWellFounded DEF OpToRel
<1>3. Missed \subseteq Nat OBVIOUS
<1> HIDE DEF R
<1>4. PICK x \in Missed : \A y \in Missed : <<y, x>> \notin R
  BY <1>1, <1>2, <1>3, WFMin
<1>5. x # 0 /\ x - 1 \in Nat OBVIOUS
<1>6. <<x - 1, x>> \in R BY <1>5 DEF R
<1>7. x - 1 \in S BY <1>4, <1>5, <1>6
<1> QED BY <1>5, <1>7

(* What a swap moves into a vault, and out of it.                          *)
In(e, vault)  == IF e.into = vault THEN e.paid ELSE 0
Out(e, vault) == IF e.from = vault THEN e.got ELSE 0

(* g lists the balances of the vault over the first n swaps.               *)
Books(g, executed, vault, before, n) ==
  g = [i \in 0..n |-> IF i = 0 THEN before
                      ELSE g[i - 1] + In(executed[i], vault) - Out(executed[i], vault)]

LEMMA BooksExist ==
  ASSUME NEW executed, NEW vault, NEW before, NEW N \in Nat
  PROVE  \E g : Books(g, executed, vault, before, N)
<1> DEFINE S == {n \in Nat : \E g : Books(g, executed, vault, before, n)}
           After(x, i) == x + In(executed[i], vault) - Out(executed[i], vault)
<1>1. 0 \in S
  <2>1. Books([i \in 0..0 |-> before], executed, vault, before, 0) BY DEF Books
  <2> QED BY <2>1
<1>2. ASSUME NEW n \in Nat, n \in S PROVE n + 1 \in S
  <2>1. PICK g : Books(g, executed, vault, before, n) BY <1>2
  <2> DEFINE h == [i \in 0..n + 1 |-> IF i = n + 1 THEN After(g[n], n + 1) ELSE g[i]]
  <2>2. \A i \in 0..n + 1 : h[i] = IF i = 0 THEN before ELSE After(h[i - 1], i)
    <3>1. \A i \in 0..n : g[i] = IF i = 0 THEN before ELSE After(g[i - 1], i)
      BY <2>1, Zenon DEF Books
    <3> HIDE DEF After
    <3> TAKE i \in 0..n + 1
    <3>2. CASE i = n + 1
      <4>1. h[i] = After(g[n], n + 1) /\ h[n] = g[n] /\ i - 1 = n /\ i # 0 BY <3>2
      <4> QED BY <3>2, <4>1
    <3>3. CASE i # n + 1 /\ i # 0
      <4>1. i \in 0..n /\ i - 1 \in 0..n /\ i - 1 # n + 1 BY <3>3
      <4>2. h[i] = g[i] /\ h[i - 1] = g[i - 1] BY <3>3, <4>1
      <4> QED BY <3>1, <3>3, <4>1, <4>2
    <3>4. CASE i = 0
      <4>1. h[i] = g[0] BY <3>4
      <4> QED BY <3>1, <3>4, <4>1
    <3> QED BY <3>2, <3>3, <3>4
  <2>3. h = [i \in 0..n + 1 |-> h[i]] OBVIOUS
  <2> HIDE DEF h
  <2>4. h = [i \in 0..n + 1 |-> IF i = 0 THEN before ELSE After(h[i - 1], i)]
    BY <2>2, <2>3
  <2>5. Books(h, executed, vault, before, n + 1) BY <2>4, Zenon DEF Books
  <2> QED BY <2>5
<1> HIDE DEF S
<1>3. Nat \subseteq S BY <1>1, <1>2, SetInduction
<1> QED BY <1>3 DEF S

(* What Ledger computes.                                                   *)
LEMMA LedgerRecurs ==
  ASSUME NEW executed \in Seq(Transfers), NEW vault, NEW before
  PROVE  /\ Ledger(executed, vault, before)[0] = before
         /\ \A n \in 1..Len(executed) :
              Ledger(executed, vault, before)[n]
                = Ledger(executed, vault, before)[n - 1]
                    + In(executed[n], vault) - Out(executed[n], vault)
<1>1. Len(executed) \in Nat BY LenProperties
<1>2. Books(Ledger(executed, vault, before), executed, vault, before, Len(executed))
  <2>1. \E g : Books(g, executed, vault, before, Len(executed)) BY <1>1, BooksExist
  <2> QED BY <2>1, Zenon DEF Ledger, Books, In, Out
<1>3. \A n \in 0..Len(executed) :
        Ledger(executed, vault, before)[n]
          = IF n = 0 THEN before
            ELSE Ledger(executed, vault, before)[n - 1]
                   + In(executed[n], vault) - Out(executed[n], vault)
  BY <1>2, Zenon DEF Books
<1>4. 0 \in 0..Len(executed) /\ \A n \in 1..Len(executed) : n # 0 /\ n \in 0..Len(executed)
  BY <1>1
<1> QED BY <1>3, <1>4

(* Swap k is the one that touches the vault.                               *)
Alone(executed, k, vault) ==
  \A i \in DOMAIN executed : vault \in {executed[i].into, executed[i].from} <=> i = k

(* A vault that no other swap touches changes by what one swap moves.      *)
LEMMA OneSwapMoves ==
  ASSUME NEW executed \in Seq(Transfers), NEW vault, NEW before \in Nat,
         NEW k \in DOMAIN executed, Alone(executed, k, vault)
  PROVE  Ledger(executed, vault, before)[Len(executed)]
           = before + In(executed[k], vault) - Out(executed[k], vault)
<1>1. /\ Len(executed) \in Nat /\ k \in 1..Len(executed)
      /\ DOMAIN executed = 1..Len(executed)
      /\ \A i \in 1..Len(executed) : executed[i] \in Transfers
  BY LenProperties
<1>2. PICK ledger : ledger = Ledger(executed, vault, before) OBVIOUS
<1>3. /\ ledger[0] = before
      /\ \A n \in 1..Len(executed) :
           ledger[n] = ledger[n - 1] + In(executed[n], vault) - Out(executed[n], vault)
  BY <1>2, LedgerRecurs
<1>4. \A i \in 1..Len(executed) :
        In(executed[i], vault) \in Nat /\ Out(executed[i], vault) \in Nat
  BY <1>1 DEF In, Out, Transfers
<1>5. \A i \in 1..Len(executed) : i # k =>
        In(executed[i], vault) = 0 /\ Out(executed[i], vault) = 0
  BY <1>1 DEF Alone, In, Out
<1> DEFINE after == before + In(executed[k], vault) - Out(executed[k], vault)
           Kn(n) == ledger[n] = IF n < k THEN before ELSE after
           S == {n \in Nat : n <= Len(executed) => Kn(n)}
<1>6. after \in Int BY <1>1, <1>4
<1>7. 0 \in S BY <1>1, <1>3
<1>8. ASSUME NEW n \in Nat, n \in S PROVE n + 1 \in S
  <2> SUFFICES ASSUME n + 1 <= Len(executed) PROVE Kn(n + 1) OBVIOUS
  <2>1. n + 1 \in 1..Len(executed) /\ n <= Len(executed) /\ (n + 1) - 1 = n BY <1>1
  <2>2. ledger[n + 1] = ledger[n] + In(executed[n + 1], vault) - Out(executed[n + 1], vault)
    BY <1>3, <2>1
  <2>3. Kn(n) BY <1>8, <2>1
  <2>4. CASE n + 1 = k BY <1>1, <1>4, <2>2, <2>3, <2>4
  <2>5. CASE n + 1 # k
    <3>1. ledger[n + 1] = ledger[n] + 0 - 0 BY <1>5, <2>1, <2>2, <2>5
    <3>2. n < k <=> n + 1 < k BY <1>1, <2>5
    <3> HIDE DEF after
    <3> QED BY <1>6, <2>3, <3>1, <3>2
  <2> QED BY <2>4, <2>5
<1> HIDE DEF S
<1>9. Nat \subseteq S BY <1>7, <1>8, SetInduction
<1>10. Kn(Len(executed)) BY <1>1, <1>9 DEF S
<1> QED BY <1>1, <1>2, <1>10

(* The two balances of a vault are found at the same place.                *)
LEMMA BalancesOf ==
  ASSUME NEW tx, NEW vault,
         NEW b \in BalanceOf(tx, tx.pre, vault), NEW c \in BalanceOf(tx, tx.post, vault),
         IsFiniteSet(DOMAIN tx.keys)
  PROVE  /\ b \in tx.pre /\ c \in tx.post /\ b.index = c.index
         /\ b.index \in DOMAIN tx.keys /\ tx.keys[b.index] = vault
<1> DEFINE places == {i \in DOMAIN tx.keys : tx.keys[i] = vault}
<1>1. /\ b \in tx.pre /\ c \in tx.post
      /\ b.index \in places /\ c.index \in places
      /\ Cardinality(places) = 1
  BY DEF BalanceOf
<1>2. IsFiniteSet(places) BY FS_Subset
<1>3. \E x : places = {x} BY <1>1, <1>2, FS_Singleton
<1>4. b.index = c.index BY <1>1, <1>3
<1> QED BY <1>1, <1>4

(* An instruction that is decoded was read with the layout it has: with    *)
(* the other one, an account taken for a vault would hold no tokens.       *)
LEMMA VaultsMatch ==
  ASSUME NEW tx, NEW ix, NEW e, NEW c \in SwapInstruction(tx.keys, ix),
         Executes(tx, ix, e), HoldsTokens(tx, c.base), HoldsTokens(tx, c.quote)
  PROVE  c.pool = e.pool /\ c.at = e.at /\ {c.base, c.quote} = {e.into, e.from}
<1>1. PICK q \in VaultPlaces(Len(ix.accounts)) :
        c = [pool |-> tx.keys[ix.accounts[2]], base |-> tx.keys[ix.accounts[q[1]]],
             quote |-> tx.keys[ix.accounts[q[2]]], at |-> ix.at]
  BY DEF SwapInstruction
<1>2. q = <<5, 6>> \/ q = <<6, 7>> BY DEF VaultPlaces
<1>3. PICK p \in {5, 6} :
        /\ {tx.keys[ix.accounts[p]], tx.keys[ix.accounts[p + 1]]} = {e.into, e.from}
        /\ ~HoldsTokens(tx, tx.keys[ix.accounts[p - 1]])
        /\ ~HoldsTokens(tx, tx.keys[ix.accounts[p + 2]])
  BY DEF Executes
<1>4. c.base = tx.keys[ix.accounts[q[1]]] /\ c.quote = tx.keys[ix.accounts[q[2]]]
  BY <1>1
<1>5. q[1] = p /\ q[2] = p + 1
  <2>1. CASE q = <<5, 6>> /\ p = 6
    <3>1. p - 1 = 5 BY <2>1
    <3> QED BY <1>3, <1>4, <2>1, <3>1
  <2>2. CASE q = <<6, 7>> /\ p = 5
    <3>1. p + 2 = 7 BY <2>2
    <3> QED BY <1>3, <1>4, <2>2, <3>1
  <2>3. 5 + 1 = 6 /\ 6 + 1 = 7 OBVIOUS
  <2> QED BY <1>2, <1>3, <2>1, <2>2, <2>3
<1>6. {c.base, c.quote} = {e.into, e.from} BY <1>3, <1>4, <1>5
<1>7. c.pool = e.pool /\ c.at = e.at BY <1>1 DEF Executes
<1> QED BY <1>6, <1>7

(* A decoded swap has balances of both vaults.                             *)
LEMMA DecodedHolds ==
  ASSUME NEW tx, NEW c, IsFiniteSet(DOMAIN tx.keys), DecodedSwap(tx, c) # {}
  PROVE  HoldsTokens(tx, c.base) /\ HoldsTokens(tx, c.quote)
<1>1. /\ BalanceOf(tx, tx.pre, c.base) # {} /\ BalanceOf(tx, tx.post, c.base) # {}
      /\ BalanceOf(tx, tx.pre, c.quote) # {} /\ BalanceOf(tx, tx.post, c.quote) # {}
  BY DEF DecodedSwap
<1> QED BY <1>1, BalancesOf DEF HoldsTokens

(* Swap e alone makes the balance b of the vault the balance c.            *)
Change(e, vault, b, c) ==
  /\ b.mint = Chain[vault].mint /\ b.amount \in Nat /\ c.amount \in Nat
  /\ e.paid \in Nat /\ e.got \in Nat
  /\ vault = e.into => c.amount = b.amount + e.paid
  /\ vault = e.from => c.amount = b.amount - e.got

LEMMA VaultChange ==
  ASSUME NEW tx, NEW executed \in Seq(Transfers), NEW k \in DOMAIN executed,
         NEW vault,
         NEW b \in BalanceOf(tx, tx.pre, vault), NEW c \in BalanceOf(tx, tx.post, vault),
         IsFiniteSet(DOMAIN tx.keys), Balanced(tx, executed), Alone(executed, k, vault),
         executed[k].into # executed[k].from
  PROVE  Change(executed[k], vault, b, c)
<1>1. /\ b \in tx.pre /\ c \in tx.post /\ b.index = c.index
      /\ b.index \in DOMAIN tx.keys /\ tx.keys[b.index] = vault
  BY BalancesOf
<1>2. vault \in {executed[i].into : i \in DOMAIN executed}
                 \cup {executed[i].from : i \in DOMAIN executed}
  BY DEF Alone
<1>3. /\ b.mint = Chain[vault].mint /\ b.amount \in Nat /\ c.amount \in Nat
      /\ c.amount = Ledger(executed, vault, b.amount)[Len(executed)]
  BY <1>1, <1>2 DEF Balanced
<1>4. c.amount = b.amount + In(executed[k], vault) - Out(executed[k], vault)
  BY <1>3, OneSwapMoves
<1>5. executed[k] \in Transfers BY ElementOfSeq, LenProperties
<1>6. executed[k].paid \in Nat /\ executed[k].got \in Nat BY <1>5 DEF Transfers
<1>7. ASSUME vault = executed[k].into PROVE c.amount = b.amount + executed[k].paid
  <2>1. In(executed[k], vault) = executed[k].paid /\ Out(executed[k], vault) = 0
    BY <1>7 DEF In, Out
  <2> QED BY <1>3, <1>4, <1>6, <2>1
<1>8. ASSUME vault = executed[k].from PROVE c.amount = b.amount - executed[k].got
  <2>1. In(executed[k], vault) = 0 /\ Out(executed[k], vault) = executed[k].got
    BY <1>8 DEF In, Out
  <2> QED BY <1>3, <1>4, <1>6, <2>1
<1> QED BY <1>3, <1>6, <1>7, <1>8 DEF Change

(* Where no other swap touches its vaults, a swap is decoded as executed.  *)
LEMMA DecodedOutcome ==
  ASSUME NEW tx, NEW executed \in Seq(Transfers), NEW k \in DOMAIN executed, NEW c,
         NEW swap \in DecodedSwap(tx, c),
         IsFiniteSet(DOMAIN tx.keys), Balanced(tx, executed),
         executed[k].into # executed[k].from,
         c.pool = executed[k].pool, c.at = executed[k].at,
         {c.base, c.quote} = {executed[k].into, executed[k].from},
         Alone(executed, k, c.base), Alone(executed, k, c.quote)
  PROVE  swap = Outcome(executed[k])
<1>1. PICK e : e = executed[k] OBVIOUS
<1>2. PICK pb \in BalanceOf(tx, tx.pre, c.base), qb \in BalanceOf(tx, tx.post, c.base),
           pq \in BalanceOf(tx, tx.pre, c.quote), qq \in BalanceOf(tx, tx.post, c.quote) :
        /\ (pb.mint = Wsol) # (pq.mint = Wsol)
        /\ swap = [pool   |-> c.pool,
                   at     |-> c.at,
                   target |-> IF pb.mint = Wsol THEN pq.mint ELSE pb.mint,
                   tokens |-> IF pb.mint = Wsol THEN Delta(pq.amount, qq.amount)
                              ELSE Delta(pb.amount, qb.amount),
                   wsol   |-> IF pb.mint = Wsol THEN Delta(pb.amount, qb.amount)
                              ELSE Delta(pq.amount, qq.amount)]
  BY DEF DecodedSwap
<1>3. Change(e, c.base, pb, qb)
  <2>1. Change(executed[k], c.base, pb, qb) BY VaultChange
  <2> QED BY <1>1, <2>1
<1>4. Change(e, c.quote, pq, qq)
  <2>1. Change(executed[k], c.quote, pq, qq) BY VaultChange
  <2> QED BY <1>1, <2>1
<1>5. CASE c.base = e.into /\ c.quote = e.from
  <2>1. Delta(pb.amount, qb.amount) = e.paid BY <1>3, <1>5 DEF Delta, Change
  <2>2. Delta(pq.amount, qq.amount) = e.got BY <1>3, <1>4, <1>5 DEF Delta, Change
  <2>3. CASE pb.mint = Wsol
    BY <1>1, <1>2, <1>3, <1>4, <1>5, <2>1, <2>2, <2>3 DEF Outcome, Change
  <2>4. CASE pb.mint # Wsol
    BY <1>1, <1>2, <1>3, <1>4, <1>5, <2>1, <2>2, <2>4 DEF Outcome, Change
  <2> QED BY <2>3, <2>4
<1>6. CASE c.base = e.from /\ c.quote = e.into
  <2>1. Delta(pb.amount, qb.amount) = e.got BY <1>3, <1>6 DEF Delta, Change
  <2>2. Delta(pq.amount, qq.amount) = e.paid BY <1>3, <1>4, <1>6 DEF Delta, Change
  <2>3. CASE pb.mint = Wsol
    BY <1>1, <1>2, <1>3, <1>4, <1>6, <2>1, <2>2, <2>3 DEF Outcome, Change
  <2>4. CASE pb.mint # Wsol
    BY <1>1, <1>2, <1>3, <1>4, <1>6, <2>1, <2>2, <2>4 DEF Outcome, Change
  <2> QED BY <2>3, <2>4
<1> QED BY <1>1, <1>5, <1>6

(* What Decode makes of a transaction is what the network did in it.       *)
LEMMA DecodeFaithful ==
  ASSUME NEW notice \in Traffic, NEW swaps \in Decode(notice.tx)
  PROVE  swaps = [i \in DOMAIN notice.executed |-> Outcome(notice.executed[i])]
<1>1. PICK tx : tx = notice.tx OBVIOUS
<1>2. PICK executed : executed = notice.executed OBVIOUS
<1>3. PICK ins : ins = SwapsIn(tx) OBVIOUS
<1>4. PICK candidates :
        candidates = [i \in DOMAIN ins |-> TheOne(SwapInstruction(tx.keys, ins[i]))]
  OBVIOUS
<1>5. /\ ~tx.failed
      /\ \A i \in DOMAIN ins : SwapInstruction(tx.keys, ins[i]) # {}
      /\ Unambiguous(candidates)
      /\ \A i \in DOMAIN ins : DecodedSwap(tx, candidates[i]) # {}
      /\ swaps = [i \in DOMAIN ins |-> TheOne(DecodedSwap(tx, candidates[i]))]
  <2>1. swaps \in Decode(tx) BY <1>1
  <2> QED BY <1>3, <1>4, <2>1 DEF Decode
<1>6. /\ IsFiniteSet(DOMAIN tx.keys) /\ executed \in Seq(Transfers)
      /\ DOMAIN executed = DOMAIN ins /\ Balanced(tx, executed)
      /\ \A i \in DOMAIN ins : Executes(tx, ins[i], executed[i])
  BY <1>1, <1>2, <1>3, <1>5, TrafficAssumption
<1>7. \A i \in DOMAIN ins :
        /\ candidates[i].pool = executed[i].pool /\ candidates[i].at = executed[i].at
        /\ {candidates[i].base, candidates[i].quote} = {executed[i].into, executed[i].from}
  <2> TAKE i \in DOMAIN ins
  <2>1. candidates[i] \in SwapInstruction(tx.keys, ins[i]) BY <1>4, <1>5 DEF TheOne
  <2>2. HoldsTokens(tx, candidates[i].base) /\ HoldsTokens(tx, candidates[i].quote)
    BY <1>5, <1>6, DecodedHolds
  <2>3. PICK c : c = candidates[i] OBVIOUS
  <2>4. PICK e : e = executed[i] OBVIOUS
  <2>5. c \in SwapInstruction(tx.keys, ins[i]) /\ Executes(tx, ins[i], e)
    BY <1>6, <2>1, <2>3, <2>4
  <2>6. c.pool = e.pool /\ c.at = e.at /\ {c.base, c.quote} = {e.into, e.from}
    BY <2>2, <2>3, <2>5, VaultsMatch
  <2> QED BY <2>3, <2>4, <2>6
<1>8. \A i, j \in DOMAIN ins : i # j =>
        {candidates[i].base, candidates[i].quote}
          \cap {candidates[j].base, candidates[j].quote} = {}
  <2> TAKE i, j \in DOMAIN ins
  <2>1. i \in Nat /\ j \in Nat /\ DOMAIN candidates = DOMAIN ins
    BY <1>4, <1>6, LenProperties
  <2> QED BY <1>5, <2>1 DEF Unambiguous
<1>9. \A i \in DOMAIN ins : TheOne(DecodedSwap(tx, candidates[i])) = Outcome(executed[i])
  <2> TAKE i \in DOMAIN ins
  <2>1. PICK c : c = candidates[i] OBVIOUS
  <2>2. TheOne(DecodedSwap(tx, c)) \in DecodedSwap(tx, c) BY <1>5, <2>1 DEF TheOne
  <2>3. Alone(executed, i, c.base) /\ Alone(executed, i, c.quote)
    BY <1>6, <1>7, <1>8, <2>1 DEF Alone
  <2>4. executed[i].into # executed[i].from BY <1>6 DEF Executes
  <2>5. /\ c.pool = executed[i].pool /\ c.at = executed[i].at
        /\ {c.base, c.quote} = {executed[i].into, executed[i].from}
    BY <1>7, <2>1
  <2>6. TheOne(DecodedSwap(tx, c)) = Outcome(executed[i])
    BY <1>6, <2>2, <2>3, <2>4, <2>5, DecodedOutcome
  <2> QED BY <2>1, <2>6
<1> QED BY <1>2, <1>5, <1>6, <1>9

(* What is seen is what Decode makes of a transaction.                     *)
SeenDecoded ==
  \A e \in seen :
    \E notice \in Traffic : e.executed = notice.executed /\ e.swaps = Decode(notice.tx)

LEMMA SeenStep == SeenDecoded /\ [Next]_vars => SeenDecoded'
<1> SUFFICES ASSUME SeenDecoded, [Next]_vars PROVE SeenDecoded' OBVIOUS
<1>1. CASE Listen
  <2>1. PICK notice \in Traffic :
          seen' = {[executed |-> notice.executed, swaps |-> Decode(notice.tx)]}
    BY <1>1 DEF Listen, Notify
  <2> QED BY <2>1 DEF SeenDecoded
<1>2. CASE Tick \/ Prepare \/ UNCHANGED vars
  <2>1. seen' = seen
    BY <1>2
    DEF Tick, Prepare, Refresh, RefreshFails, WalletChanges, Begin, Gather, AnswerPool,
        AnswerQuote, AnswerAccounts, AnswerOwned, RequestFails, Answer, RejectAnswers, Sign,
        SignFails, PumpSign, PumpFails, PumpPanics, vars
  <2> QED BY <2>1 DEF SeenDecoded
<1> QED BY <1>1, <1>2 DEF Next

(* Of any transaction whose swaps alone move the tokens of their vaults,   *)
(* the feed reports every swap as it was executed, or nothing: it never    *)
(* mixes up the amounts of two swaps, whatever number of them share the    *)
(* transaction and in whichever form their instructions come.              *)
THEOREM DecodedFaithfully == Spec => []DecodedAsExecuted
<1>1. Init => SeenDecoded BY DEF Init, SeenDecoded
<1>2. SeenDecoded => DecodedAsExecuted
  BY DecodeFaithful DEF SeenDecoded, DecodedAsExecuted
<1> QED BY <1>1, <1>2, SeenStep, PTL DEF Spec
=============================================================================
