------------------------- MODULE ExitWatcher_proofs -------------------------
(***************************************************************************)
(* Proofs about ExitWatcher, for any prices, entry, bag, trail distances   *)
(* and limits.  What makes retries safe is that every sale is of the whole *)
(* bag and final: the snap-back test shadows the scale-out.  So there is   *)
(* one sale, all its bundles compete for the same tokens (WholeBag), and   *)
(* the attempt number counts them (InStep).                                *)
(***************************************************************************)
EXTENDS ExitWatcher, SequenceTheorems, TLAPS

Bundles == [amount : 0..Acquired, fate : {"open", "landed", "failed"}]

Landed == {i \in DOMAIN bundles : bundles[i].fate = "landed"}

WholeBag ==
  /\ amount = Acquired
  /\ sale # NoSale => sale.amount = Acquired /\ sale.final
  /\ \A i \in DOMAIN bundles : bundles[i].amount = Acquired

OneLands ==
  /\ \A i, j \in Landed : i = j
  /\ wallet = IF Landed = {} THEN Acquired ELSE 0

InStep ==
  /\ phase = "ticks" => stale < MaxStale
  /\ phase \in {"ticks", "connect"} => Len(bundles) = 0
  /\ phase \in {"attempt", "portal", "signed"} => Len(bundles) < attempt
  /\ phase = "confirm" => acked \in DOMAIN bundles
  /\ Len(bundles) <= MaxAttempts
  /\ phase # "done" => closed = 0

IInv == TypeOK /\ WholeBag /\ OneLands /\ InStep /\ ClosedMeansSold

-----------------------------------------------------------------------------
(* A price that doubles the entry is also above it: the sale a tick        *)
(* decides on is of the whole bag, and final.                              *)
LEMMA EverySaleIsFinal ==
  ASSUME TypeOK, amount = Acquired, NEW p \in Prices, NEW trail \in Trails
  PROVE  \/ Decision(p, trail) = NoSale
         \/ Decision(p, trail) = [amount |-> Acquired, price |-> p, final |-> TRUE]
  BY PricesAssumption DEF Decision, IsSnapback, IsScaleOut

(* A bundle more is one bundle more.                                       *)
LEMMA SentExtends ==
  ASSUME TypeOK, WholeBag, OneLands, sale \in Sales
  PROVE  /\ Sent \in Seq(Bundles) /\ Len(Sent) = Len(bundles) + 1
         /\ \A i \in DOMAIN Sent : Sent[i].amount = Acquired
         /\ {i \in DOMAIN Sent : Sent[i].fate = "landed"} = Landed
<1> DEFINE b == [amount |-> sale.amount, fate |-> "open"]
<1>1. b \in Bundles /\ bundles \in Seq(Bundles) BY DEF Bundles, Sales, TypeOK
<1>2. /\ Sent \in Seq(Bundles) /\ Len(Sent) = Len(bundles) + 1
      /\ \A i \in 1..Len(bundles) : Sent[i] = bundles[i]
      /\ Sent[Len(bundles) + 1] = b
  BY <1>1, AppendProperties DEF Sent
<1>3. DOMAIN Sent = 1..Len(bundles) + 1 /\ DOMAIN bundles = 1..Len(bundles)
      /\ Len(bundles) \in Nat
  BY <1>1, <1>2, LenProperties
<1>4. sale.amount = Acquired BY NoSaleAssumption DEF WholeBag
<1>5. \A i \in DOMAIN Sent : i \in DOMAIN bundles \/ Sent[i] = b
  BY <1>2, <1>3
<1>6. \A i \in DOMAIN Sent : Sent[i].amount = Acquired
  BY <1>2, <1>3, <1>4, <1>5 DEF WholeBag
<1>7. {i \in DOMAIN Sent : Sent[i].fate = "landed"} = Landed
  BY <1>2, <1>3, <1>5 DEF Landed
<1> QED BY <1>2, <1>6, <1>7

(* The initial state satisfies the inductive invariant.                    *)
LEMMA InitEstablishes == Init => IInv
<1> SUFFICES ASSUME Init PROVE IInv OBVIOUS
<1>1. /\ bundles \in Seq(Bundles) /\ streak \in Seq({"win", "loss"})
      /\ Len(bundles) = 0 /\ Len(streak) = 0 /\ DOMAIN bundles = {}
  BY DEF Init
<1>2. TypeOK
  <2>1. /\ stale \in 0..MaxStale /\ amount \in 0..Acquired /\ ticks \in 0..MaxTicks
        /\ attempt \in 0..MaxAttempts /\ wallet \in 0..Acquired /\ closed \in Nat
    BY PricesAssumption, LimitsAssumption DEF Init
  <2>2. acked \in 0..Len(bundles) BY <1>1 DEF Init
  <2>3. bundles \in Seq([amount : 0..Acquired, fate : {"open", "landed", "failed"}])
    BY <1>1 DEF Bundles
  <2> QED BY <1>1, <2>1, <2>2, <2>3 DEF Init, TypeOK
<1>3. WholeBag BY <1>1 DEF Init, WholeBag
<1>4. OneLands BY <1>1 DEF Init, OneLands, Landed
<1>5. InStep BY <1>1, LimitsAssumption DEF Init, InStep
<1>6. ClosedMeansSold BY <1>1 DEF Init, ClosedMeansSold
<1> QED BY <1>2, <1>3, <1>4, <1>5, <1>6 DEF IInv
-----------------------------------------------------------------------------
(* A step that leaves the chain alone keeps what is said of it.            *)
LEMMA ChainFrame ==
  ASSUME OneLands, UNCHANGED chain
  PROVE  OneLands'
  BY DEF OneLands, Landed, chain

(* The watcher's own steps.                                                *)
LEMMA TickPreserves ==
  ASSUME IInv, NEW p \in Prices, Tick(p)
  PROVE  IInv'
<1> USE DEF IInv
<1>1. PICK trail \in Trails : sale' = Decision(p, trail) BY DEF Tick
<1>2. \/ sale' = NoSale
      \/ sale' = [amount |-> Acquired, price |-> p, final |-> TRUE]
  BY <1>1, EverySaleIsFinal DEF WholeBag
<1>3. [amount |-> Acquired, price |-> p, final |-> TRUE] \in Sales
  BY PricesAssumption DEF Sales
<1>4. /\ hwm' \in Prices \cup {Entry} /\ locked' \in BOOLEAN
      /\ prev' \in Prices \cup {Entry} /\ ticks' \in 0..MaxTicks
      /\ stale' = 0 /\ 0 < MaxStale
  <2>1. hwm' \in Prices \cup {Entry} BY DEF Tick, HighWater, TypeOK
  <2>2. locked' \in BOOLEAN BY DEF Tick, LockedAt, TypeOK
  <2>3. prev' \in Prices \cup {Entry} BY DEF Tick, TypeOK
  <2>4. ticks' \in 0..MaxTicks BY LimitsAssumption DEF Tick, TypeOK
  <2> QED BY <2>1, <2>2, <2>3, <2>4, LimitsAssumption DEF Tick
<1>5. /\ phase = "ticks"
      /\ sale' = NoSale => phase' = "ticks"
      /\ sale' # NoSale => phase' = "connect"
      /\ UNCHANGED <<partialSold, amount, early, viaPortal, attempt, acked, chain,
                     books>>
  BY DEF Tick
<1>6. TypeOK'
  <2>1. /\ sale' \in Sales \cup {NoSale} /\ phase' \in {"ticks", "connect"}
        /\ phase' = "connect" => sale' \in Sales
    BY <1>2, <1>3, <1>5, NoSaleAssumption
  <2>2. stale' \in 0..MaxStale BY <1>4, LimitsAssumption
  <2> QED BY <1>4, <1>5, <2>1, <2>2 DEF TypeOK, chain, books
<1>7. WholeBag' BY <1>2, <1>3, <1>5 DEF WholeBag, chain
<1>8. OneLands' BY <1>5, ChainFrame
<1>9. InStep' BY <1>4, <1>5 DEF InStep, chain, books
<1>10. ClosedMeansSold' BY <1>5 DEF ClosedMeansSold, chain, books
<1> QED BY <1>6, <1>7, <1>8, <1>9, <1>10

LEMMA MissTickPreserves ==
  ASSUME IInv, MissTick PROVE IInv'
<1> USE DEF IInv
<1>1. /\ phase = "ticks" /\ stale' = stale + 1
      /\ \/ phase' = "done" /\ stale' >= MaxStale
         \/ phase' = "ticks" /\ stale' < MaxStale
      /\ stale \in 0..MaxStale /\ stale < MaxStale
      /\ UNCHANGED <<prev, hwm, locked, partialSold, amount, ticks, early,
                     viaPortal, pipeline, chain, books>>
  BY LimitsAssumption DEF MissTick, InStep, TypeOK
<1>2. TypeOK' BY <1>1, LimitsAssumption DEF TypeOK, pipeline, chain, books
<1>3. WholeBag' BY <1>1 DEF WholeBag, pipeline, chain
<1>4. OneLands' BY <1>1, ChainFrame
<1>5. InStep' BY <1>1 DEF InStep, pipeline, chain, books
<1>6. ClosedMeansSold' BY <1>1 DEF ClosedMeansSold, chain, books
<1> QED BY <1>2, <1>3, <1>4, <1>5, <1>6

LEMMA EndingPreserves ==
  ASSUME IInv, CloseFeed \/ Deadline \/ Elapse
  PROVE  IInv'
<1> USE DEF IInv
<1>1. /\ UNCHANGED <<decision, viaPortal, pipeline, chain, books>>
      /\ phase' \in {phase, "done"} /\ early' \in BOOLEAN
  BY DEF CloseFeed, Deadline, Elapse, TypeOK
<1>2. TypeOK' BY <1>1 DEF TypeOK, decision, pipeline, chain, books
<1>3. WholeBag' BY <1>1 DEF WholeBag, decision, pipeline, chain
<1>4. OneLands' BY <1>1, ChainFrame
<1>5. InStep' BY <1>1 DEF InStep, decision, pipeline, chain, books
<1>6. ClosedMeansSold' BY <1>1 DEF ClosedMeansSold, chain, books
<1> QED BY <1>2, <1>3, <1>4, <1>5, <1>6

(* The sell pipeline.  A sale that fails is the watcher's end.             *)
LEMMA SaleFailsEnds ==
  ASSUME IInv, phase \notin {"ticks", "done"}, SaleFails
  PROVE  /\ phase' = "done" /\ sale' = NoSale /\ attempt' = 0 /\ outcome' = "failed"
         /\ UNCHANGED <<decision, closed, streak>>
         /\ closed = 0
<1>1. sale # NoSale BY NoSaleAssumption DEF IInv, TypeOK
<1>2. sale.final BY <1>1 DEF IInv, WholeBag
<1> QED BY <1>2 DEF IInv, InStep, SaleFails

LEMMA FailurePreserves ==
  ASSUME IInv, phase \notin {"ticks", "done"}, SaleFails,
         UNCHANGED <<early, viaPortal, acked, wallet>>, bundles' \in Seq(Bundles),
         Len(bundles') \in Len(bundles)..MaxAttempts,
         \A i \in DOMAIN bundles' : bundles'[i].amount = Acquired,
         Landed' = Landed
  PROVE  IInv'
<1> USE DEF IInv
<1>1. /\ phase' = "done" /\ sale' = NoSale /\ attempt' = 0 /\ outcome' = "failed"
      /\ UNCHANGED <<decision, closed, streak>> /\ closed = 0
  BY SaleFailsEnds
<1>2. TypeOK'
  <2>1. acked' \in 0..Len(bundles') BY DEF TypeOK
  <2>2. bundles' \in Seq([amount : 0..Acquired, fate : {"open", "landed", "failed"}])
    BY DEF Bundles
  <2>3. attempt' \in 0..MaxAttempts BY <1>1, LimitsAssumption
  <2> QED BY <1>1, <2>1, <2>2, <2>3 DEF TypeOK, decision
<1>3. WholeBag' BY <1>1 DEF WholeBag, decision
<1>4. OneLands' BY DEF OneLands
<1>5. InStep' BY <1>1 DEF InStep, decision
<1>6. ClosedMeansSold' BY <1>1 DEF ClosedMeansSold
<1> QED BY <1>2, <1>3, <1>4, <1>5, <1>6
LEMMA ConnectPreserves ==
  ASSUME IInv, Connect PROVE IInv'
<1> USE DEF IInv
<1>1. phase = "connect" /\ UNCHANGED <<early, viaPortal, acked, chain>> BY DEF Connect
<1>2. CASE SaleFails
  BY <1>1, <1>2, FailurePreserves DEF TypeOK, Bundles, WholeBag, InStep, Landed, chain
<1>3. CASE /\ phase' = "attempt" /\ attempt' = 1
           /\ UNCHANGED <<decision, sale, books>>
  <2>1. TypeOK' BY <1>1, <1>3, LimitsAssumption DEF TypeOK, decision, chain, books
  <2>2. WholeBag' BY <1>1, <1>3 DEF WholeBag, decision, chain
  <2>3. OneLands' BY <1>1, ChainFrame
  <2>4. InStep' BY <1>1, <1>3 DEF InStep, decision, chain, books
  <2>5. ClosedMeansSold' BY <1>1, <1>3 DEF ClosedMeansSold, chain, books
  <2> QED BY <2>1, <2>2, <2>3, <2>4, <2>5
<1> QED BY <1>2, <1>3 DEF Connect

(* An attempt fails, without a bundle or with one that may yet land.       *)
LEMMA AttemptPreserves ==
  ASSUME IInv, phase \in {"attempt", "portal", "signed"}, NextAttempt \/ SaleFails,
         UNCHANGED <<early, viaPortal, acked, wallet>>, bundles' \in Seq(Bundles),
         bundles' = bundles \/ Len(bundles') = Len(bundles) + 1,
         \A i \in DOMAIN bundles' : bundles'[i].amount = Acquired,
         Landed' = Landed
  PROVE  IInv'
<1> USE DEF IInv
<1>1. /\ Len(bundles) \in Nat /\ Len(bundles') \in Nat
      /\ attempt \in 0..MaxAttempts /\ Len(bundles) < attempt
      /\ Len(bundles') \in Len(bundles)..attempt
  BY LenProperties, LimitsAssumption DEF TypeOK, InStep
<1>2. CASE SaleFails
  BY <1>1, <1>2, LimitsAssumption, FailurePreserves
<1>3. CASE ~SaleFails
  <2>1. /\ attempt # MaxAttempts /\ attempt' = attempt + 1
        /\ phase' = "attempt" /\ sale \in Sales
        /\ UNCHANGED <<decision, sale, books>>
    BY <1>3 DEF NextAttempt, TypeOK
  <2>2. TypeOK'
    <3>1. bundles' \in Seq([amount : 0..Acquired, fate : {"open", "landed", "failed"}])
      BY DEF Bundles
    <3>2. acked' \in 0..Len(bundles') BY <1>1 DEF TypeOK
    <3>3. attempt' \in 0..MaxAttempts BY <1>1, <2>1, LimitsAssumption
    <3> QED BY <2>1, <3>1, <3>2, <3>3 DEF TypeOK, decision, books
  <2>3. WholeBag' BY <2>1 DEF WholeBag, decision
  <2>4. OneLands' BY DEF OneLands
  <2>5. InStep' BY <1>1, <2>1, LimitsAssumption DEF InStep, decision, books
  <2>6. ClosedMeansSold' BY <2>1 DEF ClosedMeansSold, InStep, books
  <2> QED BY <2>2, <2>3, <2>4, <2>5, <2>6
<1> QED BY <1>2, <1>3

(* PumpPortal is asked for the transaction and gives one.                  *)
LEMMA PortalPreserves ==
  ASSUME IInv, phase \in {"attempt", "portal"}, phase' \in {"portal", "signed"},
         UNCHANGED <<decision, early, viaPortal, pipeline, chain, books>>
  PROVE  IInv'
<1> USE DEF IInv
<1>1. TypeOK' BY DEF TypeOK, decision, pipeline, chain, books
<1>2. WholeBag' BY DEF WholeBag, decision, pipeline, chain
<1>3. OneLands' BY ChainFrame
<1>4. InStep' BY DEF InStep, decision, pipeline, chain, books
<1>5. ClosedMeansSold' BY DEF ClosedMeansSold, chain, books
<1> QED BY <1>1, <1>2, <1>3, <1>4, <1>5

LEMMA AskPortalPreserves ==
  ASSUME IInv, AskPortal PROVE IInv'
  BY PortalPreserves DEF AskPortal

LEMMA PortalAnswersPreserves ==
  ASSUME IInv, PortalAnswers PROVE IInv'
<1>1. phase = "portal" /\ UNCHANGED <<early, viaPortal, acked, chain>>
  BY DEF PortalAnswers
<1>2. CASE phase' = "signed" /\ UNCHANGED <<decision, sale, attempt, books>>
  BY <1>1, <1>2, PortalPreserves DEF pipeline
<1>3. CASE NextAttempt
  <2>1. /\ bundles' \in Seq(Bundles) /\ bundles' = bundles /\ Landed' = Landed
        /\ \A i \in DOMAIN bundles' : bundles'[i].amount = Acquired
    BY <1>1 DEF IInv, TypeOK, WholeBag, Bundles, Landed, chain
  <2> QED BY <1>1, <1>3, <2>1, AttemptPreserves DEF chain
<1> QED BY <1>2, <1>3 DEF PortalAnswers

LEMMA FailAttemptPreserves ==
  ASSUME IInv, FailAttempt PROVE IInv'
<1>1. /\ bundles' \in Seq(Bundles) /\ bundles' = bundles /\ Landed' = Landed
      /\ \A i \in DOMAIN bundles' : bundles'[i].amount = Acquired
  BY DEF FailAttempt, IInv, TypeOK, WholeBag, Bundles, Landed, chain
<1> QED BY <1>1, AttemptPreserves DEF FailAttempt, chain

LEMMA SendLostPreserves ==
  ASSUME IInv, SendLost PROVE IInv'
<1>1. sale \in Sales BY DEF SendLost, Signed, IInv, TypeOK
<1>2. /\ bundles' \in Seq(Bundles) /\ Len(bundles') = Len(bundles) + 1
      /\ \A i \in DOMAIN bundles' : bundles'[i].amount = Acquired
      /\ Landed' = Landed
  BY <1>1, SentExtends DEF SendLost, IInv, Landed
<1> QED BY <1>2, AttemptPreserves DEF SendLost, Signed

LEMMA SendAckedPreserves ==
  ASSUME IInv, SendAcked PROVE IInv'
<1> USE DEF IInv
<1>1. /\ phase \in {"attempt", "signed"} /\ phase' = "confirm"
      /\ UNCHANGED <<decision, early, viaPortal, sale, attempt, wallet, books>>
      /\ sale \in Sales
  BY DEF SendAcked, Signed, TypeOK
<1>2. /\ bundles' \in Seq(Bundles) /\ Len(bundles') = Len(bundles) + 1
      /\ \A i \in DOMAIN bundles' : bundles'[i].amount = Acquired
      /\ Landed' = Landed
  BY <1>1, SentExtends DEF SendAcked, Landed
<1>3. /\ acked' = Len(bundles') /\ Len(bundles) \in Nat
      /\ attempt \in 0..MaxAttempts /\ Len(bundles) < attempt
      /\ DOMAIN bundles' = 1..Len(bundles')
  <2>1. bundles \in Seq(Bundles) BY DEF TypeOK, Bundles
  <2>2. acked' = Len(bundles') BY DEF SendAcked
  <2>3. attempt \in 0..MaxAttempts /\ Len(bundles) < attempt
    BY <1>1 DEF TypeOK, InStep
  <2> QED BY <1>2, <2>1, <2>2, <2>3, LenProperties
<1>4. TypeOK'
  <2>1. bundles' \in Seq([amount : 0..Acquired, fate : {"open", "landed", "failed"}])
    BY <1>2 DEF Bundles
  <2>2. acked' \in 0..Len(bundles') BY <1>2, <1>3
  <2> QED BY <1>1, <2>1, <2>2 DEF TypeOK, decision, books
<1>5. WholeBag' BY <1>1, <1>2 DEF WholeBag, decision
<1>6. OneLands' BY <1>1, <1>2 DEF OneLands
<1>7. InStep' BY <1>1, <1>2, <1>3, LimitsAssumption DEF InStep, decision, books
<1>8. ClosedMeansSold' BY <1>1 DEF ClosedMeansSold, books, InStep
<1> QED BY <1>4, <1>5, <1>6, <1>7, <1>8

LEMMA ConfirmPreserves ==
  ASSUME IInv, Confirm PROVE IInv'
<1> USE DEF IInv
<1>1. phase = "confirm" /\ sale # NoSale /\ sale.final /\ closed = 0
  BY NoSaleAssumption DEF Confirm, TypeOK, WholeBag, InStep
<1>2. /\ phase' = "done" /\ sale' = NoSale /\ attempt' = 0 /\ outcome' = "confirmed"
      /\ closed' = 1 /\ UNCHANGED <<decision, early, viaPortal, acked, chain>>
      /\ \E r \in {"win", "loss"} : streak' = Append(streak, r)
  BY <1>1 DEF Confirm, decision
<1>3. acked \in Landed BY <1>1 DEF Confirm, InStep, Landed
<1>4. streak' \in Seq({"win", "loss"}) /\ Len(streak') = Len(streak) + 1
  BY <1>2, AppendProperties DEF TypeOK
<1>5. wallet = 0 BY <1>3 DEF OneLands
<1>6. TypeOK'
  <2>1. attempt' \in 0..MaxAttempts BY <1>2, LimitsAssumption
  <2> QED BY <1>2, <1>4, <2>1 DEF TypeOK, decision, chain
<1>7. WholeBag' BY <1>2 DEF WholeBag, decision, chain
<1>8. OneLands' BY <1>2, ChainFrame
<1>9. InStep' BY <1>2 DEF InStep, decision, chain
<1>10. ClosedMeansSold' BY <1>1, <1>2, <1>4, <1>5 DEF ClosedMeansSold, chain
<1> QED BY <1>6, <1>7, <1>8, <1>9, <1>10

LEMMA FailConfirmPreserves ==
  ASSUME IInv, FailConfirm PROVE IInv'
<1>1. /\ bundles' \in Seq(Bundles) /\ bundles' = bundles /\ Landed' = Landed
      /\ Len(bundles') \in Len(bundles)..MaxAttempts
      /\ \A i \in DOMAIN bundles' : bundles'[i].amount = Acquired
  BY LenProperties, LimitsAssumption
  DEF FailConfirm, IInv, TypeOK, WholeBag, InStep, Bundles, Landed, chain
<1> QED BY <1>1, FailurePreserves DEF FailConfirm, chain
(* The chain: a bundle lands only if none has before, since it needs all   *)
(* the tokens of the bag.                                                  *)
LEMMA SettlePreserves ==
  ASSUME IInv, NEW n \in DOMAIN bundles, Settle(n)
  PROVE  IInv'
<1> USE DEF IInv
<1>1. PICK f \in {"landed", "failed"} :
        /\ bundles' = [bundles EXCEPT ![n].fate = f]
        /\ f = "landed" => wallet >= Acquired /\ wallet' = wallet - Acquired
        /\ f = "failed" => wallet' = wallet
  BY DEF Settle, WholeBag
<1>2. bundles[n].fate = "open" /\ UNCHANGED <<phase, decision, early, viaPortal, pipeline, books>>
  BY DEF Settle
<1>3. bundles \in Seq(Bundles) BY DEF TypeOK, Bundles
<1>4. /\ bundles' \in Seq(Bundles) /\ Len(bundles') = Len(bundles)
      /\ DOMAIN bundles' = DOMAIN bundles
      /\ \A i \in DOMAIN bundles : /\ bundles'[i].amount = bundles[i].amount
                                   /\ i # n => bundles'[i] = bundles[i]
      /\ bundles'[n].fate = f
  <2>1. [bundles[n] EXCEPT !.fate = f] \in Bundles
    <3>1. bundles[n] \in Bundles BY <1>3, ElementOfSeq, LenProperties
    <3> QED BY <3>1 DEF Bundles
  <2>2. bundles' = [bundles EXCEPT ![n] = [bundles[n] EXCEPT !.fate = f]] BY <1>1
  <2>3. DOMAIN bundles = 1..Len(bundles) BY <1>3, LenProperties
  <2>4. bundles' \in Seq(Bundles) /\ Len(bundles') = Len(bundles)
    BY <1>3, <2>1, <2>2, <2>3, ExceptSeq
  <2>5. DOMAIN bundles' = DOMAIN bundles BY <2>2
  <2>6. bundles[n] \in Bundles BY <1>3, <2>3, ElementOfSeq
  <2>7. /\ [bundles[n] EXCEPT !.fate = f].amount = bundles[n].amount
        /\ [bundles[n] EXCEPT !.fate = f].fate = f
    BY <2>6 DEF Bundles
  <2> QED BY <2>2, <2>4, <2>5, <2>7
<1>5. /\ f = "landed" => Landed = {} /\ Landed' = {n} /\ wallet' = 0 /\ closed # 1
      /\ f = "failed" => Landed' = Landed
  <2>1. f = "landed" => Landed = {} /\ wallet' = 0 /\ closed # 1
    <3>1. Acquired \in Nat \ {0} /\ wallet \in {0, Acquired}
      BY PricesAssumption DEF OneLands
    <3>2. f = "landed" => wallet = Acquired BY <1>1, <3>1
    <3> QED BY <1>1, <3>1, <3>2 DEF OneLands, ClosedMeansSold
  <2>2. Landed' = IF f = "landed" THEN Landed \cup {n} ELSE Landed
    BY <1>2, <1>4 DEF Landed
  <2> QED BY <2>1, <2>2
<1>6. TypeOK'
  <2>1. bundles' \in Seq([amount : 0..Acquired, fate : {"open", "landed", "failed"}])
    BY <1>4 DEF Bundles
  <2>2. acked' \in 0..Len(bundles') BY <1>2, <1>4 DEF TypeOK, pipeline
  <2>3. wallet' \in 0..Acquired BY <1>1, <1>5, PricesAssumption DEF TypeOK
  <2> QED BY <1>2, <2>1, <2>2, <2>3 DEF TypeOK, decision, pipeline, books
<1>7. WholeBag' BY <1>2, <1>4 DEF WholeBag, decision, pipeline
<1>8. OneLands' BY <1>1, <1>5 DEF OneLands
<1>9. InStep' BY <1>2, <1>4 DEF InStep, decision, pipeline, books
<1>10. ClosedMeansSold' BY <1>1, <1>2, <1>5 DEF ClosedMeansSold, books
<1> QED BY <1>6, <1>7, <1>8, <1>9, <1>10

(* Every step preserves the inductive invariant.                           *)
LEMMA StepPreserves == IInv /\ [Next]_vars => IInv'
<1> SUFFICES ASSUME IInv, [Next]_vars PROVE IInv' OBVIOUS
<1>1. CASE UNCHANGED vars
  <2>1. TypeOK' BY <1>1 DEF IInv, TypeOK, vars, decision, pipeline, chain, books
  <2>2. WholeBag' BY <1>1 DEF IInv, WholeBag, vars, decision, pipeline, chain
  <2>3. OneLands' BY <1>1, ChainFrame DEF IInv, vars
  <2>4. InStep' BY <1>1 DEF IInv, InStep, vars, decision, pipeline, chain, books
  <2>5. ClosedMeansSold' BY <1>1 DEF IInv, ClosedMeansSold, vars, chain, books
  <2> QED BY <2>1, <2>2, <2>3, <2>4, <2>5 DEF IInv
<1>2. CASE SellPipeline
  BY <1>2, ConnectPreserves, AskPortalPreserves, FailAttemptPreserves, SendAckedPreserves, SendLostPreserves,
     ConfirmPreserves, FailConfirmPreserves DEF SellPipeline
<1> QED
  BY <1>1, <1>2, TickPreserves, MissTickPreserves, EndingPreserves, SettlePreserves,
     PortalAnswersPreserves
  DEF Next

-----------------------------------------------------------------------------
(* IInv holds throughout every behaviour.                                  *)
THEOREM Inductive == Spec => []IInv
  BY InitEstablishes, StepPreserves, PTL DEF Spec

(* Everything keeps its type; the tick and attempt counters keep within    *)
(* their limits.                                                           *)
THEOREM TypeCorrect == Spec => []TypeOK
<1>1. IInv => TypeOK BY DEF IInv
<1> QED BY <1>1, Inductive, PTL

(* The books are closed at most once, and only for a position that is sold *)
(* on the chain, for any limits and any loss of answers.                   *)
THEOREM BooksCloseOnce == Spec => []ClosedMeansSold
<1>1. IInv => ClosedMeansSold BY DEF IInv
<1> QED BY <1>1, Inductive, PTL

(* However many sell bundles are sent because answers were lost, at most   *)
(* one of them lands, and there are no more of them than attempts.         *)
THEOREM BagSoldOnce == Spec => []RetrySellsOnce
<1>1. IInv => RetrySellsOnce BY DEF IInv, RetrySellsOnce, OneLands, InStep, Landed
<1> QED BY <1>1, Inductive, PTL
=============================================================================
