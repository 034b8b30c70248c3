------------------------- MODULE SignalIntake_proofs -------------------------
(***************************************************************************)
(* Proofs about SignalIntake, for any wallets, payloads, file versions,    *)
(* channel capacity and requests.  ListIsFile is inductive together with   *)
(* the types; LiveNeedsBothFlags needs ModeFollowsFlags, since what leaves *)
(* the channel depends on the mode and the mode on the flags.  For         *)
(* TradesAccounted every request is looked at alone: a handler in the      *)
(* middle of a trade is inside one that is a signal, and the signals it    *)
(* handed over are all of trades behind it.                                *)
(***************************************************************************)
EXTENDS SignalIntake, SequenceTheorems, TLAPS

ModeFollowsFlags ==
  /\ mode = "live" => dryRun = "false" /\ liveExecution = "true"
  /\ received # <<>> => mode = "live"

IInv == TypeOK /\ ListIsFile /\ ModeFollowsFlags

-----------------------------------------------------------------------------
(* A list has a lane for every wallet, whatever the file says.             *)
LEMMA LoadIsList ==
  /\ Nobody \in [Wallets -> Lanes]
  /\ \A rows : Load(rows) \in [Wallets -> Lanes]
  /\ \A v : ListOf(v) \in [Wallets -> Lanes]
<1>1. Nobody \in [Wallets -> Lanes] BY DEF Nobody, Lanes
<1>2. \A row : LaneOf(row) \in Lanes BY DEF LaneOf, Lanes
<1>3. "Unknown" \in Lanes BY DEF Lanes
<1>4. \A rows : Load(rows) \in [Wallets -> Lanes] BY <1>2, <1>3 DEF Load
<1> QED BY <1>1, <1>4 DEF ListOf

(* The initial state satisfies the inductive invariant.                    *)
LEMMA InitEstablishes == Init => IInv
<1> SUFFICES ASSUME Init PROVE IInv OBVIOUS
<1>1. ListOf(1) = Load(Files[1]) /\ 1 \in DOMAIN Files
  BY FilesAssumption DEF ListOf
<1>2. TypeOK
  <2>1. <<>> \in Seq(Signals) /\ Len(<<>>) = 0 OBVIOUS
  <2>2. channel \in Seq(Signals) /\ Len(channel) <= ChannelCap /\ received \in Seq(Signals)
    BY <2>1, CapAssumption DEF Init
  <2>3. watchlist \in [Wallets -> Lanes] BY LoadIsList DEF Init
  <2> QED BY <1>1, <2>2, <2>3 DEF Init, TypeOK
<1>3. ListIsFile BY <1>1 DEF Init, ListIsFile
<1>4. ModeFollowsFlags BY DEF Init, ModeFollowsFlags
<1> QED BY <1>2, <1>3, <1>4 DEF IInv

(* A signal the handler makes is one, and has a size.                      *)
LEMMA SignalOfIsSignal ==
  ASSUME TypeOK, NEW r \in Requests, lane[r] # "none"
  PROVE  SignalOf(r) \in Signals
  BY DEF TypeOK, SignalOf, Signals, TradeSize

-----------------------------------------------------------------------------
(* The start, and the handlers.                                            *)
LEMMA StartPreserves ==
  ASSUME IInv, Start PROVE IInv'
<1> USE DEF IInv
<1>1. TypeOK'
  BY DEF Start, Policy, TypeOK, handlers, signals, reloader
<1>2. ListIsFile' BY DEF Start, ListIsFile, Shows, reloader
<1>3. ModeFollowsFlags'
  BY DEF Start, Policy, ModeFollowsFlags, signals
<1> QED BY <1>1, <1>2, <1>3

LEMMA AuthorizePreserves ==
  ASSUME IInv, NEW r \in Requests, NEW trades \in Payloads, Authorize(r, trades)
  PROVE  IInv'
<1> USE DEF IInv
<1>1. TypeOK' BY DEF Authorize, TypeOK, startup, signals, reloader
<1> QED BY <1>1 DEF Authorize, ListIsFile, Shows, ModeFollowsFlags, startup, signals, reloader

LEMMA UnauthorizedPreserves ==
  ASSUME IInv, NEW r \in Requests, Unauthorized(r)
  PROVE  IInv'
<1> USE DEF IInv
<1>1. TypeOK' BY DEF Unauthorized, TypeOK, startup, signals, reloader
<1> QED BY <1>1 DEF Unauthorized, ListIsFile, Shows, ModeFollowsFlags, startup, signals, reloader

LEMMA RefuseBodyPreserves ==
  ASSUME IInv, NEW r \in Requests, NEW trades \in Payloads, RefuseBody(r, trades)
  PROVE  IInv'
<1> USE DEF IInv
<1>1. TypeOK' BY DEF RefuseBody, TypeOK, startup, signals, reloader
<1> QED BY <1>1 DEF RefuseBody, ListIsFile, Shows, ModeFollowsFlags, startup, signals, reloader

LEMMA HandlePreserves ==
  ASSUME IInv, NEW r \in Requests, Handle(r)
  PROVE  IInv'
<1> USE DEF IInv
<1>1. UNCHANGED <<startup, version, reloader, received>>
  BY DEF Handle, Skip, Match, Send, Drop, Answer, signals
<1>2. ListIsFile' /\ ModeFollowsFlags'
  BY <1>1 DEF ListIsFile, Shows, ModeFollowsFlags, startup, reloader
<1>3. CASE Skip(r)
  <2>1. at' \in [Requests -> Nat \ {0}] BY <1>3 DEF Skip, TypeOK
  <2> QED BY <1>2, <1>3, <2>1 DEF Skip, TypeOK, startup, signals, reloader
<1>4. CASE Match(r)
  <2>1. lane' \in [Requests -> Lanes \cup {"none"}]
    <3>1. body[r] \in Payloads BY <1>4 DEF Match, Pending, TypeOK
    <3>2. Trade(r).wallet \in Wallets
      BY <1>4, <3>1, PayloadsAssumption DEF Match, Pending, Trade, TypeOK
    <3> QED BY <1>4, <3>2 DEF Match, TypeOK
  <2> QED BY <1>2, <1>4, <2>1 DEF Match, TypeOK, startup, signals, reloader
<1>5. CASE Send(r)
  <2>1. channel' \in Seq(Signals) /\ Len(channel') <= ChannelCap
    BY <1>5, SignalOfIsSignal, CapAssumption DEF Send, TypeOK
  <2> QED BY <1>2, <1>5, <2>1 DEF Send, TypeOK, startup, reloader
<1>6. CASE Drop(r)
  <2>1. dropped' \subseteq Signals BY <1>6, SignalOfIsSignal DEF Drop, TypeOK
  <2> QED BY <1>2, <1>6, <2>1 DEF Drop, TypeOK, startup, reloader
<1>7. CASE Answer(r)
  BY <1>2, <1>7 DEF Answer, TypeOK, startup, signals, reloader
<1> QED BY <1>3, <1>4, <1>5, <1>6, <1>7 DEF Handle

LEMMA ReceivePreserves ==
  ASSUME IInv, Receive PROVE IInv'
<1> USE DEF IInv
<1>1. /\ channel' \in Seq(Signals) /\ Len(channel') <= ChannelCap
      /\ received' \in Seq(Signals)
  <2>1. Head(channel) \in Signals /\ Tail(channel) \in Seq(Signals)
        /\ Len(Tail(channel)) = Len(channel) - 1
    BY HeadTailProperties DEF Receive, TypeOK
  <2> QED BY <2>1, CapAssumption DEF Receive, TypeOK
<1>2. TypeOK' BY <1>1 DEF Receive, TypeOK, startup, handlers, reloader
<1>3. ListIsFile' BY DEF Receive, ListIsFile, Shows, reloader
<1>4. ModeFollowsFlags' BY DEF Receive, ModeFollowsFlags, startup
<1> QED BY <1>2, <1>3, <1>4

(* The file and the reloader; only these steps touch the watchlist.        *)
LEMMA EditPreserves ==
  ASSUME IInv, Edit PROVE IInv'
<1> USE DEF IInv
<1>1. version' \in DOMAIN Files BY FilesAssumption DEF Edit, TypeOK
<1>2. TypeOK'
  BY <1>1, FilesAssumption DEF Edit, TypeOK, startup, handlers, signals, reloader
<1>3. ListIsFile'
  <2>1. UNCHANGED <<watchlist, phase, loaded>> /\ 1..version \subseteq 1..version'
    BY FilesAssumption DEF Edit, TypeOK, reloader
  <2> QED BY <2>1 DEF ListIsFile, Shows
<1> QED BY <1>2, <1>3 DEF Edit, ModeFollowsFlags, startup, signals

LEMMA ReloadPreserves ==
  ASSUME IInv, Reload PROVE IInv'
<1> USE DEF IInv
<1>1. UNCHANGED <<startup, handlers, signals, version>>
  BY DEF Reload, FirstPoll, NoticeEdit, LoadFile, Cleared, Filled, ClearEntry, FillEntry
<1>2. ModeFollowsFlags' BY <1>1 DEF ModeFollowsFlags, startup, signals
<1> DEFINE Goal == /\ watchlist' \in [Wallets -> Lanes]
                   /\ phase' \in {"sleep", "load", "clear", "fill"}
                   /\ lastModified' \in 0..version
                   /\ modified' \in 0..version
                   /\ loaded' \in (1..version) \cup {Unreadable}
                   /\ ListIsFile'
<1>3. SUFFICES Goal
  BY <1>1, <1>2 DEF TypeOK, startup, handlers, signals
<1>4. version \in Nat \ {0} BY FilesAssumption DEF TypeOK
<1>5. CASE FirstPoll BY <1>4, <1>5 DEF FirstPoll, TypeOK, ListIsFile
<1>6. CASE NoticeEdit BY <1>4, <1>6 DEF NoticeEdit, TypeOK, ListIsFile
<1>7. CASE LoadFile
  <2>1. /\ loaded' \in (1..version) \cup {Unreadable} /\ phase' = "clear"
        /\ UNCHANGED <<watchlist, lastModified, modified>>
    BY <1>4, <1>7 DEF LoadFile, TypeOK
  <2>2. watchlist = ListOf(loaded) BY <1>7 DEF LoadFile, ListIsFile
  <2>3. \E v \in (1..version) \cup {Unreadable} : Shows(v)
    BY <2>2 DEF Shows, TypeOK
  <2>4. ListIsFile' BY <1>1, <2>1, <2>3 DEF ListIsFile, Shows
  <2> QED BY <2>1, <2>4 DEF TypeOK
<1>8. CASE Cleared BY <1>8 DEF Cleared, TypeOK, ListIsFile, Shows, Nobody
<1>9. CASE Filled BY <1>9 DEF Filled, TypeOK, ListIsFile, Shows
<1>10. ASSUME NEW w \in Wallets, ClearEntry(w) PROVE Goal
  <2>1. watchlist' \in [Wallets -> Lanes] BY <1>10 DEF ClearEntry, TypeOK, Lanes
  <2>2. ListIsFile'
    BY <1>1, <1>10 DEF ClearEntry, TypeOK, ListIsFile, Shows
  <2> QED BY <1>10, <2>1, <2>2 DEF ClearEntry, TypeOK
<1>11. ASSUME NEW w \in Wallets, FillEntry(w) PROVE Goal
  <2>1. watchlist' \in [Wallets -> Lanes]
    BY <1>11, LoadIsList DEF FillEntry, TypeOK
  <2> QED BY <1>11, <2>1 DEF FillEntry, TypeOK, ListIsFile, Shows
<1> QED
  BY <1>5, <1>6, <1>7, <1>8, <1>9, <1>10, <1>11 DEF Reload

(* Every step preserves the inductive invariant.                           *)
LEMMA StepPreserves == IInv /\ [Next]_vars => IInv'
<1> SUFFICES ASSUME IInv, [Next]_vars PROVE IInv' OBVIOUS
<1>1. CASE UNCHANGED vars
  BY <1>1 DEF IInv, TypeOK, ListIsFile, Shows, ModeFollowsFlags, vars, startup, handlers,
              signals, reloader
<1> QED
  BY <1>1, StartPreserves, AuthorizePreserves, UnauthorizedPreserves, RefuseBodyPreserves,
     HandlePreserves, ReceivePreserves, EditPreserves, ReloadPreserves DEF Next

-----------------------------------------------------------------------------
(* IInv holds throughout every behaviour.                                  *)
THEOREM Inductive == Spec => []IInv
  BY InitEstablishes, StepPreserves, PTL DEF Spec

(* Everything keeps its type; the channel keeps its bound, however many    *)
(* requests are handled at once.                                           *)
THEOREM TypeCorrect == Spec => []TypeOK
<1>1. IInv => TypeOK BY DEF IInv
<1> QED BY <1>1, Inductive, PTL

(* Whoever asks the list at any moment of a reload sees entries of one     *)
(* version of the file or none: that last read until the list is cleared,  *)
(* its remains meanwhile, and only that just read while it is filled; for  *)
(* any files, and edits at any moment.                                     *)
THEOREM VersionsNeverMix == Spec => []ListIsFile
<1>1. IInv => ListIsFile BY DEF IInv
<1> QED BY <1>1, Inductive, PTL

(* Without both switches no signal leaves the channel, whatever the        *)
(* environment holds.                                                      *)
THEOREM ShadowNeverConsumes == Spec => []LiveNeedsBothFlags
<1>1. IInv => LiveNeedsBothFlags BY DEF IInv, ModeFollowsFlags, LiveNeedsBothFlags
<1> QED BY <1>1, Inductive, PTL

-----------------------------------------------------------------------------
(* Every trade accounted for.  A handler is only ever between matching and *)
(* sending inside a trade that is a signal, and a request that was not     *)
(* authorised has passed no trade; then each step of a handler adds its    *)
(* trade to at most one side, behind all that went before.                 *)
MatchedInside == \A r \in Requests : lane[r] # "none" => Pending(r) /\ IsSignal(Trade(r))

NotBegun == \A r \in Requests : status[r] \in {"none", "unauthorized", "malformed"} => at[r] = 1

AInv == MatchedInside /\ NotBegun /\ TradesAccounted

(* What AInv says of one request.                                          *)
Inside(r) ==
  /\ lane[r] # "none" => Pending(r) /\ IsSignal(Trade(r))
  /\ status[r] \in {"none", "unauthorized", "malformed"} => at[r] = 1

Counted(r) ==
  /\ \A i, j \in Places(r) : i < j => Accepted[i].nth < Accepted[j].nth
  /\ QueuedOf(r) \cap RefusedOf(r) = {}
  /\ QueuedOf(r) \cup RefusedOf(r) = {n \in 1..(at[r] - 1) : IsSignal(body[r][n])}

LEMMA PerRequest == AInv <=> \A r \in Requests : Inside(r) /\ Counted(r)
  BY DEF AInv, MatchedInside, NotBegun, TradesAccounted, Inside, Counted

LEMMA PerRequestNext ==
  ASSUME \A r \in Requests : Inside(r)' /\ Counted(r)'
  PROVE  AInv'
  BY DEF AInv, MatchedInside, NotBegun, TradesAccounted, Inside, Counted

LEMMA AcceptedTyped ==
  ASSUME TypeOK
  PROVE  /\ Accepted \in Seq(Signals) /\ Len(Accepted) \in Nat
         /\ DOMAIN Accepted = 1..Len(Accepted)
         /\ \A i \in DOMAIN Accepted : Accepted[i].nth \in Nat
<1>1. Accepted \in Seq(Signals)
  BY ConcatProperties DEF TypeOK, Accepted
<1>2. \A i \in 1..Len(Accepted) : Accepted[i] \in Signals
  BY <1>1, ElementOfSeq
<1> QED BY <1>1, <1>2, LenProperties DEF Signals

(* A step that leaves a request and the two lists alone keeps its account. *)
LEMMA OthersKeep ==
  ASSUME AInv, NEW r \in Requests, UNCHANGED <<Accepted, dropped>>,
         body'[r] = body[r], at'[r] = at[r], lane'[r] = lane[r],
         status'[r] = status[r]
  PROVE  Inside(r)' /\ Counted(r)'
<1>1. Inside(r) /\ Counted(r) BY PerRequest
<1>2. Places(r)' = Places(r) /\ RefusedOf(r)' = RefusedOf(r)
  BY DEF Places, RefusedOf
<1>3. QueuedOf(r)' = QueuedOf(r) BY <1>2 DEF QueuedOf
<1>4. Inside(r)' BY <1>1 DEF Inside, Pending, Trade
<1>5. Counted(r)' BY <1>1, <1>2, <1>3 DEF Counted
<1> QED BY <1>4, <1>5

(* A step that adds nothing to either list, seen from any request.         *)
LEMMA PassKeeps ==
  ASSUME AInv, NEW r \in Requests, UNCHANGED <<Accepted, dropped>>,
         {n \in 1..(at'[r] - 1) : IsSignal(body'[r][n])}
           = {n \in 1..(at[r] - 1) : IsSignal(body[r][n])}
  PROVE  Counted(r)'
<1>1. Counted(r) BY PerRequest
<1>2. Places(r)' = Places(r) /\ RefusedOf(r)' = RefusedOf(r)
  BY DEF Places, RefusedOf
<1>3. QueuedOf(r)' = QueuedOf(r) BY <1>2 DEF QueuedOf
<1> QED BY <1>1, <1>2, <1>3 DEF Counted

LEMMA InitAccounts == Init => AInv
<1> SUFFICES ASSUME Init PROVE AInv OBVIOUS
<1>1. DOMAIN Accepted = {} BY DEF Init, Accepted
<1>2. ASSUME NEW r \in Requests PROVE Inside(r) /\ Counted(r)
  <2>1. Places(r) = {} /\ QueuedOf(r) = {} BY <1>1 DEF Places, QueuedOf
  <2>2. RefusedOf(r) = {} BY DEF Init, RefusedOf
  <2>3. 1..(at[r] - 1) = {} /\ at[r] = 1 /\ lane[r] = "none" BY DEF Init
  <2> QED BY <2>1, <2>2, <2>3 DEF Inside, Counted
<1> QED BY <1>2, PerRequest

(* A handler that takes nothing in hand and nothing away.                  *)
LEMMA OpenAccounts ==
  ASSUME IInv, AInv, NEW q \in Requests, NEW trades,
         \/ Authorize(q, trades) \/ RefuseBody(q, trades) \/ Unauthorized(q)
         \/ Match(q) \/ Answer(q) \/ Skip(q)
  PROVE  AInv'
<1>1. UNCHANGED <<Accepted, dropped>>
  BY DEF Authorize, RefuseBody, Unauthorized, Match, Answer, Skip, signals, Accepted
<1>2. /\ DOMAIN body = Requests /\ DOMAIN at = Requests /\ DOMAIN lane = Requests
      /\ DOMAIN status = Requests /\ at[q] \in Nat \ {0}
  BY DEF IInv, TypeOK
<1>3. ASSUME NEW r \in Requests, r # q PROVE Inside(r)' /\ Counted(r)'
  <2>1. /\ body'[r] = body[r] /\ at'[r] = at[r] /\ lane'[r] = lane[r]
        /\ status'[r] = status[r]
    BY <1>2, <1>3 DEF Authorize, RefuseBody, Unauthorized, Match, Answer, Skip
  <2> QED BY <1>1, <2>1, OthersKeep
<1>4. Inside(q) BY PerRequest
<1>5. CASE Authorize(q, trades)
  <2>1. at[q] = 1 /\ lane[q] = "none" BY <1>4, <1>5 DEF Authorize, Inside, Pending
  <2>2. at'[q] = 1 /\ lane'[q] = "none" /\ status'[q] = "open"
    BY <1>2, <1>5, <2>1 DEF Authorize
  <2>3. Inside(q)' BY <2>2 DEF Inside
  <2>4. 1..(at[q] - 1) = {} /\ 1..(at'[q] - 1) = {} BY <2>1, <2>2
  <2>5. Counted(q)' BY <1>1, <2>4, PassKeeps
  <2> QED BY <1>3, <2>3, <2>5, PerRequestNext
<1>6. CASE Unauthorized(q)
  <2>1. at[q] = 1 /\ lane[q] = "none" BY <1>4, <1>6 DEF Unauthorized, Inside, Pending
  <2>2. at' = at /\ lane' = lane /\ body' = body BY <1>6 DEF Unauthorized
  <2>3. Inside(q)' BY <2>1, <2>2 DEF Inside
  <2>4. Counted(q)' BY <1>1, <2>2, PassKeeps
  <2> QED BY <1>3, <2>3, <2>4, PerRequestNext
<1>7. CASE Match(q)
  <2>1. at' = at /\ status' = status /\ body' = body BY <1>7 DEF Match
  <2>2. Inside(q)' BY <1>4, <1>7, <2>1 DEF Match, Inside, Pending, Trade
  <2>3. Counted(q)' BY <1>1, <2>1, PassKeeps
  <2> QED BY <1>3, <2>2, <2>3, PerRequestNext
<1>8. CASE Answer(q)
  <2>1. at' = at /\ lane' = lane /\ body' = body BY <1>8 DEF Answer
  <2>2. lane[q] = "none" /\ status'[q] = "ok"
    <3>1. Len(body[q]) \in Nat
      BY PayloadsAssumption DEF IInv, TypeOK
    <3> QED BY <1>2, <1>4, <1>8, <3>1 DEF Answer, Inside, Pending
  <2>3. Inside(q)' BY <2>1, <2>2 DEF Inside
  <2>4. Counted(q)' BY <1>1, <2>1, PassKeeps
  <2> QED BY <1>3, <2>3, <2>4, PerRequestNext
<1>9. CASE Skip(q)
  <2>1. /\ at'[q] = at[q] + 1 /\ lane' = lane /\ body' = body /\ status' = status
        /\ ~IsSignal(body[q][at[q]]) /\ status[q] = "open"
    BY <1>2, <1>9 DEF Skip, Pending, Trade
  <2>2. lane[q] = "none" BY <1>4, <1>9 DEF Skip, Inside
  <2>3. Inside(q)' BY <2>1, <2>2 DEF Inside
  <2>4. \A n \in 1..(at'[q] - 1) : n \in 1..(at[q] - 1) \/ n = at[q]
    BY <1>2, <2>1
  <2>5. \A n \in 1..(at[q] - 1) : n \in 1..(at'[q] - 1) BY <1>2, <2>1
  <2>6. Counted(q)' BY <1>1, <2>1, <2>4, <2>5, PassKeeps
  <2> QED BY <1>3, <2>3, <2>6, PerRequestNext
<1>10. CASE RefuseBody(q, trades)
  <2>1. at[q] = 1 /\ lane[q] = "none" BY <1>4, <1>10 DEF RefuseBody, Inside, Pending
  <2>2. at' = at /\ lane' = lane BY <1>10 DEF RefuseBody
  <2>3. Inside(q)' BY <2>1, <2>2 DEF Inside
  <2>4. 1..(at[q] - 1) = {} /\ 1..(at'[q] - 1) = {} BY <2>1, <2>2
  <2>5. Counted(q)' BY <1>1, <2>4, PassKeeps
  <2> QED BY <1>3, <2>3, <2>5, PerRequestNext
<1> QED BY <1>5, <1>6, <1>7, <1>8, <1>9, <1>10

(* Both ways a signal leaves its handler pass one trade that is a signal.  *)
LEMMA HandedOver ==
  ASSUME IInv, AInv, NEW q \in Requests, lane[q] # "none",
         at' = [at EXCEPT ![q] = @ + 1], body' = body
  PROVE  /\ {n \in 1..(at'[q] - 1) : IsSignal(body'[q][n])}
              = {n \in 1..(at[q] - 1) : IsSignal(body[q][n])} \cup {at[q]}
         /\ at[q] \in Nat
         /\ \A n \in QueuedOf(q) \cup RefusedOf(q) : n \in Nat /\ n < at[q]
<1>1. at[q] \in Nat \ {0} /\ DOMAIN at = Requests BY DEF IInv, TypeOK
<1>2. IsSignal(body[q][at[q]]) BY PerRequest DEF Inside, Trade
<1>3. at'[q] = at[q] + 1 BY <1>1
<1>4. \A n \in 1..(at'[q] - 1) : n \in 1..(at[q] - 1) \/ n = at[q] BY <1>1, <1>3
<1>5. /\ \A n \in 1..(at[q] - 1) : n \in 1..(at'[q] - 1) /\ n \in Nat /\ n < at[q]
      /\ at[q] \in 1..(at'[q] - 1)
  BY <1>1, <1>3
<1>6. \A n \in QueuedOf(q) \cup RefusedOf(q) : n \in 1..(at[q] - 1)
  BY PerRequest DEF Counted
<1> QED BY <1>1, <1>2, <1>4, <1>5, <1>6

LEMMA SendAccounts ==
  ASSUME IInv, AInv, NEW q \in Requests, Send(q) PROVE AInv'
<1> DEFINE L == Len(Accepted)
<1>1. /\ lane[q] # "none" /\ dropped' = dropped /\ body' = body /\ status' = status
      /\ at' = [at EXCEPT ![q] = @ + 1] /\ lane' = [lane EXCEPT ![q] = "none"]
  BY DEF Send
<1>2. TypeOK /\ SignalOf(q) \in Signals BY <1>1, SignalOfIsSignal DEF IInv
<1>3. /\ DOMAIN at = Requests /\ DOMAIN lane = Requests BY <1>2 DEF TypeOK
<1>4. Accepted' = Append(Accepted, SignalOf(q))
  <2>1. channel \in Seq(Signals) /\ received \in Seq(Signals) BY <1>2 DEF TypeOK
  <2>2. received' = received /\ channel' = channel \o <<SignalOf(q)>>
    BY <1>2, <2>1, AppendIsConcat DEF Send
  <2> QED BY <1>2, <2>1, <2>2, ConcatAssociative, AppendIsConcat DEF Accepted
<1>5. /\ Accepted \in Seq(Signals) /\ L \in Nat /\ DOMAIN Accepted = 1..L
      /\ \A i \in DOMAIN Accepted : Accepted[i].nth \in Nat
  BY <1>2, AcceptedTyped
<1>6. /\ DOMAIN Accepted' = 1..(L + 1) /\ Accepted'[L + 1] = SignalOf(q)
      /\ \A i \in 1..L : Accepted'[i] = Accepted[i]
  BY <1>2, <1>4, <1>5, AppendProperties
<1>7. ASSUME NEW r \in Requests, r # q PROVE Inside(r)' /\ Counted(r)'
  <2>1. Inside(r) /\ Counted(r) BY PerRequest
  <2>2. at'[r] = at[r] /\ lane'[r] = lane[r] BY <1>1, <1>3, <1>7
  <2>3. Places(r)' = Places(r)
    <3>1. SignalOf(q).request = q BY DEF SignalOf
    <3>2. Accepted'[L + 1].request # r BY <1>6, <1>7, <3>1
    <3>3. \A i \in 1..(L + 1) : i \in 1..L \/ i = L + 1 BY <1>5
    <3>4. \A i \in 1..L : i \in 1..(L + 1) BY <1>5
    <3> QED BY <1>5, <1>6, <3>2, <3>3, <3>4 DEF Places
  <2>4. \A i \in Places(r) : Accepted'[i] = Accepted[i] BY <1>5, <1>6 DEF Places
  <2>5. QueuedOf(r)' = QueuedOf(r) /\ RefusedOf(r)' = RefusedOf(r)
    BY <1>1, <2>3, <2>4 DEF QueuedOf, RefusedOf
  <2>6. Inside(r)' BY <1>1, <2>1, <2>2 DEF Inside, Pending, Trade
  <2>7. Counted(r)' BY <1>1, <2>1, <2>2, <2>3, <2>4, <2>5 DEF Counted
  <2> QED BY <2>6, <2>7
<1>8. Inside(q)' /\ Counted(q)'
  <2>1. Inside(q) /\ Counted(q) BY PerRequest
  <2>2. lane'[q] = "none" /\ status[q] = "open"
    BY <1>1, <1>3, <2>1 DEF Inside, Pending
  <2>3. SignalOf(q).request = q /\ SignalOf(q).nth = at[q] BY DEF SignalOf
  <2>4. Places(q)' = Places(q) \cup {L + 1}
    <3>1. \A i \in 1..(L + 1) : i \in 1..L \/ i = L + 1 BY <1>5
    <3>2. \A i \in 1..L : i \in 1..(L + 1) BY <1>5
    <3>3. L + 1 \in 1..(L + 1) BY <1>5
    <3> QED BY <1>5, <1>6, <2>3, <3>1, <3>2, <3>3 DEF Places
  <2>5. /\ \A i \in Places(q) : Accepted'[i] = Accepted[i] /\ i \in 1..L
        /\ Accepted'[L + 1].nth = at[q]
    BY <1>5, <1>6, <2>3 DEF Places
  <2>6. QueuedOf(q)' = QueuedOf(q) \cup {at[q]} /\ RefusedOf(q)' = RefusedOf(q)
    BY <1>1, <2>4, <2>5 DEF QueuedOf, RefusedOf
  <2>7. /\ at[q] \in Nat
        /\ \A n \in QueuedOf(q) \cup RefusedOf(q) : n \in Nat /\ n < at[q]
        /\ {n \in 1..(at'[q] - 1) : IsSignal(body'[q][n])}
             = {n \in 1..(at[q] - 1) : IsSignal(body[q][n])} \cup {at[q]}
    BY <1>1, HandedOver
  <2>8. \A i, j \in Places(q)' : i < j => Accepted'[i].nth < Accepted'[j].nth
    <3> SUFFICES ASSUME NEW i \in Places(q)', NEW j \in Places(q)', i < j
                 PROVE  Accepted'[i].nth < Accepted'[j].nth
      OBVIOUS
    <3>1. i # L + 1 BY <1>5, <2>4, <2>5
    <3>2. i \in Places(q) /\ Accepted'[i].nth = Accepted[i].nth
          /\ Accepted[i].nth \in QueuedOf(q)
      BY <2>4, <2>5, <3>1 DEF QueuedOf
    <3>3. CASE j \in Places(q) BY <2>1, <2>5, <3>2, <3>3 DEF Counted
    <3>4. CASE j = L + 1 BY <2>5, <2>7, <3>2, <3>4
    <3> QED BY <2>4, <3>3, <3>4
  <2>9. QueuedOf(q)' \cap RefusedOf(q)' = {}
    <3>1. at[q] \notin RefusedOf(q) BY <2>7
    <3> QED BY <2>1, <2>6, <3>1 DEF Counted
  <2>10. (QueuedOf(q) \cup RefusedOf(q))' = {n \in 1..(at'[q] - 1) : IsSignal(body'[q][n])}
    BY <2>1, <2>6, <2>7 DEF Counted
  <2>11. Inside(q)' BY <1>1, <2>2 DEF Inside
  <2> QED BY <2>8, <2>9, <2>10, <2>11 DEF Counted
<1> QED BY <1>7, <1>8, PerRequestNext

LEMMA DropAccounts ==
  ASSUME IInv, AInv, NEW q \in Requests, Drop(q) PROVE AInv'
<1>1. /\ lane[q] # "none" /\ body' = body /\ status' = status
      /\ at' = [at EXCEPT ![q] = @ + 1] /\ lane' = [lane EXCEPT ![q] = "none"]
      /\ Accepted' = Accepted /\ dropped' = dropped \cup {SignalOf(q)}
  BY DEF Drop, Accepted
<1>2. /\ DOMAIN at = Requests /\ DOMAIN lane = Requests BY DEF IInv, TypeOK
<1>3. SignalOf(q).request = q /\ SignalOf(q).nth = at[q] BY DEF SignalOf
<1>4. \A r \in Requests : Places(r)' = Places(r) BY <1>1 DEF Places
<1>5. \A r \in Requests : QueuedOf(r)' = QueuedOf(r) BY <1>1, <1>4 DEF QueuedOf
<1>6. ASSUME NEW r \in Requests, r # q PROVE Inside(r)' /\ Counted(r)'
  <2>1. Inside(r) /\ Counted(r) BY PerRequest
  <2>2. at'[r] = at[r] /\ lane'[r] = lane[r] BY <1>1, <1>2, <1>6
  <2>3. RefusedOf(r)' = RefusedOf(r) BY <1>1, <1>3, <1>6 DEF RefusedOf
  <2>4. Inside(r)' BY <1>1, <2>1, <2>2 DEF Inside, Pending, Trade
  <2>5. Counted(r)' BY <1>1, <1>4, <1>5, <2>1, <2>2, <2>3 DEF Counted
  <2> QED BY <2>4, <2>5
<1>7. Inside(q)' /\ Counted(q)'
  <2>1. Inside(q) /\ Counted(q) BY PerRequest
  <2>2. lane'[q] = "none" /\ status[q] = "open"
    BY <1>1, <1>2, <2>1 DEF Inside, Pending
  <2>3. RefusedOf(q)' = RefusedOf(q) \cup {at[q]} BY <1>1, <1>3 DEF RefusedOf
  <2>4. /\ \A n \in QueuedOf(q) \cup RefusedOf(q) : n \in Nat /\ n < at[q]
        /\ {n \in 1..(at'[q] - 1) : IsSignal(body'[q][n])}
             = {n \in 1..(at[q] - 1) : IsSignal(body[q][n])} \cup {at[q]}
        /\ at[q] \in Nat
    BY <1>1, HandedOver
  <2>5. at[q] \notin QueuedOf(q) BY <2>4
  <2>6. Inside(q)' BY <1>1, <2>2 DEF Inside
  <2>7. Counted(q)' BY <1>1, <1>4, <1>5, <2>1, <2>3, <2>4, <2>5 DEF Counted
  <2> QED BY <2>6, <2>7
<1> QED BY <1>6, <1>7, PerRequestNext

(* What the consumer takes keeps its place before the rest.                *)
LEMMA HeadMoves ==
  ASSUME NEW S, NEW a \in Seq(S), NEW b \in Seq(S), b # <<>>
  PROVE  Append(a, Head(b)) \o Tail(b) = a \o b
<1> DEFINE h == <<Head(b)>>
<1>1. Head(b) \in S /\ Tail(b) \in Seq(S) BY HeadTailProperties
<1>2. Append(a, Head(b)) = a \o h BY <1>1, AppendIsConcat
<1>3. h \in Seq(S) /\ Len(h) = 1 /\ h[1] = Head(b) BY <1>1
<1> HIDE DEF h
<1>4. (a \o h) \o Tail(b) = a \o (h \o Tail(b)) BY <1>1, <1>3, ConcatAssociative
<1>5. h \o Tail(b) = b
  <2>1. /\ Len(b) \in Nat \ {0} /\ Len(Tail(b)) = Len(b) - 1 /\ Head(b) = b[1]
        /\ \A i \in 1..Len(Tail(b)) : Tail(b)[i] = b[i + 1]
    BY EmptySeq, LenProperties, HeadTailProperties
  <2>2. /\ h \o Tail(b) \in Seq(S) /\ Len(h \o Tail(b)) = 1 + Len(Tail(b))
        /\ \A i \in 1..1 + Len(Tail(b)) :
             (h \o Tail(b))[i] = IF i <= 1 THEN h[i] ELSE Tail(b)[i - 1]
    <3> DEFINE t == Tail(b)
    <3>1. t \in Seq(S) BY <1>1
    <3> HIDE DEF t
    <3>2. h \in Seq(S) /\ Len(h) = 1 BY <1>3
    <3>3. /\ h \o t \in Seq(S) /\ Len(h \o t) = Len(h) + Len(t)
          /\ \A i \in 1..Len(h) + Len(t) :
               (h \o t)[i] = IF i <= Len(h) THEN h[i] ELSE t[i - Len(h)]
      BY <3>1, <3>2, ConcatProperties
    <3>4. /\ h \o t \in Seq(S) /\ Len(h \o t) = 1 + Len(t)
          /\ \A i \in 1..1 + Len(t) :
               (h \o t)[i] = IF i <= 1 THEN h[i] ELSE t[i - 1]
      BY <3>2, <3>3
    <3> QED BY <3>4 DEF t
  <2>3. \A i \in 1..Len(b) : (h \o Tail(b))[i] = b[i]
    <3> SUFFICES ASSUME NEW i \in 1..Len(b) PROVE (h \o Tail(b))[i] = b[i]
      OBVIOUS
    <3>1. CASE i = 1 BY <1>3, <2>1, <2>2, <3>1
    <3>2. CASE i # 1
      <4>1. i - 1 \in 1..Len(Tail(b)) /\ (i - 1) + 1 = i BY <2>1, <3>2
      <4> QED BY <2>1, <2>2, <3>2, <4>1
    <3> QED BY <3>1, <3>2
  <2> QED BY <2>1, <2>2, <2>3, SeqEqual
<1> QED BY <1>2, <1>4, <1>5

LEMMA ReceiveAccounts == ASSUME IInv, AInv, Receive PROVE AInv'
<1>1. channel \in Seq(Signals) /\ received \in Seq(Signals) /\ channel # <<>>
  BY DEF IInv, TypeOK, Receive
<1>2. Append(received, Head(channel)) \o Tail(channel) = received \o channel
  BY <1>1, HeadMoves
<1>3. Accepted' = Accepted BY <1>2 DEF Accepted, Receive
<1>4. UNCHANGED <<body, at, lane, status, dropped>> BY DEF Receive, handlers
<1> QED BY <1>3, <1>4, OthersKeep, PerRequestNext

LEMMA StepAccounts == IInv /\ AInv /\ [Next]_vars => AInv'
<1> SUFFICES ASSUME IInv, AInv, [Next]_vars PROVE AInv' OBVIOUS
<1>1. CASE UNCHANGED <<handlers, signals>>
  <2>1. UNCHANGED <<body, at, lane, status, dropped>> /\ Accepted' = Accepted
    BY <1>1 DEF handlers, signals, Accepted
  <2> QED BY <2>1, OthersKeep, PerRequestNext
<1>2. ASSUME NEW q \in Requests, Handle(q) PROVE AInv'
  BY <1>2, OpenAccounts, SendAccounts, DropAccounts DEF Handle
<1>3. ASSUME NEW q \in Requests,
             \/ Unauthorized(q)
             \/ \E trades \in Payloads : Authorize(q, trades) \/ RefuseBody(q, trades)
      PROVE  AInv'
  BY <1>3, OpenAccounts
<1>4. ASSUME Start \/ Edit \/ Reload PROVE UNCHANGED <<handlers, signals>>
  BY <1>4 DEF Start, Edit, Reload, FirstPoll, NoticeEdit, LoadFile, Cleared, Filled,
              ClearEntry, FillEntry
<1>5. CASE UNCHANGED vars BY <1>1, <1>5 DEF vars
<1> QED BY <1>1, <1>2, <1>3, <1>4, <1>5, ReceiveAccounts DEF Next

(* Every trade a handler has passed is accounted for once: received,       *)
(* waiting in the channel or refused by it, in the order of its request,   *)
(* for any requests handled at once and a channel of any capacity.         *)
THEOREM EveryTradeAccounted == Spec => []TradesAccounted
<1>1. Init => IInv /\ AInv BY InitEstablishes, InitAccounts
<1>2. IInv /\ AInv /\ [Next]_vars => (IInv /\ AInv)'
  BY StepPreserves, StepAccounts
<1>3. IInv /\ AInv => TradesAccounted BY DEF AInv
<1> QED BY <1>1, <1>2, <1>3, PTL DEF Spec
=============================================================================
