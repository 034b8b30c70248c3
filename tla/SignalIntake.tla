----------------------------- MODULE SignalIntake -----------------------------
(***************************************************************************)
(* From the webhook to the channel of the execution consumer: requests are *)
(* handled concurrently, each trade of a request is matched against the    *)
(* watchlist and offered to a bounded channel; meanwhile the hot reloader  *)
(* replaces the watchlist entry by entry, and the file is edited at any    *)
(* time.  In shadow mode nobody reads the channel.                         *)
(*                                                                         *)
(* A version of the watchlist file is its rows; its number stands for the  *)
(* modification time, which every edit moves forward.                      *)
(***************************************************************************)
EXTENDS Naturals, Sequences, FiniteSets, SequencesExt

CONSTANTS
  Wallets,              \* fee payers
  Payloads,             \* payloads of requests: sequences of trades
  Files,                \* versions of approved_watchlist.csv, oldest first
  Wsol,                 \* the mint of wrapped SOL
  NoMint,               \* no purchased mint found
  Unreadable,           \* the file could not be read
  ChannelCap,           \* capacity of the signal channel
  Requests              \* requests that arrive

ASSUME CapAssumption == ChannelCap \in Nat \ {0}
ASSUME PayloadsAssumption ==
  \A trades \in Payloads :
    /\ Len(trades) \in Nat \ {0}
    /\ \A n \in 1..Len(trades) : trades[n].wallet \in Wallets
ASSUME FilesAssumption ==
  /\ Len(Files) \in Nat \ {0} /\ DOMAIN Files = 1..Len(Files)
  /\ Unreadable \notin Nat

Lanes == {"Conservative", "Swing", "Degen", "Sniper", "Unknown"}
Flags == {"true", "false", "garbled", "absent"}

-----------------------------------------------------------------------------
(* Pure functions.                                                         *)

(* Faulty variant of Policy: only the live switch counts.                  *)
PolicyByLiveFlag(dry, live) ==
  CASE dry \notin {"true", "false"} -> "refused"
    [] live = "garbled"             -> "refused"
    [] live = "true"                -> "live"
    [] OTHER                        -> "shadow"

(* parse_flag and startup_policy: exactly one mode must be selected.       *)
Policy(dry, live) ==
  CASE dry = "true"  /\ live \in {"false", "absent"} -> "shadow"
    [] dry = "false" /\ live = "true"                -> "live"
    [] OTHER                                         -> "refused"

(* The lane of a row: as given, or by win rate and profit factor.  The win *)
(* rate is in percent, the profit factor in tenths.                        *)
LaneOf(row) ==
  CASE row.lane \in Lanes \ {"Unknown"}             -> row.lane
    [] row.winRate >= 60 /\ row.profitFactor > 20   -> "Conservative"
    [] row.winRate < 40 /\ row.profitFactor > 20    -> "Degen"
    [] OTHER                                        -> "Swing"

(* load_csv_watchlist: rows with too few columns are passed over, the last *)
(* row of a wallet counts.  Unknown stands for a wallet without entry.     *)
Nobody == [w \in Wallets |-> "Unknown"]

Load(rows) ==
  [w \in Wallets |->
     LET mine == SelectSeq(rows, LAMBDA row : row.wallet = w /\ row.columns >= 5)
     IN  IF mine = <<>> THEN "Unknown" ELSE LaneOf(Last(mine))]

ListOf(version) == IF version = Unreadable THEN Nobody ELSE Load(Files[version])

(* The mint a trade bought: the first output of the swap event, otherwise  *)
(* the first transfer to the whale that is not wrapped SOL.                *)
TargetMint(trade) ==
  LET toWhale == SelectSeq(trade.transfers,
                           LAMBDA t : t.to = trade.wallet /\ t.mint # Wsol)
  IN  CASE trade.outputs # <<>> -> Head(trade.outputs)
        [] trade.outputs = <<>> /\ toWhale # <<>> -> Head(toWhale).mint
        [] OTHER -> NoMint

(* Trades that become a signal.                                            *)
IsSignal(trade) ==
  /\ trade.swap
  /\ TargetMint(trade) # NoMint
  /\ ~trade.overflow

(* The size for a lane, in hundredths of a SOL.                            *)
TradeSize(lane) ==
  CASE lane = "Conservative" -> 3
    [] lane = "Swing"        -> 2
    [] lane = "Sniper"       -> 5
    [] OTHER                 -> 1

-----------------------------------------------------------------------------
VARIABLES
  mode,                 \* "starting", "shadow", "live" or "refused"
  dryRun,               \* DRY_RUN of the environment
  liveExecution,        \* LIVE_EXECUTION of the environment
  body,                 \* per request: its trades
  status,               \* per request: "none", "open", or its answer
  at,                   \* per request: the trade being processed
  lane,                 \* per request: the lane matched, or "none" yet
  channel,              \* signal_tx to signal_rx
  received,             \* signals the consumer took, in order
  dropped,              \* signals refused by the full channel
  version,              \* version of the file
  watchlist,            \* the shared map
  phase,                \* the reloader: "sleep", "load", "clear", "fill"
  lastModified,         \* last_modified; 0 is UNIX_EPOCH
  modified,             \* modification time of this round
  loaded                \* version the list in memory was read from

startup  == <<mode, dryRun, liveExecution>>
handlers == <<body, status, at, lane>>
signals  == <<channel, received, dropped>>
reloader == <<watchlist, phase, lastModified, modified, loaded>>
vars == <<startup, handlers, signals, version, reloader>>

Signals == [request : Requests, nth : Nat \ {0}, lane : Lanes, size : 1..5]

TypeOK ==
  /\ mode \in {"starting", "shadow", "live", "refused"}
  /\ dryRun \in Flags /\ liveExecution \in Flags
  /\ body \in [Requests -> Payloads \cup {<<>>}]
  /\ status \in [Requests -> {"none", "open", "ok", "unauthorized", "malformed"}]
  /\ at \in [Requests -> Nat \ {0}]
  /\ lane \in [Requests -> Lanes \cup {"none"}]
  /\ channel \in Seq(Signals) /\ Len(channel) <= ChannelCap
  /\ received \in Seq(Signals)
  /\ dropped \subseteq Signals
  /\ version \in DOMAIN Files
  /\ watchlist \in [Wallets -> Lanes]
  /\ phase \in {"sleep", "load", "clear", "fill"}
  /\ lastModified \in 0..version
  /\ modified \in 0..version
  /\ loaded \in (1..version) \cup {Unreadable}

Init ==
  /\ mode = "starting"
  /\ dryRun \in Flags /\ liveExecution \in Flags
  /\ body = [r \in Requests |-> <<>>]
  /\ status = [r \in Requests |-> "none"]
  /\ at = [r \in Requests |-> 1]
  /\ lane = [r \in Requests |-> "none"]
  /\ channel = <<>>
  /\ received = <<>>
  /\ dropped = {}
  /\ version = 1
  /\ watchlist = Load(Files[1])
  /\ phase = "sleep"
  /\ lastModified = 0
  /\ modified = 0
  /\ loaded = 1

(* load_from_env: the policy decides what main starts.                     *)
Start ==
  /\ mode = "starting"
  /\ mode' = Policy(dryRun, liveExecution)
  /\ UNCHANGED <<dryRun, liveExecution, handlers, signals, version, reloader>>

Up == mode \in {"shadow", "live"}

-----------------------------------------------------------------------------
(* handle_webhook, whose Json extractor reads the body as a whole.         *)

WellFormed(trades) == \A n \in DOMAIN trades : trades[n].wellFormed

Authorize(r, trades) ==
  /\ Up
  /\ status[r] = "none"
  /\ WellFormed(trades)
  /\ status' = [status EXCEPT ![r] = "open"]
  /\ body' = [body EXCEPT ![r] = trades]
  /\ UNCHANGED <<startup, at, lane, signals, version, reloader>>

Unauthorized(r) ==
  /\ Up
  /\ status[r] = "none"
  /\ status' = [status EXCEPT ![r] = "unauthorized"]
  /\ UNCHANGED <<startup, body, at, lane, signals, version, reloader>>

(* One transaction the extractor cannot read refuses all of the body.      *)
RefuseBody(r, trades) ==
  /\ Up
  /\ status[r] = "none"
  /\ ~WellFormed(trades)
  /\ status' = [status EXCEPT ![r] = "malformed"]
  /\ body' = [body EXCEPT ![r] = trades]
  /\ UNCHANGED <<startup, at, lane, signals, version, reloader>>

Pending(r) == status[r] = "open" /\ at[r] <= Len(body[r])

Trade(r) == body[r][at[r]]

(* Faulty variant of Skip: the rest of the request goes with it.           *)
SkipRest(r) ==
  /\ Pending(r)
  /\ ~IsSignal(Trade(r))
  /\ at' = [at EXCEPT ![r] = Len(body[r]) + 1]
  /\ UNCHANGED <<startup, body, status, lane, signals, version, reloader>>

(* Not a swap, no purchased mint, or a timestamp that overflows.           *)
Skip(r) ==
  /\ Pending(r)
  /\ ~IsSignal(Trade(r))
  /\ at' = [at EXCEPT ![r] = @ + 1]
  /\ UNCHANGED <<startup, body, status, lane, signals, version, reloader>>

(* The watchlist is asked for the whale; who is not on it gets the         *)
(* fallback size.                                                          *)
Match(r) ==
  /\ Pending(r)
  /\ IsSignal(Trade(r))
  /\ lane[r] = "none"
  /\ lane' = [lane EXCEPT ![r] = watchlist[Trade(r).wallet]]
  /\ UNCHANGED <<startup, body, status, at, signals, version, reloader>>

SignalOf(r) ==
  [request |-> r, nth |-> at[r], lane |-> lane[r], size |-> TradeSize(lane[r])]

Send(r) ==
  /\ Pending(r)
  /\ lane[r] # "none"
  /\ Len(channel) < ChannelCap
  /\ channel' = Append(channel, SignalOf(r))
  /\ at' = [at EXCEPT ![r] = @ + 1]
  /\ lane' = [lane EXCEPT ![r] = "none"]
  /\ UNCHANGED <<startup, body, status, received, dropped, version, reloader>>

(* try_send on the full channel: logged, and the answer is success still.  *)
Drop(r) ==
  /\ Pending(r)
  /\ lane[r] # "none"
  /\ Len(channel) = ChannelCap
  /\ dropped' = dropped \cup {SignalOf(r)}
  /\ at' = [at EXCEPT ![r] = @ + 1]
  /\ lane' = [lane EXCEPT ![r] = "none"]
  /\ UNCHANGED <<startup, body, status, channel, received, version, reloader>>

Answer(r) ==
  /\ status[r] = "open"
  /\ at[r] > Len(body[r])
  /\ status' = [status EXCEPT ![r] = "ok"]
  /\ UNCHANGED <<startup, body, at, lane, signals, version, reloader>>

(* The consumer takes a signal; main spawns it in live mode only.          *)
Receive ==
  /\ mode = "live"
  /\ channel # <<>>
  /\ received' = Append(received, Head(channel))
  /\ channel' = Tail(channel)
  /\ UNCHANGED <<startup, handlers, dropped, version, reloader>>

-----------------------------------------------------------------------------
(* The watchlist file and the hot reloader.                                *)

Edit ==
  /\ version < Len(Files)
  /\ version' = version + 1
  /\ UNCHANGED <<startup, handlers, signals, reloader>>

(* The first poll only notes the modification time.                        *)
FirstPoll ==
  /\ Up
  /\ phase = "sleep"
  /\ lastModified = 0
  /\ lastModified' = version
  /\ UNCHANGED <<startup, handlers, signals, version, watchlist, phase, modified, loaded>>

NoticeEdit ==
  /\ Up
  /\ phase = "sleep"
  /\ lastModified # 0
  /\ version > lastModified
  /\ modified' = version
  /\ phase' = "load"
  /\ UNCHANGED <<startup, handlers, signals, version, watchlist, lastModified, loaded>>

(* The rows are read later than the modification time; a file that cannot  *)
(* be read yields an empty list.                                           *)
LoadFile ==
  /\ phase = "load"
  /\ loaded' \in {version, Unreadable}
  /\ phase' = "clear"
  /\ UNCHANGED <<startup, handlers, signals, version, watchlist, lastModified, modified>>

(* clear() empties the map shard by shard.                                 *)
ClearEntry(w) ==
  /\ phase = "clear"
  /\ watchlist[w] # "Unknown"
  /\ watchlist' = [watchlist EXCEPT ![w] = "Unknown"]
  /\ UNCHANGED <<startup, handlers, signals, version, phase, lastModified, modified, loaded>>

(* Faulty variant of Cleared: the new rows are inserted over the old ones. *)
ClearedNothing ==
  /\ phase = "clear"
  /\ phase' = "fill"
  /\ UNCHANGED <<startup, handlers, signals, version, watchlist, lastModified, modified,
                 loaded>>

Cleared ==
  /\ phase = "clear"
  /\ watchlist = Nobody
  /\ phase' = "fill"
  /\ UNCHANGED <<startup, handlers, signals, version, watchlist, lastModified, modified,
                 loaded>>

FillEntry(w) ==
  /\ phase = "fill"
  /\ watchlist[w] # ListOf(loaded)[w]
  /\ watchlist' = [watchlist EXCEPT ![w] = ListOf(loaded)[w]]
  /\ UNCHANGED <<startup, handlers, signals, version, phase, lastModified, modified, loaded>>

(* Faulty variant of Filled: the time is taken after the reload.           *)
FilledAsOfNow ==
  /\ phase = "fill"
  /\ watchlist = ListOf(loaded)
  /\ lastModified' = version
  /\ phase' = "sleep"
  /\ UNCHANGED <<startup, handlers, signals, version, watchlist, modified, loaded>>

Filled ==
  /\ phase = "fill"
  /\ watchlist = ListOf(loaded)
  /\ lastModified' = modified
  /\ phase' = "sleep"
  /\ UNCHANGED <<startup, handlers, signals, version, watchlist, modified, loaded>>

-----------------------------------------------------------------------------
Handle(r) == Skip(r) \/ Match(r) \/ Send(r) \/ Drop(r) \/ Answer(r)

Reload ==
  \/ FirstPoll \/ NoticeEdit \/ LoadFile \/ Cleared \/ Filled
  \/ \E w \in Wallets : ClearEntry(w) \/ FillEntry(w)

Next ==
  \/ Start
  \/ \E r \in Requests :
       \/ Handle(r)
       \/ Unauthorized(r)
       \/ \E trades \in Payloads : Authorize(r, trades) \/ RefuseBody(r, trades)
  \/ Receive
  \/ Edit
  \/ Reload

Spec == Init /\ [][Next]_vars

(* main gets started, and the reloader polls once a minute for ever.       *)
FairSpec == Spec /\ WF_vars(Start) /\ WF_vars(Reload)

-----------------------------------------------------------------------------
(* Every trade a handler has passed is accounted for: one that should be a *)
(* signal was received, waits in the channel or was refused by it, exactly *)
(* once; another one left no trace; and the signals of a request reach the *)
(* consumer in the request's order, however requests interleave.           *)
Accepted == received \o channel

Places(r)   == {i \in DOMAIN Accepted : Accepted[i].request = r}
QueuedOf(r) == {Accepted[i].nth : i \in Places(r)}
RefusedOf(r) == {d.nth : d \in {e \in dropped : e.request = r}}

TradesAccounted ==
  \A r \in Requests :
    /\ \A i, j \in Places(r) : i < j => Accepted[i].nth < Accepted[j].nth
    /\ QueuedOf(r) \cap RefusedOf(r) = {}
    /\ QueuedOf(r) \cup RefusedOf(r) = {n \in 1..(at[r] - 1) : IsSignal(body[r][n])}

(* The list in memory never mixes two versions of the file, although it is *)
(* replaced entry by entry: until it is cleared it is the file as it was   *)
(* last read, while it is cleared it shows remains of one version, and     *)
(* while it is filled nothing but the one just read.                       *)
Shows(v) == \A w \in Wallets : watchlist[w] \in {"Unknown", ListOf(v)[w]}

ListIsFile ==
  /\ phase \in {"sleep", "load"} => watchlist = ListOf(loaded)
  /\ phase = "clear" => \E v \in (1..version) \cup {Unreadable} : Shows(v)
  /\ phase = "fill" => Shows(loaded)

(* A trade that should be a signal does not suffer from the others of its  *)
(* request.                                                                *)
OthersDoNotMatter ==
  \A r \in Requests : status[r] = "malformed" =>
    \A n \in DOMAIN body[r] : ~(body[r][n].wellFormed /\ IsSignal(body[r][n]))

(* The consumer, and so every transaction, needs both switches: with       *)
(* anything but DRY_RUN=false and LIVE_EXECUTION=true no signal leaves the *)
(* channel.                                                                *)
LiveNeedsBothFlags ==
  received # <<>> => dryRun = "false" /\ liveExecution = "true"

(* An edit after the reloader's first poll is picked up, one made during   *)
(* the reload of an earlier edit included: once edits stop, the list is    *)
(* the last version of the file, or empty because that could not be read.  *)
EditsPickedUp ==
  (Up /\ lastModified \in 1..(version - 1))
    ~> (loaded \in {version, Unreadable} /\ phase = "sleep")
=============================================================================
