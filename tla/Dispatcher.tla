----------------------------- MODULE Dispatcher -----------------------------
(***************************************************************************)
(* The bundle dispatcher and the part of the execution consumer that       *)
(* drives it: connecting to the regions one after the other, rotating tip  *)
(* accounts over them, deduplicating opportunities, and sending a bundle   *)
(* to all regions at once.  What a region does with a bundle interleaves   *)
(* with the other regions and with the submission timeout.                 *)
(*                                                                         *)
(* Only the consumer uses the dispatcher, one signal at a time, so the     *)
(* locks around the region clients and the deduplicator are never          *)
(* contended.  A tip account is its index in its region's list.            *)
(*                                                                         *)
(* Definitions have names of their own, so that BundleTracker, which       *)
(* follows what is submitted here, can be extended next to this module.    *)
(***************************************************************************)
EXTENDS Naturals, Sequences, SequencesExt

CONSTANTS
  Definitions,          \* the region labels of the configuration, in order
  Keys,                 \* opportunities (mint, wallet, second)
  AccountCounts,        \* how many tip accounts a region may have
  MaxTurns              \* bound on how often a region gives an account in a run

RegionLabels == Range(Definitions)

(* The labels of JITO_REGIONS are taken as written: that none is given     *)
(* twice is up to the operator, main does not check it.                    *)
ASSUME DefinitionsAssumption ==
  Definitions \in Seq(RegionLabels) /\ IsInjective(Definitions)
ASSUME AccountsAssumption == AccountCounts \subseteq Nat
ASSUME TurnsAssumption == MaxTurns \in Nat

VARIABLES
  phase,                \* where the consumer is
  tried,                \* how many definitions connect_all has tried
  clients,              \* regions: labels of the connected clients, in order
  accounts,             \* tip_accounts: how many a region has
  nextAccount,          \* next_tip_account of each region client
  nextRegion,           \* next_region_for_tip, counted from 0
  turns,                \* how often each region gave an account
  taken,                \* how often each tip account was handed out
  seen,                 \* the keys the deduplicator has seen
  key,                  \* the opportunity of the current signal
  task,                 \* the submission task of each region
  inFlight,             \* (region, key) of bundles sent and not yet arrived
  delivered,            \* (region, key) of bundles a block engine holds
  told                  \* what fan_out_submit returned for each key

wiring   == <<tried, clients, accounts>>
tips     == <<nextAccount, nextRegion, turns, taken>>
network  == <<task, inFlight, delivered>>
dispatcherVars == <<phase, wiring, tips, seen, key, network, told>>

Indices == UNION {0 .. n - 1 : n \in AccountCounts}
Finished == {"acked", "failed"}

DispatcherTypeOK ==
  /\ phase \in {"connecting", "idle", "building", "acquired", "submitting",
                "ended"}
  /\ tried \in 0 .. Len(Definitions)
  /\ clients \in Seq(RegionLabels) /\ IsInjective(clients)
  /\ accounts \in [RegionLabels -> AccountCounts \cup {0}]
  /\ nextAccount \in [RegionLabels -> Nat]
  /\ \A r \in RegionLabels : nextAccount[r] < accounts[r] \/ nextAccount[r] = 0
  /\ nextRegion = 0 \/ nextRegion \in 1 .. Len(clients) - 1
  /\ turns \in [RegionLabels -> Nat]
  /\ taken \in [RegionLabels -> [Indices -> Nat]]
  /\ seen \subseteq Keys
  /\ key \in Keys \cup {"none"}
  /\ task \in [RegionLabels -> {"none", "sending"} \cup Finished]
  /\ inFlight \subseteq RegionLabels \X Keys
  /\ delivered \subseteq RegionLabels \X Keys
  /\ told \in [Keys -> {"none", "pending"} \cup Finished]

DispatcherInit ==
  /\ phase = "connecting"
  /\ tried = 0
  /\ clients = <<>>
  /\ accounts = [r \in RegionLabels |-> 0]
  /\ nextAccount = [r \in RegionLabels |-> 0]
  /\ nextRegion = 0
  /\ turns = [r \in RegionLabels |-> 0]
  /\ taken = [r \in RegionLabels |-> [i \in Indices |-> 0]]
  /\ seen = {}
  /\ key = "none"
  /\ task = [r \in RegionLabels |-> "none"]
  /\ inFlight = {}
  /\ delivered = {}
  /\ told = [k \in Keys |-> "none"]

-----------------------------------------------------------------------------
(* connect_all tries the next definition: RegionClient::connect yields a   *)
(* client with the region's tip accounts (possibly none), or the region is *)
(* left out.                                                               *)
ConnectNext ==
  /\ phase = "connecting" /\ tried < Len(Definitions)
  /\ \/ /\ clients' = Append(clients, Definitions[tried + 1])
        /\ \E n \in AccountCounts :
             accounts' = [accounts EXCEPT ![Definitions[tried + 1]] = n]
     \/ UNCHANGED <<clients, accounts>>
  /\ tried' = tried + 1
  /\ UNCHANGED <<phase, tips, seen, key, network, told>>

(* The consumer refuses to run without a healthy region.                   *)
Start ==
  /\ phase = "connecting" /\ tried = Len(Definitions)
  /\ phase' = IF clients = <<>> THEN "ended" ELSE "idle"
  /\ UNCHANGED <<wiring, tips, seen, key, network, told>>

-----------------------------------------------------------------------------
(* take_tip_account comes to this position of clients after o others, and  *)
(* takes the first whose region has an account to give.                    *)
Position(o) == (nextRegion + o) % Len(clients)
RegionAt(i) == clients[i + 1]
Gives(i)    == accounts[RegionAt(i)] > 0

FirstGiving(o) ==
  Gives(Position(o)) /\ \A e \in 0 .. o - 1 : ~Gives(Position(e))

(* RegionClient::take_tip_account: hand out the next account of r.         *)
TakeFrom(r) ==
  /\ nextAccount' = [nextAccount EXCEPT ![r] = (@ + 1) % accounts[r]]
  /\ turns' = [turns EXCEPT ![r] = @ + 1]
  /\ taken' = [taken EXCEPT ![r][nextAccount[r]] = @ + 1]

(* Faulty variant of TakeTip: the rotation goes on from where it started,  *)
(* not from the region that gave the account.                              *)
TakeTipFromStart ==
  /\ phase = "idle"
  /\ \A r \in RegionLabels : turns[r] < MaxTurns
  /\ \E o \in 0 .. Len(clients) - 1 :
       /\ FirstGiving(o)
       /\ TakeFrom(RegionAt(Position(o)))
       /\ nextRegion' = Position(1)
  /\ phase' = "building"
  /\ UNCHANGED <<wiring, seen, key, network, told>>

(* A signal asks for a tip account.                                        *)
TakeTip ==
  /\ phase = "idle"
  /\ \A r \in RegionLabels : turns[r] < MaxTurns
  /\ \E o \in 0 .. Len(clients) - 1 :
       /\ FirstGiving(o)
       /\ TakeFrom(RegionAt(Position(o)))
       /\ nextRegion' = (Position(o) + 1) % Len(clients)
  /\ phase' = "building"
  /\ UNCHANGED <<wiring, seen, key, network, told>>

(* Without one, the Raydium path gives the signal up, and the PumpPortal   *)
(* path panics.                                                            *)
NoTip ==
  /\ phase = "idle"
  /\ \A o \in 0 .. Len(clients) - 1 : ~Gives(Position(o))
  /\ phase' \in {"idle", "ended"}
  /\ UNCHANGED <<wiring, tips, seen, key, network, told>>

(* Building, signing or the staleness check fails before deduplication, or *)
(* the journal refuses the reservation after it.                           *)
GiveUp ==
  /\ phase \in {"building", "acquired"}
  /\ phase' = "idle"
  /\ key' = "none"
  /\ UNCHANGED <<wiring, tips, seen, network, told>>

(* Faulty variant of Acquire: the key is tested and not remembered.        *)
AcquireForgetful(k) ==
  /\ phase = "building"
  /\ IF k \in seen
     THEN phase' = "idle" /\ UNCHANGED key
     ELSE phase' = "acquired" /\ key' = k
  /\ UNCHANGED <<wiring, tips, seen, network, told>>

(* try_acquire_dedupe: a key that was seen turns the signal away.          *)
Acquire(k) ==
  /\ phase = "building"
  /\ IF k \in seen
     THEN phase' = "idle" /\ UNCHANGED <<seen, key>>
     ELSE phase' = "acquired" /\ seen' = seen \cup {k} /\ key' = k
  /\ UNCHANGED <<wiring, tips, network, told>>

-----------------------------------------------------------------------------
(* fan_out_submit spawns a task per client, each of which sends the bundle. *)
FanOut ==
  /\ phase = "acquired"
  /\ phase' = "submitting"
  /\ task' = [r \in RegionLabels |->
                IF r \in Range(clients) THEN "sending" ELSE "none"]
  /\ inFlight' = inFlight \cup (Range(clients) \X {key})
  /\ told' = [told EXCEPT ![key] = "pending"]
  /\ UNCHANGED <<wiring, tips, seen, key, delivered>>

(* The bundle arrives at a block engine, also after its sender gave up; a  *)
(* bundle lost on the way stays in flight for ever.                        *)
Arrive(r, k) ==
  /\ <<r, k>> \in inFlight
  /\ inFlight' = inFlight \ {<<r, k>>}
  /\ delivered' = delivered \cup {<<r, k>>}
  /\ UNCHANGED <<phase, wiring, tips, seen, key, task, told>>

(* send_bundle is answered with a bundle id.                               *)
Answered(r) ==
  /\ task[r] = "sending"
  /\ <<r, key>> \in delivered
  /\ task' = [task EXCEPT ![r] = "acked"]
  /\ UNCHANGED <<phase, wiring, tips, seen, key, inFlight, delivered, told>>

(* send_bundle fails: the call is refused, or its answer is an error or an *)
(* empty id although the engine holds the bundle.  A call that breaks with *)
(* the bundle under way has the effect of SubmitTimesOut.                  *)
Refused(r) ==
  /\ task[r] = "sending"
  /\ task' = [task EXCEPT ![r] = "failed"]
  /\ inFlight' = inFlight \ {<<r, key>>}
  /\ UNCHANGED <<phase, wiring, tips, seen, key, delivered, told>>

(* Faulty variant of SubmitTimesOut: only an arrived bundle is given up.   *)
SubmitTimesOutOnceArrived(r) ==
  /\ task[r] = "sending"
  /\ <<r, key>> \notin inFlight
  /\ task' = [task EXCEPT ![r] = "failed"]
  /\ UNCHANGED <<phase, wiring, tips, seen, key, inFlight, delivered, told>>

(* The ten seconds for a region are over.                                  *)
SubmitTimesOut(r) ==
  /\ task[r] = "sending"
  /\ task' = [task EXCEPT ![r] = "failed"]
  /\ UNCHANGED <<phase, wiring, tips, seen, key, inFlight, delivered, told>>

Acked == {r \in Range(clients) : task[r] = "acked"}

Return(result) ==
  /\ told' = [told EXCEPT ![key] = result]
  /\ phase' = "idle"
  /\ key' = "none"

(* Faulty variant of JoinAll: the first acknowledgement is returned while  *)
(* other regions are still being waited for.                               *)
JoinFirst ==
  /\ phase = "submitting"
  /\ Acked # {} \/ \A r \in Range(clients) : task[r] \in Finished
  /\ Return(IF Acked = {} THEN "failed" ELSE "acked")
  /\ task' = [r \in RegionLabels |-> IF task[r] = "sending" THEN "sending" ELSE "none"]
  /\ UNCHANGED <<wiring, tips, seen, inFlight, delivered>>

(* join_all waits for every task; an acknowledgement is returned if there  *)
(* is one (the first in the order of the clients: the consumer reads only  *)
(* the bundle id), and a failure only without any.                         *)
JoinAll ==
  /\ phase = "submitting"
  /\ \A r \in Range(clients) : task[r] \in Finished
  /\ Return(IF Acked = {} THEN "failed" ELSE "acked")
  /\ task' = [r \in RegionLabels |-> "none"]
  /\ UNCHANGED <<wiring, tips, seen, inFlight, delivered>>

-----------------------------------------------------------------------------
(* submit() ends on the engine's answer or on its timeout.                 *)
Submission(r) == Answered(r) \/ Refused(r) \/ SubmitTimesOut(r)

DispatcherNext ==
  \/ ConnectNext \/ Start \/ TakeTip \/ NoTip \/ GiveUp \/ FanOut \/ JoinAll
  \/ \E k \in Keys : Acquire(k)
  \/ \E r \in RegionLabels : Submission(r)
  \/ \E r \in RegionLabels, k \in Keys : Arrive(r, k)

DispatcherSpec == DispatcherInit /\ [][DispatcherNext]_dispatcherVars

(* The submission tasks run on their own and each await in them is bounded *)
(* by the timeout; nothing is expected of the network or of signals.       *)
FairDispatcherSpec ==
  /\ DispatcherSpec
  /\ WF_dispatcherVars(JoinAll)
  /\ \A r \in RegionLabels : WF_dispatcherVars(SubmitTimesOut(r))

-----------------------------------------------------------------------------
(* "Round-robin tip account across all region clients to balance tip       *)
(* destination diversity": regions with tip accounts are used equally      *)
(* often, give or take one, and so are the accounts of each region,        *)
(* whichever regions are down or without accounts.                         *)
TipsBalanced ==
  LET giving == {r \in Range(clients) : accounts[r] > 0}
  IN  /\ \A r, s \in giving : turns[r] <= turns[s] + 1
      /\ \A r \in giving : \A i, j \in 0 .. accounts[r] - 1 :
           taken[r][i] <= taken[r][j] + 1

(* When fan_out_submit returns, none of its tasks is left: a later bundle  *)
(* never queues behind one at a slow region's client lock.                 *)
NothingLeftRunning ==
  phase # "submitting" => \A r \in RegionLabels : task[r] # "sending"

(* A fan-out ends although no region ever answers.                         *)
FanOutReturns == phase = "submitting" ~> phase = "idle"

(* The dispatcher keeps what the consumer relies on: no opportunity is     *)
(* submitted or answered twice, and only a bundle some engine holds is     *)
(* acknowledged.                                                           *)
Held == {k \in Keys : \E r \in RegionLabels : <<r, k>> \in delivered}

Submissions == INSTANCE SubmitOnce WITH
  Opportunities <- Keys, answer <- told, held <- Held

ImplementsSubmitOnce == Submissions!Spec
=============================================================================
