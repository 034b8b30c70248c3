--------------------------- MODULE BundleTracker ---------------------------
(***************************************************************************)
(* The bundle inclusion tracker: the execution consumer registers a bundle *)
(* and waits a while for its fate; one polling loop opens a result stream  *)
(* per region, waits for all streams to end and prunes.  Results, stream   *)
(* failures, registrations and the consumer's timeout interleave freely.   *)
(*                                                                         *)
(* The consumer submits its bundles one by one, and an id is that of one   *)
(* transaction, so no id is registered twice.  The shutdown channel, which *)
(* nobody triggers, and the slot of a result are not modelled.             *)
(***************************************************************************)
EXTENDS Naturals, Sequences

CONSTANTS
  Bundles,              \* bundle ids, numbered in the order of submission
  Regions,              \* region labels
  Clients,              \* regions with a client in region_clients
  BundleRegions,        \* regions that records are registered with
  Results,              \* result types the block engine sends in a run
  Faults                \* the classes of adverse event a run admits

FaultClasses ==
  { "silent",           \* a stream fails, ends or stays silent too long
    "slow" }            \* a record outlives MAX_BUNDLE_AGE

(* The result types of a SubscribeBundleResults stream.                    *)
ResultTypes == {"accepted", "processed", "finalized", "rejected", "dropped"}

ASSUME BundlesAssumption == Bundles \subseteq Nat
ASSUME RegionsAssumption == Clients \subseteq Regions
                            /\ BundleRegions \subseteq Regions
ASSUME ResultsAssumption == Results \subseteq ResultTypes
ASSUME FaultsAssumption  == Faults \subseteq FaultClasses

VARIABLES
  status,               \* InclusionStatus of each record, or "absent"
  region,               \* the region each record names
  aged,                 \* records older than MAX_BUNDLE_AGE
  notified,             \* new_bundle_notify holds a permit
  loop,                 \* where polling_loop is
  sub,                  \* run_region_subscription per region
  mail,                 \* results a region's stream has yet to yield
  answer,               \* what was sent on each record's notify channel
  wait,                 \* the execution consumer's wait per bundle
  trackerRows,          \* bundles update_status recorded as landed
  consumerRows,         \* bundles the consumer recorded as landed
  engine                \* the block engine's last word on each bundle

records  == <<status, answer, trackerRows>>
streams  == <<sub, mail>>
consumer == <<wait, consumerRows>>
vars == <<records, region, aged, notified, loop, streams, consumer, engine>>

Confirmed == {"Landed", "Finalized"}
Terminal  == Confirmed \cup {"Rejected", "Dropped", "Expired"}

TypeOK ==
  /\ status \in [Bundles -> Terminal \cup {"absent", "Pending"}]
  /\ region \in [Bundles -> BundleRegions \cup {"none"}]
  /\ aged \subseteq Bundles
  /\ notified \in BOOLEAN
  /\ loop \in {"waiting", "scanning", "idle", "joining"}
  /\ sub \in [Regions -> {"none", "connecting", "checking", "reading"}]
  /\ mail \in [Regions -> Seq([bundle : Bundles, result : ResultTypes])]
  /\ answer \in [Bundles -> Terminal \cup {"none"}]
  /\ wait \in [Bundles -> {"before", "submitted", "waiting", "answered",
                         "timed out"}]
  /\ trackerRows \subseteq Bundles
  /\ consumerRows \subseteq Bundles
  /\ engine \in [Bundles -> ResultTypes \cup {"sent"}]

(* BundleTracker::new, before the first bundle is submitted.               *)
Init ==
  /\ status = [b \in Bundles |-> "absent"]
  /\ region = [b \in Bundles |-> "none"]
  /\ aged = {}
  /\ notified = FALSE
  /\ loop = "waiting"
  /\ sub = [r \in Regions |-> "none"]
  /\ mail = [r \in Regions |-> <<>>]
  /\ answer = [b \in Bundles |-> "none"]
  /\ wait = [b \in Bundles |-> "before"]
  /\ trackerRows = {}
  /\ consumerRows = {}
  /\ engine = [b \in Bundles |-> "sent"]

Pending == {b \in Bundles : status[b] = "Pending"}

-----------------------------------------------------------------------------
(* The consumer hands its next bundle to the block engine, once it is done *)
(* with the one before.                                                    *)
Submit(b) ==
  /\ wait[b] = "before"
  /\ \A c \in Bundles :
       /\ c < b => wait[c] # "before"
       /\ wait[c] \notin {"submitted", "waiting"}
  /\ wait' = [wait EXCEPT ![b] = "submitted"]
  /\ UNCHANGED <<records, region, aged, notified, loop, streams,
                 consumerRows, engine>>

(* register_bundle with some region label: the consumer waits for the      *)
(* record's channel.                                                       *)
Register(b) ==
  /\ wait[b] = "submitted"
  /\ status' = [status EXCEPT ![b] = "Pending"]
  /\ \E r \in BundleRegions : region' = [region EXCEPT ![b] = r]
  /\ notified' = TRUE
  /\ wait' = [wait EXCEPT ![b] = "waiting"]
  /\ UNCHANGED <<aged, loop, streams, answer, trackerRows, consumerRows,
                 engine>>

(* rx.recv() yields a record: whatever its status, the consumer writes a   *)
(* landed row for it.                                                      *)
Receive(b) ==
  /\ wait[b] = "waiting"
  /\ answer[b] # "none"
  /\ wait' = [wait EXCEPT ![b] = "answered"]
  /\ consumerRows' = consumerRows \cup {b}
  /\ UNCHANGED <<records, region, aged, notified, loop, streams, engine>>

(* BUNDLE_LANDING_WAIT elapses.                                            *)
TimeOut(b) ==
  /\ wait[b] = "waiting"
  /\ wait' = [wait EXCEPT ![b] = "timed out"]
  /\ UNCHANGED <<records, region, aged, notified, loop, streams,
                 consumerRows, engine>>

-----------------------------------------------------------------------------
(* Faulty variants of update_status: a later status replaces a terminal    *)
(* one.                                                                    *)
UpdateOverwriting(S, s) ==
  /\ status' = [b \in Bundles |-> IF b \in S THEN s ELSE status[b]]
  /\ answer' = [b \in Bundles |->
                  IF b \in S /\ answer[b] = "none" THEN s ELSE answer[b]]
  /\ trackerRows' = trackerRows \cup IF s \in Confirmed THEN S ELSE {}

(* update_status on the records in S: a terminal status stands; the first  *)
(* one is recorded if confirmed and sent to the waiting consumer.          *)
UpdateStatus(S, s) ==
  LET open == S \cap Pending
  IN  /\ status' = [b \in Bundles |-> IF b \in open THEN s ELSE status[b]]
      /\ answer' = [b \in Bundles |-> IF b \in open THEN s ELSE answer[b]]
      /\ trackerRows' = trackerRows \cup IF s \in Confirmed THEN open ELSE {}

(* The status a result stands for: Accepted already counts as landed.      *)
StatusOf(result) ==
  CASE result \in {"accepted", "processed"} -> "Landed"
    [] result = "finalized" -> "Finalized"
    [] result = "rejected"  -> "Rejected"
    [] result = "dropped"   -> "Dropped"

-----------------------------------------------------------------------------
(* polling_loop: the wait at the top of the loop.                          *)
Wake ==
  /\ loop = "waiting" /\ notified
  /\ notified' = FALSE
  /\ loop' = "scanning"
  /\ UNCHANGED <<records, region, aged, streams, consumer, engine>>

(* Collects the regions of pending records and spawns a subscription for   *)
(* each that has a client; without pending records it waits once more.     *)
Scan ==
  /\ loop = "scanning"
  /\ IF Pending = {}
     THEN loop' = "idle" /\ UNCHANGED sub
     ELSE /\ loop' = "joining"
          /\ sub' = [r \in Regions |->
                       IF r \in Clients /\ r \in {region[b] : b \in Pending}
                       THEN "connecting" ELSE sub[r]]
  /\ UNCHANGED <<records, region, aged, notified, mail, consumer, engine>>

(* The second wait takes the permit and `continue`s to the first.          *)
IdleWake ==
  /\ loop = "idle" /\ notified
  /\ notified' = FALSE
  /\ loop' = "waiting"
  /\ UNCHANGED <<records, region, aged, streams, consumer, engine>>

(* Faulty variant of Join: the loop goes on without its subscriptions.     *)
JoinEarly ==
  /\ loop = "joining"
  /\ UpdateStatus(aged, "Expired")
  /\ loop' = "waiting"
  /\ UNCHANGED <<region, aged, notified, streams, consumer, engine>>

(* join_all, then prune_expired.                                           *)
Join ==
  /\ loop = "joining"
  /\ \A r \in Regions : sub[r] = "none"
  /\ UpdateStatus(aged, "Expired")
  /\ loop' = "waiting"
  /\ UNCHANGED <<region, aged, notified, streams, consumer, engine>>

-----------------------------------------------------------------------------
(* run_region_subscription of region r.                                    *)
Leave(r) ==
  /\ sub' = [sub EXCEPT ![r] = "none"]
  /\ mail' = [mail EXCEPT ![r] = <<>>]

(* subscribe_bundle_results is answered, or fails or times out.            *)
Connect(r) ==
  /\ sub[r] = "connecting"
  /\ \/ sub' = [sub EXCEPT ![r] = "checking"] /\ UNCHANGED mail
     \/ "silent" \in Faults /\ Leave(r)
  /\ UNCHANGED <<records, region, aged, notified, loop, consumer, engine>>

(* The has_bundles test at the top of the stream loop.                     *)
CheckRegion(r) ==
  /\ sub[r] = "checking"
  /\ IF \E b \in Pending : region[b] = r
     THEN sub' = [sub EXCEPT ![r] = "reading"] /\ UNCHANGED mail
     ELSE Leave(r)
  /\ UNCHANGED <<records, region, aged, notified, loop, consumer, engine>>

(* stream.message() yields a result: process_bundle_result drops it if it  *)
(* is for no record, and updates the record otherwise.                     *)
ProcessResult(r) ==
  /\ sub[r] = "reading"
  /\ mail[r] # <<>>
  /\ UpdateStatus({Head(mail[r]).bundle}, StatusOf(Head(mail[r]).result))
  /\ mail' = [mail EXCEPT ![r] = Tail(@)]
  /\ sub' = [sub EXCEPT ![r] = "checking"]
  /\ UNCHANGED <<region, aged, notified, loop, consumer, engine>>

(* Faulty variant of EndStream: no heartbeat timeout on a silent stream.   *)
EndUnlessSilent(r) ==
  /\ "silent" \in Faults
  /\ sub[r] = "reading"
  /\ mail[r] # <<>>
  /\ Leave(r)
  /\ UNCHANGED <<records, region, aged, notified, loop, consumer, engine>>

(* The stream ends, errs, or is silent for STREAM_HEARTBEAT_TIMEOUT.       *)
EndStream(r) ==
  /\ "silent" \in Faults
  /\ sub[r] = "reading"
  /\ Leave(r)
  /\ UNCHANGED <<records, region, aged, notified, loop, consumer, engine>>

-----------------------------------------------------------------------------
(* The block engine decides a step of a bundle's fate, and every open      *)
(* stream will yield it; the record may not be registered yet.             *)
Fates(last) ==
  CASE last = "sent"      -> {"accepted", "rejected", "dropped"}
    [] last = "accepted"  -> {"processed", "dropped"}
    [] last = "processed" -> {"finalized", "dropped"}
    [] OTHER              -> {}

Decide(b) ==
  /\ wait[b] # "before"
  /\ \E result \in Fates(engine[b]) \cap Results :
       /\ engine' = [engine EXCEPT ![b] = result]
       /\ mail' = [r \in Regions |->
                     IF sub[r] \in {"checking", "reading"}
                     THEN Append(mail[r], [bundle |-> b, result |-> result])
                     ELSE mail[r]]
       /\ UNCHANGED <<records, region, aged, notified, loop, sub, consumer>>

(* MAX_BUNDLE_AGE passes since a record was submitted.                     *)
Age(b) ==
  /\ "slow" \in Faults
  /\ b \in Pending \ aged
  /\ aged' = aged \cup {b}
  /\ UNCHANGED <<records, region, notified, loop, streams, consumer, engine>>

-----------------------------------------------------------------------------
PollingLoop == Wake \/ Scan \/ IdleWake \/ Join

Subscription(r) ==
  Connect(r) \/ CheckRegion(r) \/ ProcessResult(r) \/ EndStream(r)

Consumer(b) == Submit(b) \/ Register(b) \/ Receive(b) \/ TimeOut(b)

Next ==
  \/ PollingLoop
  \/ \E r \in Regions : Subscription(r)
  \/ \E b \in Bundles : Consumer(b) \/ Decide(b) \/ Age(b)

Spec == Init /\ [][Next]_vars

(* The loop and its subscriptions are tasks of a multi-threaded runtime    *)
(* whose every await ends: a notification, a result or the heartbeat       *)
(* timeout.  Registrations and the block engine are not fair.              *)
Fairness ==
  /\ WF_vars(PollingLoop)
  /\ \A r \in Regions : WF_vars(Subscription(r))

FairSpec == Spec /\ Fairness

-----------------------------------------------------------------------------
(* The first terminal status of a record is its last one: it is what the   *)
(* consumer was told, exactly once, and a record counts as landed in the   *)
(* database if and only if that status is a confirmation.                  *)
AnswerStands ==
  \A b \in Bundles :
    /\ answer[b] = IF status[b] \in Terminal THEN status[b] ELSE "none"
    /\ b \in trackerRows <=> status[b] \in Confirmed

(* Subscriptions run only while the loop waits for them, so that a region  *)
(* never has two of them and none outlives the round that spawned it.      *)
SubscriptionsJoined ==
  loop # "joining" => \A r \in Regions : sub[r] = "none" /\ mail[r] = <<>>

(* The loop always gets back to waiting for registrations, even when the   *)
(* block engine falls silent.                                              *)
PollingReturns == loop = "joining" ~> loop = "waiting"

(* A pending record of a region that has a client gets a subscription      *)
(* (again), unless it is resolved.                                         *)
PendingServed ==
  \A b \in Bundles :
    status[b] = "Pending" /\ region[b] \in Clients ~>
      status[b] # "Pending" \/ sub[region[b]] # "none"

(* A record older than MAX_BUNDLE_AGE is expired, or resolved before.      *)
AgedExpires == \A b \in Bundles : b \in aged ~> status[b] \in Terminal

(* INV-07: submission acknowledgment is not landing.  The tracker records  *)
(* as landed only what the block engine has seen processed on chain.       *)
TrackerRowsLanded ==
  \A b \in trackerRows : engine[b] \in {"processed", "finalized"}

(* The consumer records as landed only what the tracker confirmed.         *)
ConsumerRowsLanded == \A b \in consumerRows : answer[b] \in Confirmed
=============================================================================
