------------------------ MODULE BundleTracker_proofs ------------------------
(***************************************************************************)
(* Proofs about BundleTracker, for any bundles, regions, clients, result   *)
(* types and faults.  IInv is inductive: AnswerStands needs the types      *)
(* because a result read from a stream must map to a terminal status, and  *)
(* RegisteredInTurn because a registration must not reopen a record;       *)
(* SubscriptionsJoined needs ClosedEmpty where the loop leaves its join.   *)
(*                                                                         *)
(* The second part is about Dispatcher, which hands the tracker what it    *)
(* follows.  Its invariant has two halves that do not meet: TipInv for the *)
(* rotation of tip accounts, where the balance follows from what turn each *)
(* region is at, and Submitted for the life of an opportunity.             *)
(***************************************************************************)
EXTENDS BundleTracker, Dispatcher, SequenceTheorems, TLAPS

(* A closed stream holds no results.                                       *)
ClosedEmpty == \A r \in Regions : sub[r] = "none" => mail[r] = <<>>

(* The consumer registers a bundle once, after submitting it.              *)
RegisteredInTurn ==
  \A b \in Bundles : wait[b] \in {"before", "submitted"} => status[b] = "absent"

IInv == /\ TypeOK /\ AnswerStands /\ SubscriptionsJoined
        /\ ClosedEmpty /\ RegisteredInTurn

(* Every result type stands for a terminal status other than Expired.      *)
LEMMA StatusOfTerminal ==
  ASSUME NEW result \in ResultTypes
  PROVE  StatusOf(result) \in Terminal
  BY DEF StatusOf, ResultTypes, Terminal, Confirmed

(* update_status keeps the types, and keeps answers and rows in step with  *)
(* the statuses, whatever records and terminal status it is given.         *)
LEMMA UpdateStatusKeeps ==
  ASSUME TypeOK, AnswerStands,
         NEW S, NEW s \in Terminal, UpdateStatus(S, s)
  PROVE  /\ status' \in [Bundles -> Terminal \cup {"absent", "Pending"}]
         /\ answer' \in [Bundles -> Terminal \cup {"none"}]
         /\ trackerRows' \subseteq Bundles
         /\ AnswerStands'
         /\ \A b \in Bundles : status[b] = "absent" => status'[b] = "absent"
<1>1. status' \in [Bundles -> Terminal \cup {"absent", "Pending"}]
  BY DEF UpdateStatus, TypeOK
<1>2. answer' \in [Bundles -> Terminal \cup {"none"}]
  BY DEF UpdateStatus, TypeOK
<1>3. trackerRows' \subseteq Bundles
  BY DEF UpdateStatus, TypeOK, Pending
<1>4. AnswerStands'
  <2> SUFFICES ASSUME NEW b \in Bundles
               PROVE  /\ answer'[b] = IF status'[b] \in Terminal
                                      THEN status'[b] ELSE "none"
                      /\ b \in trackerRows' <=> status'[b] \in Confirmed
    BY DEF AnswerStands
  <2>1. CASE b \in S \cap Pending
    <3>1. status'[b] = s /\ answer'[b] = s
      BY <2>1 DEF UpdateStatus
    <3>2. b \notin trackerRows
      BY <2>1 DEF AnswerStands, Pending, Confirmed
    <3>3. b \in trackerRows' <=> s \in Confirmed
      BY <2>1, <3>2 DEF UpdateStatus
    <3> QED BY <3>1, <3>3
  <2>2. CASE b \notin S \cap Pending
    <3>1. status'[b] = status[b] /\ answer'[b] = answer[b]
      BY <2>2 DEF UpdateStatus
    <3>2. b \in trackerRows' <=> b \in trackerRows
      BY <2>2 DEF UpdateStatus
    <3> QED BY <3>1, <3>2 DEF AnswerStands
  <2> QED BY <2>1, <2>2
<1>5. \A b \in Bundles : status[b] = "absent" => status'[b] = "absent"
  BY DEF UpdateStatus, Pending
<1> QED BY <1>1, <1>2, <1>3, <1>4, <1>5

(* The initial state satisfies the inductive invariant.                    *)
LEMMA InitEstablishes == Init => IInv
<1> SUFFICES ASSUME Init PROVE IInv OBVIOUS
<1>1. TypeOK
  <2>1. <<>> \in Seq([bundle : Bundles, result : ResultTypes]) OBVIOUS
  <2>2. mail \in [Regions -> Seq([bundle : Bundles, result : ResultTypes])]
    BY <2>1 DEF Init
  <2> QED BY <2>2 DEF Init, TypeOK
<1>2. AnswerStands BY DEF Init, AnswerStands, Terminal, Confirmed
<1>3. SubscriptionsJoined BY DEF Init, SubscriptionsJoined
<1>4. ClosedEmpty BY DEF Init, ClosedEmpty
<1>5. RegisteredInTurn BY DEF Init, RegisteredInTurn
<1> QED BY <1>1, <1>2, <1>3, <1>4, <1>5 DEF IInv

(* A step that leaves records, streams or the loop alone keeps what is     *)
(* said of them.                                                           *)
LEMMA FramesKeep ==
  /\ AnswerStands /\ UNCHANGED records => AnswerStands'
  /\ SubscriptionsJoined /\ UNCHANGED <<loop, streams>> => SubscriptionsJoined'
  /\ ClosedEmpty /\ UNCHANGED streams => ClosedEmpty'
  /\ RegisteredInTurn /\ UNCHANGED <<status, wait>> => RegisteredInTurn'
  BY DEF AnswerStands, SubscriptionsJoined, ClosedEmpty, RegisteredInTurn,
         records, streams

(* A subscription that leaves, or moves on with its stream open, in a      *)
(* state where the loop joins it, keeps what is said of the streams.       *)
LEMMA LeaveKeeps ==
  ASSUME TypeOK, ClosedEmpty, SubscriptionsJoined,
         NEW r \in Regions, sub[r] # "none", loop' = loop, Leave(r)
  PROVE  /\ sub' \in [Regions -> {"none", "connecting", "checking", "reading"}]
         /\ mail' \in [Regions -> Seq([bundle : Bundles, result : ResultTypes])]
         /\ ClosedEmpty'
         /\ SubscriptionsJoined'
<1>1. loop = "joining" BY DEF SubscriptionsJoined
<1>2. <<>> \in Seq([bundle : Bundles, result : ResultTypes]) OBVIOUS
<1>3. mail' \in [Regions -> Seq([bundle : Bundles, result : ResultTypes])]
  BY <1>2 DEF Leave, TypeOK
<1> QED BY <1>1, <1>3 DEF Leave, TypeOK, ClosedEmpty, SubscriptionsJoined

LEMMA MoveOnKeeps ==
  ASSUME TypeOK, ClosedEmpty, SubscriptionsJoined,
         NEW r \in Regions, sub[r] # "none", loop' = loop,
         NEW l \in {"checking", "reading"}, sub' = [sub EXCEPT ![r] = l],
         \A q \in Regions \ {r} : mail'[q] = mail[q]
  PROVE  /\ sub' \in [Regions -> {"none", "connecting", "checking", "reading"}]
         /\ ClosedEmpty'
         /\ SubscriptionsJoined'
  BY DEF TypeOK, ClosedEmpty, SubscriptionsJoined

(* Every step preserves the inductive invariant.                           *)
LEMMA StepPreserves == IInv /\ [Next]_vars => IInv'
<1> SUFFICES ASSUME IInv, [Next]_vars PROVE IInv' OBVIOUS
<1> USE DEF IInv
<1>1. ASSUME NEW b \in Bundles, Register(b) PROVE IInv'
  <2>1. TypeOK' BY <1>1 DEF Register, TypeOK, streams
  <2>2. AnswerStands'
    BY <1>1 DEF Register, AnswerStands, TypeOK, Terminal, Confirmed,
                RegisteredInTurn
  <2>9. RegisteredInTurn'
    BY <1>1 DEF Register, RegisteredInTurn, TypeOK, records
  <2> QED BY <2>9, <1>1, <2>1, <2>2, FramesKeep DEF Register
<1>2. ASSUME NEW b \in Bundles, Receive(b) PROVE IInv'
  <2>1. TypeOK' BY <1>2 DEF Receive, TypeOK, streams, records
  <2>9. RegisteredInTurn'
    BY <1>2 DEF Receive, RegisteredInTurn, TypeOK, records
  <2> QED BY <2>9, <1>2, <2>1, FramesKeep DEF Receive
<1>3. ASSUME NEW b \in Bundles, TimeOut(b) PROVE IInv'
  <2>1. TypeOK' BY <1>3 DEF TimeOut, TypeOK, streams, records
  <2>9. RegisteredInTurn'
    BY <1>3 DEF TimeOut, RegisteredInTurn, TypeOK, records
  <2> QED BY <2>9, <1>3, <2>1, FramesKeep DEF TimeOut
<1>4. CASE Wake
  <2>1. TypeOK' BY <1>4 DEF Wake, TypeOK, streams, records, consumer
  <2>2. SubscriptionsJoined' BY <1>4 DEF Wake, SubscriptionsJoined, streams
  <2> QED BY <1>4, <2>1, <2>2, FramesKeep DEF Wake, records, consumer
<1>5. CASE Scan
  <2>1. sub' \in [Regions -> {"none", "connecting", "checking", "reading"}]
    <3>1. CASE Pending = {} BY <1>5, <3>1 DEF Scan, TypeOK
    <3>2. CASE Pending # {}
      <4> DEFINE wanted == {r \in Clients : r \in {region[b] : b \in Pending}}
      <4>1. sub' = [r \in Regions |->
                      IF r \in wanted THEN "connecting" ELSE sub[r]]
        BY <1>5, <3>2 DEF Scan
      <4> HIDE DEF wanted
      <4> QED BY <4>1 DEF TypeOK
    <3> QED BY <3>1, <3>2
  <2>2. TypeOK' BY <1>5, <2>1 DEF Scan, TypeOK, records, consumer
  <2>3. SubscriptionsJoined' BY <1>5 DEF Scan, SubscriptionsJoined
  <2>4. ASSUME NEW r \in Regions, sub'[r] = "none" PROVE sub[r] = "none"
    <3>1. CASE Pending = {} BY <1>5, <2>4, <3>1 DEF Scan
    <3>2. CASE Pending # {}
      <4> DEFINE wanted == {q \in Clients : q \in {region[b] : b \in Pending}}
      <4>1. sub' = [q \in Regions |->
                      IF q \in wanted THEN "connecting" ELSE sub[q]]
        BY <1>5, <3>2 DEF Scan
      <4> HIDE DEF wanted
      <4> QED BY <2>4, <4>1
    <3> QED BY <3>1, <3>2
  <2>5. ClosedEmpty'
    BY <1>5, <2>4 DEF Scan, ClosedEmpty
  <2> QED BY <1>5, <2>2, <2>3, <2>5, FramesKeep DEF Scan, records, consumer
<1>6. CASE IdleWake
  <2>1. TypeOK' BY <1>6 DEF IdleWake, TypeOK, streams, records, consumer
  <2>2. SubscriptionsJoined'
    BY <1>6 DEF IdleWake, SubscriptionsJoined, streams
  <2> QED BY <1>6, <2>1, <2>2, FramesKeep DEF IdleWake, records, consumer
<1>7. CASE Join
  <2>0. "Expired" \in Terminal BY DEF Terminal
  <2>1. UpdateStatus(aged, "Expired") BY <1>7 DEF Join
  <2>2. /\ status' \in [Bundles -> Terminal \cup {"absent", "Pending"}]
        /\ answer' \in [Bundles -> Terminal \cup {"none"}]
        /\ trackerRows' \subseteq Bundles
        /\ AnswerStands'
        /\ \A b \in Bundles : status[b] = "absent" => status'[b] = "absent"
    BY <2>0, <2>1, UpdateStatusKeeps
  <2>3. TypeOK' BY <1>7, <2>2 DEF Join, TypeOK, streams, consumer
  <2>4. SubscriptionsJoined'
    BY <1>7 DEF Join, SubscriptionsJoined, ClosedEmpty, streams
  <2>5. RegisteredInTurn' BY <1>7, <2>2 DEF Join, RegisteredInTurn, consumer
  <2> QED BY <1>7, <2>2, <2>3, <2>4, <2>5, FramesKeep DEF Join
<1>8. ASSUME NEW r \in Regions, Connect(r) PROVE IInv'
  <2>1. sub[r] # "none" /\ loop' = loop BY <1>8 DEF Connect
  <2>2. CASE sub' = [sub EXCEPT ![r] = "checking"] /\ UNCHANGED mail
    <3>1. /\ sub' \in [Regions -> {"none", "connecting", "checking", "reading"}]
          /\ ClosedEmpty' /\ SubscriptionsJoined'
      BY <2>1, <2>2, MoveOnKeeps
    <3>2. TypeOK' BY <1>8, <2>2, <3>1 DEF Connect, TypeOK, records, consumer
    <3> QED BY <1>8, <3>1, <3>2, FramesKeep DEF Connect, records, consumer
  <2>3. CASE Leave(r)
    <3>1. TypeOK'
      BY <1>8, <2>1, <2>3, LeaveKeeps DEF Connect, TypeOK, records, consumer
    <3> QED BY <1>8, <2>1, <2>3, <3>1, LeaveKeeps, FramesKeep DEF Connect, records, consumer
  <2> QED BY <1>8, <2>2, <2>3 DEF Connect
<1>9. ASSUME NEW r \in Regions, CheckRegion(r) PROVE IInv'
  <2>1. sub[r] # "none" /\ loop' = loop BY <1>9 DEF CheckRegion
  <2>2. CASE sub' = [sub EXCEPT ![r] = "reading"] /\ UNCHANGED mail
    <3>1. /\ sub' \in [Regions -> {"none", "connecting", "checking", "reading"}]
          /\ ClosedEmpty' /\ SubscriptionsJoined'
      BY <2>1, <2>2, MoveOnKeeps
    <3>2. TypeOK' BY <1>9, <2>2, <3>1 DEF CheckRegion, TypeOK, records, consumer
    <3> QED BY <1>9, <3>1, <3>2, FramesKeep DEF CheckRegion, records, consumer
  <2>3. CASE Leave(r)
    <3>1. TypeOK'
      BY <1>9, <2>1, <2>3, LeaveKeeps DEF CheckRegion, TypeOK, records, consumer
    <3> QED BY <1>9, <2>1, <2>3, <3>1, LeaveKeeps, FramesKeep DEF CheckRegion, records, consumer
  <2> QED BY <1>9, <2>2, <2>3 DEF CheckRegion
<1>10. ASSUME NEW r \in Regions, ProcessResult(r) PROVE IInv'
  <2>0. sub[r] # "none" /\ loop' = loop BY <1>10 DEF ProcessResult
  <2>1. mail[r] \in Seq([bundle : Bundles, result : ResultTypes])
    BY DEF TypeOK
  <2>2. /\ Head(mail[r]) \in [bundle : Bundles, result : ResultTypes]
        /\ Tail(mail[r]) \in Seq([bundle : Bundles, result : ResultTypes])
    <3>1. mail[r] # <<>> BY <1>10 DEF ProcessResult
    <3> QED BY <2>1, <3>1, HeadTailProperties
  <2>3. StatusOf(Head(mail[r]).result) \in Terminal
    BY <2>2, StatusOfTerminal
  <2>4. UpdateStatus({Head(mail[r]).bundle}, StatusOf(Head(mail[r]).result))
    BY <1>10 DEF ProcessResult
  <2>5. /\ status' \in [Bundles -> Terminal \cup {"absent", "Pending"}]
        /\ answer' \in [Bundles -> Terminal \cup {"none"}]
        /\ trackerRows' \subseteq Bundles
        /\ AnswerStands'
        /\ \A b \in Bundles : status[b] = "absent" => status'[b] = "absent"
    BY <2>3, <2>4, UpdateStatusKeeps
  <2>6. mail' = [mail EXCEPT ![r] = Tail(@)] BY <1>10 DEF ProcessResult
  <2>7. mail' \in [Regions -> Seq([bundle : Bundles, result : ResultTypes])]
    BY <2>2, <2>6 DEF TypeOK
  <2>8. \A q \in Regions \ {r} : mail'[q] = mail[q]
    BY <2>6 DEF TypeOK
  <2>9. /\ sub' \in [Regions -> {"none", "connecting", "checking", "reading"}]
        /\ ClosedEmpty' /\ SubscriptionsJoined'
    BY <1>10, <2>0, <2>8, MoveOnKeeps DEF ProcessResult
  <2>10. TypeOK'
    BY <1>10, <2>5, <2>7, <2>9 DEF ProcessResult, TypeOK, consumer
  <2>11. RegisteredInTurn'
    BY <1>10, <2>5 DEF ProcessResult, RegisteredInTurn, consumer
  <2> QED BY <2>5, <2>9, <2>10, <2>11
<1>11. ASSUME NEW r \in Regions, EndStream(r) PROVE IInv'
  <2>1. sub[r] # "none" /\ loop' = loop /\ Leave(r) BY <1>11 DEF EndStream
  <2>2. TypeOK'
    BY <1>11, <2>1, LeaveKeeps DEF EndStream, TypeOK, records, consumer
  <2> QED BY <1>11, <2>1, <2>2, LeaveKeeps, FramesKeep DEF EndStream, records, consumer
<1>12. ASSUME NEW b \in Bundles, Decide(b) PROVE IInv'
  <2>1. PICK result \in ResultTypes :
          /\ engine' = [engine EXCEPT ![b] = result]
          /\ mail' = [r \in Regions |->
                        IF sub[r] \in {"checking", "reading"}
                        THEN Append(mail[r], [bundle |-> b, result |-> result])
                        ELSE mail[r]]
          /\ UNCHANGED <<records, region, aged, notified, loop, sub, consumer>>
    BY <1>12, ResultsAssumption DEF Decide
  <2>2. mail' \in [Regions -> Seq([bundle : Bundles, result : ResultTypes])]
    <3> SUFFICES ASSUME NEW r \in Regions
                 PROVE  mail'[r] \in Seq([bundle : Bundles, result : ResultTypes])
      BY <2>1
    <3>1. mail[r] \in Seq([bundle : Bundles, result : ResultTypes])
      BY DEF TypeOK
    <3>2. [bundle |-> b, result |-> result]
            \in [bundle : Bundles, result : ResultTypes]
      OBVIOUS
    <3>3. Append(mail[r], [bundle |-> b, result |-> result])
            \in Seq([bundle : Bundles, result : ResultTypes])
      BY <3>1, <3>2, AppendProperties
    <3> QED BY <2>1, <3>1, <3>3
  <2>3. TypeOK' BY <2>1, <2>2 DEF TypeOK, records, consumer
  <2>4. ClosedEmpty' /\ SubscriptionsJoined'
    BY <2>1 DEF ClosedEmpty, SubscriptionsJoined
  <2> QED BY <2>1, <2>3, <2>4, FramesKeep DEF records, consumer
<1>13. ASSUME NEW b \in Bundles, Age(b) PROVE IInv'
  <2>1. TypeOK' BY <1>13 DEF Age, TypeOK, records, streams, consumer
  <2> QED BY <1>13, <2>1, FramesKeep DEF Age, records, consumer
<1>14. ASSUME NEW b \in Bundles, Submit(b) PROVE IInv'
  <2>1. TypeOK' BY <1>14 DEF Submit, TypeOK, streams, records
  <2>9. RegisteredInTurn'
    BY <1>14 DEF Submit, RegisteredInTurn, TypeOK, records
  <2> QED BY <2>9, <1>14, <2>1, FramesKeep DEF Submit
<1>15. CASE UNCHANGED vars
  <2>1. TypeOK' BY <1>15 DEF TypeOK, vars, records, streams, consumer
  <2> QED BY <1>15, <2>1, FramesKeep DEF vars, records, consumer
<1> QED
  BY <1>1, <1>2, <1>3, <1>4, <1>5, <1>6, <1>7, <1>8, <1>9, <1>10, <1>11,
     <1>12, <1>13, <1>14, <1>15
  DEF Next, PollingLoop, Subscription, Consumer

(* IInv holds throughout every behaviour.                                  *)
THEOREM Inductive == Spec => []IInv
  BY InitEstablishes, StepPreserves, PTL DEF Spec

(* The tracker's state keeps its types.                                    *)
THEOREM TypeCorrect == Spec => []TypeOK
<1>1. IInv => TypeOK BY DEF IInv
<1> QED BY <1>1, Inductive, PTL

(* The first terminal status of a record stands: it is what the consumer   *)
(* was told, and the record is in the database as landed exactly if it is  *)
(* a confirmation, in whatever order results, failures and prunes come.    *)
THEOREM FirstStatusStands == Spec => []AnswerStands
<1>1. IInv => AnswerStands BY DEF IInv
<1> QED BY <1>1, Inductive, PTL

(* No subscription outlives the round that spawned it.                     *)
THEOREM RoundsAreJoined == Spec => []SubscriptionsJoined
<1>1. IInv => SubscriptionsJoined BY DEF IInv
<1> QED BY <1>1, Inductive, PTL
-----------------------------------------------------------------------------
(* The dispatcher, for any regions, keys and numbers of tip accounts: what *)
(* it submits is what the tracker is given to follow.                      *)

(* A client is one of the definitions tried, each tried once; and before   *)
(* the first signal no tip account was taken.                              *)
Wired ==
  /\ \A i \in 1..Len(clients) : \E d \in 1..tried : clients[i] = Definitions[d]
  /\ phase = "connecting" =>
       /\ nextRegion = 0
       /\ \A r \in RegionLabels : turns[r] = 0 /\ nextAccount[r] = 0
       /\ \A r \in RegionLabels : \A i \in Indices : taken[r][i] = 0

(* The rotation has passed the givers before nextRegion once more than the *)
(* others; and likewise the accounts of a region before its nextAccount.   *)
Passes(q) ==
  \A i \in 0 .. Len(clients) - 1 :
    Gives(i) => turns[clients[i + 1]] = IF i < nextRegion THEN q + 1 ELSE q

PassesOf(r, q) ==
  \A i \in 0 .. accounts[r] - 1 :
    taken[r][i] = IF i < nextAccount[r] THEN q + 1 ELSE q

Rotated == \E q \in Nat : Passes(q)

RotatedWithin == \A r \in RegionLabels : \E q \in Nat : PassesOf(r, q)

TipInv == DispatcherTypeOK /\ Wired /\ Rotated /\ RotatedWithin

(* Going once around a sequence of n.                                      *)
LEMMA WrapsOnce ==
  ASSUME NEW n \in Nat, NEW p \in Nat, NEW o \in Nat, p < n, o <= n
  PROVE  (p + o) % n = IF p + o < n THEN p + o ELSE p + o - n
<1>1. CASE p + o < n BY <1>1
<1>2. CASE p + o >= n
  <2>1. p + o < 2 * n BY <1>2
  <2> QED BY <1>2, <2>1
<1> QED BY <1>1, <1>2

LEMMA NextWraps ==
  ASSUME NEW n \in Nat, NEW p \in Nat, p < n
  PROVE  (p + 1) % n = IF p + 1 < n THEN p + 1 ELSE 0
<1>1. 1 <= n /\ p + 1 - n = IF p + 1 < n THEN p + 1 - n ELSE 0 OBVIOUS
<1>2. (p + 1) % n = IF p + 1 < n THEN p + 1 ELSE p + 1 - n BY <1>1, WrapsOnce
<1> QED BY <1>1, <1>2

LEMMA DispatcherStarts == DispatcherInit => TipInv
<1> SUFFICES ASSUME DispatcherInit PROVE TipInv OBVIOUS
<1>1. Len(Definitions) \in Nat /\ Len(clients) = 0 /\ clients \in Seq(RegionLabels)
  BY DefinitionsAssumption, LenProperties DEF DispatcherInit
<1>2. DOMAIN clients = {} BY DEF DispatcherInit
<1>3. DispatcherTypeOK BY <1>1, <1>2 DEF DispatcherInit, DispatcherTypeOK, IsInjective
<1>4. Wired BY <1>1 DEF DispatcherInit, Wired
<1>5. Rotated
  <2>1. Passes(0) BY <1>1 DEF Passes
  <2> QED BY <2>1 DEF Rotated
<1>6. RotatedWithin
  <2>1. \A r \in RegionLabels : PassesOf(r, 0) BY DEF DispatcherInit, PassesOf
  <2> QED BY <2>1 DEF RotatedWithin
<1> QED BY <1>3, <1>4, <1>5, <1>6 DEF TipInv

(* What the types of the rotation amount to.                               *)
LEMMA RotationTyped ==
  ASSUME DispatcherTypeOK
  PROVE  /\ Len(clients) \in Nat /\ DOMAIN clients = 1..Len(clients)
         /\ \A i \in 1..Len(clients) : clients[i] \in RegionLabels
         /\ \A i, j \in 1..Len(clients) : clients[i] = clients[j] => i = j
         /\ nextRegion \in Nat /\ (Len(clients) > 0 => nextRegion < Len(clients))
         /\ \A r \in RegionLabels : /\ accounts[r] \in Nat /\ nextAccount[r] \in Nat
                                    /\ accounts[r] > 0 => nextAccount[r] < accounts[r]
                                    /\ 0 .. accounts[r] - 1 \subseteq Indices
<1>1. /\ Len(clients) \in Nat /\ DOMAIN clients = 1..Len(clients)
      /\ \A i \in 1..Len(clients) : clients[i] \in RegionLabels
  BY LenProperties, ElementOfSeq DEF DispatcherTypeOK
<1>2. \A i, j \in 1..Len(clients) : clients[i] = clients[j] => i = j
  <2>1. IsInjective(clients) BY DEF DispatcherTypeOK
  <2> QED BY <1>1, <2>1 DEF IsInjective
<1>3. nextRegion \in Nat /\ (Len(clients) > 0 => nextRegion < Len(clients))
  BY <1>1 DEF DispatcherTypeOK
<1>4. ASSUME NEW r \in RegionLabels
      PROVE  /\ accounts[r] \in Nat /\ nextAccount[r] \in Nat
             /\ accounts[r] > 0 => nextAccount[r] < accounts[r]
             /\ 0 .. accounts[r] - 1 \subseteq Indices
  <2>1. accounts[r] \in AccountCounts \cup {0} /\ accounts[r] \in Nat
    <3>1. accounts \in [RegionLabels -> AccountCounts \cup {0}] BY DEF DispatcherTypeOK
    <3>2. AccountCounts \cup {0} \subseteq Nat BY AccountsAssumption
    <3>3. accounts[r] \in AccountCounts \cup {0} BY <3>1
    <3> QED BY <3>2, <3>3
  <2>2. nextAccount[r] \in Nat /\ (accounts[r] > 0 => nextAccount[r] < accounts[r])
    BY <2>1 DEF DispatcherTypeOK
  <2>3. CASE accounts[r] \in AccountCounts BY <2>1, <2>2, <2>3 DEF Indices
  <2>4. CASE accounts[r] = 0 BY <2>2, <2>4
  <2> QED BY <2>1, <2>3, <2>4
<1> QED BY <1>1, <1>2, <1>3, <1>4

(* Another region connects: it has no account taken, and comes last.       *)
LEMMA ConnectKeeps == ASSUME TipInv, ConnectNext PROVE TipInv'
<1> DEFINE r == Definitions[tried + 1]
           n == Len(clients)
<1>1. /\ tried \in Nat /\ tried + 1 \in 1..Len(Definitions) /\ tried' = tried + 1
      /\ Len(Definitions) \in Nat /\ DOMAIN Definitions = 1..Len(Definitions)
      /\ r \in RegionLabels
  <2>1. Len(Definitions) \in Nat /\ DOMAIN Definitions = 1..Len(Definitions)
    BY DefinitionsAssumption, LenProperties
  <2>2. tried \in Nat /\ tried + 1 \in 1..Len(Definitions) /\ tried' = tried + 1
    BY <2>1 DEF ConnectNext, TipInv, DispatcherTypeOK
  <2> QED BY <2>1, <2>2, DefinitionsAssumption, ElementOfSeq
<1>2. /\ n \in Nat /\ DOMAIN clients = 1..n
      /\ \A i \in 1..n : clients[i] \in RegionLabels
      /\ \A i, j \in 1..n : clients[i] = clients[j] => i = j
  BY RotationTyped DEF TipInv
<1>3. /\ phase = "connecting" /\ phase' = phase
      /\ UNCHANGED <<nextAccount, nextRegion, turns, taken, seen, key, task, inFlight,
                     delivered, told>>
  BY DEF ConnectNext, tips, network
<1>4. /\ nextRegion = 0
      /\ \A s \in RegionLabels : turns[s] = 0 /\ nextAccount[s] = 0
      /\ \A s \in RegionLabels : \A i \in Indices : taken[s][i] = 0
  BY <1>3 DEF TipInv, Wired
<1>5. accounts' \in [RegionLabels -> AccountCounts \cup {0}]
  BY <1>1 DEF ConnectNext, TipInv, DispatcherTypeOK
<1>6. /\ clients' \in Seq(RegionLabels) /\ IsInjective(clients')
      /\ \A i \in 1..Len(clients') : \E d \in 1..tried' : clients'[i] = Definitions[d]
  <2>1. \A d \in 1..tried : d \in 1..tried' BY <1>1
  <2>2. tried + 1 \in 1..tried' BY <1>1
  <2>3. CASE clients' = clients
    BY <1>2, <2>1, <2>3 DEF TipInv, Wired, DispatcherTypeOK
  <2>4. CASE clients' = Append(clients, r)
    <3>1. clients \in Seq(RegionLabels) BY DEF TipInv, DispatcherTypeOK
    <3>2. /\ clients' \in Seq(RegionLabels) /\ Len(clients') = n + 1
          /\ DOMAIN clients' = 1..(n + 1) /\ clients'[n + 1] = r
          /\ \A i \in 1..n : clients'[i] = clients[i]
      BY <1>1, <1>2, <2>4, <3>1, AppendProperties, LenProperties
    <3>3. \A i \in 1..n : clients[i] # r
      <4>1. \A d \in 1..tried : Definitions[d] # r
        BY <1>1, DefinitionsAssumption DEF IsInjective
      <4> QED BY <4>1 DEF TipInv, Wired
    <3>4. \A i \in 1..(n + 1) : i \in 1..n \/ i = n + 1 BY <1>2
    <3>5. IsInjective(clients')
      BY <1>2, <3>2, <3>3, <3>4 DEF IsInjective
    <3>6. \A i \in 1..n : \E d \in 1..tried : clients[i] = Definitions[d]
      BY DEF TipInv, Wired
    <3> QED BY <2>1, <2>2, <3>2, <3>4, <3>5, <3>6
  <2> QED BY <2>3, <2>4 DEF ConnectNext
<1>7. DispatcherTypeOK'
  <2>1. tried' \in 0 .. Len(Definitions) BY <1>1
  <2>2. \A s \in RegionLabels : nextAccount[s] = 0 BY <1>4
  <2> QED BY <1>3, <1>4, <1>5, <1>6, <2>1, <2>2 DEF TipInv, DispatcherTypeOK
<1>8. Wired' BY <1>3, <1>4, <1>6 DEF Wired
<1>9. (/\ Len(clients) \in Nat
       /\ \A i \in 1..Len(clients) : clients[i] \in RegionLabels
       /\ \A s \in RegionLabels : 0 .. accounts[s] - 1 \subseteq Indices)'
  <2>1. \A i \in 1..Len(clients') : clients'[i] \in RegionLabels
    BY <1>6, ElementOfSeq
  <2>2. ASSUME NEW s \in RegionLabels PROVE 0 .. accounts'[s] - 1 \subseteq Indices
    <3>1. accounts'[s] \in AccountCounts \cup {0} BY <1>5
    <3>2. CASE accounts'[s] \in AccountCounts BY <3>2 DEF Indices
    <3>3. CASE accounts'[s] = 0 BY <3>3
    <3> QED BY <3>1, <3>2, <3>3
  <2> QED BY <1>6, <2>1, <2>2, LenProperties
<1>10. Rotated'
  <2>1. \A i \in 0 .. Len(clients') - 1 : turns'[clients'[i + 1]] = 0 /\ ~(i < nextRegion')
    <3>1. \A i \in 0 .. Len(clients') - 1 : i + 1 \in 1..Len(clients') BY <1>9
    <3> QED BY <1>3, <1>4, <1>9, <3>1
  <2>2. Passes(0)' BY <2>1 DEF Passes
  <2> QED BY <2>2 DEF Rotated
<1>11. RotatedWithin'
  <2>1. ASSUME NEW s \in RegionLabels PROVE PassesOf(s, 0)'
    <3>1. \A i \in 0 .. accounts'[s] - 1 : taken'[s][i] = 0 /\ ~(i < nextAccount'[s])
      BY <1>3, <1>4, <1>9
    <3> QED BY <3>1 DEF PassesOf
  <2> QED BY <2>1 DEF RotatedWithin
<1> QED BY <1>7, <1>8, <1>10, <1>11 DEF TipInv

(* A signal takes the account of the first giver in the rotation.          *)
LEMMA TakeTipKeeps == ASSUME TipInv, TakeTip PROVE TipInv'
<1> DEFINE n == Len(clients)
           p == nextRegion
<1>1. PICK o \in 0 .. n - 1 :
        /\ FirstGiving(o)
        /\ TakeFrom(clients[Position(o) + 1])
        /\ nextRegion' = (Position(o) + 1) % n
  BY DEF TakeTip, RegionAt
<1>2. /\ phase = "idle" /\ phase' = "building"
      /\ UNCHANGED <<tried, clients, accounts, seen, key, task, inFlight, delivered, told>>
  BY DEF TakeTip, wiring, network
<1>3. /\ n \in Nat /\ n > 0 /\ p \in Nat /\ p < n /\ o \in Nat /\ o < n
      /\ \A i \in 1..n : clients[i] \in RegionLabels
      /\ \A i, j \in 1..n : clients[i] = clients[j] => i = j
      /\ \A r \in RegionLabels : /\ accounts[r] \in Nat /\ nextAccount[r] \in Nat
                                 /\ accounts[r] > 0 => nextAccount[r] < accounts[r]
                                 /\ 0 .. accounts[r] - 1 \subseteq Indices
  BY <1>1, RotationTyped DEF TipInv
<1>i. PICK i : i = Position(o) OBVIOUS
<1>r. PICK r : r = clients[i + 1] OBVIOUS
<1>4. \A e \in 0 .. n - 1 : Position(e) = IF p + e < n THEN p + e ELSE p + e - n
  <2> SUFFICES ASSUME NEW e \in 0 .. n - 1
               PROVE  Position(e) = IF p + e < n THEN p + e ELSE p + e - n
    OBVIOUS
  <2>1. e \in Nat /\ e <= n BY <1>3
  <2>2. (p + e) % n = IF p + e < n THEN p + e ELSE p + e - n
    <3> HIDE DEF n, p
    <3> QED BY <1>3, <2>1, WrapsOnce
  <2> QED BY <2>2 DEF Position
<1>5. i \in Nat /\ i < n /\ i = (IF p + o < n THEN p + o ELSE p + o - n)
  BY <1>3, <1>4, <1>i
<1>6. Gives(i) /\ \A e \in 0 .. o - 1 : ~Gives(Position(e))
  BY <1>1, <1>i DEF FirstGiving
<1>7. r \in RegionLabels /\ accounts[r] > 0
  BY <1>3, <1>5, <1>6, <1>r DEF Gives, RegionAt
<1>8. nextRegion' = IF i + 1 < n THEN i + 1 ELSE 0
  <2>1. (i + 1) % n = IF i + 1 < n THEN i + 1 ELSE 0
    <3> HIDE DEF n, p
    <3> QED BY <1>3, <1>5, NextWraps
  <2> QED BY <1>1, <1>i, <2>1
<1>9. /\ nextAccount' = [nextAccount EXCEPT ![r] = (@ + 1) % accounts[r]]
      /\ turns' = [turns EXCEPT ![r] = @ + 1]
      /\ taken' = [taken EXCEPT ![r][nextAccount[r]] = @ + 1]
  BY <1>1, <1>i, <1>r DEF TakeFrom
<1> DEFINE a == nextAccount[r]
           m == accounts[r]
<1>10. m \in Nat /\ m > 0 /\ a \in Nat /\ a < m /\ a \in Indices
  BY <1>3, <1>7
<1>11. (a + 1) % m = IF a + 1 < m THEN a + 1 ELSE 0
  <2> HIDE DEF a, m
  <2> QED BY <1>10, NextWraps
<1>12. /\ turns \in [RegionLabels -> Nat] /\ taken \in [RegionLabels -> [Indices -> Nat]]
       /\ nextAccount \in [RegionLabels -> Nat]
  BY DEF TipInv, DispatcherTypeOK
<1>13. /\ nextAccount'[r] = (IF a + 1 < m THEN a + 1 ELSE 0)
       /\ turns'[r] = turns[r] + 1 /\ taken'[r] = [taken[r] EXCEPT ![a] = @ + 1]
       /\ \A s \in RegionLabels : s # r =>
            nextAccount'[s] = nextAccount[s] /\ turns'[s] = turns[s] /\ taken'[s] = taken[s]
  BY <1>7, <1>9, <1>11, <1>12
<1>14. DispatcherTypeOK'
  <2>1. nextAccount' \in [RegionLabels -> Nat]
    <3>1. (a + 1) % m \in Nat BY <1>10, <1>11
    <3> QED BY <1>9, <1>12, <3>1
  <2>2. \A s \in RegionLabels : nextAccount'[s] < accounts[s] \/ nextAccount'[s] = 0
    BY <1>10, <1>13 DEF TipInv, DispatcherTypeOK
  <2>3. nextRegion' = 0 \/ nextRegion' \in 1 .. n - 1 BY <1>3, <1>5, <1>8
  <2>4. turns' \in [RegionLabels -> Nat] BY <1>7, <1>9, <1>12
  <2>5. taken' \in [RegionLabels -> [Indices -> Nat]] BY <1>7, <1>9, <1>10, <1>12
  <2> QED BY <1>2, <2>1, <2>2, <2>3, <2>4, <2>5 DEF TipInv, DispatcherTypeOK
<1>15. Wired' BY <1>2 DEF TipInv, Wired
<1>16. Rotated'
  <2>1. PICK q \in Nat : Passes(q) BY DEF TipInv, Rotated
  <2>2. \A j \in 0 .. n - 1 : Gives(j)' <=> Gives(j)
    BY <1>2 DEF Gives, RegionAt
  <2>3. /\ turns'[clients[i + 1]] = turns[clients[i + 1]] + 1
        /\ \A j \in 0 .. n - 1 : j # i => turns'[clients[j + 1]] = turns[clients[j + 1]]
    <3>1. i + 1 \in 1..n /\ \A j \in 0 .. n - 1 : j + 1 \in 1..n BY <1>3, <1>5
    <3>2. \A j \in 0 .. n - 1 : j # i => clients[j + 1] # r
      <4> SUFFICES ASSUME NEW j \in 0 .. n - 1, clients[j + 1] = clients[i + 1]
                   PROVE  j = i
        BY <1>r
      <4>1. j + 1 = i + 1 BY <1>3, <3>1
      <4> QED BY <1>5, <4>1
    <3> QED BY <1>3, <1>13, <1>r, <3>1, <3>2
  <2>4. \A j \in 0 .. n - 1 :
          Gives(j) => turns[clients[j + 1]] = IF j < p THEN q + 1 ELSE q
    BY <2>1 DEF Passes
  <2>5. CASE p + o < n
    <3>1. \A j \in 0 .. n - 1 : Gives(j) => j < p \/ j >= i
      <4> SUFFICES ASSUME NEW j \in 0 .. n - 1, j >= p, j < i PROVE ~Gives(j)
        BY <1>3, <1>5
      <4>1. j - p \in 0 .. o - 1 /\ j - p \in 0 .. n - 1 BY <1>3, <1>5, <2>5
      <4>2. Position(j - p) = j BY <1>3, <1>4, <4>1
      <4> QED BY <1>6, <4>1, <4>2
    <3>2. i >= p BY <1>3, <1>5, <2>5
    <3>3. CASE i + 1 < n
      <4>1. Passes(q)'
        <5> SUFFICES ASSUME NEW j \in 0 .. n - 1, Gives(j)
                     PROVE  turns'[clients[j + 1]] = IF j < i + 1 THEN q + 1 ELSE q
          BY <1>2, <1>8, <2>2, <3>3 DEF Passes
        <5>1. turns[clients[j + 1]] = IF j < p THEN q + 1 ELSE q BY <2>4
        <5>2. CASE j = i BY <1>3, <1>5, <2>3, <3>2, <5>1, <5>2
        <5>3. CASE j # i
          <6>1. turns'[clients[j + 1]] = turns[clients[j + 1]] BY <2>3, <5>3
          <6>2. j < p <=> j < i + 1 BY <1>3, <1>5, <3>1, <3>2, <5>3
          <6> QED BY <5>1, <6>1, <6>2
        <5> QED BY <5>2, <5>3
      <4> QED BY <2>1, <4>1 DEF Rotated
    <3>4. CASE i + 1 = n
      <4>1. Passes(q + 1)'
        BY <1>2, <1>3, <1>5, <1>6, <1>8, <2>2, <2>3, <2>4, <3>1, <3>2, <3>4 DEF Passes
      <4> QED BY <2>1, <4>1 DEF Rotated
    <3> QED BY <1>3, <1>5, <3>3, <3>4
  <2>6. CASE p + o >= n
    <3>1. i < p /\ i = p + o - n BY <1>3, <1>5, <2>6
    <3>2. \A j \in 0 .. n - 1 : Gives(j) => j < p /\ j >= i
      <4>1. ASSUME NEW j \in 0 .. n - 1, j >= p PROVE ~Gives(j)
        <5>1. j - p \in 0 .. o - 1 /\ j - p \in 0 .. n - 1 BY <1>3, <2>6, <4>1
        <5>2. Position(j - p) = j BY <1>3, <1>4, <4>1, <5>1
        <5> QED BY <1>6, <5>1, <5>2
      <4>2. ASSUME NEW j \in 0 .. n - 1, j < i PROVE ~Gives(j)
        <5>1. PICK e : e = j + n - p OBVIOUS
        <5>2. e \in 0 .. o - 1 /\ e \in 0 .. n - 1 /\ p + e = j + n
          BY <1>3, <3>1, <4>2, <5>1
        <5>3. ~(p + e < n) /\ p + e - n = j BY <1>3, <5>2
        <5>4. Position(e) = j BY <1>4, <5>2, <5>3
        <5> QED BY <1>6, <5>2, <5>4
      <4> QED BY <1>3, <1>5, <4>1, <4>2
    <3>3. Passes(q + 1)'
      <4>1. nextRegion' = i + 1 BY <1>3, <1>5, <1>8, <3>1
      <4> SUFFICES ASSUME NEW j \in 0 .. n - 1, Gives(j)
                   PROVE  turns'[clients[j + 1]] = IF j < i + 1 THEN q + 1 + 1 ELSE q + 1
        BY <1>2, <2>2, <4>1 DEF Passes
      <4>2. turns[clients[j + 1]] = q + 1 BY <2>4, <3>2
      <4>3. CASE j = i BY <1>5, <2>3, <4>2, <4>3
      <4>4. CASE j # i
        <5>1. turns'[clients[j + 1]] = turns[clients[j + 1]] BY <2>3, <4>4
        <5>2. ~(j < i + 1) BY <1>5, <3>2, <4>4
        <5> QED BY <4>2, <5>1, <5>2
      <4> QED BY <4>3, <4>4
    <3> QED BY <2>1, <3>3 DEF Rotated
  <2> QED BY <1>3, <2>5, <2>6
<1>17. RotatedWithin'
  <2> SUFFICES ASSUME NEW s \in RegionLabels PROVE \E q \in Nat : PassesOf(s, q)'
    BY DEF RotatedWithin
  <2>1. PICK q \in Nat : PassesOf(s, q) BY DEF TipInv, RotatedWithin
  <2>2. CASE s # r
    <3>1. PassesOf(s, q)' BY <1>2, <1>13, <2>1, <2>2 DEF PassesOf
    <3> QED BY <3>1
  <2>3. CASE s = r
    <3>1. \A j \in 0 .. m - 1 :
            taken'[r][j] = IF j = a THEN taken[r][j] + 1 ELSE taken[r][j]
      <4>1. taken[r] \in [Indices -> Nat] /\ 0 .. m - 1 \subseteq Indices
        BY <1>3, <1>7, <1>12
      <4> QED BY <1>13, <4>1
    <3>2. \A j \in 0 .. m - 1 : taken[r][j] = IF j < a THEN q + 1 ELSE q
      BY <2>1, <2>3 DEF PassesOf
    <3>3. CASE a + 1 < m
      <4>1. PassesOf(r, q)' BY <1>2, <1>10, <1>13, <3>1, <3>2, <3>3 DEF PassesOf
      <4> QED BY <2>3, <4>1
    <3>4. CASE a + 1 >= m
      <4>1. PassesOf(r, q + 1)' BY <1>2, <1>10, <1>13, <3>1, <3>2, <3>4 DEF PassesOf
      <4> QED BY <2>3, <4>1
    <3> QED BY <1>10, <3>3, <3>4
  <2> QED BY <2>2, <2>3
<1> QED BY <1>14, <1>15, <1>16, <1>17 DEF TipInv

(* Elsewhere the tip accounts are left alone.                              *)
LEMMA TipsLeftAlone ==
  ASSUME TipInv, DispatcherTypeOK',
         UNCHANGED <<tried, clients, accounts, nextAccount, nextRegion, turns, taken>>, phase' = "connecting" => phase = "connecting"
  PROVE  TipInv'
<1>1. Wired' BY DEF TipInv, Wired
<1>2. Rotated'
  <2>1. PICK q \in Nat : Passes(q) BY DEF TipInv, Rotated
  <2>2. Passes(q)' BY <2>1 DEF Passes, Gives, RegionAt
  <2> QED BY <2>1, <2>2 DEF Rotated
<1>3. RotatedWithin' BY DEF TipInv, RotatedWithin, PassesOf
<1> QED BY <1>1, <1>2, <1>3 DEF TipInv

(* An opportunity that was answered, or that a bundle is under way for,    *)
(* was seen; the one in hand has no answer before it is submitted, and     *)
(* tasks run only while the consumer waits for them.                       *)
Submitted ==
  /\ \A k \in Keys : told[k] # "none" => k \in seen
  /\ \A b \in inFlight \cup delivered : told[b[2]] # "none"
  /\ phase = "acquired" => key \in seen /\ told[key] = "none"
  /\ phase = "submitting" => key \in Keys /\ told[key] = "pending"
  /\ \A r \in RegionLabels :
       /\ phase # "submitting" => task[r] = "none"
       /\ task[r] = "acked" => <<r, key>> \in delivered

DispatchInv == TipInv /\ Submitted

LEMMA DispatchInit == DispatcherInit => DispatchInv
  BY DispatcherStarts DEF DispatcherInit, Submitted, DispatchInv

(* The consumer's own steps.                                               *)
LEMMA ConsumerKeeps ==
  ASSUME DispatchInv, NEW k,
         \/ ConnectNext \/ Start \/ TakeTip \/ NoTip
         \/ GiveUp \/ (k \in Keys /\ Acquire(k))
  PROVE  DispatchInv'
<1>1. UNCHANGED <<task, inFlight, delivered, told>>
  BY DEF ConnectNext, Start, TakeTip, NoTip, GiveUp, Acquire, network
<1>2. TipInv'
  <2>1. CASE ConnectNext \/ TakeTip BY <2>1, ConnectKeeps, TakeTipKeeps DEF DispatchInv
  <2>2. CASE Start \/ NoTip \/ GiveUp \/ (k \in Keys /\ Acquire(k))
    <3>1. /\ UNCHANGED <<tried, clients, accounts, nextAccount, nextRegion, turns, taken>>
          /\ phase' = "connecting" => phase = "connecting"
          /\ phase' \in {"connecting", "idle", "building", "acquired", "submitting", "ended"}
          /\ seen' \subseteq Keys /\ key' \in Keys \cup {"none"}
      BY <2>2 DEF Start, NoTip, GiveUp, Acquire, wiring, tips,
                  DispatchInv, TipInv, DispatcherTypeOK
    <3>2. DispatcherTypeOK' BY <1>1, <3>1 DEF DispatchInv, TipInv, DispatcherTypeOK
    <3> QED BY <3>1, <3>2, TipsLeftAlone DEF DispatchInv
  <2> QED BY <2>1, <2>2
<1>3. /\ phase \notin {"submitting"} /\ phase' # "submitting" /\ seen \subseteq seen'
      /\ phase' = "acquired" => k \in Keys /\ k \notin seen /\ key' = k /\ k \in seen'
  BY DEF ConnectNext, Start, TakeTip, NoTip, GiveUp, Acquire, network
<1>4. Submitted'
  <2>1. Submitted BY DEF DispatchInv
  <2>2. phase' = "acquired" => key' \in seen' /\ told'[key'] = "none"
    <3>1. ASSUME k \in Keys, k \notin seen PROVE told[k] = "none"
      BY <2>1, <3>1 DEF Submitted
    <3> QED BY <1>1, <1>3, <3>1
  <2>3. \A j \in Keys : told'[j] # "none" => j \in seen' BY <1>1, <1>3, <2>1 DEF Submitted
  <2>4. \A b \in inFlight' \cup delivered' : told'[b[2]] # "none"
    BY <1>1, <2>1 DEF Submitted
  <2>5. \A r \in RegionLabels : task'[r] = "none" BY <1>1, <1>3, <2>1 DEF Submitted
  <2> QED BY <1>3, <2>2, <2>3, <2>4, <2>5 DEF Submitted
<1> QED BY <1>2, <1>4 DEF DispatchInv

(* The fan-out, its tasks and the network.                                 *)
LEMMA FanOutKeeps ==
  ASSUME DispatchInv, NEW r, NEW k,
         \/ FanOut \/ JoinAll
         \/ (r \in RegionLabels /\ Submission(r))
         \/ (r \in RegionLabels /\ k \in Keys /\ Arrive(r, k))
  PROVE  DispatchInv'
<1>1. UNCHANGED <<tried, clients, accounts, nextAccount, nextRegion, turns, taken, seen>>
  BY DEF FanOut, Submission, Answered, Refused, SubmitTimesOut, Arrive, JoinAll,
         wiring, tips
<1>2. /\ seen \subseteq Keys /\ key \in Keys \cup {"none"}
      /\ task \in [RegionLabels -> {"none", "sending"} \cup Finished]
      /\ inFlight \subseteq RegionLabels \X Keys /\ delivered \subseteq RegionLabels \X Keys
      /\ told \in [Keys -> {"none", "pending"} \cup Finished]
      /\ phase \in {"connecting", "idle", "building", "acquired", "submitting", "ended"}
  BY DEF DispatchInv, TipInv, DispatcherTypeOK
<1>3. Submitted BY DEF DispatchInv
<1> DEFINE Rest == /\ phase' \in {"connecting", "idle", "building", "acquired",
                                 "submitting", "ended"}
                   /\ phase' = "connecting" => phase = "connecting"
                   /\ key' \in Keys \cup {"none"}
                   /\ task' \in [RegionLabels -> {"none", "sending"} \cup Finished]
                   /\ inFlight' \subseteq RegionLabels \X Keys
                   /\ delivered' \subseteq RegionLabels \X Keys
                   /\ told' \in [Keys -> {"none", "pending"} \cup Finished]
<1>4. Rest => TipInv'
  <2> SUFFICES ASSUME Rest PROVE TipInv' OBVIOUS
  <2>1. DispatcherTypeOK' BY <1>1, <1>2 DEF DispatchInv, TipInv, DispatcherTypeOK
  <2> QED BY <1>1, <2>1, TipsLeftAlone DEF DispatchInv
<1>5. CASE FanOut
  <2>1. /\ phase = "acquired" /\ phase' = "submitting" /\ UNCHANGED <<key, delivered>>
        /\ key \in Keys /\ key \in seen /\ told[key] = "none"
        /\ task' = [s \in RegionLabels |-> IF s \in Range(clients) THEN "sending" ELSE "none"]
        /\ inFlight' = inFlight \cup (Range(clients) \X {key})
        /\ told' = [told EXCEPT ![key] = "pending"]
    BY <1>2, <1>3, <1>5 DEF FanOut, Submitted
  <2>2. Range(clients) \subseteq RegionLabels
    <3>1. clients \in Seq(RegionLabels) BY DEF DispatchInv, TipInv, DispatcherTypeOK
    <3>2. DOMAIN clients = 1..Len(clients) BY <3>1, LenProperties
    <3> QED BY <3>1, <3>2, ElementOfSeq DEF Range
  <2>3. Rest BY <1>2, <2>1, <2>2
  <2>4. \A j \in Keys : told'[j] = IF j = key THEN "pending" ELSE told[j] BY <1>2, <2>1
  <2>5. \A b \in inFlight' \cup delivered' : told'[b[2]] # "none"
    <3> SUFFICES ASSUME NEW b \in inFlight' \cup delivered' PROVE told'[b[2]] # "none"
      OBVIOUS
    <3>1. CASE b \in inFlight \cup delivered
      <4>1. b[2] \in Keys BY <1>2, <3>1
      <4> QED BY <1>3, <2>4, <3>1, <4>1 DEF Submitted
    <3>2. CASE b \in Range(clients) \X {key}
      <4>1. b[2] = key BY <3>2
      <4> QED BY <2>1, <2>4, <4>1
    <3> QED BY <2>1, <3>1, <3>2
  <2>6. Submitted' BY <1>1, <1>3, <2>1, <2>4, <2>5 DEF Submitted
  <2> QED BY <1>4, <2>3, <2>6 DEF DispatchInv
<1>6. CASE r \in RegionLabels /\ Submission(r)
  <2>1. /\ UNCHANGED <<phase, key, delivered, told>> /\ phase = "submitting"
        /\ inFlight' \subseteq inFlight
        /\ \E v \in Finished : /\ task' = [task EXCEPT ![r] = v]
                               /\ v = "acked" => <<r, key>> \in delivered
    BY <1>3, <1>6 DEF Submission, Answered, Refused, SubmitTimesOut, Finished, Submitted
  <2>2. Rest BY <1>2, <2>1
  <2>3. Submitted' BY <1>1, <1>2, <1>3, <2>1 DEF Submitted
  <2> QED BY <1>4, <2>2, <2>3 DEF DispatchInv
<1>7. CASE r \in RegionLabels /\ k \in Keys /\ Arrive(r, k)
  <2>1. /\ UNCHANGED <<phase, key, task, told>>
        /\ inFlight' \subseteq inFlight /\ delivered \subseteq delivered'
        /\ delivered' \subseteq delivered \cup inFlight
    BY <1>7 DEF Arrive
  <2>2. Rest BY <1>2, <2>1
  <2>3. Submitted' BY <1>1, <1>3, <2>1 DEF Submitted
  <2> QED BY <1>4, <2>2, <2>3 DEF DispatchInv
<1>8. CASE JoinAll
  <2>1. /\ phase = "submitting" /\ phase' = "idle" /\ key' = "none"
        /\ UNCHANGED <<inFlight, delivered>>
        /\ task' = [s \in RegionLabels |-> "none"]
        /\ \E v \in Finished : told' = [told EXCEPT ![key] = v]
        /\ key \in Keys /\ told[key] = "pending"
    BY <1>3, <1>8 DEF JoinAll, Return, Finished, Submitted
  <2>2. Rest BY <1>2, <2>1
  <2>3. \A j \in Keys : told'[j] # "none" <=> told[j] # "none"
    BY <1>2, <2>1 DEF Finished
  <2>4. \A b \in inFlight \cup delivered : b[2] \in Keys BY <1>2
  <2>5. Submitted' BY <1>1, <1>3, <2>1, <2>3, <2>4 DEF Submitted
  <2> QED BY <1>4, <2>2, <2>5 DEF DispatchInv
<1> QED BY <1>5, <1>6, <1>7, <1>8

LEMMA DispatchStep == DispatchInv /\ [DispatcherNext]_dispatcherVars => DispatchInv'
<1> SUFFICES ASSUME DispatchInv, [DispatcherNext]_dispatcherVars PROVE DispatchInv'
  OBVIOUS
<1>1. CASE UNCHANGED dispatcherVars
  <2>1. /\ UNCHANGED <<phase, tried, clients, accounts, nextAccount, nextRegion, turns>>
        /\ UNCHANGED <<taken, seen, key, task, inFlight, delivered, told>>
    BY <1>1 DEF dispatcherVars, wiring, tips, network
  <2>2. DispatcherTypeOK' BY <2>1 DEF DispatchInv, TipInv, DispatcherTypeOK
  <2>3. TipInv' BY <2>1, <2>2, TipsLeftAlone DEF DispatchInv
  <2>4. Submitted' BY <2>1 DEF DispatchInv, Submitted
  <2> QED BY <2>3, <2>4 DEF DispatchInv
<1> QED BY <1>1, ConsumerKeeps, FanOutKeeps DEF DispatcherNext

LEMMA DispatchHolds == DispatcherSpec => []DispatchInv
<1>1. DispatcherInit => DispatchInv BY DispatchInit
<1>2. DispatchInv /\ [DispatcherNext]_dispatcherVars => DispatchInv' BY DispatchStep
<1> QED BY <1>1, <1>2, PTL DEF DispatcherSpec

(* The dispatcher's state keeps its types: regions connect at most once    *)
(* each, and the rotation points to a client that exists.                  *)
THEOREM DispatcherTypeCorrect == DispatcherSpec => []DispatcherTypeOK
<1>1. DispatchInv => DispatcherTypeOK BY DEF DispatchInv, TipInv
<1> QED BY <1>1, DispatchHolds, PTL

(* Regions with tip accounts give equally often, give or take one, and the *)
(* accounts of a region too, for any regions and numbers of accounts.      *)
THEOREM TipsRotate == DispatcherSpec => []TipsBalanced
<1>1. ASSUME DispatchInv PROVE TipsBalanced
  <2>1. /\ Len(clients) \in Nat /\ DOMAIN clients = 1..Len(clients)
        /\ \A r \in RegionLabels : accounts[r] \in Nat
        /\ \A i \in 1..Len(clients) : clients[i] \in RegionLabels
    BY <1>1, RotationTyped DEF DispatchInv, TipInv
  <2> DEFINE giving == {r \in Range(clients) : accounts[r] > 0}
  <2>2. \A r \in giving : \E i \in 0 .. Len(clients) - 1 :
          Gives(i) /\ r = clients[i + 1]
    <3> SUFFICES ASSUME NEW r \in giving
                 PROVE  \E i \in 0 .. Len(clients) - 1 :
                          Gives(i) /\ r = clients[i + 1]
      OBVIOUS
    <3>1. PICK j \in 1..Len(clients) : r = clients[j] BY <2>1 DEF Range
    <3>2. PICK i : i = j - 1 OBVIOUS
    <3>3. i \in 0 .. Len(clients) - 1 /\ i + 1 = j BY <2>1, <3>2
    <3> QED BY <3>1, <3>3 DEF Gives, RegionAt
  <2>3. PICK q \in Nat : Passes(q) BY <1>1 DEF DispatchInv, TipInv, Rotated
  <2>4. \A r \in giving : turns[r] = q \/ turns[r] = q + 1
    BY <2>2, <2>3 DEF Passes
  <2>5. \A r, s \in giving : turns[r] <= turns[s] + 1 BY <2>3, <2>4
  <2>6. ASSUME NEW r \in giving, NEW i \in 0 .. accounts[r] - 1,
               NEW j \in 0 .. accounts[r] - 1
        PROVE  taken[r][i] <= taken[r][j] + 1
    <3>1. r \in RegionLabels BY <2>1 DEF Range
    <3>2. PICK n \in Nat : PassesOf(r, n)
      BY <1>1, <3>1 DEF DispatchInv, TipInv, RotatedWithin
    <3>3. \A x \in 0 .. accounts[r] - 1 : taken[r][x] = n \/ taken[r][x] = n + 1
      BY <3>2 DEF PassesOf
    <3>4. (taken[r][i] = n \/ taken[r][i] = n + 1) /\ (taken[r][j] = n \/ taken[r][j] = n + 1)
      BY <3>3
    <3> QED BY <3>4
  <2> QED BY <2>5, <2>6 DEF TipsBalanced
<1> QED BY <1>1, DispatchHolds, PTL

(* When the fan-out returns, every one of its tasks has ended.             *)
THEOREM FanOutLeavesNothing == DispatcherSpec => []NothingLeftRunning
<1>1. DispatchInv => NothingLeftRunning
  BY DEF DispatchInv, Submitted, NothingLeftRunning
<1> QED BY <1>1, DispatchHolds, PTL

(* An opportunity is submitted and answered at most once, and acknowledged *)
(* only when a block engine holds its bundle.                              *)
THEOREM DispatcherImplementsSubmitOnce == DispatcherSpec => ImplementsSubmitOnce
<1>1. DispatcherInit => Submissions!Init BY DEF DispatcherInit, Submissions!Init, Held
<1>2. ASSUME DispatchInv, [DispatcherNext]_dispatcherVars
      PROVE  [Submissions!Next]_<<told, Held>>
  <2>1. /\ key \in Keys \cup {"none"} /\ told \in [Keys -> {"none", "pending"} \cup Finished]
        /\ inFlight \subseteq RegionLabels \X Keys /\ delivered \subseteq RegionLabels \X Keys
    BY <1>2 DEF DispatchInv, TipInv, DispatcherTypeOK
  <2>2. Submitted BY <1>2 DEF DispatchInv
  <2>3. CASE UNCHANGED <<told, delivered>> BY <2>3 DEF Held
  <2>4. CASE FanOut
    <3>1. key \in seen /\ told[key] = "none" /\ delivered' = delivered
          /\ told' = [told EXCEPT ![key] = "pending"]
      BY <2>2, <2>4 DEF FanOut, Submitted
    <3>2. CASE key \in Keys
      <4>1. Submissions!Submit(key) BY <3>1 DEF Submissions!Submit, Held
      <4> QED BY <3>2, <4>1 DEF Submissions!Next
    <3>3. key \in Keys BY <1>2, <3>1 DEF DispatchInv, TipInv, DispatcherTypeOK
    <3> QED BY <3>2, <3>3
  <2>5. ASSUME NEW r \in RegionLabels, NEW k \in Keys, Arrive(r, k)
        PROVE  Submissions!Next
    <3>1. told' = told /\ delivered' = delivered \cup {<<r, k>>} /\ <<r, k>> \in inFlight
      BY <2>5 DEF Arrive
    <3>2. told[k] # "none"
      <4>1. <<r, k>>[2] = k OBVIOUS
      <4> QED BY <2>2, <3>1, <4>1 DEF Submitted
    <3>3. Held' = Held \cup {k} BY <2>5, <3>1 DEF Held
    <3>4. Submissions!Arrive(k) BY <3>1, <3>2, <3>3 DEF Submissions!Arrive
    <3> QED BY <3>4 DEF Submissions!Next
  <2>6. CASE JoinAll
    <3>1. /\ phase = "submitting" /\ delivered' = delivered
          /\ told' = [told EXCEPT ![key] = IF Acked = {} THEN "failed" ELSE "acked"]
      BY <2>6 DEF JoinAll, Return
    <3>2. key \in Keys /\ told[key] = "pending" /\ Held' = Held
      BY <2>2, <3>1 DEF Submitted, Held
    <3>3. CASE Acked = {}
      <4>1. Submissions!Fail(key) BY <3>1, <3>2, <3>3 DEF Submissions!Fail
      <4> QED BY <3>2, <4>1 DEF Submissions!Next
    <3>4. CASE Acked # {}
      <4>1. PICK r \in Range(clients) : task[r] = "acked" BY <3>4 DEF Acked
      <4>2. r \in RegionLabels
        <5>1. clients \in Seq(RegionLabels) BY <1>2 DEF DispatchInv, TipInv, DispatcherTypeOK
        <5>2. DOMAIN clients = 1..Len(clients) BY <5>1, LenProperties
        <5> QED BY <4>1, <5>1, <5>2, ElementOfSeq DEF Range
      <4>3. key \in Held BY <2>2, <3>2, <4>1, <4>2 DEF Submitted, Held
      <4>4. Submissions!Acknowledge(key)
        BY <3>1, <3>2, <3>4, <4>3 DEF Submissions!Acknowledge
      <4> QED BY <3>2, <4>4 DEF Submissions!Next
    <3> QED BY <3>3, <3>4
  <2>7. ASSUME \/ ConnectNext \/ Start \/ TakeTip \/ NoTip \/ GiveUp
               \/ (\E k \in Keys : Acquire(k)) \/ (\E r \in RegionLabels : Submission(r))
               \/ UNCHANGED dispatcherVars
        PROVE  UNCHANGED <<told, delivered>>
    BY <2>7 DEF ConnectNext, Start, TakeTip, NoTip, GiveUp, Acquire,
                Submission, Answered, Refused, SubmitTimesOut, dispatcherVars, network
  <2> QED BY <1>2, <2>3, <2>4, <2>5, <2>6, <2>7 DEF DispatcherNext
<1> QED
  BY <1>1, <1>2, DispatchHolds, PTL
  DEF DispatcherSpec, ImplementsSubmitOnce, Submissions!Spec
=============================================================================
