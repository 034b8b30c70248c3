------------------------- MODULE TelemetryDb_proofs -------------------------
(***************************************************************************)
(* Proofs about TelemetryDb, for any set of mints, with and without        *)
(* foreign keys, and for any statements that err, calls that are dropped   *)
(* and restart.  RowsJustified and DrainedBooksAgree are about tables and  *)
(* trades, but a write only sees its call: LedgerOf says, mint by mint,    *)
(* which calls a trade has made, which of them are bound to have made a    *)
(* second one, and what the ones that took effect have left in the tables. *)
(***************************************************************************)
EXTENDS TelemetryDb, TLAPS

Bought == {"held", "sold", "orphan", "past"}
Sold   == {"sold", "past"}

(* Calls whose task has run on a connection, and those that took effect.   *)
Ran  == called \ (pending \cup dropped)
Took == Ran \ failed

(* Each call is executed once: it errs, is dropped, or took effect.        *)
RunOnce ==
  /\ pending \cap (failed \cup dropped) = {}
  /\ failed \cap dropped = {}

CallsMade(m) ==
  /\ Call("consumerRow", m) \in called => stage[m] \notin {"none", "sent"}
  /\ Call("position", m) \in called <=> stage[m] \in Bought
  /\ Call("buyLog", m) \in called <=> stage[m] \in Bought
  /\ Call("close", m) \in called <=> stage[m] \in Sold
  /\ Call("openRow", m) \in called <=> Call("position", m) \in Ran
  /\ Call("dropRow", m) \in called <=> Call("close", m) \in Ran

RowsLeft(m) ==
  /\ bundles[m] = "landed" <=> {Call("trackerRow", m), Call("consumerRow", m)} \cap Took # {}
  /\ m \in logs <=> Call("buyLog", m) \in Took
  /\ m \in open => Call("openRow", m) \in Took
  /\ positions[m] # "absent" => Call("position", m) \in Took
  /\ positions[m] = "closed" => Call("close", m) \in Took
  /\ stage[m] \notin Sold /\ Call("openRow", m) \in Took => m \in open
  /\ stage[m] \notin Sold /\ Call("position", m) \in Took => positions[m] = "active"

ClosedInOrder(m) ==
  stage[m] \in Sold /\ m \notin raced =>
    /\ Opening(m) \cap pending = {}
    /\ Call("dropRow", m) \in Took => m \notin open
    /\ Call("close", m) \in Took => positions[m] # "active"

LedgerOf(m) == CallsMade(m) /\ RowsLeft(m) /\ ClosedInOrder(m)

(* Only a restart makes orphans.                                           *)
CrashedOnly == ~crashed => \A m \in Mints : stage[m] \notin {"gone", "orphan", "past"}

IInv == TypeOK /\ RunOnce /\ CrashedOnly /\ \A m \in Mints : LedgerOf(m)
-----------------------------------------------------------------------------
(* Calls are told apart by operation and mint.                             *)
LEMMA CallFields ==
  /\ \A op \in Ops, m \in Mints : Call(op, m) \in Calls
  /\ \A op, m : Call(op, m).op = op /\ Call(op, m).mint = m
  /\ \A c \in Calls : c = Call(c.op, c.mint) /\ c.op \in Ops /\ c.mint \in Mints
  BY DEF Call, Calls

(* A call that is only issued has not run.                                 *)
LEMMA IssueKeeps ==
  ASSUME NEW new, Issue(new), new \cap called = {}
  PROVE  Ran' = Ran /\ Took' = Took
<1>1. /\ called' = called \cup new /\ pending' = pending \cup new
      /\ dropped' = dropped /\ failed' = failed
  BY DEF Issue
<1>2. Ran' = Ran BY <1>1 DEF Ran
<1> QED BY <1>1, <1>2 DEF Took

(* The initial state satisfies the inductive invariant.                    *)
LEMMA InitEstablishes == Init => IInv
<1> SUFFICES ASSUME Init PROVE IInv OBVIOUS
<1>1. TypeOK
  <2>1. /\ stage \in [Mints -> {"none", "sent", "heard", "failed", "held", "sold",
                               "gone", "orphan", "past"}]
        /\ bundles \in [Mints -> {"absent", "landed"}]
        /\ positions \in [Mints -> {"absent", "active", "closed"}]
    BY DEF Init
  <2>2. /\ conn \in BOOLEAN /\ enforced \in BOOLEAN /\ crashed \in BOOLEAN
        /\ called \subseteq Calls /\ pending \subseteq called
        /\ failed \subseteq called /\ dropped \subseteq called
        /\ open \subseteq Mints /\ logs \subseteq Mints /\ raced \subseteq Mints
    BY DEF Init
  <2> QED BY <2>1, <2>2 DEF TypeOK
<1>2. RunOnce /\ CrashedOnly BY DEF Init, RunOnce, CrashedOnly
<1>3. ASSUME NEW m \in Mints PROVE LedgerOf(m)
  BY DEF Init, LedgerOf, CallsMade, RowsLeft, ClosedInOrder, Ran, Took, Bought, Sold
<1> QED BY <1>1, <1>2, <1>3 DEF IInv

(* The steps of a trade.                                                   *)
LEMMA SubmitPreserves ==
  ASSUME IInv, NEW n \in Mints, Submit(n)
  PROVE  IInv'
<1> USE DEF IInv
<1>1. TypeOK' BY CallFields DEF Submit, At, Issue, TypeOK, tables, calls
<1>2. RunOnce'
  BY CallFields DEF Submit, Issue, RunOnce, TypeOK, LedgerOf, CallsMade, Bought, Sold, calls
<1>3. CrashedOnly' BY DEF Submit, At, TypeOK, CrashedOnly
<1>4. ASSUME NEW m \in Mints PROVE LedgerOf(m)'
  <2>0. LedgerOf(m) /\ LedgerOf(n) OBVIOUS
  <2>1. CallsMade(m)'
    BY <2>0, CallFields DEF Submit, At, Issue, TypeOK, LedgerOf, CallsMade, Ran, Bought, Sold, calls
  <2>2. RowsLeft(m)'
    BY <2>0, CallFields DEF Submit, At, Issue, TypeOK, LedgerOf, CallsMade, RowsLeft, Ran, Took,
       Bought, Sold, calls, tables
  <2>3. ClosedInOrder(m)'
    BY <2>0, CallFields DEF Submit, At, Issue, TypeOK, LedgerOf, CallsMade, RowsLeft, ClosedInOrder,
       Opening, Ran, Took, Bought, Sold, calls, tables
  <2> QED BY <2>1, <2>2, <2>3 DEF LedgerOf
<1> QED BY <1>1, <1>2, <1>3, <1>4

LEMMA LandPreserves ==
  ASSUME IInv, NEW n \in Mints, Land(n)
  PROVE  IInv'
<1> USE DEF IInv
<1>0. {"trackerRow"} \subseteq Ops BY DEF Ops
<1>1. TypeOK' BY <1>0, CallFields DEF Land, At, Issue, TypeOK, tables, calls
<1>2. RunOnce'
  BY CallFields DEF Land, Issue, RunOnce, TypeOK, LedgerOf, CallsMade, Bought, Sold, calls
<1>3. CrashedOnly' BY DEF Land, At, TypeOK, CrashedOnly
<1>4. ASSUME NEW m \in Mints PROVE LedgerOf(m)'
  <2>0. LedgerOf(m) /\ LedgerOf(n) OBVIOUS
  <2>1. CallsMade(m)'
    BY <2>0, CallFields DEF Land, At, Issue, TypeOK, LedgerOf, CallsMade, Ran, Bought, Sold, calls
  <2>2. RowsLeft(m)'
    BY <2>0, CallFields DEF Land, At, Issue, TypeOK, LedgerOf, CallsMade, RowsLeft, Ran, Took,
       Bought, Sold, calls, tables
  <2>3. ClosedInOrder(m)'
    BY <2>0, CallFields DEF Land, At, Issue, TypeOK, LedgerOf, CallsMade, RowsLeft, ClosedInOrder,
       Opening, Ran, Took, Bought, Sold, calls, tables
  <2> QED BY <2>1, <2>2, <2>3 DEF LedgerOf
<1> QED BY <1>1, <1>2, <1>3, <1>4

LEMMA HearPreserves ==
  ASSUME IInv, NEW n \in Mints, Hear(n)
  PROVE  IInv'
<1> USE DEF IInv
<1>0. {"consumerRow"} \subseteq Ops BY DEF Ops
<1>1. TypeOK' BY <1>0, CallFields DEF Hear, At, Issue, TypeOK, tables, calls
<1>2. RunOnce'
  BY CallFields DEF Hear, Issue, RunOnce, TypeOK, LedgerOf, CallsMade, Bought, Sold, calls
<1>3. CrashedOnly' BY DEF Hear, At, TypeOK, CrashedOnly
<1>4. ASSUME NEW m \in Mints PROVE LedgerOf(m)'
  <2>0. LedgerOf(m) /\ LedgerOf(n) OBVIOUS
  <2>1. CallsMade(m)'
    BY <2>0, CallFields DEF Hear, At, Issue, TypeOK, LedgerOf, CallsMade, Ran, Bought, Sold, calls
  <2>2. RowsLeft(m)'
    BY <2>0, CallFields DEF Hear, At, Issue, TypeOK, LedgerOf, CallsMade, RowsLeft, Ran, Took,
       Bought, Sold, calls, tables
  <2>3. ClosedInOrder(m)'
    BY <2>0, CallFields DEF Hear, At, Issue, TypeOK, LedgerOf, CallsMade, RowsLeft, ClosedInOrder,
       Opening, Ran, Took, Bought, Sold, calls, tables
  <2> QED BY <2>1, <2>2, <2>3 DEF LedgerOf
<1> QED BY <1>1, <1>2, <1>3, <1>4

LEMMA FailHandoffPreserves ==
  ASSUME IInv, NEW n \in Mints, FailHandoff(n)
  PROVE  IInv'
<1> USE DEF IInv
<1>1. TypeOK' BY CallFields DEF FailHandoff, At, Issue, TypeOK, tables, calls
<1>2. RunOnce'
  BY CallFields DEF FailHandoff, Issue, RunOnce, TypeOK, LedgerOf, CallsMade, Bought, Sold, calls
<1>3. CrashedOnly' BY DEF FailHandoff, At, TypeOK, CrashedOnly
<1>4. ASSUME NEW m \in Mints PROVE LedgerOf(m)'
  <2>0. LedgerOf(m) /\ LedgerOf(n) OBVIOUS
  <2>1. CallsMade(m)'
    BY <2>0, CallFields DEF FailHandoff, At, Issue, TypeOK, LedgerOf, CallsMade, Ran, Bought, Sold, calls
  <2>2. RowsLeft(m)'
    BY <2>0, CallFields DEF FailHandoff, At, Issue, TypeOK, LedgerOf, CallsMade, RowsLeft, Ran, Took,
       Bought, Sold, calls, tables
  <2>3. ClosedInOrder(m)'
    BY <2>0, CallFields DEF FailHandoff, At, Issue, TypeOK, LedgerOf, CallsMade, RowsLeft, ClosedInOrder,
       Opening, Ran, Took, Bought, Sold, calls, tables
  <2> QED BY <2>1, <2>2, <2>3 DEF LedgerOf
<1> QED BY <1>1, <1>2, <1>3, <1>4

LEMMA ConfirmPreserves ==
  ASSUME IInv, NEW n \in Mints, Confirm(n)
  PROVE  IInv'
<1> USE DEF IInv
<1>0. {"position", "buyLog"} \subseteq Ops BY DEF Ops
<1>1. TypeOK' BY <1>0, CallFields DEF Confirm, At, Issue, TypeOK, tables, calls
<1>2. RunOnce'
  BY CallFields DEF Confirm, Issue, RunOnce, TypeOK, LedgerOf, CallsMade, Bought, Sold, calls
<1>3. CrashedOnly' BY DEF Confirm, At, TypeOK, CrashedOnly
<1>4. ASSUME NEW m \in Mints PROVE LedgerOf(m)'
  <2>0. LedgerOf(m) /\ LedgerOf(n) OBVIOUS
  <2>1. CallsMade(m)'
    BY <2>0, CallFields DEF Confirm, At, Issue, TypeOK, LedgerOf, CallsMade, Ran, Bought, Sold, calls
  <2>2. RowsLeft(m)'
    <3>1. /\ Call("position", n) \notin called /\ Call("buyLog", n) \notin called
          /\ stage[m] \in Sold <=> stage'[m] \in Sold
          /\ m = n => Call("openRow", m) \notin Took
          /\ UNCHANGED tables
      BY <2>0 DEF Confirm, At, TypeOK, LedgerOf, CallsMade, Ran, Took, Bought, Sold
    <3>2. Took' = Took BY <3>1, IssueKeeps DEF Confirm
    <3> QED BY <2>0, <3>1, <3>2 DEF LedgerOf, RowsLeft, tables
  <2>3. ClosedInOrder(m)'
    BY <2>0, CallFields DEF Confirm, At, Issue, TypeOK, LedgerOf, CallsMade, RowsLeft, ClosedInOrder,
       Opening, Ran, Took, Bought, Sold, calls, tables
  <2> QED BY <2>1, <2>2, <2>3 DEF LedgerOf
<1> QED BY <1>1, <1>2, <1>3, <1>4

LEMMA SellPreserves ==
  ASSUME IInv, NEW n \in Mints, Sell(n)
  PROVE  IInv'
<1> USE DEF IInv
<1>0. {"close"} \subseteq Ops BY DEF Ops
<1>1. TypeOK' BY <1>0, CallFields DEF Sell, At, Issue, TypeOK, tables, calls
<1>2. RunOnce'
  BY CallFields DEF Sell, Issue, RunOnce, TypeOK, LedgerOf, CallsMade, Bought, Sold, calls
<1>3. CrashedOnly' BY DEF Sell, At, TypeOK, CrashedOnly
<1>4. ASSUME NEW m \in Mints PROVE LedgerOf(m)'
  <2>0. LedgerOf(m) /\ LedgerOf(n) OBVIOUS
  <2>1. CallsMade(m)'
    BY <2>0, CallFields DEF Sell, At, Issue, TypeOK, LedgerOf, CallsMade, Ran, Bought, Sold, calls
  <2>2. RowsLeft(m)'
    BY <2>0, CallFields DEF Sell, At, Issue, TypeOK, LedgerOf, CallsMade, RowsLeft, Ran, Took,
       Bought, Sold, calls, tables
  <2>3. ClosedInOrder(m)'
    <3>1. CASE m = n
      <4>1. /\ Call("close", m) \notin called /\ Call("dropRow", m) \notin called
            /\ called' = called \cup {Call("close", m)}
            /\ pending' = pending \cup {Call("close", m)}
        BY <2>0, <3>1 DEF Sell, Issue, LedgerOf, CallsMade, Ran, Sold
      <4>2. Call("close", m) \notin Took' /\ Call("dropRow", m) \notin Took'
        BY <4>1, CallFields DEF Took, Ran
      <4>3. m \notin raced' => Opening(m) \cap pending = {}
        BY <3>1 DEF Sell
      <4>4. m \notin raced' => Opening(m) \cap pending' = {}
        BY <4>1, <4>3, CallFields DEF Opening
      <4> QED BY <4>2, <4>4 DEF ClosedInOrder, Opening
    <3>2. CASE m # n
      <4>1. stage'[m] = stage[m] /\ (m \in raced' <=> m \in raced) /\ UNCHANGED tables
        BY <3>2 DEF Sell, At, TypeOK
      <4>2. \A op : Call(op, m) # Call("close", n) BY <3>2, CallFields
      <4>3. /\ Opening(m) \cap pending' = Opening(m) \cap pending
            /\ Call("dropRow", m) \in Took' <=> Call("dropRow", m) \in Took
            /\ Call("close", m) \in Took' <=> Call("close", m) \in Took
        BY <4>2 DEF Sell, Issue, Opening, Took, Ran
      <4>4. ClosedInOrder(m) BY <2>0 DEF LedgerOf
      <4> QED BY <4>1, <4>3, <4>4 DEF ClosedInOrder, Opening, tables
    <3> QED BY <3>1, <3>2
  <2> QED BY <2>1, <2>2, <2>3 DEF LedgerOf
<1> QED BY <1>1, <1>2, <1>3, <1>4

(* The execution of a call.                                                *)
LEMMA UnavailablePreserves ==
  ASSUME IInv, NEW c \in pending, Unavailable(c)
  PROVE  IInv'
<1> USE DEF IInv, Unavailable, Succeed, Done, Nested, tables
<1>1. c \in Calls /\ LedgerOf(c.mint) /\ c \notin failed \cup dropped
  BY CallFields DEF TypeOK, RunOnce
<1>2. TypeOK' BY <1>1, CallFields DEF TypeOK, CloseRow
<1>3. RunOnce' /\ CrashedOnly'
  BY <1>1, CallFields DEF RunOnce, CrashedOnly, TypeOK, LedgerOf, CallsMade, Ran
<1>4. ASSUME NEW m \in Mints PROVE LedgerOf(m)'
  <2>0. LedgerOf(m) OBVIOUS
  <2>1. CallsMade(m)'
    BY <1>1, <2>0, CallFields DEF TypeOK, RunOnce, LedgerOf, CallsMade, Ran
  <2>2. RowsLeft(m)'
    BY <1>1, <2>0, CallFields DEF TypeOK, RunOnce, LedgerOf, CallsMade, RowsLeft, Ran, Took,
       Bought, Sold, CloseRow
  <2>3. ClosedInOrder(m)'
    BY <1>1, <2>0, CallFields DEF TypeOK, RunOnce, LedgerOf, CallsMade, RowsLeft, ClosedInOrder,
       Opening, Ran, Took, Bought, Sold, CloseRow
  <2> QED BY <2>1, <2>2, <2>3 DEF LedgerOf
<1> QED BY <1>2, <1>3, <1>4

LEMMA StatementErrsPreserves ==
  ASSUME IInv, NEW c \in pending, StatementErrs(c)
  PROVE  IInv'
<1> USE DEF IInv, StatementErrs, Succeed, Done, Nested, tables
<1>0. {"openRow", "dropRow"} \subseteq Ops BY DEF Ops
<1>1. c \in Calls /\ LedgerOf(c.mint) /\ c \notin failed \cup dropped
  BY CallFields DEF TypeOK, RunOnce
<1>2. TypeOK' BY <1>0, <1>1, CallFields DEF TypeOK, CloseRow
<1>3. RunOnce' /\ CrashedOnly'
  BY <1>1, CallFields DEF RunOnce, CrashedOnly, TypeOK, LedgerOf, CallsMade, Ran
<1>4. ASSUME NEW m \in Mints PROVE LedgerOf(m)'
  <2>0. LedgerOf(m) OBVIOUS
  <2>1. CallsMade(m)'
    BY <1>1, <2>0, CallFields DEF TypeOK, RunOnce, LedgerOf, CallsMade, Ran
  <2>2. RowsLeft(m)'
    BY <1>1, <2>0, CallFields DEF TypeOK, RunOnce, LedgerOf, CallsMade, RowsLeft, Ran, Took,
       Bought, Sold, CloseRow
  <2>3. ClosedInOrder(m)'
    BY <1>1, <2>0, CallFields DEF TypeOK, RunOnce, LedgerOf, CallsMade, RowsLeft, ClosedInOrder,
       Opening, Ran, Took, Bought, Sold, CloseRow
  <2> QED BY <2>1, <2>2, <2>3 DEF LedgerOf
<1> QED BY <1>2, <1>3, <1>4

LEMMA WriteBundlePreserves ==
  ASSUME IInv, NEW c \in pending, WriteBundle(c)
  PROVE  IInv'
<1> USE DEF IInv, WriteBundle, Succeed, Done, Nested, tables
<1>1. c \in Calls /\ LedgerOf(c.mint) /\ c \notin failed \cup dropped
  BY CallFields DEF TypeOK, RunOnce
<1>2. TypeOK' BY <1>1, CallFields DEF TypeOK, CloseRow
<1>3. RunOnce' /\ CrashedOnly'
  BY <1>1, CallFields DEF RunOnce, CrashedOnly, TypeOK, LedgerOf, CallsMade, Ran
<1>4. ASSUME NEW m \in Mints PROVE LedgerOf(m)'
  <2>0. LedgerOf(m) OBVIOUS
  <2>1. CallsMade(m)'
    BY <1>1, <2>0, CallFields DEF TypeOK, RunOnce, LedgerOf, CallsMade, Ran
  <2>2. RowsLeft(m)'
    BY <1>1, <2>0, CallFields DEF TypeOK, RunOnce, LedgerOf, CallsMade, RowsLeft, Ran, Took,
       Bought, Sold, CloseRow
  <2>3. ClosedInOrder(m)'
    BY <1>1, <2>0, CallFields DEF TypeOK, RunOnce, LedgerOf, CallsMade, RowsLeft, ClosedInOrder,
       Opening, Ran, Took, Bought, Sold, CloseRow
  <2> QED BY <2>1, <2>2, <2>3 DEF LedgerOf
<1> QED BY <1>2, <1>3, <1>4

LEMMA WritePositionPreserves ==
  ASSUME IInv, NEW c \in pending, WritePosition(c)
  PROVE  IInv'
<1> USE DEF IInv, WritePosition, Succeed, Done, Nested, tables
<1>0. {"openRow"} \subseteq Ops BY DEF Ops
<1>1. c \in Calls /\ LedgerOf(c.mint) /\ c \notin failed \cup dropped
  BY CallFields DEF TypeOK, RunOnce
<1>2. TypeOK' BY <1>0, <1>1, CallFields DEF TypeOK, CloseRow
<1>3. RunOnce' /\ CrashedOnly'
  BY <1>1, CallFields DEF RunOnce, CrashedOnly, TypeOK, LedgerOf, CallsMade, Ran
<1>4. ASSUME NEW m \in Mints PROVE LedgerOf(m)'
  <2>0. LedgerOf(m) OBVIOUS
  <2>1. CallsMade(m)'
    BY <1>1, <2>0, CallFields DEF TypeOK, RunOnce, LedgerOf, CallsMade, Ran
  <2>2. RowsLeft(m)'
    BY <1>1, <2>0, CallFields DEF TypeOK, RunOnce, LedgerOf, CallsMade, RowsLeft, Ran, Took,
       Bought, Sold, CloseRow
  <2>3. ClosedInOrder(m)'
    BY <1>1, <2>0, CallFields DEF TypeOK, RunOnce, LedgerOf, CallsMade, RowsLeft, ClosedInOrder,
       Opening, Ran, Took, Bought, Sold, CloseRow
  <2> QED BY <2>1, <2>2, <2>3 DEF LedgerOf
<1> QED BY <1>2, <1>3, <1>4

LEMMA WriteOpenRowPreserves ==
  ASSUME IInv, NEW c \in pending, WriteOpenRow(c)
  PROVE  IInv'
<1> USE DEF IInv, WriteOpenRow, Succeed, Done, Nested, tables
<1>1. c \in Calls /\ LedgerOf(c.mint) /\ c \notin failed \cup dropped
  BY CallFields DEF TypeOK, RunOnce
<1>2. TypeOK' BY <1>1, CallFields DEF TypeOK, CloseRow
<1>3. RunOnce' /\ CrashedOnly'
  BY <1>1, CallFields DEF RunOnce, CrashedOnly, TypeOK, LedgerOf, CallsMade, Ran
<1>4. ASSUME NEW m \in Mints PROVE LedgerOf(m)'
  <2>0. LedgerOf(m) OBVIOUS
  <2>1. CallsMade(m)'
    BY <1>1, <2>0, CallFields DEF TypeOK, RunOnce, LedgerOf, CallsMade, Ran
  <2>2. RowsLeft(m)'
    BY <1>1, <2>0, CallFields DEF TypeOK, RunOnce, LedgerOf, CallsMade, RowsLeft, Ran, Took,
       Bought, Sold, CloseRow
  <2>3. ClosedInOrder(m)'
    BY <1>1, <2>0, CallFields DEF TypeOK, RunOnce, LedgerOf, CallsMade, RowsLeft, ClosedInOrder,
       Opening, Ran, Took, Bought, Sold, CloseRow
  <2> QED BY <2>1, <2>2, <2>3 DEF LedgerOf
<1> QED BY <1>2, <1>3, <1>4

LEMMA WriteLogPreserves ==
  ASSUME IInv, NEW c \in pending, WriteLog(c)
  PROVE  IInv'
<1> USE DEF IInv, WriteLog, Succeed, Done, Nested, tables
<1>1. c \in Calls /\ LedgerOf(c.mint) /\ c \notin failed \cup dropped
  BY CallFields DEF TypeOK, RunOnce
<1>2. TypeOK' BY <1>1, CallFields DEF TypeOK, CloseRow
<1>3. RunOnce' /\ CrashedOnly'
  BY <1>1, CallFields DEF RunOnce, CrashedOnly, TypeOK, LedgerOf, CallsMade, Ran
<1>4. ASSUME NEW m \in Mints PROVE LedgerOf(m)'
  <2>0. LedgerOf(m) OBVIOUS
  <2>1. CallsMade(m)'
    BY <1>1, <2>0, CallFields DEF TypeOK, RunOnce, LedgerOf, CallsMade, Ran
  <2>2. RowsLeft(m)'
    BY <1>1, <2>0, CallFields DEF TypeOK, RunOnce, LedgerOf, CallsMade, RowsLeft, Ran, Took,
       Bought, Sold, CloseRow
  <2>3. ClosedInOrder(m)'
    BY <1>1, <2>0, CallFields DEF TypeOK, RunOnce, LedgerOf, CallsMade, RowsLeft, ClosedInOrder,
       Opening, Ran, Took, Bought, Sold, CloseRow
  <2> QED BY <2>1, <2>2, <2>3 DEF LedgerOf
<1> QED BY <1>2, <1>3, <1>4

LEMMA ClosePositionPreserves ==
  ASSUME IInv, NEW c \in pending, ClosePosition(c)
  PROVE  IInv'
<1> USE DEF IInv, ClosePosition, Succeed, Done, Nested, tables
<1>0. {"dropRow"} \subseteq Ops BY DEF Ops
<1>1. c \in Calls /\ LedgerOf(c.mint) /\ c \notin failed \cup dropped
  BY CallFields DEF TypeOK, RunOnce
<1>2. TypeOK' BY <1>0, <1>1, CallFields DEF TypeOK, CloseRow
<1>3. RunOnce' /\ CrashedOnly'
  BY <1>1, CallFields DEF RunOnce, CrashedOnly, TypeOK, LedgerOf, CallsMade, Ran
<1>4. ASSUME NEW m \in Mints PROVE LedgerOf(m)'
  <2>0. LedgerOf(m) OBVIOUS
  <2>1. CallsMade(m)'
    BY <1>1, <2>0, CallFields DEF TypeOK, RunOnce, LedgerOf, CallsMade, Ran
  <2>2. RowsLeft(m)'
    BY <1>1, <2>0, CallFields DEF TypeOK, RunOnce, LedgerOf, CallsMade, RowsLeft, Ran, Took,
       Bought, Sold, CloseRow
  <2>3. ClosedInOrder(m)'
    BY <1>1, <2>0, CallFields DEF TypeOK, RunOnce, LedgerOf, CallsMade, RowsLeft, ClosedInOrder,
       Opening, Ran, Took, Bought, Sold, CloseRow
  <2> QED BY <2>1, <2>2, <2>3 DEF LedgerOf
<1> QED BY <1>2, <1>3, <1>4

LEMMA DropOpenRowPreserves ==
  ASSUME IInv, NEW c \in pending, DropOpenRow(c)
  PROVE  IInv'
<1> USE DEF IInv, DropOpenRow, Succeed, Done, Nested, tables
<1>1. c \in Calls /\ LedgerOf(c.mint) /\ c \notin failed \cup dropped
  BY CallFields DEF TypeOK, RunOnce
<1>2. TypeOK' BY <1>1, CallFields DEF TypeOK, CloseRow
<1>3. RunOnce' /\ CrashedOnly'
  BY <1>1, CallFields DEF RunOnce, CrashedOnly, TypeOK, LedgerOf, CallsMade, Ran
<1>4. ASSUME NEW m \in Mints PROVE LedgerOf(m)'
  <2>0. LedgerOf(m) OBVIOUS
  <2>1. CallsMade(m)'
    BY <1>1, <2>0, CallFields DEF TypeOK, RunOnce, LedgerOf, CallsMade, Ran
  <2>2. RowsLeft(m)'
    BY <1>1, <2>0, CallFields DEF TypeOK, RunOnce, LedgerOf, CallsMade, RowsLeft, Ran, Took,
       Bought, Sold, CloseRow
  <2>3. ClosedInOrder(m)'
    BY <1>1, <2>0, CallFields DEF TypeOK, RunOnce, LedgerOf, CallsMade, RowsLeft, ClosedInOrder,
       Opening, Ran, Took, Bought, Sold, CloseRow
  <2> QED BY <2>1, <2>2, <2>3 DEF LedgerOf
<1> QED BY <1>2, <1>3, <1>4

(* A restart drops the pending calls.                                      *)
LEMMA CrashPreserves ==
  ASSUME IInv, Crash
  PROVE  IInv'
<1> USE DEF IInv
<1>1. TypeOK' BY DEF Crash, TypeOK, tables
<1>2. RunOnce' /\ CrashedOnly' BY DEF Crash, RunOnce, CrashedOnly
<1>3. ASSUME NEW m \in Mints PROVE LedgerOf(m)'
  <2>0. LedgerOf(m) OBVIOUS
  <2>1. Ran' = Ran /\ Took' = Took
    <3>1. /\ called' = called /\ failed' = failed
          /\ pending' \cup dropped' = pending \cup dropped
      BY DEF Crash
    <3> QED BY <3>1 DEF Ran, Took
  <2>2. /\ stage'[m] \in Bought <=> stage[m] \in Bought
        /\ stage'[m] \in Sold <=> stage[m] \in Sold
        /\ stage'[m] \in {"none", "sent"} => stage[m] \in {"none", "sent"}
    BY DEF Crash, CrashedOnly, TypeOK, Bought, Sold
  <2> QED BY <2>0, <2>1, <2>2
          DEF Crash, LedgerOf, CallsMade, RowsLeft, ClosedInOrder, tables
<1> QED BY <1>1, <1>2, <1>3

(* Every step preserves the inductive invariant.                           *)
LEMMA StepPreserves == IInv /\ [Next]_vars => IInv'
<1> SUFFICES ASSUME IInv, [Next]_vars PROVE IInv' OBVIOUS
<1>1. CASE UNCHANGED vars
  BY <1>1 DEF IInv, vars, tables, calls, TypeOK, RunOnce, CrashedOnly, LedgerOf, CallsMade,
              RowsLeft, ClosedInOrder, Ran, Took
<1>2. CASE \E m \in Mints :
             Submit(m) \/ Land(m) \/ Hear(m) \/ FailHandoff(m) \/ Confirm(m) \/ Sell(m)
  BY <1>2, SubmitPreserves, LandPreserves, HearPreserves, FailHandoffPreserves,
     ConfirmPreserves, SellPreserves
<1>3. CASE \E c \in pending : Execute(c)
  BY <1>3, UnavailablePreserves, StatementErrsPreserves, WriteBundlePreserves,
     WritePositionPreserves, WriteOpenRowPreserves, WriteLogPreserves,
     ClosePositionPreserves, DropOpenRowPreserves DEF Execute
<1>4. CASE Crash BY <1>4, CrashPreserves
<1> QED BY <1>1, <1>2, <1>3, <1>4 DEF Next

-----------------------------------------------------------------------------
(* IInv holds throughout every behaviour.                                  *)
THEOREM Inductive == Spec => []IInv
  BY InitEstablishes, StepPreserves, PTL DEF Spec

(* The tables keep their types, and a bundle has at most one row although  *)
(* tracker and consumer both record it.                                    *)
THEOREM TypeCorrect == Spec => []TypeOK
<1>1. IInv => TypeOK BY DEF IInv
<1> QED BY <1>1, Inductive, PTL

(* No row of a position or a buy is ahead of its trade: whatever order the *)
(* detached writes are executed in, whichever err and whatever a restart   *)
(* cuts off, a handoff was confirmed and a closed position was sold.       *)
THEOREM RowsNeverAhead == Spec => []RowsJustified
<1>1. IInv => RowsJustified
  BY DEF IInv, LedgerOf, CallsMade, RowsLeft, RowsJustified, Ran, Took, Bought, Sold
<1> QED BY <1>1, Inductive, PTL

(* Once every task has run, in the first process and in the next one, the  *)
(* four tables differ from the trades only where a statement erred, a call *)
(* was dropped, or a sale overtook the opening of its position.            *)
THEOREM BooksAgreeWhenDrained == Spec => []DrainedBooksAgree
<1>1. ASSUME IInv PROVE DrainedBooksAgree
  <2> SUFFICES ASSUME pending = {}, NEW m \in Mints
      PROVE
      LET Lost(op) == Call(op, m) \in failed \cup dropped
          Effective(op) == Call(op, m) \in called /\ ~Lost(op)
          CutOff(op) == Call(op, m) \in dropped
      IN  /\ bundles[m] = "landed" <=> Effective("trackerRow") \/ Effective("consumerRow")
          /\ stage[m] \in {"held", "sold", "orphan", "past"} =>
               (m \in logs <=> ~Lost("buyLog"))
          /\ stage[m] \in {"held", "orphan"} =>
               /\ positions[m] = "active" <=> ~Lost("position")
               /\ m \notin open => CutOff("position") \/ Lost("openRow")
          /\ stage[m] \in {"sold", "past"} /\ m \notin raced =>
               /\ positions[m] = "active" => Lost("close")
               /\ m \in open => CutOff("close") \/ Lost("dropRow")
    BY DEF DrainedBooksAgree
  <2>1. LedgerOf(m) /\ Ran = called \ dropped BY <1>1 DEF IInv, Ran
  <2> QED BY <2>1 DEF LedgerOf, CallsMade, RowsLeft, ClosedInOrder, Took, Bought, Sold
<1> QED BY <1>1, Inductive, PTL
=============================================================================
