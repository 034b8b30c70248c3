----------------------------- MODULE TelemetryDb -----------------------------
(***************************************************************************)
(* The telemetry database.  Every write is a detached task of the blocking *)
(* pool that takes the connection's mutex: calls that are pending together *)
(* are executed in any order, a statement that errs is logged and lost, a  *)
(* write that opens or closes a position spawns a second one, and a        *)
(* process that ends takes the pending ones with it.  What the database is *)
(* told about a mint follows the trade, of which there is one per mint.    *)
(***************************************************************************)
EXTENDS Naturals, FiniteSets

CONSTANTS
  Mints,
  MaxErrors             \* bound: statements that err though the tables allow them

ASSUME MaxErrorsAssumption == MaxErrors \in Nat

VARIABLES
  conn,                 \* DB_CONN holds a connection
  enforced,             \* SQLite enforces REFERENCES, as the bundled one does
  stage,                \* per mint: how far its trade is
  called,               \* every call made, a history variable
  pending,              \* calls whose task has not run
  bundles,              \* per mint: the row of its bundle
  positions,            \* per mint: its row in positions
  open,                 \* mints in open_positions
  logs,                 \* mints with a BUY row in trade_logs
  failed,               \* calls whose statement erred, a history variable
  dropped,              \* calls that met no connection, or that a restart
                        \* cut off, a history variable
  raced,                \* mints closed while their opening was pending
  crashed               \* the process has been restarted

tables == <<bundles, positions, open, logs>>
calls  == <<called, pending, failed, dropped>>
vars   == <<conn, enforced, stage, calls, tables, raced, crashed>>

Ops == {"trackerRow", "consumerRow", "position", "openRow", "buyLog", "close", "dropRow"}

Calls == [op : Ops, mint : Mints]

Call(op, m) == [op |-> op, mint |-> m]

TypeOK ==
  /\ conn \in BOOLEAN
  /\ enforced \in BOOLEAN
  /\ stage \in [Mints -> {"none", "sent", "heard", "failed", "held", "sold",
                        "gone", "orphan", "past"}]
  /\ called \subseteq Calls
  /\ pending \subseteq called
  /\ failed \subseteq called
  /\ dropped \subseteq called
  /\ bundles \in [Mints -> {"absent", "landed"}]
  /\ positions \in [Mints -> {"absent", "active", "closed"}]
  /\ open \subseteq Mints
  /\ logs \subseteq Mints
  /\ raced \subseteq Mints
  /\ crashed \in BOOLEAN

(* init_db creates what is missing; without it the process runs on.        *)
Init ==
  /\ conn \in BOOLEAN
  /\ enforced \in BOOLEAN
  /\ stage = [m \in Mints |-> "none"]
  /\ called = {}
  /\ pending = {}
  /\ failed = {}
  /\ dropped = {}
  /\ bundles = [m \in Mints |-> "absent"]
  /\ positions = [m \in Mints |-> "absent"]
  /\ open = {}
  /\ logs = {}
  /\ raced = {}
  /\ crashed = FALSE

-----------------------------------------------------------------------------
(* The trade of a mint, and the calls it makes.                            *)

Issue(new) ==
  /\ called' = called \cup new
  /\ pending' = pending \cup new
  /\ UNCHANGED <<failed, dropped>>

At(m, s) == stage' = [stage EXCEPT ![m] = s]

Submit(m) ==
  /\ stage[m] = "none"
  /\ At(m, "sent")
  /\ UNCHANGED <<conn, enforced, calls, tables, raced, crashed>>

(* The tracker sees the bundle landed: update_status.                      *)
Land(m) ==
  /\ stage[m] \in {"sent", "heard", "failed", "held", "sold"}
  /\ Call("trackerRow", m) \notin called
  /\ Issue({Call("trackerRow", m)})
  /\ UNCHANGED <<conn, enforced, stage, tables, raced, crashed>>

(* The consumer is told of a terminal status; whichever it is, it records  *)
(* a landed bundle.                                                        *)
Hear(m) ==
  /\ stage[m] = "sent"
  /\ Issue({Call("consumerRow", m)})
  /\ At(m, "heard")
  /\ UNCHANGED <<conn, enforced, tables, raced, crashed>>

(* Faulty variant of FailHandoff: the position is recorded all the same.   *)
FailHandoffRecorded(m) ==
  /\ stage[m] \in {"sent", "heard"}
  /\ At(m, "failed")
  /\ Issue({Call("position", m)})
  /\ UNCHANGED <<conn, enforced, tables, raced, crashed>>

(* confirm_and_handoff: not confirmed, or nothing in the account.          *)
FailHandoff(m) ==
  /\ stage[m] \in {"sent", "heard"}
  /\ At(m, "failed")
  /\ UNCHANGED <<conn, enforced, calls, tables, raced, crashed>>

(* The position is recorded, and when the handoff is over, the buy.        *)
Confirm(m) ==
  /\ stage[m] \in {"sent", "heard"}
  /\ At(m, "held")
  /\ Issue({Call("position", m), Call("buyLog", m)})
  /\ UNCHANGED <<conn, enforced, tables, raced, crashed>>

Opening(m) == {Call("position", m), Call("openRow", m)}

(* A confirmed sale: db::close_position.                                   *)
Sell(m) ==
  /\ stage[m] = "held"
  /\ At(m, "sold")
  /\ Issue({Call("close", m)})
  /\ raced' = IF Opening(m) \cap pending # {} THEN raced \cup {m} ELSE raced
  /\ UNCHANGED <<conn, enforced, tables, crashed>>

-----------------------------------------------------------------------------
(* The blocking pool runs one of the pending calls.  Each statement may    *)
(* err: the error is logged, and the second task is spawned all the same.  *)

Nested(c) ==
  CASE c.op = "position" -> {Call("openRow", c.mint)}
    [] c.op = "close"    -> {Call("dropRow", c.mint)}
    [] OTHER             -> {}

Done(c) ==
  /\ conn
  /\ called' = called \cup Nested(c)
  /\ pending' = (pending \ {c}) \cup Nested(c)
  /\ UNCHANGED <<conn, enforced, stage, dropped, raced, crashed>>

Succeed(c) == Done(c) /\ UNCHANGED failed

(* DB_CONN is empty: the call returns, whatever it is.                     *)
Unavailable(c) ==
  /\ ~conn
  /\ pending' = pending \ {c}
  /\ dropped' = dropped \cup {c}
  /\ UNCHANGED <<conn, enforced, stage, called, failed, tables, raced, crashed>>

(* record_position names the bundle "", of which there is no row: where    *)
(* references are enforced, the statement is refused.                      *)
Refused(c) == c.op = "position" /\ enforced

StatementErrs(c) ==
  /\ Refused(c) \/ Cardinality({f \in failed : ~Refused(f)}) < MaxErrors
  /\ Done(c)
  /\ failed' = failed \cup {c}
  /\ UNCHANGED tables

(* record_landed_bundle inserts the row or updates it.                     *)
WriteBundle(c) ==
  /\ c.op \in {"trackerRow", "consumerRow"}
  /\ Succeed(c)
  /\ bundles' = [bundles EXCEPT ![c.mint] = "landed"]
  /\ UNCHANGED <<positions, open, logs>>

(* record_position                                                         *)
WritePosition(c) ==
  /\ c.op = "position"
  /\ ~Refused(c)
  /\ Succeed(c)
  /\ positions' = [positions EXCEPT ![c.mint] = "active"]
  /\ UNCHANGED <<bundles, open, logs>>

(* insert_open_position                                                    *)
WriteOpenRow(c) ==
  /\ c.op = "openRow"
  /\ Succeed(c)
  /\ open' = open \cup {c.mint}
  /\ UNCHANGED <<bundles, positions, logs>>

(* log_trade_telemetry                                                     *)
WriteLog(c) ==
  /\ c.op = "buyLog"
  /\ Succeed(c)
  /\ logs' = logs \cup {c.mint}
  /\ UNCHANGED <<bundles, positions, open>>

CloseRow(m) ==
  positions' = [positions EXCEPT ![m] = IF @ = "active" THEN "closed" ELSE @]

(* Faulty variant of ClosePosition: the older table is forgotten.          *)
ClosePositionOnly(c) ==
  /\ c.op = "close"
  /\ conn
  /\ CloseRow(c.mint)
  /\ pending' = pending \ {c}
  /\ UNCHANGED <<conn, enforced, stage, called, failed, dropped, bundles, open,
                 logs, raced, crashed>>

(* close_position updates an active row, if there is one, and spawns the   *)
(* removal from the older table.                                           *)
ClosePosition(c) ==
  /\ c.op = "close"
  /\ Succeed(c)
  /\ CloseRow(c.mint)
  /\ UNCHANGED <<bundles, open, logs>>

(* remove_open_position                                                    *)
DropOpenRow(c) ==
  /\ c.op = "dropRow"
  /\ Succeed(c)
  /\ open' = open \ {c.mint}
  /\ UNCHANGED <<bundles, positions, logs>>

(* The process ends and is started again: pending tasks are gone, tables   *)
(* stay, trades of the old process are watched by nobody.                  *)
Crash ==
  /\ ~crashed
  /\ crashed' = TRUE
  /\ pending' = {}
  /\ dropped' = dropped \cup pending
  /\ stage' = [m \in Mints |-> CASE stage[m] = "none" -> "none"
                                 [] stage[m] = "held" -> "orphan"
                                 [] stage[m] = "sold" -> "past"
                                 [] OTHER             -> "gone"]
  /\ conn' \in BOOLEAN
  /\ UNCHANGED <<enforced, called, failed, tables, raced>>

-----------------------------------------------------------------------------
Execute(c) ==
  \/ Unavailable(c) \/ StatementErrs(c)
  \/ WriteBundle(c) \/ WritePosition(c) \/ WriteOpenRow(c) \/ WriteLog(c)
  \/ ClosePosition(c) \/ DropOpenRow(c)

Next ==
  \/ \E m \in Mints :
       Submit(m) \/ Land(m) \/ Hear(m) \/ FailHandoff(m) \/ Confirm(m) \/ Sell(m)
  \/ \E c \in pending : Execute(c)
  \/ Crash

Spec == Init /\ [][Next]_vars

-----------------------------------------------------------------------------
(* No row of a position or of a buy is ahead of its trade, whatever order  *)
(* the writes took, whichever of them erred and whatever a restart cut     *)
(* off: it needs a confirmed handoff, and a closed position a sale.        *)
RowsJustified ==
  \A m \in Mints :
    /\ m \in open \cup logs \/ positions[m] # "absent" =>
         stage[m] \in {"held", "sold", "orphan", "past"}
    /\ positions[m] = "closed" => stage[m] \in {"sold", "past"}

(* When nothing is pending, in this process and in the one after it, the   *)
(* four tables differ from the trades only by writes that erred or were    *)
(* dropped, and by sales that overtook the opening of their position.      *)
DrainedBooksAgree ==
  pending = {} =>
    \A m \in Mints :
      LET Lost(op) == Call(op, m) \in failed \cup dropped
          Took(op) == Call(op, m) \in called /\ ~Lost(op)
          CutOff(op) == Call(op, m) \in dropped
      IN  /\ bundles[m] = "landed" <=> Took("trackerRow") \/ Took("consumerRow")
          /\ stage[m] \in {"held", "sold", "orphan", "past"} =>
               (m \in logs <=> ~Lost("buyLog"))
          /\ stage[m] \in {"held", "orphan"} =>
               /\ positions[m] = "active" <=> ~Lost("position")
               /\ m \notin open => CutOff("position") \/ Lost("openRow")
          /\ stage[m] \in {"sold", "past"} /\ m \notin raced =>
               /\ positions[m] = "active" => Lost("close")
               /\ m \in open => CutOff("close") \/ Lost("dropRow")

-----------------------------------------------------------------------------
(* Every write has run and has done what it can.                           *)
Settled ==
  /\ pending = {} /\ dropped = {}
  /\ \A c \in failed : Refused(c)

(* A confirmed position can be queried until it is sold, as the comment at *)
(* the call says: "Persist the confirmed position so the operator can      *)
(* query active positions, and so the sell-side close function can update  *)
(* the record on exit."                                                    *)
HeldIsListed ==
  Settled => \A m \in Mints : stage[m] = "held" => positions[m] = "active"

(* A sold position is not listed as an open one.                           *)
SoldIsUnlisted ==
  Settled => \A m \in Mints : stage[m] = "sold" => m \notin open

(* "Record a landed bundle in the bundles table": a bundle with a row was  *)
(* seen landed by the tracker.                                             *)
LandedRowsLanded ==
  \A m \in Mints : bundles[m] = "landed" => Call("trackerRow", m) \in called
=============================================================================
