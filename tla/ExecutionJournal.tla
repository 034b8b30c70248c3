-------------------------- MODULE ExecutionJournal --------------------------
(***************************************************************************)
(* The execution journal: an append-only file of Reserved and Accepted     *)
(* lines, a lock file beside it, and the executor processes that replay it *)
(* at startup and reserve capital in it before they send a bundle.         *)
(*                                                                         *)
(* The file is what the operating system would return to a reader; its     *)
(* first `durable` lines have been forced to the disk.  A killed process   *)
(* leaves the file alone, a power failure keeps any prefix that contains   *)
(* the durable lines and may tear the line it cuts.  A line is torn when   *)
(* it does not parse; whatever is appended behind a torn tail (which has   *)
(* no newline) becomes part of it.                                         *)
(***************************************************************************)
EXTENDS Naturals, SequencesExt

CONSTANTS
  Executors,            \* processes that open this journal
  Mints,                \* token mints
  Amounts,              \* capital at risk of one bundle, in lamports
  MaxPendingCapital,    \* config.max_pending_capital_lamports
  MaxJournalLines,      \* MAX_EXECUTION_JOURNAL_BYTES, in lines
  NoLine,               \* no append is in progress
  MaxIncidents,         \* bound: faults in a behaviour
  Faults                \* the classes of fault a run admits

FaultClasses == {"write", "sync", "lock", "kill", "power"}

ASSUME AmountsAssumption  == Amounts \subseteq Nat \ {0}
ASSUME LimitsAssumption   == /\ MaxPendingCapital \in Nat
                             /\ MaxJournalLines \in Nat
                             /\ MaxIncidents \in Nat
ASSUME FaultsAssumption   == Faults \subseteq FaultClasses

Lines == [event : {"reserved", "accepted", "torn"}, mint : Mints, capital : Nat]

ASSUME NoLineAssumption   == NoLine \notin Lines

VARIABLES
  journal,              \* the lines of the journal file
  durable,              \* how many of them are on stable storage
  lockFile,             \* the .lock file exists
  phase,                \* what each executor is doing
  reservedMints,        \* its ExecutionJournal.reserved_mints
  reservedCapital,      \* its reserved_capital_lamports
  writerLock,           \* its writer_lock_acquired
  job,                  \* the Reserved line of the signal it executes
  sends,                \* bundles handed to Jito, in order (history)
  incidents             \* faults so far, in order

memory == <<phase, reservedMints, reservedCapital, writerLock, job>>
vars   == <<journal, durable, lockFile, memory, sends, incidents>>

Phases == {"down", "starting", "idle", "write", "sync", "submit", "accept"}

TypeOK ==
  /\ journal \in Seq(Lines)
  /\ durable \in 0..Len(journal)
  /\ lockFile \in BOOLEAN
  /\ phase \in [Executors -> Phases]
  /\ reservedMints \in [Executors -> SUBSET Mints]
  /\ reservedCapital \in [Executors -> Nat]
  /\ writerLock \in [Executors -> BOOLEAN]
  /\ job \in [Executors -> Lines \cup {NoLine}]
  /\ sends \in Seq(Lines)
  /\ incidents \in Seq(FaultClasses)

-----------------------------------------------------------------------------
Reserved(m, c) == [event |-> "reserved", mint |-> m, capital |-> c]
Accepted(m)    == [event |-> "accepted", mint |-> m, capital |-> 0]
Torn(line)     == [line EXCEPT !.event = "torn"]

IsTorn(lines)     == \E i \in DOMAIN lines : lines[i].event = "torn"
Reservations(lines) == {i \in DOMAIN lines : lines[i].event = "reserved"}
ReservedIn(lines) == {lines[i].mint : i \in Reservations(lines)}

Counted(line) == IF line.event = "reserved" THEN line.capital ELSE 0

(* The capital reserved by the first n lines, for every n.                 *)
Totals(lines) ==
  LET total[n \in 0..Len(lines)] ==
        IF n = 0 THEN 0 ELSE total[n - 1] + Counted(lines[n])
  IN  total

CapitalOf(lines) == Totals(lines)[Len(lines)]

(* The file after a write: a torn tail swallows what follows it.           *)
Grown(lines, line) ==
  IF lines # <<>> /\ Last(lines).event = "torn" THEN lines
  ELSE Append(lines, line)

(* Two reservations of one mint, or more capital than the limit.           *)
Overdrawn(lines) ==
  \/ \E i, j \in Reservations(lines) : i # j /\ lines[i].mint = lines[j].mint
  \/ CapitalOf(lines) > MaxPendingCapital

(* The conditions under which load() refuses a journal.  (It also refuses  *)
(* a record that parses but has another version or an empty or zero field; *)
(* lines here are those that reserve and record_acceptance write, and a    *)
(* line is torn when it does not parse.)                                   *)
LoadFails(lines) ==
  Len(lines) > MaxJournalLines \/ IsTorn(lines) \/ Overdrawn(lines)

-----------------------------------------------------------------------------
Init ==
  /\ journal = <<>>
  /\ durable = 0
  /\ lockFile = FALSE
  /\ phase = [e \in Executors |-> "down"]
  /\ reservedMints = [e \in Executors |-> {}]
  /\ reservedCapital = [e \in Executors |-> 0]
  /\ writerLock = [e \in Executors |-> FALSE]
  /\ job = [e \in Executors |-> NoLine]
  /\ sends = <<>>
  /\ incidents = <<>>

Goto(e, label) == phase' = [phase EXCEPT ![e] = label]

Incident(kind) ==
  /\ kind \in Faults
  /\ Len(incidents) < MaxIncidents
  /\ incidents' = Append(incidents, kind)

(* The next signal; the line of the last one is forgotten.                 *)
Finish(e) == Goto(e, "idle") /\ job' = [job EXCEPT ![e] = NoLine]

(* The executors of D die and lose what they kept in memory.               *)
Forget(D) ==
  /\ phase' = [e \in Executors |-> IF e \in D THEN "down" ELSE phase[e]]
  /\ reservedMints' =
       [e \in Executors |-> IF e \in D THEN {} ELSE reservedMints[e]]
  /\ reservedCapital' =
       [e \in Executors |-> IF e \in D THEN 0 ELSE reservedCapital[e]]
  /\ writerLock' =
       [e \in Executors |-> IF e \in D THEN FALSE ELSE writerLock[e]]
  /\ job' = [e \in Executors |-> IF e \in D THEN NoLine ELSE job[e]]

-----------------------------------------------------------------------------
(* Faulty variant of RemoveLock: a lock file is left where it is.          *)
KeepLock(e) ==
  /\ phase[e] = "down"
  /\ Goto(e, "starting")
  /\ UNCHANGED <<journal, durable, lockFile, reservedMints, reservedCapital,
                 writerLock, job, sends, incidents>>

(* load, first half: whatever lock file is there is taken to be stale.     *)
RemoveLock(e) ==
  /\ phase[e] = "down"
  /\ lockFile' = FALSE
  /\ Goto(e, "starting")
  /\ UNCHANGED <<journal, durable, reservedMints, reservedCapital, writerLock,
                 job, sends, incidents>>

(* Faulty variant of Replay: the capital of earlier runs is not counted.   *)
ReplayMintsOnly(e) ==
  /\ phase[e] = "starting"
  /\ IF LoadFails(journal)
     THEN Goto(e, "down") /\ UNCHANGED reservedMints
     ELSE /\ Goto(e, "idle")
          /\ reservedMints' = [reservedMints EXCEPT ![e] = ReservedIn(journal)]
  /\ UNCHANGED <<journal, durable, lockFile, reservedCapital, writerLock, job,
                 sends, incidents>>

(* load, second half: replay the file, or refuse it and end.               *)
Replay(e) ==
  /\ phase[e] = "starting"
  /\ IF LoadFails(journal)
     THEN Goto(e, "down") /\ UNCHANGED <<reservedMints, reservedCapital>>
     ELSE /\ Goto(e, "idle")
          /\ reservedMints' = [reservedMints EXCEPT ![e] = ReservedIn(journal)]
          /\ reservedCapital' =
               [reservedCapital EXCEPT ![e] = CapitalOf(journal)]
  /\ UNCHANGED <<journal, durable, lockFile, writerLock, job, sends, incidents>>

(* Faulty variants of BeginReserve: the duplicate check and the capital    *)
(* check are dropped.                                                      *)
BeginDuplicate(e, m, c) ==
  /\ phase[e] = "idle"
  /\ reservedCapital[e] + c <= MaxPendingCapital
  /\ writerLock[e] \/ ~lockFile
  /\ lockFile' = TRUE
  /\ writerLock' = [writerLock EXCEPT ![e] = TRUE]
  /\ job' = [job EXCEPT ![e] = Reserved(m, c)]
  /\ Goto(e, "write")
  /\ UNCHANGED <<journal, durable, reservedMints, reservedCapital, sends,
                 incidents>>

BeginUnlimited(e, m, c) ==
  /\ phase[e] = "idle"
  /\ m \notin reservedMints[e]
  /\ writerLock[e] \/ ~lockFile
  /\ lockFile' = TRUE
  /\ writerLock' = [writerLock EXCEPT ![e] = TRUE]
  /\ job' = [job EXCEPT ![e] = Reserved(m, c)]
  /\ Goto(e, "write")
  /\ UNCHANGED <<journal, durable, reservedMints, reservedCapital, sends,
                 incidents>>

(* reserve up to its first write: the checks against memory, then          *)
(* acquire_writer_lock, which creates the lock file on first use and fails *)
(* if it exists.  A failed check changes nothing.                          *)
BeginReserve(e, m, c) ==
  /\ phase[e] = "idle"
  /\ m \notin reservedMints[e]
  /\ reservedCapital[e] + c <= MaxPendingCapital
  /\ writerLock[e] \/ ~lockFile
  /\ lockFile' = TRUE
  /\ writerLock' = [writerLock EXCEPT ![e] = TRUE]
  /\ job' = [job EXCEPT ![e] = Reserved(m, c)]
  /\ Goto(e, "write")
  /\ UNCHANGED <<journal, durable, reservedMints, reservedCapital, sends,
                 incidents>>

(* The lock file is created but writing or syncing it fails.               *)
FailLock(e) ==
  /\ phase[e] = "idle"
  /\ ~writerLock[e] /\ ~lockFile
  /\ Incident("lock")
  /\ lockFile' = TRUE
  /\ UNCHANGED <<journal, durable, memory, sends>>

(* Faulty variant of WriteLine: reserve returns without sync_all.          *)
WriteUnsynced(e) ==
  /\ phase[e] = "write"
  /\ journal' = Grown(journal, job[e])
  /\ reservedMints' = [reservedMints EXCEPT ![e] = @ \cup {job[e].mint}]
  /\ reservedCapital' = [reservedCapital EXCEPT ![e] = @ + job[e].capital]
  /\ Goto(e, "submit")
  /\ UNCHANGED <<durable, lockFile, writerLock, job, sends, incidents>>

(* append: write_all and flush.                                            *)
WriteLine(e) ==
  /\ phase[e] = "write"
  /\ journal' = Grown(journal, job[e])
  /\ Goto(e, "sync")
  /\ UNCHANGED <<durable, lockFile, reservedMints, reservedCapital, writerLock,
                 job, sends, incidents>>

FailWrite(e) ==
  /\ phase[e] = "write"
  /\ Incident("write")
  /\ journal' \in {journal, Grown(journal, Torn(job[e]))}
  /\ Finish(e)
  /\ UNCHANGED <<durable, lockFile, reservedMints, reservedCapital, writerLock,
                 sends>>

(* Faulty variant of SyncLine: reserve forgets to remember the mint.       *)
SyncWithoutMint(e) ==
  /\ phase[e] = "sync"
  /\ durable' = Len(journal)
  /\ reservedCapital' = [reservedCapital EXCEPT ![e] = @ + job[e].capital]
  /\ Goto(e, "submit")
  /\ UNCHANGED <<journal, lockFile, reservedMints, writerLock, job, sends,
                 incidents>>

(* append: sync_all; only now does reserve remember the mint.              *)
SyncLine(e) ==
  /\ phase[e] = "sync"
  /\ durable' = Len(journal)
  /\ reservedMints' = [reservedMints EXCEPT ![e] = @ \cup {job[e].mint}]
  /\ reservedCapital' = [reservedCapital EXCEPT ![e] = @ + job[e].capital]
  /\ Goto(e, "submit")
  /\ UNCHANGED <<journal, lockFile, writerLock, job, sends, incidents>>

FailSync(e) ==
  /\ phase[e] = "sync"
  /\ Incident("sync")
  /\ Finish(e)
  /\ UNCHANGED <<journal, durable, lockFile, reservedMints, reservedCapital,
                 writerLock, sends>>

(* fan_out_submit, acknowledged or not.                                    *)
Submit(e) ==
  /\ phase[e] = "submit"
  /\ sends' = Append(sends, job[e])
  /\ \/ Goto(e, "accept") /\ UNCHANGED job
     \/ Finish(e)
  /\ UNCHANGED <<journal, durable, lockFile, reservedMints, reservedCapital,
                 writerLock, incidents>>

(* record_acceptance.                                                      *)
RecordAcceptance(e) ==
  /\ phase[e] = "accept"
  /\ journal' = Grown(journal, Accepted(job[e].mint))
  /\ durable' = Len(journal')
  /\ Finish(e)
  /\ UNCHANGED <<lockFile, reservedMints, reservedCapital, writerLock, sends,
                 incidents>>

(* record_acceptance fails: the consumer returns the error and the process *)
(* ends, whatever part of the line was written.                            *)
FailAcceptance(e) ==
  /\ phase[e] = "accept"
  /\ \/ /\ Incident("write")
        /\ journal' \in {journal, Grown(journal, Torn(Accepted(job[e].mint)))}
     \/ /\ Incident("sync")
        /\ journal' = Grown(journal, Accepted(job[e].mint))
  /\ Forget({e})
  /\ UNCHANGED <<durable, lockFile, sends>>

Kill(e) ==
  /\ phase[e] # "down"
  /\ Incident("kill")
  /\ Forget({e})
  /\ UNCHANGED <<journal, durable, lockFile, sends>>

(* The host loses power: all executors die, the lines that were not synced *)
(* survive up to some point and the line cut there may be torn.            *)
PowerLoss ==
  /\ Incident("power")
  /\ \E k \in durable..Len(journal) :
       LET kept == SubSeq(journal, 1, k)
       IN journal' \in {kept} \cup
            IF k < Len(journal) THEN {Append(kept, Torn(journal[k + 1]))}
            ELSE {}
  /\ durable' = Len(journal')
  /\ Forget(Executors)
  /\ UNCHANGED <<lockFile, sends>>

-----------------------------------------------------------------------------
Next ==
  \/ \E e \in Executors :
       \/ RemoveLock(e) \/ Replay(e) \/ FailLock(e)
       \/ \E m \in Mints, c \in Amounts : BeginReserve(e, m, c)
       \/ WriteLine(e) \/ FailWrite(e) \/ SyncLine(e) \/ FailSync(e)
       \/ Submit(e) \/ RecordAcceptance(e) \/ FailAcceptance(e) \/ Kill(e)
  \/ PowerLoss

Spec == Init /\ [][Next]_vars

-----------------------------------------------------------------------------
SentMints == {sends[i].mint : i \in DOMAIN sends}

(* Write-ahead, at every point a power failure could cut the file: what is *)
(* left either still names every mint a bundle was sent for, or is refused *)
(* by load(), so that no executor can run without knowing them.            *)
ReplayCoversSends ==
  \A k \in durable..Len(journal) :
    LET kept == SubSeq(journal, 1, k)
    IN LoadFails(kept) \/ SentMints \subseteq ReservedIn(kept)

(* No mint is sent twice, over all processes and restarts: "A timeout is   *)
(* therefore never safe to retry, including after a process restart."      *)
AtMostOneSend ==
  \A i, j \in DOMAIN sends : sends[i].mint = sends[j].mint => i = j

(* The capital of all bundles ever sent stays within the limit, also when  *)
(* restarts and failed writes come between them.                           *)
CapitalBounded == CapitalOf(sends) <= MaxPendingCapital

(* What load() refuses of a file that is not too long for it has a fault   *)
(* behind it: only a failed write or a power failure tears a line, and     *)
(* only a failed sync (whose line is in the file, but not in memory) lets  *)
(* a mint be reserved twice or the capital pass its limit.  Killed         *)
(* processes and failures to take the lock never do.                       *)
RefusalsExplained ==
  LET seen == Range(incidents)
  IN  /\ IsTorn(journal) => seen \cap {"write", "power"} # {}
      /\ Overdrawn(journal) => "sync" \in seen

(* An executor that is running is never kept from reserving by a lock file *)
(* that is not its own, unless it failed to write that file itself: a      *)
(* predecessor that died does not block all trades.                        *)
LockFileIsOurs ==
  "lock" \in Range(incidents) \/
    \A e \in Executors :
      phase[e] \notin {"down", "starting"} /\ lockFile => writerLock[e]

(* The journal keeps the promise of BuyOnce, over every fault: what is      *)
(* durable is reserved (and nothing may be bought again once load() would  *)
(* refuse what is durable), and what is sent was reserved, and not sent.   *)
Committed ==
  LET stable == SubSeq(journal, 1, durable)
  IN  IF LoadFails(stable) THEN Mints ELSE ReservedIn(stable)

Sends == [m \in Mints |-> Cardinality({i \in DOMAIN sends : sends[i].mint = m})]

Ledger == INSTANCE BuyOnce WITH reserved <- Committed, buys <- Sends

ImplementsBuyOnce == Ledger!Spec
=============================================================================
