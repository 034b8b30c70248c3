---------------------- MODULE ExecutionJournal_proofs ----------------------
(***************************************************************************)
(* Proofs about ExecutionJournal, for any mints, amounts, limits and       *)
(* faults.  That a restart knows every mint sent holds for any number of   *)
(* executors; for one, that no mint is sent twice, that the capital limit  *)
(* holds, that the lock file is the executor's own, which fault is behind  *)
(* a refused file, and that the durable prefix implements BuyOnce.         *)
(*                                                                         *)
(* The argument does not depend on where a power failure cuts the file:    *)
(* a mint is Safe if the durable lines name it or hold a torn one, since   *)
(* load() then either learns of it or refuses the file.  Before its sync a *)
(* reservation is InFile; a sync makes what is in the file safe.           *)
(***************************************************************************)
EXTENDS ExecutionJournal, SequenceTheorems, FiniteSetTheorems,
        WellFoundedInduction, TLAPS

Names(line, m) ==
  \/ line.event = "torn"
  \/ line.event = "reserved" /\ line.mint = m

InFile(m) == \E i \in 1..Len(journal) : Names(journal[i], m)
Safe(m)   == \E i \in 1..durable : Names(journal[i], m)

FileTyped ==
  /\ journal \in Seq(Lines)
  /\ durable \in 0..Len(journal)
  /\ sends \in Seq(Lines)
  /\ phase \in [Executors -> Phases]
  /\ job \in [Executors -> Lines \cup {NoLine}]

(* An executor that reserves or submits has its line at hand.              *)
JobKept ==
  \A e \in Executors :
    phase[e] \in {"write", "sync", "submit", "accept"} =>
      job[e] \in Lines /\ job[e].event = "reserved"

WriteAhead ==
  /\ \A e \in Executors : phase[e] = "sync" => InFile(job[e].mint)
  /\ \A e \in Executors : phase[e] = "submit" => Safe(job[e].mint)
  /\ \A i \in DOMAIN sends : Safe(sends[i].mint)

IInv == FileTyped /\ JobKept /\ WriteAhead

-----------------------------------------------------------------------------
(* What a write leaves: the old lines, and behind them the new one or a    *)
(* torn one.                                                               *)
LEMMA GrownExtends ==
  ASSUME NEW lines \in Seq(Lines), NEW line \in Lines
  PROVE  /\ Grown(lines, line) \in Seq(Lines)
         /\ Len(lines) <= Len(Grown(lines, line))
         /\ \A i \in 1..Len(lines) : Grown(lines, line)[i] = lines[i]
         /\ \E i \in 1..Len(Grown(lines, line)) :
              Grown(lines, line)[i].event = "torn" \/ Grown(lines, line)[i] = line
<1>1. Len(lines) \in Nat BY LenProperties
<1>2. CASE lines # <<>> /\ Last(lines).event = "torn"
  <2>1. Grown(lines, line) = lines BY <1>2 DEF Grown
  <2>2. Len(lines) \in 1..Len(lines) /\ lines[Len(lines)].event = "torn"
    BY <1>1, <1>2, EmptySeq DEF Last
  <2> QED BY <1>1, <2>1, <2>2
<1>3. CASE ~(lines # <<>> /\ Last(lines).event = "torn")
  <2>1. Grown(lines, line) = Append(lines, line) BY <1>3 DEF Grown
  <2>2. /\ Append(lines, line) \in Seq(Lines)
        /\ Len(Append(lines, line)) = Len(lines) + 1
        /\ \A i \in 1..Len(lines) : Append(lines, line)[i] = lines[i]
        /\ Append(lines, line)[Len(lines) + 1] = line
    BY AppendProperties
  <2> QED BY <1>1, <2>1, <2>2
<1> QED BY <1>2, <1>3

(* Lines that stay keep what they name.                                    *)
LEMMA ExtensionKeeps ==
  ASSUME FileTyped, NEW m,
         journal' \in Seq(Lines), durable' \in durable..Len(journal')
  PROVE  /\ (\A i \in 1..durable : journal'[i] = journal[i]) /\ Safe(m) => Safe(m)'
         /\ /\ Len(journal) <= Len(journal')
            /\ \A i \in 1..Len(journal) : journal'[i] = journal[i]
            => (Safe(m) => Safe(m)') /\ (InFile(m) => InFile(m)')
<1>1. /\ durable \in Nat /\ durable' \in Nat /\ Len(journal) \in Nat
      /\ Len(journal') \in Nat /\ durable <= Len(journal) /\ durable <= durable'
  BY LenProperties DEF FileTyped
<1>2. ASSUME \A i \in 1..durable : journal'[i] = journal[i], Safe(m) PROVE Safe(m)'
  BY <1>1, <1>2 DEF Safe, Names
<1>3. ASSUME Len(journal) <= Len(journal'),
             \A i \in 1..Len(journal) : journal'[i] = journal[i], InFile(m)
      PROVE  InFile(m)'
  BY <1>1, <1>3 DEF InFile, Names
<1> QED BY <1>1, <1>2, <1>3

(* A cut behind the durable lines leaves what is safe for load() to find.  *)
LEMMA SafeIsCovered == IInv => ReplayCoversSends
<1> SUFFICES ASSUME IInv, NEW k \in durable..Len(journal)
             PROVE  LET kept == SubSeq(journal, 1, k)
                    IN  IsTorn(kept) \/ SentMints \subseteq ReservedIn(kept)
  BY DEF ReplayCoversSends, LoadFails, Overdrawn
<1> DEFINE kept == SubSeq(journal, 1, k)
<1>1. /\ durable \in Nat /\ Len(journal) \in Nat /\ k \in Nat
      /\ durable <= k /\ k <= Len(journal) /\ journal \in Seq(Lines)
  BY LenProperties DEF IInv, FileTyped
<1>2. /\ DOMAIN kept = 1..k /\ \A i \in 1..k : kept[i] = journal[i]
  BY <1>1, SubSeqProperties, LenProperties
<1>3. SUFFICES ASSUME ~IsTorn(kept), NEW n \in DOMAIN sends
               PROVE  sends[n].mint \in ReservedIn(kept)
  BY DEF SentMints
<1>4. PICK i \in 1..durable : Names(journal[i], sends[n].mint)
  BY DEF IInv, WriteAhead, Safe
<1>5. i \in DOMAIN kept /\ kept[i] = journal[i] BY <1>1, <1>2
<1>6. kept[i].event = "reserved" /\ kept[i].mint = sends[n].mint
  BY <1>3, <1>4, <1>5 DEF Names, IsTorn
<1> QED BY <1>5, <1>6 DEF ReservedIn, Reservations

(* The initial state satisfies the inductive invariant.                    *)
LEMMA InitEstablishes == Init => IInv
<1> SUFFICES ASSUME Init PROVE IInv OBVIOUS
<1>1. <<>> \in Seq(Lines) /\ Len(<<>>) = 0 /\ DOMAIN <<>> = {} OBVIOUS
<1>2. FileTyped BY <1>1 DEF Init, FileTyped, Phases
<1>3. JobKept BY DEF Init, JobKept
<1>4. WriteAhead BY <1>1 DEF Init, WriteAhead
<1> QED BY <1>2, <1>3, <1>4 DEF IInv

-----------------------------------------------------------------------------
(* A step that only adds lines, syncs or not, and lets an executor either  *)
(* stay where it is or give up its line preserves the invariant.           *)
Backed(e) == phase'[e] = phase[e] /\ job'[e] = job[e]
Resting(e) == phase'[e] \in {"down", "starting", "idle"}

FileGrows ==
  /\ journal' \in Seq(Lines) /\ Len(journal) <= Len(journal')
  /\ \A i \in 1..Len(journal) : journal'[i] = journal[i]
  /\ durable' \in durable..Len(journal')

LEMMA GrowthKeeps ==
  ASSUME IInv, FileGrows
  PROVE  /\ \A m : Safe(m) => Safe(m)'
         /\ \A m : InFile(m) => InFile(m)'
         /\ journal' \in Seq(Lines) /\ durable' \in 0..Len(journal')
<1>1. FileTyped BY DEF IInv
<1>2. durable \in Nat /\ durable' \in Nat /\ Len(journal') \in Nat
  BY LenProperties DEF IInv, FileTyped, FileGrows
<1>3. ASSUME NEW m PROVE (Safe(m) => Safe(m)') /\ (InFile(m) => InFile(m)')
  BY <1>1, ExtensionKeeps DEF FileGrows
<1> QED BY <1>2, <1>3 DEF FileGrows

LEMMA QuietStep ==
  ASSUME IInv, FileGrows, sends' = sends,
         phase' \in [Executors -> Phases],
         job' \in [Executors -> Lines \cup {NoLine}],
         \A e \in Executors : Backed(e) \/ Resting(e)
  PROVE  IInv'
<1>1. /\ \A m : Safe(m) => Safe(m)'
      /\ \A m : InFile(m) => InFile(m)'
      /\ journal' \in Seq(Lines) /\ durable' \in 0..Len(journal')
  BY GrowthKeeps
<1>2. FileTyped' BY <1>1 DEF IInv, FileTyped
<1>3. JobKept' BY DEF IInv, JobKept, Backed, Resting
<1>4. WriteAhead'
  <2>1. ASSUME NEW e \in Executors, phase'[e] = "sync" PROVE InFile(job[e].mint)'
    <3>1. InFile(job[e].mint) /\ job'[e] = job[e]
      BY <2>1 DEF IInv, WriteAhead, Backed, Resting
    <3> QED BY <1>1, <3>1 DEF InFile
  <2>2. ASSUME NEW e \in Executors, phase'[e] = "submit" PROVE Safe(job[e].mint)'
    <3>1. Safe(job[e].mint) /\ job'[e] = job[e]
      BY <2>2 DEF IInv, WriteAhead, Backed, Resting
    <3> QED BY <1>1, <3>1 DEF Safe
  <2>3. ASSUME NEW i \in DOMAIN sends' PROVE Safe(sends[i].mint)'
    <3>1. Safe(sends[i].mint) BY DEF IInv, WriteAhead
    <3> QED BY <1>1, <3>1 DEF Safe
  <2> QED BY <2>1, <2>2, <2>3 DEF WriteAhead
<1> QED BY <1>2, <1>3, <1>4 DEF IInv

LEMMA FileStays ==
  ASSUME IInv, journal' = journal, durable' = durable
  PROVE  FileGrows
BY LenProperties DEF IInv, FileTyped, FileGrows

-----------------------------------------------------------------------------
(* One lemma per kind of step.                                             *)
LEMMA TornIsLine ==
  ASSUME NEW line \in Lines PROVE Torn(line) \in Lines
BY DEF Torn, Lines

LEMMA GrownFile ==
  ASSUME IInv, NEW line \in Lines,
         journal' = Grown(journal, line), durable' \in {durable, Len(journal')}
  PROVE  FileGrows /\ \E i \in 1..Len(journal') :
                        journal'[i].event = "torn" \/ journal'[i] = line
<1>1. /\ journal' \in Seq(Lines)
      /\ Len(journal) <= Len(journal')
      /\ \A i \in 1..Len(journal) : journal'[i] = journal[i]
      /\ \E i \in 1..Len(journal') :
           journal'[i].event = "torn" \/ journal'[i] = line
  BY GrownExtends DEF IInv, FileTyped
<1>2. /\ durable \in Nat /\ durable <= Len(journal)
      /\ Len(journal) \in Nat /\ Len(journal') \in Nat
  BY <1>1, LenProperties DEF IInv, FileTyped
<1> QED BY <1>1, <1>2 DEF FileGrows

(* Steps that leave the file and the bundles alone, and give no executor a *)
(* new line.                                                               *)
LEMMA MemorySteps ==
  ASSUME IInv, NEW e \in Executors,
         RemoveLock(e) \/ Replay(e) \/ FailLock(e) \/ FailSync(e) \/ Kill(e)
  PROVE  IInv'
<1>1. journal' = journal /\ durable' = durable /\ sends' = sends
  BY DEF RemoveLock, Replay, FailLock, FailSync, Kill
<1>2. FileGrows BY <1>1, FileStays
<1>3. FileTyped BY DEF IInv
<1>4. CASE RemoveLock(e)
  BY <1>1, <1>2, <1>3, <1>4, QuietStep
  DEF RemoveLock, Goto, Backed, Resting, FileTyped, Phases
<1>5. CASE Replay(e)
  BY <1>1, <1>2, <1>3, <1>5, QuietStep
  DEF Replay, Goto, Backed, Resting, FileTyped, Phases
<1>6. CASE FailLock(e)
  BY <1>1, <1>2, <1>3, <1>6, QuietStep
  DEF FailLock, memory, Backed, Resting, FileTyped, Phases
<1>7. CASE FailSync(e)
  BY <1>1, <1>2, <1>3, <1>7, QuietStep
  DEF FailSync, Goto, Finish, Backed, Resting, FileTyped, Phases
<1>8. CASE Kill(e)
  BY <1>1, <1>2, <1>3, <1>8, QuietStep
  DEF Kill, Forget, Backed, Resting, FileTyped, Phases
<1> QED BY <1>4, <1>5, <1>6, <1>7, <1>8

LEMMA BeginStep ==
  ASSUME IInv, NEW e \in Executors, NEW m \in Mints, NEW c \in Amounts,
         BeginReserve(e, m, c)
  PROVE  IInv'
<1>1. /\ journal' = journal /\ durable' = durable /\ sends' = sends
      /\ phase' = [phase EXCEPT ![e] = "write"]
      /\ job' = [job EXCEPT ![e] = Reserved(m, c)]
  BY DEF BeginReserve, Goto
<1>2. Reserved(m, c) \in Lines /\ Reserved(m, c).event = "reserved"
  BY AmountsAssumption DEF Reserved, Lines
<1>3. FileTyped' BY <1>1, <1>2 DEF IInv, FileTyped, Phases
<1>4. ASSUME NEW d \in Executors,
             phase'[d] \in {"write", "sync", "submit", "accept"}
      PROVE  job'[d] \in Lines /\ job'[d].event = "reserved"
  <2>1. CASE d = e BY <1>1, <1>2, <2>1 DEF IInv, FileTyped
  <2>2. CASE d # e BY <1>1, <1>4, <2>2 DEF IInv, JobKept, FileTyped
  <2> QED BY <2>1, <2>2
<1>5. WriteAhead'
  BY <1>1 DEF IInv, WriteAhead, FileTyped, InFile, Safe
<1> QED BY <1>3, <1>4, <1>5 DEF IInv, JobKept

(* The line is in the file before the executor waits for the sync.         *)
LEMMA WriteStep ==
  ASSUME IInv, NEW e \in Executors, WriteLine(e)
  PROVE  IInv'
<1>1. /\ journal' = Grown(journal, job[e]) /\ durable' = durable
      /\ sends' = sends /\ job' = job
      /\ phase' = [phase EXCEPT ![e] = "sync"] /\ phase[e] = "write"
  BY DEF WriteLine, Goto
<1>2. job[e] \in Lines /\ job[e].event = "reserved"
  BY <1>1 DEF IInv, JobKept
<1>3. FileGrows /\ \E i \in 1..Len(journal') :
                     journal'[i].event = "torn" \/ journal'[i] = job[e]
  BY <1>1, <1>2, GrownFile
<1>4. /\ \A m : Safe(m) => Safe(m)'
      /\ \A m : InFile(m) => InFile(m)'
      /\ journal' \in Seq(Lines) /\ durable' \in 0..Len(journal')
  BY <1>3, GrowthKeeps
<1>5. FileTyped' BY <1>1, <1>4 DEF IInv, FileTyped, Phases
<1>6. JobKept' BY <1>1, <1>2 DEF IInv, JobKept, FileTyped
<1>7. ASSUME NEW d \in Executors, phase'[d] = "sync" PROVE InFile(job[d].mint)'
  <2>1. CASE d = e
    <3>1. PICK i \in 1..Len(journal') :
            journal'[i].event = "torn" \/ journal'[i] = job[e]
      BY <1>3
    <3>2. \/ journal'[i].event = "torn"
          \/ journal'[i].event = "reserved" /\ journal'[i].mint = job'[d].mint
      BY <1>1, <1>2, <2>1, <3>1
    <3> QED BY <3>2 DEF InFile, Names
  <2>2. CASE d # e
    <3>1. InFile(job[d].mint) /\ job'[d] = job[d]
      BY <1>1, <1>7, <2>2 DEF IInv, WriteAhead, FileTyped
    <3> QED BY <1>4, <3>1 DEF InFile
  <2> QED BY <2>1, <2>2
<1>8. ASSUME NEW d \in Executors, phase'[d] = "submit" PROVE Safe(job[d].mint)'
  <2>1. Safe(job[d].mint) /\ job'[d] = job[d]
    BY <1>1, <1>8 DEF IInv, WriteAhead, FileTyped
  <2> QED BY <1>4, <2>1 DEF Safe
<1>9. ASSUME NEW i \in DOMAIN sends' PROVE Safe(sends[i].mint)'
  <2>1. Safe(sends[i].mint) /\ sends'[i] = sends[i] BY <1>1 DEF IInv, WriteAhead
  <2> QED BY <1>4, <2>1 DEF Safe
<1> QED BY <1>5, <1>6, <1>7, <1>8, <1>9 DEF IInv, WriteAhead

(* A write that fails, and a line written after the bundle was sent.       *)
LEMMA FailWriteStep ==
  ASSUME IInv, NEW e \in Executors, FailWrite(e)
  PROVE  IInv'
<1>1. /\ journal' \in {journal, Grown(journal, Torn(job[e]))}
      /\ durable' = durable /\ sends' = sends /\ phase[e] = "write"
      /\ phase' = [phase EXCEPT ![e] = "idle"]
      /\ job' = [job EXCEPT ![e] = NoLine]
  BY DEF FailWrite, Finish, Goto
<1>2. Torn(job[e]) \in Lines BY <1>1, TornIsLine DEF IInv, JobKept
<1>3. FileGrows BY <1>1, <1>2, GrownFile, FileStays
<1> QED BY <1>1, <1>3, QuietStep DEF IInv, FileTyped, Phases, Backed, Resting

LEMMA AcceptedIsLine ==
  ASSUME NEW line \in Lines PROVE Accepted(line.mint) \in Lines
BY DEF Accepted, Lines

LEMMA RecordStep ==
  ASSUME IInv, NEW e \in Executors, RecordAcceptance(e)
  PROVE  IInv'
<1>1. /\ journal' = Grown(journal, Accepted(job[e].mint))
      /\ durable' = Len(journal') /\ sends' = sends /\ phase[e] = "accept"
      /\ phase' = [phase EXCEPT ![e] = "idle"]
      /\ job' = [job EXCEPT ![e] = NoLine]
  BY DEF RecordAcceptance, Finish, Goto
<1>2. Accepted(job[e].mint) \in Lines
  BY <1>1, AcceptedIsLine DEF IInv, JobKept
<1>3. FileGrows BY <1>1, <1>2, GrownFile
<1> QED BY <1>1, <1>3, QuietStep DEF IInv, FileTyped, Phases, Backed, Resting

LEMMA FailAcceptanceStep ==
  ASSUME IInv, NEW e \in Executors, FailAcceptance(e)
  PROVE  IInv'
<1> DEFINE line == Accepted(job[e].mint)
<1>1. /\ journal' \in {journal, Grown(journal, Torn(line)), Grown(journal, line)}
      /\ durable' = durable /\ sends' = sends /\ phase[e] = "accept"
      /\ phase' = [d \in Executors |-> IF d \in {e} THEN "down" ELSE phase[d]]
      /\ job' = [d \in Executors |-> IF d \in {e} THEN NoLine ELSE job[d]]
  BY DEF FailAcceptance, Forget
<1>2. line \in Lines /\ Torn(line) \in Lines
  BY <1>1, AcceptedIsLine, TornIsLine DEF IInv, JobKept
<1> HIDE DEF line
<1>3. FileGrows BY <1>1, <1>2, GrownFile, FileStays
<1> QED BY <1>1, <1>3, QuietStep DEF IInv, FileTyped, Phases, Backed, Resting

(* The sync makes what is in the file safe, and so the line to be sent.    *)
LEMMA SyncStep ==
  ASSUME IInv, NEW e \in Executors, SyncLine(e)
  PROVE  IInv'
<1>1. /\ journal' = journal /\ durable' = Len(journal)
      /\ sends' = sends /\ job' = job
      /\ phase' = [phase EXCEPT ![e] = "submit"] /\ phase[e] = "sync"
  BY DEF SyncLine, Goto
<1>2. FileGrows BY <1>1, LenProperties DEF IInv, FileTyped, FileGrows
<1>3. /\ \A m : Safe(m) => Safe(m)'
      /\ \A m : InFile(m) => InFile(m)'
      /\ journal' \in Seq(Lines) /\ durable' \in 0..Len(journal')
  BY <1>2, GrowthKeeps
<1>4. \A m : InFile(m) => Safe(m)' BY <1>1 DEF InFile, Safe
<1>5. FileTyped' BY <1>1, <1>3 DEF IInv, FileTyped, Phases
<1>6. JobKept' BY <1>1 DEF IInv, JobKept, FileTyped
<1>7. ASSUME NEW d \in Executors, phase'[d] = "sync" PROVE InFile(job[d].mint)'
  <2>1. InFile(job[d].mint) /\ job'[d] = job[d]
    BY <1>1, <1>7 DEF IInv, WriteAhead, FileTyped
  <2> QED BY <1>3, <2>1 DEF InFile
<1>8. ASSUME NEW d \in Executors, phase'[d] = "submit" PROVE Safe(job[d].mint)'
  <2>1. InFile(job[d].mint) \/ Safe(job[d].mint)
    BY <1>1, <1>8 DEF IInv, WriteAhead, FileTyped
  <2>2. job'[d] = job[d] BY <1>1
  <2> QED BY <1>3, <1>4, <2>1, <2>2 DEF Safe
<1>9. ASSUME NEW i \in DOMAIN sends' PROVE Safe(sends[i].mint)'
  <2>1. Safe(sends[i].mint) /\ sends'[i] = sends[i] BY <1>1 DEF IInv, WriteAhead
  <2> QED BY <1>3, <2>1 DEF Safe
<1> QED BY <1>5, <1>6, <1>7, <1>8, <1>9 DEF IInv, WriteAhead

(* What is sent was made safe before.                                      *)
LEMMA SubmitStep ==
  ASSUME IInv, NEW e \in Executors, Submit(e)
  PROVE  IInv'
<1>1. /\ journal' = journal /\ durable' = durable
      /\ sends' = Append(sends, job[e]) /\ phase[e] = "submit"
      /\ \A d \in Executors : d # e => phase'[d] = phase[d] /\ job'[d] = job[d]
      /\ \/ phase'[e] = "accept" /\ job'[e] = job[e]
         \/ phase'[e] = "idle" /\ job'[e] = NoLine
      /\ phase' \in [Executors -> Phases]
      /\ job' \in [Executors -> Lines \cup {NoLine}]
  BY DEF Submit, Goto, Finish, IInv, FileTyped, Phases
<1>2. job[e] \in Lines /\ job[e].event = "reserved" /\ Safe(job[e].mint)
  BY <1>1 DEF IInv, JobKept, WriteAhead
<1>3. /\ sends' \in Seq(Lines) /\ DOMAIN sends' = 1..Len(sends) + 1
      /\ DOMAIN sends = 1..Len(sends) /\ Len(sends) \in Nat
      /\ \A i \in 1..Len(sends) : sends'[i] = sends[i]
      /\ sends'[Len(sends) + 1] = job[e]
  BY <1>1, <1>2, AppendProperties, LenProperties DEF IInv, FileTyped
<1>4. FileTyped' BY <1>1, <1>3 DEF IInv, FileTyped
<1>5. JobKept' BY <1>1, <1>2 DEF IInv, JobKept
<1>6. ASSUME NEW d \in Executors, phase'[d] = "sync" PROVE InFile(job[d].mint)'
  BY <1>1, <1>6 DEF IInv, WriteAhead, InFile
<1>7. ASSUME NEW d \in Executors, phase'[d] = "submit" PROVE Safe(job[d].mint)'
  BY <1>1, <1>7 DEF IInv, WriteAhead, Safe
<1>8. ASSUME NEW i \in DOMAIN sends' PROVE Safe(sends[i].mint)'
  <2>1. CASE i = Len(sends) + 1 BY <1>1, <1>2, <1>3, <2>1 DEF Safe
  <2>2. CASE i # Len(sends) + 1
    <3>1. i \in DOMAIN sends /\ sends'[i] = sends[i] BY <1>3, <2>2
    <3> QED BY <1>1, <3>1 DEF IInv, WriteAhead, Safe
  <2> QED BY <2>1, <2>2
<1> QED BY <1>4, <1>5, <1>6, <1>7, <1>8 DEF IInv, WriteAhead

(* A power failure keeps the durable lines and cuts the file behind them:  *)
(* what is left is all durable, and torn unless it is a prefix.            *)
LEMMA PowerCut ==
  ASSUME IInv, PowerLoss
  PROVE  /\ journal' \in Seq(Lines) /\ durable' = Len(journal')
         /\ durable' \in durable..Len(journal')
         /\ \A i \in 1..durable : journal'[i] = journal[i]
         /\ \/ journal'[Len(journal')].event = "torn" /\ Len(journal') > 0
            \/ /\ Len(journal') <= Len(journal)
               /\ \A i \in 1..Len(journal') : journal'[i] = journal[i]
<1>1. /\ journal \in Seq(Lines) /\ durable \in Nat /\ Len(journal) \in Nat
      /\ durable <= Len(journal)
  BY LenProperties DEF IInv, FileTyped
<1>2. PICK k \in durable..Len(journal) :
        \/ journal' = SubSeq(journal, 1, k)
        \/ /\ k < Len(journal)
           /\ journal' = Append(SubSeq(journal, 1, k), Torn(journal[k + 1]))
  BY DEF PowerLoss
<1>3. durable' = Len(journal') BY DEF PowerLoss
<1> DEFINE kept == SubSeq(journal, 1, k)
<1>4. /\ kept \in Seq(Lines) /\ Len(kept) = k
      /\ \A i \in 1..k : kept[i] = journal[i]
  BY <1>1, SubSeqProperties, LenProperties
<1>5. CASE journal' = kept BY <1>1, <1>3, <1>4, <1>5
<1>6. CASE k < Len(journal) /\ journal' = Append(kept, Torn(journal[k + 1]))
  <2>1. journal[k + 1] \in Lines BY <1>1, <1>6, ElementOfSeq
  <2>2. Torn(journal[k + 1]) \in Lines /\ Torn(journal[k + 1]).event = "torn"
    BY <2>1, TornIsLine DEF Torn, Lines
  <2> HIDE DEF kept
  <2>3. /\ journal' \in Seq(Lines) /\ Len(journal') = k + 1
        /\ \A i \in 1..k : journal'[i] = kept[i]
        /\ journal'[k + 1] = Torn(journal[k + 1])
    BY <1>4, <1>6, <2>2, AppendProperties
  <2> QED BY <1>1, <1>3, <1>4, <2>2, <2>3
<1> QED BY <1>2, <1>5, <1>6

LEMMA PowerStep == IInv /\ PowerLoss => IInv'
<1> SUFFICES ASSUME IInv, PowerLoss PROVE IInv' OBVIOUS
<1>1. /\ sends' = sends
      /\ phase' = [e \in Executors |-> "down"]
      /\ job' = [e \in Executors |-> NoLine]
  BY DEF PowerLoss, Forget
<1>2. /\ journal' \in Seq(Lines) /\ durable' = Len(journal')
      /\ durable' \in durable..Len(journal')
      /\ \A i \in 1..durable : journal'[i] = journal[i]
  BY PowerCut
<1>3. \A m : Safe(m) => Safe(m)'
  <2> SUFFICES ASSUME NEW m, Safe(m) PROVE Safe(m)' OBVIOUS
  <2> QED BY <1>2, ExtensionKeeps DEF IInv
<1>4. FileTyped' BY <1>1, <1>2, LenProperties DEF IInv, FileTyped, Phases
<1>5. JobKept' BY <1>1 DEF JobKept
<1>6. ASSUME NEW i \in DOMAIN sends' PROVE Safe(sends[i].mint)'
  <2>1. Safe(sends[i].mint) /\ sends'[i] = sends[i] BY <1>1 DEF IInv, WriteAhead
  <2> QED BY <1>3, <2>1 DEF Safe
<1>7. WriteAhead' BY <1>1, <1>6 DEF WriteAhead
<1> QED BY <1>4, <1>5, <1>7 DEF IInv

-----------------------------------------------------------------------------
(* Every step preserves the inductive invariant.                           *)
LEMMA NextPreserves == IInv /\ [Next]_vars => IInv'
<1> SUFFICES ASSUME IInv, [Next]_vars PROVE IInv' OBVIOUS
<1>1. ASSUME NEW e \in Executors,
             \/ RemoveLock(e) \/ Replay(e) \/ FailLock(e)
             \/ \E m \in Mints, c \in Amounts : BeginReserve(e, m, c)
             \/ WriteLine(e) \/ FailWrite(e) \/ SyncLine(e) \/ FailSync(e)
             \/ Submit(e) \/ RecordAcceptance(e) \/ FailAcceptance(e) \/ Kill(e)
      PROVE  IInv'
  BY <1>1, MemorySteps, BeginStep, WriteStep, FailWriteStep, SyncStep,
     SubmitStep, RecordStep, FailAcceptanceStep
<1>2. CASE PowerLoss BY <1>2, PowerStep
<1>3. CASE UNCHANGED vars
  BY <1>3 DEF vars, memory, IInv, FileTyped, JobKept, WriteAhead, InFile, Safe
<1> QED BY <1>1, <1>2, <1>3 DEF Next

LEMMA Inductive == Spec => []IInv
BY InitEstablishes, NextPreserves, PTL DEF Spec

(* Wherever a power failure cuts the journal, a restart knows every mint a *)
(* bundle was sent for, or refuses to run (append, execution.rs): for any  *)
(* number of executors on the file, any mints, limits and faults.          *)
THEOREM RestartKnowsSends == Spec => []ReplayCoversSends
BY Inductive, SafeIsCovered, PTL

-----------------------------------------------------------------------------
(* One executor on the file: what it replayed and reserved since names     *)
(* every mint sent, so the mint of its next line was never sent.           *)
OneExecutor == \A d, e \in Executors : d = e

Running(e) == phase[e] \notin {"down", "starting"}

MemoryTyped == reservedMints \in [Executors -> SUBSET Mints]

SentAreKnown ==
  \A e \in Executors :
    /\ Running(e) => SentMints \subseteq reservedMints[e]
    /\ phase[e] \in {"write", "sync", "submit"} => job[e].mint \notin SentMints
    /\ phase[e] = "submit" => job[e].mint \in reservedMints[e]

OnceInv == IInv /\ MemoryTyped /\ SentAreKnown /\ AtMostOneSend

(* A replay that is not refused learns every mint sent.                    *)
LEMMA ReplayLearns ==
  ASSUME IInv, ~LoadFails(journal)
  PROVE  SentMints \subseteq ReservedIn(journal)
<1>1. /\ journal \in Seq(Lines) /\ Len(journal) \in durable..Len(journal)
  BY LenProperties DEF IInv, FileTyped
<1>2. SubSeq(journal, 1, Len(journal)) = journal
  <2>1. /\ Len(journal) \in Nat
        /\ SubSeq(journal, 1, Len(journal)) \in Seq(Lines)
        /\ Len(SubSeq(journal, 1, Len(journal))) = Len(journal)
        /\ \A i \in 1..Len(journal) : SubSeq(journal, 1, Len(journal))[i] = journal[i]
    BY <1>1, LenProperties, SubSeqProperties
  <2> QED BY <1>1, <2>1, SeqEqual
<1> QED BY <1>1, <1>2, SafeIsCovered DEF ReplayCoversSends

(* Steps that send nothing leave the sent mints alone.                     *)
LEMMA NothingSent ==
  ASSUME sends' = sends PROVE SentMints' = SentMints /\ (AtMostOneSend => AtMostOneSend')
BY DEF SentMints, AtMostOneSend

LEMMA OnceInit == Init => OnceInv
<1> SUFFICES ASSUME Init PROVE OnceInv OBVIOUS
<1>1. DOMAIN sends = {} BY DEF Init
<1>2. MemoryTyped BY DEF Init, MemoryTyped
<1>3. SentAreKnown BY DEF Init, SentAreKnown, Running
<1>4. AtMostOneSend BY <1>1 DEF AtMostOneSend
<1> QED BY <1>2, <1>3, <1>4, InitEstablishes DEF OnceInv

LEMMA OnceReplay ==
  ASSUME OnceInv, NEW e \in Executors, Replay(e)
  PROVE  MemoryTyped' /\ SentAreKnown' /\ AtMostOneSend'
<1>1. SentMints' = SentMints /\ AtMostOneSend'
  BY NothingSent DEF OnceInv, Replay
<1>2. CASE LoadFails(journal)
  BY <1>1, <1>2
  DEF Replay, Goto, OnceInv, MemoryTyped, SentAreKnown, Running, IInv, FileTyped
<1>3. CASE ~LoadFails(journal)
  <2>1. SentMints \subseteq ReservedIn(journal)
    BY <1>3, ReplayLearns DEF OnceInv
  <2>2. ReservedIn(journal) \subseteq Mints
    <3>1. \A i \in DOMAIN journal : journal[i] \in Lines
      BY ElementOfSeq, LenProperties DEF OnceInv, IInv, FileTyped
    <3> QED BY <3>1 DEF ReservedIn, Reservations, Lines
  <2> HIDE DEF ReservedIn
  <2> QED BY <1>1, <1>3, <2>1, <2>2
    DEF Replay, Goto, OnceInv, MemoryTyped, SentAreKnown, Running, IInv, FileTyped
<1> QED BY <1>1, <1>2, <1>3

LEMMA OnceBegin ==
  ASSUME OnceInv, NEW e \in Executors, NEW m \in Mints, NEW c \in Amounts,
         BeginReserve(e, m, c)
  PROVE  MemoryTyped' /\ SentAreKnown' /\ AtMostOneSend'
<1>1. SentMints' = SentMints /\ AtMostOneSend'
  BY NothingSent DEF OnceInv, BeginReserve
<1>2. Reserved(m, c).mint = m BY DEF Reserved
<1>3. m \notin SentMints
  BY DEF BeginReserve, OnceInv, SentAreKnown, Running
<1>4. MemoryTyped' BY DEF BeginReserve, OnceInv, MemoryTyped
<1>5. SentAreKnown'
  BY <1>1, <1>2, <1>3
  DEF BeginReserve, Goto, OnceInv, SentAreKnown, Running, IInv, FileTyped
<1> QED BY <1>1, <1>4, <1>5

LEMMA OnceSync ==
  ASSUME OnceInv, NEW e \in Executors, SyncLine(e)
  PROVE  MemoryTyped' /\ SentAreKnown' /\ AtMostOneSend'
<1>1. SentMints' = SentMints /\ AtMostOneSend'
  BY NothingSent DEF OnceInv, SyncLine
<1>2. /\ job[e] \in Lines /\ phase[e] = "sync"
      /\ phase' = [phase EXCEPT ![e] = "submit"] /\ job' = job
      /\ reservedMints' =
           [reservedMints EXCEPT ![e] = reservedMints[e] \cup {job[e].mint}]
  BY DEF SyncLine, Goto, OnceInv, IInv, JobKept
<1>3. job[e].mint \in Mints BY <1>2 DEF Lines
<1>4. MemoryTyped' BY <1>2, <1>3 DEF OnceInv, MemoryTyped
<1>5. SentAreKnown'
  BY <1>1, <1>2, <1>3
  DEF OnceInv, MemoryTyped, SentAreKnown, Running, IInv, FileTyped
<1> QED BY <1>1, <1>4, <1>5

(* The only step that sends.                                               *)
LEMMA OnceSubmit ==
  ASSUME OneExecutor, OnceInv, NEW e \in Executors, Submit(e)
  PROVE  MemoryTyped' /\ SentAreKnown' /\ AtMostOneSend'
<1>1. /\ reservedMints' = reservedMints /\ sends' = Append(sends, job[e])
      /\ phase[e] = "submit" /\ phase'[e] \in {"accept", "idle"}
      /\ \A d \in Executors : d = e
  BY DEF Submit, Goto, Finish, OneExecutor, OnceInv, IInv, FileTyped
<1>2. job[e] \in Lines BY <1>1 DEF OnceInv, IInv, JobKept
<1>3. /\ DOMAIN sends' = 1..Len(sends) + 1 /\ Len(sends) \in Nat
      /\ DOMAIN sends = 1..Len(sends)
      /\ \A i \in 1..Len(sends) : sends'[i] = sends[i]
      /\ sends'[Len(sends) + 1] = job[e]
  BY <1>1, <1>2, AppendProperties, LenProperties DEF OnceInv, IInv, FileTyped
<1>4. /\ SentMints \subseteq reservedMints[e] /\ job[e].mint \notin SentMints
      /\ job[e].mint \in reservedMints[e]
  BY <1>1 DEF OnceInv, SentAreKnown, Running
<1>5. SentMints' = SentMints \cup {job[e].mint}
  BY <1>3 DEF SentMints
<1>6. AtMostOneSend'
  <2> SUFFICES ASSUME NEW i \in DOMAIN sends', NEW j \in DOMAIN sends',
                      sends'[i].mint = sends'[j].mint
               PROVE  i = j
    BY DEF AtMostOneSend
  <2>1. \A n \in 1..Len(sends) : sends'[n].mint # job[e].mint
    BY <1>3, <1>4 DEF SentMints
  <2>2. CASE i \in 1..Len(sends) /\ j \in 1..Len(sends)
    BY <1>3, <2>2 DEF OnceInv, AtMostOneSend
  <2> QED BY <1>3, <2>1, <2>2
<1>7. MemoryTyped' BY <1>1 DEF OnceInv, MemoryTyped
<1>8. SentAreKnown' BY <1>1, <1>4, <1>5 DEF SentAreKnown, Running
<1> QED BY <1>6, <1>7, <1>8

(* The other steps: an executor stops, or keeps what it knows and does not *)
(* advance to its send.                                                    *)
Steady(e) ==
  \/ phase'[e] \in {"down", "starting"}
  \/ /\ Running(e) /\ reservedMints'[e] = reservedMints[e]
     /\ \/ phase'[e] \in {"idle", "accept"}
        \/ /\ job'[e] = job[e] /\ phase'[e] = phase[e]
        \/ /\ job'[e] = job[e] /\ phase[e] = "write" /\ phase'[e] = "sync"

LEMMA OnceSteady ==
  ASSUME OnceInv, sends' = sends, reservedMints' \in [Executors -> SUBSET Mints],
         \A e \in Executors : Steady(e)
  PROVE  MemoryTyped' /\ SentAreKnown' /\ AtMostOneSend'
<1>1. SentMints' = SentMints /\ AtMostOneSend' BY NothingSent DEF OnceInv
<1>2. SentAreKnown' BY <1>1 DEF OnceInv, SentAreKnown, Steady, Running
<1> QED BY <1>1, <1>2 DEF MemoryTyped

LEMMA OnceOthers ==
  ASSUME OnceInv, NEW e \in Executors,
         \/ RemoveLock(e) \/ FailLock(e) \/ WriteLine(e) \/ FailWrite(e)
         \/ FailSync(e) \/ RecordAcceptance(e) \/ FailAcceptance(e) \/ Kill(e)
  PROVE  MemoryTyped' /\ SentAreKnown' /\ AtMostOneSend'
<1>1. /\ reservedMints \in [Executors -> SUBSET Mints]
      /\ phase \in [Executors -> Phases]
      /\ job \in [Executors -> Lines \cup {NoLine}]
  BY DEF OnceInv, IInv, FileTyped, MemoryTyped
<1>2. CASE RemoveLock(e)
  BY <1>1, <1>2, OnceSteady DEF RemoveLock, Goto, Steady, Running, Phases
<1>3. CASE FailLock(e)
  BY <1>1, <1>3, OnceSteady DEF FailLock, memory, Steady, Running, Phases
<1>4. CASE WriteLine(e)
  BY <1>1, <1>4, OnceSteady DEF WriteLine, Goto, Steady, Running, Phases
<1>5. CASE FailWrite(e)
  BY <1>1, <1>5, OnceSteady DEF FailWrite, Finish, Goto, Steady, Running, Phases
<1>6. CASE FailSync(e)
  BY <1>1, <1>6, OnceSteady DEF FailSync, Finish, Goto, Steady, Running, Phases
<1>7. CASE RecordAcceptance(e)
  BY <1>1, <1>7, OnceSteady
  DEF RecordAcceptance, Finish, Goto, Steady, Running, Phases
<1>8. CASE FailAcceptance(e)
  BY <1>1, <1>8, OnceSteady DEF FailAcceptance, Forget, Steady, Running, Phases
<1>9. CASE Kill(e)
  BY <1>1, <1>9, OnceSteady DEF Kill, Forget, Steady, Running, Phases
<1> QED BY <1>2, <1>3, <1>4, <1>5, <1>6, <1>7, <1>8, <1>9

LEMMA OncePower ==
  ASSUME OnceInv, PowerLoss
  PROVE  MemoryTyped' /\ SentAreKnown' /\ AtMostOneSend'
BY OnceSteady DEF OnceInv, PowerLoss, Forget, MemoryTyped, Steady, IInv, FileTyped

LEMMA OncePreserved == OneExecutor /\ OnceInv /\ [Next]_vars => OnceInv'
<1> SUFFICES ASSUME OneExecutor, OnceInv, [Next]_vars PROVE OnceInv' OBVIOUS
<1> DEFINE Goal == MemoryTyped' /\ SentAreKnown' /\ AtMostOneSend'
<1>1. ASSUME NEW e \in Executors,
             \/ RemoveLock(e) \/ Replay(e) \/ FailLock(e)
             \/ \E m \in Mints, c \in Amounts : BeginReserve(e, m, c)
             \/ WriteLine(e) \/ FailWrite(e) \/ SyncLine(e) \/ FailSync(e)
             \/ Submit(e) \/ RecordAcceptance(e) \/ FailAcceptance(e) \/ Kill(e)
      PROVE  Goal
  BY <1>1, OnceOthers, OnceReplay, OnceBegin, OnceSync, OnceSubmit
<1>2. ASSUME PowerLoss PROVE Goal BY <1>2, OncePower
<1>3. ASSUME UNCHANGED vars PROVE Goal
  BY <1>3 DEF vars, memory, OnceInv, MemoryTyped, SentAreKnown, Running,
              SentMints, AtMostOneSend
<1>4. IInv' BY NextPreserves DEF OnceInv
<1> QED BY <1>1, <1>2, <1>3, <1>4 DEF Next, OnceInv

(* No mint is sent twice over all restarts, failed writes and power        *)
(* failures, as long as one executor uses the journal (reserve and load,   *)
(* execution.rs; two executors on one file do send a mint twice).          *)
THEOREM NeverSentTwice ==
  ASSUME OneExecutor
  PROVE  Spec => []AtMostOneSend
<1>1. Init => OnceInv BY OnceInit
<1>2. OnceInv /\ [Next]_vars => OnceInv' BY OncePreserved
<1>3. OnceInv => AtMostOneSend BY DEF OnceInv
<1> QED BY <1>1, <1>2, <1>3, PTL DEF Spec

-----------------------------------------------------------------------------
(* The lock file: gone while the one executor starts, and its own when it  *)
(* runs.                                                                   *)
LockTyped ==
  /\ phase \in [Executors -> Phases]
  /\ writerLock \in [Executors -> BOOLEAN]
  /\ incidents \in Seq(FaultClasses)

LockKept ==
  \/ \E i \in DOMAIN incidents : incidents[i] = "lock"
  \/ \A e \in Executors :
       /\ phase[e] = "starting" => ~lockFile
       /\ Running(e) /\ lockFile => writerLock[e]

LockInv == LockTyped /\ LockKept

LEMMA LockInit == Init => LockInv
<1> SUFFICES ASSUME Init PROVE LockInv OBVIOUS
<1>1. <<>> \in Seq(FaultClasses) OBVIOUS
<1>2. LockTyped BY <1>1 DEF Init, LockTyped, Phases
<1>3. LockKept BY DEF Init, LockKept, Running
<1> QED BY <1>2, <1>3 DEF LockInv

(* Faults are never forgotten.                                             *)
LEMMA IncidentsGrow ==
  ASSUME incidents \in Seq(FaultClasses),
         incidents' = incidents \/ \E kind \in FaultClasses : Incident(kind)
  PROVE  /\ incidents' \in Seq(FaultClasses)
         /\ (\E i \in DOMAIN incidents : incidents[i] = "lock")
            => \E i \in DOMAIN incidents' : incidents'[i] = "lock"
<1>1. CASE incidents' = incidents BY <1>1
<1>2. ASSUME NEW kind \in FaultClasses, Incident(kind)
      PROVE  /\ incidents' \in Seq(FaultClasses)
             /\ \A i \in DOMAIN incidents :
                  i \in DOMAIN incidents' /\ incidents'[i] = incidents[i]
  BY <1>2, AppendProperties, LenProperties DEF Incident
<1> QED BY <1>1, <1>2

(* Steps that leave the lock file alone: an executor stops, or runs on.    *)
LEMMA LockSteady ==
  ASSUME LockInv, lockFile' = lockFile,
         phase' \in [Executors -> Phases], writerLock' \in [Executors -> BOOLEAN],
         incidents' = incidents \/ \E kind \in FaultClasses : Incident(kind),
         \A e \in Executors :
           \/ phase'[e] = "down"
           \/ phase'[e] = "starting" /\ phase[e] = "starting"
           \/ /\ phase'[e] \notin {"down", "starting"} /\ phase[e] # "down"
              /\ writerLock'[e] = writerLock[e]
  PROVE  LockInv'
<1>1. LockTyped' BY IncidentsGrow DEF LockInv, LockTyped
<1>2. ASSUME \E i \in DOMAIN incidents : incidents[i] = "lock"
      PROVE  LockKept'
  BY <1>2, IncidentsGrow DEF LockInv, LockTyped, LockKept
<1>3. ASSUME \A e \in Executors :
               /\ phase[e] = "starting" => ~lockFile
               /\ Running(e) /\ lockFile => writerLock[e]
      PROVE  LockKept'
  <2>1. ASSUME NEW e \in Executors, phase'[e] = "starting" PROVE ~lockFile'
    <3>1. phase[e] = "starting" BY <2>1
    <3> QED BY <1>3, <3>1
  <2>2. ASSUME NEW e \in Executors, Running(e)', lockFile' PROVE writerLock'[e]
    <3>1. phase'[e] \notin {"down", "starting"} BY <2>2 DEF Running
    <3>2. phase[e] # "down" /\ writerLock'[e] = writerLock[e] BY <3>1
    <3>3. lockFile BY <2>2
    <3>4. Running(e) BY <1>3, <3>2, <3>3 DEF Running
    <3>5. writerLock[e] BY <1>3, <3>3, <3>4
    <3> QED BY <3>2, <3>5
  <2> QED BY <2>1, <2>2 DEF LockKept
<1> QED BY <1>1, <1>2, <1>3 DEF LockInv, LockKept

LEMMA LockSteps ==
  ASSUME LockInv, NEW e \in Executors,
         \/ Replay(e) \/ WriteLine(e) \/ FailWrite(e) \/ SyncLine(e)
         \/ FailSync(e) \/ Submit(e) \/ RecordAcceptance(e)
         \/ FailAcceptance(e) \/ Kill(e)
  PROVE  LockInv'
<1>1. LockTyped BY DEF LockInv
<1>2. /\ lockFile' = lockFile
      /\ incidents' = incidents \/ \E kind \in FaultClasses : Incident(kind)
  BY DEF Replay, WriteLine, FailWrite, SyncLine, FailSync, Submit,
         RecordAcceptance, FailAcceptance, Kill, FaultClasses
<1>3. CASE Replay(e)
  BY <1>1, <1>2, <1>3, LockSteady DEF Replay, Goto, LockTyped, Phases
<1>4. CASE WriteLine(e)
  BY <1>1, <1>2, <1>4, LockSteady DEF WriteLine, Goto, LockTyped, Phases
<1>5. CASE FailWrite(e)
  BY <1>1, <1>2, <1>5, LockSteady DEF FailWrite, Finish, Goto, LockTyped, Phases
<1>6. CASE SyncLine(e)
  BY <1>1, <1>2, <1>6, LockSteady DEF SyncLine, Goto, LockTyped, Phases
<1>7. CASE FailSync(e)
  BY <1>1, <1>2, <1>7, LockSteady DEF FailSync, Finish, Goto, LockTyped, Phases
<1>8. CASE Submit(e)
  BY <1>1, <1>2, <1>8, LockSteady DEF Submit, Finish, Goto, LockTyped, Phases
<1>9. CASE RecordAcceptance(e)
  BY <1>1, <1>2, <1>9, LockSteady
  DEF RecordAcceptance, Finish, Goto, LockTyped, Phases
<1>10. CASE FailAcceptance(e)
  BY <1>1, <1>2, <1>10, LockSteady DEF FailAcceptance, Forget, LockTyped, Phases
<1>11. CASE Kill(e)
  BY <1>1, <1>2, <1>11, LockSteady DEF Kill, Forget, LockTyped, Phases
<1> QED BY <1>3, <1>4, <1>5, <1>6, <1>7, <1>8, <1>9, <1>10, <1>11

LEMMA LockPreserved == OneExecutor /\ LockInv /\ [Next]_vars => LockInv'
<1> SUFFICES ASSUME OneExecutor, LockInv, [Next]_vars PROVE LockInv' OBVIOUS
<1>1. ASSUME NEW e \in Executors, RemoveLock(e) PROVE LockInv'
  BY <1>1 DEF RemoveLock, Goto, OneExecutor, LockInv, LockTyped, LockKept,
              Running, Phases
<1>2. ASSUME NEW e \in Executors, FailLock(e) PROVE LockInv'
  <2>1. /\ incidents' = Append(incidents, "lock") /\ "lock" \in FaultClasses
        /\ phase' = phase /\ writerLock' = writerLock
    BY <1>2 DEF FailLock, Incident, memory, FaultClasses
  <2>2. /\ incidents' \in Seq(FaultClasses)
        /\ Len(incidents) + 1 \in DOMAIN incidents'
        /\ incidents'[Len(incidents) + 1] = "lock"
    BY <2>1, AppendProperties, LenProperties DEF LockInv, LockTyped
  <2> QED BY <2>1, <2>2 DEF LockInv, LockTyped, LockKept
<1>3. ASSUME NEW e \in Executors, NEW m \in Mints, NEW c \in Amounts,
             BeginReserve(e, m, c)
      PROVE  LockInv'
  BY <1>3 DEF BeginReserve, Goto, OneExecutor, LockInv, LockTyped, LockKept,
              Running, Phases
<1>4. ASSUME PowerLoss PROVE LockInv'
  <2>1. \E kind \in FaultClasses : Incident(kind)
    BY <1>4 DEF PowerLoss, FaultClasses
  <2> QED BY <1>4, <2>1, LockSteady
          DEF PowerLoss, Forget, LockInv, LockTyped, Phases
<1>5. ASSUME UNCHANGED vars PROVE LockInv'
  BY <1>5 DEF vars, memory, LockInv, LockTyped, LockKept, Running
<1> QED BY <1>1, <1>2, <1>3, <1>4, <1>5, LockSteps DEF Next

(* A predecessor that died never blocks the trades of the one executor: it *)
(* removes the lock file it finds and then only meets its own, unless it   *)
(* failed to write that one (acquire_writer_lock, execution.rs).           *)
THEOREM LockNeverForeign ==
  ASSUME OneExecutor
  PROVE  Spec => []LockFileIsOurs
<1>1. Init => LockInv BY LockInit
<1>2. LockInv /\ [Next]_vars => LockInv' BY LockPreserved
<1>3. LockInv => LockFileIsOurs
  BY DEF LockInv, LockKept, LockFileIsOurs, Running, Range
<1> QED BY <1>1, <1>2, <1>3, PTL DEF Spec

-----------------------------------------------------------------------------
(* Capital.  A total is defined by recursion over the lines, so facts about *)
(* it need induction: a set of numbers that holds 0 and every successor is  *)
(* all of Nat, since otherwise it would miss a least one.                   *)
LEMMA SetInduction ==
  ASSUME NEW S, 0 \in S, \A n \in Nat : n \in S => n + 1 \in S
  PROVE  Nat \subseteq S
<1> DEFINE Missed == Nat \ S
           R == {p \in Nat \X Nat : p[1] < p[2]}
<1>1. SUFFICES ASSUME Missed # {} PROVE FALSE OBVIOUS
<1>2. IsWellFoundedOn(R, Nat) BY NatLessThanWellFounded DEF OpToRel
<1>3. Missed \subseteq Nat OBVIOUS
<1> HIDE DEF R
<1>4. PICK x \in Missed : \A y \in Missed : <<y, x>> \notin R
  BY <1>1, <1>2, <1>3, WFMin
<1>5. x # 0 /\ x - 1 \in Nat OBVIOUS
<1>6. <<x - 1, x>> \in R BY <1>5 DEF R
<1>7. x - 1 \in S BY <1>4, <1>5, <1>6
<1> QED BY <1>5, <1>7

LEMMA CountedType ==
  ASSUME NEW line \in Lines PROVE Counted(line) \in Nat
BY DEF Counted, Lines

(* g sums the first n lines.                                               *)
SumsTo(g, lines, n) ==
  g = [i \in 0..n |-> IF i = 0 THEN 0 ELSE g[i - 1] + Counted(lines[i])]

LEMMA SumExists ==
  ASSUME NEW lines \in Seq(Lines), NEW N \in Nat
  PROVE  \E g : SumsTo(g, lines, N)
<1> DEFINE S == {n \in Nat : \E g : SumsTo(g, lines, n)}
<1>1. 0 \in S
  <2>1. SumsTo([i \in 0..0 |-> 0], lines, 0) BY DEF SumsTo
  <2> QED BY <2>1
<1>2. ASSUME NEW n \in Nat, n \in S PROVE n + 1 \in S
  <2>1. PICK g : SumsTo(g, lines, n) BY <1>2
  <2> DEFINE h == [i \in 0..n + 1 |->
                     IF i = n + 1 THEN g[n] + Counted(lines[n + 1]) ELSE g[i]]
  <2>2. \A i \in 0..n + 1 :
          h[i] = IF i = 0 THEN 0 ELSE h[i - 1] + Counted(lines[i])
    <3>1. \A i \in 0..n : g[i] = IF i = 0 THEN 0 ELSE g[i - 1] + Counted(lines[i])
      BY <2>1, Zenon DEF SumsTo
    <3> TAKE i \in 0..n + 1
    <3>2. CASE i = n + 1
      <4>1. h[i] = g[n] + Counted(lines[n + 1]) /\ h[n] = g[n] /\ i - 1 = n /\ i # 0
        BY <3>2
      <4> QED BY <3>2, <4>1
    <3>3. CASE i # n + 1 /\ i # 0
      <4>1. i \in 0..n /\ i - 1 \in 0..n /\ i - 1 # n + 1 BY <3>3
      <4>2. h[i] = g[i] /\ h[i - 1] = g[i - 1] BY <3>3, <4>1
      <4> QED BY <3>1, <3>3, <4>1, <4>2
    <3>4. CASE i = 0
      <4>1. h[i] = g[0] BY <3>4
      <4> QED BY <3>1, <3>4, <4>1
    <3> QED BY <3>2, <3>3, <3>4
  <2>3. h = [i \in 0..n + 1 |-> h[i]] OBVIOUS
  <2> HIDE DEF h
  <2>4. SumsTo(h, lines, n + 1) BY <2>2, <2>3 DEF SumsTo
  <2> QED BY <2>4
<1> HIDE DEF S
<1>3. Nat \subseteq S BY <1>1, <1>2, SetInduction
<1> QED BY <1>3 DEF S

(* What Totals computes.                                                   *)
LEMMA TotalsRecur ==
  ASSUME NEW lines \in Seq(Lines)
  PROVE  /\ Totals(lines)[0] = 0
         /\ \A n \in 1..Len(lines) :
              Totals(lines)[n] = Totals(lines)[n - 1] + Counted(lines[n])
<1>1. Len(lines) \in Nat BY LenProperties
<1>2. SumsTo(Totals(lines), lines, Len(lines))
  <2>1. \E g : SumsTo(g, lines, Len(lines)) BY <1>1, SumExists
  <2> QED BY <2>1, Zenon DEF Totals, SumsTo
<1>3. \A n \in 0..Len(lines) :
        Totals(lines)[n] =
          IF n = 0 THEN 0 ELSE Totals(lines)[n - 1] + Counted(lines[n])
  BY <1>2, Zenon DEF SumsTo
<1> QED BY <1>1, <1>3

LEMMA TotalsType ==
  ASSUME NEW lines \in Seq(Lines)
  PROVE  \A n \in 0..Len(lines) : Totals(lines)[n] \in Nat
<1> DEFINE S == {n \in Nat : n <= Len(lines) => Totals(lines)[n] \in Nat}
<1>1. Len(lines) \in Nat BY LenProperties
<1>2. 0 \in S BY TotalsRecur
<1>3. ASSUME NEW n \in Nat, n \in S PROVE n + 1 \in S
  <2>1. SUFFICES ASSUME n + 1 <= Len(lines) PROVE Totals(lines)[n + 1] \in Nat
    OBVIOUS
  <2>2. Totals(lines)[n] \in Nat BY <1>1, <1>3, <2>1
  <2>3. Counted(lines[n + 1]) \in Nat
    BY <1>1, <2>1, ElementOfSeq, CountedType
  <2>4. Totals(lines)[n + 1] = Totals(lines)[n] + Counted(lines[n + 1])
    BY <1>1, <2>1, TotalsRecur
  <2> QED BY <2>2, <2>3, <2>4
<1> HIDE DEF S
<1>4. Nat \subseteq S BY <1>2, <1>3, SetInduction
<1> QED BY <1>1, <1>4 DEF S

(* Lines a begins with the lines b, which is what every write leaves.      *)
Begins(a, b) ==
  /\ Len(a) <= Len(b)
  /\ \A i \in 1..Len(a) : b[i] = a[i]

LEMMA TotalsAgree ==
  ASSUME NEW a \in Seq(Lines), NEW b \in Seq(Lines), Begins(a, b)
  PROVE  \A n \in 0..Len(a) : Totals(a)[n] = Totals(b)[n]
<1> DEFINE S == {n \in Nat : n <= Len(a) => Totals(a)[n] = Totals(b)[n]}
<1>1. Len(a) \in Nat /\ Len(b) \in Nat BY LenProperties
<1>2. 0 \in S BY TotalsRecur
<1>3. ASSUME NEW n \in Nat, n \in S PROVE n + 1 \in S
  <2>1. SUFFICES ASSUME n + 1 <= Len(a) PROVE Totals(a)[n + 1] = Totals(b)[n + 1]
    OBVIOUS
  <2>2. a[n + 1] = b[n + 1] BY <1>1, <2>1 DEF Begins
  <2>3. /\ Totals(a)[n + 1] = Totals(a)[n] + Counted(a[n + 1])
        /\ Totals(b)[n + 1] = Totals(b)[n] + Counted(b[n + 1])
    BY <1>1, <2>1, TotalsRecur DEF Begins
  <2> QED BY <1>1, <1>3, <2>1, <2>2, <2>3
<1> HIDE DEF S
<1>4. Nat \subseteq S BY <1>2, <1>3, SetInduction
<1> QED BY <1>1, <1>4 DEF S

LEMMA TotalsGrow ==
  ASSUME NEW lines \in Seq(Lines), NEW m \in 0..Len(lines)
  PROVE  \A n \in m..Len(lines) : Totals(lines)[m] <= Totals(lines)[n]
<1> DEFINE S == {n \in Nat : m + n <= Len(lines) =>
                               Totals(lines)[m] <= Totals(lines)[m + n]}
<1>1. Len(lines) \in Nat /\ m \in Nat BY LenProperties
<1>2. 0 \in S BY <1>1, TotalsType
<1>3. ASSUME NEW n \in Nat, n \in S PROVE n + 1 \in S
  <2>1. SUFFICES ASSUME m + (n + 1) <= Len(lines)
                 PROVE  Totals(lines)[m] <= Totals(lines)[m + (n + 1)]
    OBVIOUS
  <2> DEFINE k == m + n
  <2>2. k \in Nat /\ k + 1 <= Len(lines) /\ k \in 0..Len(lines)
        /\ k + 1 \in 1..Len(lines) /\ m + (n + 1) = k + 1
    BY <1>1, <2>1
  <2>3. Totals(lines)[m] <= Totals(lines)[k] BY <1>1, <1>3, <2>2
  <2> HIDE DEF k
  <2>4. Counted(lines[k + 1]) \in Nat BY <2>2, ElementOfSeq, CountedType
  <2>5. Totals(lines)[k + 1] = Totals(lines)[(k + 1) - 1] + Counted(lines[k + 1])
    BY <2>2, TotalsRecur
  <2>6. (k + 1) - 1 = k BY <2>2
  <2>7. Totals(lines)[m] \in Nat /\ Totals(lines)[k] \in Nat BY <2>2, TotalsType
  <2> QED BY <2>2, <2>3, <2>4, <2>5, <2>6, <2>7
<1> HIDE DEF S
<1>4. Nat \subseteq S BY <1>2, <1>3, SetInduction
<1>5. ASSUME NEW n \in m..Len(lines)
      PROVE  Totals(lines)[m] <= Totals(lines)[n]
  <2>1. n - m \in S BY <1>1, <1>4
  <2>2. m + (n - m) = n /\ n <= Len(lines) BY <1>1
  <2> QED BY <2>1, <2>2 DEF S
<1> QED BY <1>5

(* What the capital of a file is, after a write and behind a prefix of it. *)
LEMMA CapitalType ==
  ASSUME NEW lines \in Seq(Lines) PROVE CapitalOf(lines) \in Nat
BY TotalsType, LenProperties DEF CapitalOf

LEMMA CapitalEmpty == CapitalOf(<<>>) = 0
<1>1. <<>> \in Seq(Lines) /\ Len(<<>>) = 0 OBVIOUS
<1> QED BY <1>1, TotalsRecur DEF CapitalOf

LEMMA CapitalPrefix ==
  ASSUME NEW a \in Seq(Lines), NEW b \in Seq(Lines), Begins(a, b)
  PROVE  CapitalOf(a) <= CapitalOf(b)
<1>1. Len(a) \in 0..Len(b) /\ Len(b) \in Len(a)..Len(b) /\ Len(a) \in 0..Len(a)
  BY LenProperties DEF Begins
<1>2. Totals(a)[Len(a)] = Totals(b)[Len(a)] BY <1>1, TotalsAgree
<1>3. Totals(b)[Len(a)] <= Totals(b)[Len(b)] BY <1>1, TotalsGrow
<1> QED BY <1>2, <1>3 DEF CapitalOf

LEMMA CapitalAppend ==
  ASSUME NEW lines \in Seq(Lines), NEW line \in Lines
  PROVE  CapitalOf(Append(lines, line)) = CapitalOf(lines) + Counted(line)
<1> DEFINE longer == Append(lines, line)
<1>1. /\ longer \in Seq(Lines) /\ Len(longer) = Len(lines) + 1
      /\ longer[Len(lines) + 1] = line /\ Begins(lines, longer)
      /\ Len(lines) \in Nat
  BY AppendProperties, LenProperties DEF Begins
<1> HIDE DEF longer
<1>2. Totals(lines)[Len(lines)] = Totals(longer)[Len(lines)]
  BY <1>1, TotalsAgree
<1>3. Totals(longer)[Len(lines) + 1] =
        Totals(longer)[(Len(lines) + 1) - 1] + Counted(longer[Len(lines) + 1])
  BY <1>1, TotalsRecur
<1>4. (Len(lines) + 1) - 1 = Len(lines) BY <1>1
<1>5. CapitalOf(longer) = CapitalOf(lines) + Counted(line)
  BY <1>1, <1>2, <1>3, <1>4 DEF CapitalOf
<1> QED BY <1>5 DEF longer

(* A prefix of a file is torn, refused or names a mint only if the file is *)
(* or does.                                                                *)
LEMMA PrefixKeeps ==
  ASSUME NEW a \in Seq(Lines), NEW b \in Seq(Lines), Begins(a, b)
  PROVE  /\ IsTorn(a) => IsTorn(b)
         /\ ReservedIn(a) \subseteq ReservedIn(b)
         /\ LoadFails(a) => LoadFails(b)
<1>1. /\ DOMAIN a = 1..Len(a) /\ DOMAIN b = 1..Len(b)
      /\ Len(a) \in Nat /\ Len(b) \in Nat /\ Len(a) <= Len(b)
      /\ \A i \in DOMAIN a : i \in DOMAIN b /\ b[i] = a[i]
  BY LenProperties DEF Begins
<1>2. IsTorn(a) => IsTorn(b) BY <1>1 DEF IsTorn
<1>3. \A i \in Reservations(a) : i \in Reservations(b) /\ b[i] = a[i]
  BY <1>1 DEF Reservations
<1>4. ReservedIn(a) \subseteq ReservedIn(b) BY <1>3 DEF ReservedIn
<1>5. CapitalOf(a) <= CapitalOf(b) /\ CapitalOf(a) \in Nat /\ CapitalOf(b) \in Nat
  BY CapitalPrefix, CapitalType
<1>6. MaxJournalLines \in Nat /\ MaxPendingCapital \in Nat
  BY LimitsAssumption
<1>7. ASSUME NEW i \in Reservations(a), NEW j \in Reservations(a), i # j,
             a[i].mint = a[j].mint
      PROVE  LoadFails(b)
  BY <1>3, <1>7 DEF LoadFails, Overdrawn
<1>8. ASSUME Len(a) > MaxJournalLines \/ CapitalOf(a) > MaxPendingCapital
      PROVE  LoadFails(b)
  <2> HIDE DEF CapitalOf
  <2>1. Len(b) > MaxJournalLines \/ CapitalOf(b) > MaxPendingCapital
    BY <1>1, <1>5, <1>6, <1>8
  <2> QED BY <2>1 DEF LoadFails, Overdrawn
<1>9. LoadFails(a) => LoadFails(b) BY <1>2, <1>7, <1>8 DEF LoadFails, Overdrawn
<1> QED BY <1>2, <1>4, <1>9

-----------------------------------------------------------------------------
(* What is on stable storage, and the steps seen from there: it only grows, *)
(* whatever fails.                                                         *)
Stable == SubSeq(journal, 1, durable)

LEMMA CutProperties ==
  ASSUME NEW lines \in Seq(Lines), NEW n \in 0..Len(lines)
  PROVE  /\ SubSeq(lines, 1, n) \in Seq(Lines) /\ Len(SubSeq(lines, 1, n)) = n
         /\ \A i \in 1..n : SubSeq(lines, 1, n)[i] = lines[i]
BY SubSeqProperties, LenProperties

LEMMA StableIsPrefix ==
  ASSUME FileTyped
  PROVE  /\ Stable \in Seq(Lines) /\ Len(Stable) = durable /\ durable \in Nat
         /\ \A i \in 1..durable : Stable[i] = journal[i]
         /\ journal \in Seq(Lines) /\ Begins(Stable, journal)
<1>1. journal \in Seq(Lines) /\ Len(journal) \in Nat /\ durable \in 0..Len(journal)
  BY LenProperties DEF FileTyped
<1>2. /\ Stable \in Seq(Lines) /\ Len(Stable) = durable
      /\ \A i \in 1..durable : Stable[i] = journal[i]
  BY <1>1, CutProperties DEF Stable
<1> QED BY <1>1, <1>2 DEF Begins

LEMMA CutGrows ==
  ASSUME NEW a \in Seq(Lines), NEW b \in Seq(Lines),
         NEW m \in 0..Len(a), NEW n \in 0..Len(b), m <= n,
         \A i \in 1..m : b[i] = a[i]
  PROVE  Begins(SubSeq(a, 1, m), SubSeq(b, 1, n))
<1> DEFINE c == SubSeq(a, 1, m)
           d == SubSeq(b, 1, n)
<1>1. Len(c) = m /\ \A i \in 1..m : c[i] = a[i] BY CutProperties
<1>2. Len(d) = n /\ \A i \in 1..n : d[i] = b[i] BY CutProperties
<1>3. m \in Nat /\ n \in Nat BY LenProperties
<1> HIDE DEF c, d
<1>4. \A i \in 1..m : d[i] = c[i] BY <1>1, <1>2, <1>3
<1>5. Begins(c, d) BY <1>1, <1>2, <1>4 DEF Begins
<1> QED BY <1>5 DEF c, d

LEMMA StableGrows ==
  ASSUME FileTyped, FileTyped', durable <= durable',
         \A i \in 1..durable : journal'[i] = journal[i]
  PROVE  Begins(Stable, Stable')
BY CutGrows DEF FileTyped, Stable

(* Every step keeps the durable lines.                                     *)
LEMMA DurableStays ==
  ASSUME IInv, [Next]_vars
  PROVE  durable <= durable' /\ \A i \in 1..durable : journal'[i] = journal[i]
<1>1. /\ durable \in Nat /\ Len(journal) \in Nat /\ durable <= Len(journal)
      /\ journal \in Seq(Lines)
  BY LenProperties DEF IInv, FileTyped
<1>2. ASSUME FileGrows
      PROVE  durable <= durable' /\ \A i \in 1..durable : journal'[i] = journal[i]
  BY <1>1, <1>2 DEF FileGrows
<1>3. ASSUME NEW e \in Executors,
             RemoveLock(e) \/ Replay(e) \/ FailLock(e) \/ FailSync(e) \/ Kill(e)
             \/ Submit(e) \/ \E m \in Mints, c \in Amounts : BeginReserve(e, m, c)
      PROVE  FileGrows
  BY <1>3, FileStays DEF RemoveLock, Replay, FailLock, FailSync, Kill, Submit,
                         BeginReserve
<1>4. ASSUME NEW e \in Executors, WriteLine(e) PROVE FileGrows
  BY <1>4, GrownFile DEF WriteLine, IInv, JobKept
<1>5. ASSUME NEW e \in Executors, FailWrite(e) PROVE FileGrows
  BY <1>5, GrownFile, FileStays, TornIsLine DEF FailWrite, IInv, JobKept
<1>6. ASSUME NEW e \in Executors, SyncLine(e) PROVE FileGrows
  BY <1>1, <1>6 DEF SyncLine, FileGrows
<1>7. ASSUME NEW e \in Executors, RecordAcceptance(e) PROVE FileGrows
  <2>1. Accepted(job[e].mint) \in Lines
    BY <1>7, AcceptedIsLine DEF RecordAcceptance, IInv, JobKept
  <2> QED BY <1>7, <2>1, GrownFile DEF RecordAcceptance
<1>8. ASSUME NEW e \in Executors, FailAcceptance(e) PROVE FileGrows
  <2> DEFINE line == Accepted(job[e].mint)
  <2>1. line \in Lines /\ Torn(line) \in Lines
    BY <1>8, AcceptedIsLine, TornIsLine DEF FailAcceptance, IInv, JobKept
  <2>2. /\ journal' \in {journal, Grown(journal, Torn(line)), Grown(journal, line)}
        /\ durable' = durable
    BY <1>8 DEF FailAcceptance
  <2> HIDE DEF line
  <2> QED BY <2>1, <2>2, GrownFile, FileStays
<1>9. ASSUME PowerLoss
      PROVE  durable <= durable' /\ \A i \in 1..durable : journal'[i] = journal[i]
  BY <1>9, PowerCut
<1>10. ASSUME UNCHANGED vars PROVE FileGrows
  BY <1>10, FileStays DEF vars
<1> QED BY <1>2, <1>3, <1>4, <1>5, <1>6, <1>7, <1>8, <1>9, <1>10 DEF Next

LEMMA StableStep ==
  ASSUME IInv, IInv', [Next]_vars
  PROVE  /\ Stable \in Seq(Lines) /\ Stable' \in Seq(Lines)
         /\ Begins(Stable, Stable')
         /\ IsTorn(Stable) => IsTorn(Stable')
         /\ CapitalOf(Stable) <= CapitalOf(Stable')
         /\ CapitalOf(Stable) \in Nat /\ CapitalOf(Stable') \in Nat
<1>1. FileTyped /\ FileTyped' BY DEF IInv
<1>2. Stable \in Seq(Lines) BY <1>1, StableIsPrefix
<1>3. Stable' \in Seq(Lines) BY <1>1, CutProperties DEF FileTyped, Stable
<1>4. Begins(Stable, Stable') BY <1>1, DurableStays, StableGrows
<1> HIDE DEF Stable
<1> QED BY <1>2, <1>3, <1>4, PrefixKeeps, CapitalPrefix, CapitalType

-----------------------------------------------------------------------------
(* Capital, for one executor: the durable lines, or a torn one among them, *)
(* account for what was sent and for the bundle about to be sent; the      *)
(* executor's own total accounts for them too, and respects the limit.     *)
Spent == CapitalOf(sends)

StableCovers ==
  \/ IsTorn(Stable)
  \/ /\ Spent <= CapitalOf(Stable)
     /\ \A e \in Executors :
          phase[e] = "submit" => Spent + job[e].capital <= CapitalOf(Stable)

FileCovers ==
  \A e \in Executors :
    phase[e] = "sync" =>
      IsTorn(journal) \/ Spent + job[e].capital <= CapitalOf(journal)

WithinLimit ==
  /\ Spent <= MaxPendingCapital
  /\ reservedCapital \in [Executors -> Nat]
  /\ \A e \in Executors :
       /\ Running(e) => Spent <= reservedCapital[e]
       /\ reservedCapital[e] <= MaxPendingCapital
       /\ phase[e] \in {"write", "sync"} =>
            reservedCapital[e] + job[e].capital <= MaxPendingCapital
       /\ phase[e] = "submit" => Spent + job[e].capital <= reservedCapital[e]

CapitalInv == StableCovers /\ FileCovers /\ WithinLimit

(* The numbers the inequalities are between.                               *)
LEMMA CapitalNumbers ==
  ASSUME IInv
  PROVE  /\ Spent \in Nat /\ CapitalOf(journal) \in Nat
         /\ CapitalOf(Stable) <= CapitalOf(journal)
         /\ IsTorn(Stable) => IsTorn(journal)
         /\ MaxPendingCapital \in Nat
         /\ \A e \in Executors :
              phase[e] \in {"write", "sync", "submit", "accept"} =>
                /\ job[e] \in Lines /\ job[e].capital \in Nat
                /\ Counted(job[e]) = job[e].capital
<1>1. Spent \in Nat BY CapitalType DEF Spent, IInv, FileTyped
<1>2. Stable \in Seq(Lines) /\ journal \in Seq(Lines) /\ Begins(Stable, journal)
  BY StableIsPrefix DEF IInv
<1>3. /\ CapitalOf(journal) \in Nat /\ CapitalOf(Stable) <= CapitalOf(journal)
      /\ IsTorn(Stable) => IsTorn(journal)
  BY <1>2, CapitalType, CapitalPrefix, PrefixKeeps
<1>4. ASSUME NEW e \in Executors,
             phase[e] \in {"write", "sync", "submit", "accept"}
      PROVE  /\ job[e] \in Lines /\ job[e].capital \in Nat
             /\ Counted(job[e]) = job[e].capital
  BY <1>4 DEF IInv, JobKept, Lines, Counted
<1> QED BY <1>1, <1>3, <1>4, LimitsAssumption

LEMMA CapitalInit == Init => CapitalInv
<1> SUFFICES ASSUME Init PROVE CapitalInv OBVIOUS
<1>1. Spent = 0 BY CapitalEmpty DEF Init, Spent
<1>2. CapitalOf(Stable) \in Nat
  BY InitEstablishes, StableIsPrefix, CapitalType DEF IInv
<1> HIDE DEF Stable
<1> QED
  BY <1>1, <1>2, LimitsAssumption
  DEF Init, CapitalInv, StableCovers, FileCovers, WithinLimit, Running

(* A file that is all durable.                                             *)
LEMMA WholePrefix ==
  ASSUME NEW lines \in Seq(Lines)
  PROVE  SubSeq(lines, 1, Len(lines)) = lines
<1>1. /\ Len(lines) \in Nat
      /\ SubSeq(lines, 1, Len(lines)) \in Seq(Lines)
      /\ Len(SubSeq(lines, 1, Len(lines))) = Len(lines)
      /\ \A i \in 1..Len(lines) : SubSeq(lines, 1, Len(lines))[i] = lines[i]
  BY LenProperties, SubSeqProperties
<1> QED BY <1>1, SeqEqual

(* The durable lines go on accounting for what was sent.                   *)
LEMMA CapitalStable ==
  ASSUME OneExecutor, IInv, IInv', CapitalInv, [Next]_vars
  PROVE  StableCovers'
<1>1. /\ IsTorn(Stable) => IsTorn(Stable')
      /\ CapitalOf(Stable) <= CapitalOf(Stable')
      /\ CapitalOf(Stable) \in Nat /\ CapitalOf(Stable') \in Nat
  BY StableStep
<1>2. /\ Spent \in Nat /\ CapitalOf(journal) \in Nat
      /\ CapitalOf(Stable) <= CapitalOf(journal)
      /\ \A e \in Executors :
           phase[e] \in {"write", "sync", "submit", "accept"} =>
             /\ job[e] \in Lines /\ job[e].capital \in Nat
             /\ Counted(job[e]) = job[e].capital
      /\ IsTorn(Stable) => IsTorn(journal)
  BY CapitalNumbers
<1> HIDE DEF Stable, Spent
<1>3. ASSUME sends' = sends,
             \A e \in Executors : phase'[e] = "submit" =>
               phase[e] = "submit" /\ job'[e] = job[e]
      PROVE  StableCovers'
  <2>1. Spent' = Spent BY <1>3 DEF Spent
  <2>2. CASE IsTorn(Stable) BY <1>1, <2>2 DEF StableCovers
  <2>3. CASE ~IsTorn(Stable)
    <3>1. Spent <= CapitalOf(Stable) BY <2>3 DEF CapitalInv, StableCovers
    <3>2. ASSUME NEW e \in Executors, phase'[e] = "submit"
          PROVE  Spent + job'[e].capital <= CapitalOf(Stable')
      <4>1. Spent + job[e].capital <= CapitalOf(Stable)
        BY <1>3, <2>3, <3>2 DEF CapitalInv, StableCovers
      <4>2. job'[e] = job[e] /\ job[e].capital \in Nat BY <1>2, <1>3, <3>2
      <4> QED BY <1>1, <1>2, <4>1, <4>2
    <3> QED BY <1>1, <1>2, <2>1, <3>1, <3>2 DEF StableCovers
  <2> QED BY <2>2, <2>3
<1>4. ASSUME NEW e \in Executors, SyncLine(e) PROVE StableCovers'
  <2>1. sends' = sends /\ job' = job /\ phase[e] = "sync"
        /\ journal' = journal /\ durable' = Len(journal)
    BY <1>4 DEF SyncLine
  <2>2. Stable' = journal BY <2>1, WholePrefix DEF Stable, IInv, FileTyped
  <2>3. Spent' = Spent BY <2>1 DEF Spent
  <2>4. IsTorn(journal) \/ Spent + job[e].capital <= CapitalOf(journal)
    BY <2>1 DEF CapitalInv, FileCovers
  <2>5. job[e].capital \in Nat BY <1>2, <2>1
  <2>6. Spent + job[e].capital <= CapitalOf(journal)
          => Spent <= CapitalOf(journal)
    BY <1>2, <2>5
  <2> QED BY <2>1, <2>2, <2>3, <2>4, <2>6 DEF StableCovers, OneExecutor
<1>5. ASSUME NEW e \in Executors, Submit(e) PROVE StableCovers'
  <2>1. sends' = Append(sends, job[e]) /\ phase[e] = "submit"
        /\ journal' = journal /\ durable' = durable /\ phase'[e] # "submit"
    BY <1>5 DEF Submit, Finish, Goto, IInv, FileTyped
  <2>2. Spent' = Spent + job[e].capital
    BY <1>2, <2>1, CapitalAppend DEF Spent, IInv, FileTyped
  <2>3. Stable' = Stable BY <2>1 DEF Stable
  <2> QED BY <2>1, <2>2, <2>3 DEF CapitalInv, StableCovers, OneExecutor
<1>6. ASSUME NEW e \in Executors,
             \/ RemoveLock(e) \/ Replay(e) \/ FailLock(e)
             \/ \E m \in Mints, c \in Amounts : BeginReserve(e, m, c)
             \/ WriteLine(e) \/ FailWrite(e) \/ FailSync(e)
             \/ RecordAcceptance(e) \/ FailAcceptance(e) \/ Kill(e)
      PROVE  StableCovers'
  <2>1. sends' = sends
    BY <1>6 DEF RemoveLock, Replay, FailLock, BeginReserve, WriteLine, FailWrite,
                FailSync, RecordAcceptance, FailAcceptance, Kill
  <2>2. \A d \in Executors :
          phase'[d] = "submit" => phase[d] = "submit" /\ job'[d] = job[d]
    BY <1>6 DEF RemoveLock, Replay, FailLock, BeginReserve, WriteLine, FailWrite,
                FailSync, RecordAcceptance, FailAcceptance, Kill, Forget, Finish,
                Goto, memory, IInv, FileTyped
  <2> QED BY <1>3, <2>1, <2>2
<1>7. ASSUME PowerLoss PROVE StableCovers'
  BY <1>3, <1>7 DEF PowerLoss, Forget
<1>8. ASSUME UNCHANGED vars PROVE StableCovers'
  BY <1>3, <1>8 DEF vars, memory
<1> QED BY <1>4, <1>5, <1>6, <1>7, <1>8 DEF Next

(* So does the file while a line waits for its sync.                       *)
LEMMA CapitalFile ==
  ASSUME OneExecutor, IInv, IInv', CapitalInv, [Next]_vars
  PROVE  FileCovers'
<1>1. /\ Spent \in Nat /\ CapitalOf(journal) \in Nat
      /\ CapitalOf(Stable) <= CapitalOf(journal)
      /\ CapitalOf(Stable) \in Nat
      /\ \A e \in Executors :
           phase[e] \in {"write", "sync", "submit", "accept"} =>
             /\ job[e] \in Lines /\ job[e].capital \in Nat
             /\ Counted(job[e]) = job[e].capital
      /\ IsTorn(Stable) => IsTorn(journal)
  BY CapitalNumbers, StableStep
<1> HIDE DEF Stable, Spent
<1>2. ASSUME NEW e \in Executors, WriteLine(e) PROVE FileCovers'
  <2>1. /\ journal' = Grown(journal, job[e]) /\ sends' = sends /\ job' = job
        /\ phase[e] = "write" /\ Spent' = Spent
    BY <1>2 DEF WriteLine, Spent
  <2>2. job[e] \in Lines /\ job[e].capital \in Nat
        /\ Counted(job[e]) = job[e].capital /\ journal \in Seq(Lines)
    BY <1>1, <2>1 DEF IInv, FileTyped
  <2>3. CASE IsTorn(journal)
    <3>1. IsTorn(journal')
      BY <2>1, <2>2, <2>3, GrownExtends, PrefixKeeps DEF Begins
    <3> QED BY <3>1 DEF FileCovers
  <2>4. CASE ~IsTorn(journal)
    <3>1. journal' = Append(journal, job[e])
      <4>1. ASSUME journal # <<>> PROVE Last(journal).event # "torn"
        BY <2>2, <2>4, <4>1, EmptySeq, LenProperties DEF IsTorn, Last
      <4> QED BY <2>1, <4>1 DEF Grown
    <3>2. CapitalOf(journal') = CapitalOf(journal) + job[e].capital
      BY <2>2, <3>1, CapitalAppend
    <3>3. Spent <= CapitalOf(Stable)
      BY <1>1, <2>4 DEF CapitalInv, StableCovers
    <3>4. Spent + job[e].capital <= CapitalOf(journal')
      BY <1>1, <2>2, <3>2, <3>3
    <3> QED BY <2>1, <3>4 DEF FileCovers, OneExecutor
  <2> QED BY <2>3, <2>4
<1>3. ASSUME NEW e \in Executors,
             \/ RemoveLock(e) \/ Replay(e) \/ FailLock(e) \/ SyncLine(e)
             \/ \E m \in Mints, c \in Amounts : BeginReserve(e, m, c)
             \/ Submit(e) \/ FailWrite(e) \/ FailSync(e)
             \/ RecordAcceptance(e) \/ FailAcceptance(e) \/ Kill(e)
      PROVE  FileCovers'
  <2>1. phase'[e] # "sync"
    BY <1>3 DEF RemoveLock, Replay, FailLock, BeginReserve, Submit, SyncLine,
                FailWrite, FailSync, RecordAcceptance, FailAcceptance, Kill,
                Forget, Finish, Goto, memory, IInv, FileTyped
  <2> QED BY <2>1 DEF FileCovers, OneExecutor
<1>4. ASSUME PowerLoss PROVE FileCovers'
  BY <1>4 DEF PowerLoss, Forget, FileCovers
<1>5. ASSUME UNCHANGED vars PROVE FileCovers'
  BY <1>5 DEF vars, memory, CapitalInv, FileCovers, Spent
<1> QED BY <1>2, <1>3, <1>4, <1>5 DEF Next

(* The executor's own account.                                             *)
LEMMA CapitalMemory ==
  ASSUME OneExecutor, IInv, CapitalInv, [Next]_vars
  PROVE  WithinLimit'
<1>1. /\ Spent \in Nat /\ CapitalOf(journal) \in Nat
      /\ CapitalOf(Stable) <= CapitalOf(journal)
      /\ CapitalOf(Stable) \in Nat
      /\ \A e \in Executors :
           phase[e] \in {"write", "sync", "submit", "accept"} =>
             /\ job[e] \in Lines /\ job[e].capital \in Nat
             /\ Counted(job[e]) = job[e].capital
      /\ IsTorn(Stable) => IsTorn(journal)
      /\ MaxPendingCapital \in Nat
  BY CapitalNumbers, StableIsPrefix, CapitalType DEF IInv
<1> HIDE DEF Stable, Spent
<1>2. WithinLimit /\ phase \in [Executors -> Phases]
      /\ job \in [Executors -> Lines \cup {NoLine}]
  BY DEF CapitalInv, IInv, FileTyped
<1>3. ASSUME sends' = sends PROVE Spent' = Spent BY <1>3 DEF Spent
<1>4. ASSUME NEW e \in Executors, Replay(e) PROVE WithinLimit'
  <2>1. Spent' = Spent BY <1>3, <1>4 DEF Replay
  <2>2. CASE LoadFails(journal)
    <3>1. phase' = [phase EXCEPT ![e] = "down"] /\ job' = job
          /\ reservedCapital' = reservedCapital
      BY <1>4, <2>2 DEF Replay, Goto
    <3> QED BY <1>1, <1>2, <2>1, <3>1 DEF WithinLimit, Running
  <2>3. CASE ~LoadFails(journal)
    <3>1. phase' = [phase EXCEPT ![e] = "idle"] /\ job' = job
          /\ reservedCapital' = [reservedCapital EXCEPT ![e] = CapitalOf(journal)]
      BY <1>4, <2>3 DEF Replay, Goto
    <3>2. CapitalOf(journal) <= MaxPendingCapital /\ ~IsTorn(journal)
      BY <1>1, <2>3 DEF LoadFails, Overdrawn
    <3>3. Spent <= CapitalOf(journal)
      BY <1>1, <3>2 DEF CapitalInv, StableCovers
    <3> HIDE DEF CapitalOf
    <3> QED BY <1>1, <1>2, <2>1, <3>1, <3>2, <3>3 DEF WithinLimit, Running
  <2> QED BY <2>2, <2>3
<1>5. ASSUME NEW e \in Executors, NEW m \in Mints, NEW c \in Amounts,
             BeginReserve(e, m, c)
      PROVE  WithinLimit'
  <2>1. /\ Spent' = Spent /\ phase[e] = "idle"
        /\ phase' = [phase EXCEPT ![e] = "write"]
        /\ job' = [job EXCEPT ![e] = Reserved(m, c)]
        /\ reservedCapital' = reservedCapital
        /\ reservedCapital[e] + c <= MaxPendingCapital
        /\ Reserved(m, c).capital = c
    BY <1>3, <1>5 DEF BeginReserve, Goto, Reserved
  <2> QED BY <1>1, <1>2, <2>1 DEF WithinLimit, Running
<1>6. ASSUME NEW e \in Executors, SyncLine(e) PROVE WithinLimit'
  <2>1. /\ Spent' = Spent /\ phase[e] = "sync" /\ job' = job
        /\ phase' = [phase EXCEPT ![e] = "submit"]
        /\ reservedCapital' =
             [reservedCapital EXCEPT ![e] = reservedCapital[e] + job[e].capital]
        /\ reservedCapital[e] + job[e].capital <= MaxPendingCapital
        /\ reservedCapital[e] \in Nat /\ Spent <= reservedCapital[e]
        /\ job[e].capital \in Nat
    BY <1>1, <1>2, <1>3, <1>6 DEF SyncLine, Goto, WithinLimit, Running
  <2> QED BY <1>1, <1>2, <2>1 DEF WithinLimit, Running, OneExecutor
<1>7. ASSUME NEW e \in Executors, Submit(e) PROVE WithinLimit'
  <2>1. /\ phase[e] = "submit" /\ reservedCapital' = reservedCapital
        /\ sends' = Append(sends, job[e]) /\ phase'[e] \in {"accept", "idle"}
        /\ Spent + job[e].capital <= reservedCapital[e]
        /\ reservedCapital[e] <= MaxPendingCapital
        /\ reservedCapital[e] \in Nat /\ job[e].capital \in Nat
    BY <1>1, <1>2, <1>7 DEF Submit, Finish, Goto, WithinLimit
  <2>2. Spent' = Spent + job[e].capital
    BY <1>1, <2>1, CapitalAppend DEF Spent, IInv, FileTyped
  <2> QED BY <1>1, <1>2, <2>1, <2>2 DEF WithinLimit, Running, OneExecutor
<1>8. ASSUME Spent' = Spent, reservedCapital' \in [Executors -> Nat],
             \A e \in Executors :
               \/ phase'[e] = "down" /\ reservedCapital'[e] = 0
               \/ phase'[e] = "starting" /\ reservedCapital'[e] = reservedCapital[e]
               \/ /\ reservedCapital'[e] = reservedCapital[e] /\ Running(e)
                  /\ \/ phase'[e] \in {"idle", "accept"}
                     \/ phase'[e] = phase[e] /\ job'[e] = job[e]
                     \/ /\ phase[e] = "write" /\ phase'[e] = "sync"
                        /\ job'[e] = job[e]
      PROVE  WithinLimit'
  BY <1>1, <1>2, <1>8 DEF WithinLimit, Running
<1>9. ASSUME NEW e \in Executors,
             \/ RemoveLock(e) \/ FailLock(e) \/ WriteLine(e) \/ FailWrite(e)
             \/ FailSync(e) \/ RecordAcceptance(e) \/ FailAcceptance(e) \/ Kill(e)
      PROVE  WithinLimit'
  <2>1. Spent' = Spent
    BY <1>3, <1>9 DEF RemoveLock, FailLock, WriteLine, FailWrite, FailSync,
                      RecordAcceptance, FailAcceptance, Kill
  <2>2. reservedCapital \in [Executors -> Nat] BY <1>2 DEF WithinLimit
  <2>3. CASE RemoveLock(e) \/ FailLock(e) \/ WriteLine(e)
    BY <1>2, <1>8, <2>1, <2>2, <2>3
    DEF RemoveLock, FailLock, WriteLine, Goto, memory, Running, OneExecutor
  <2>4. CASE FailWrite(e) \/ FailSync(e) \/ RecordAcceptance(e)
    BY <1>2, <1>8, <2>1, <2>2, <2>4
    DEF FailWrite, FailSync, RecordAcceptance, Finish, Goto, Running, OneExecutor
  <2>5. CASE FailAcceptance(e) \/ Kill(e)
    <3>1. Forget({e}) BY <2>5 DEF FailAcceptance, Kill
    <3>2. phase'[e] = "down" /\ reservedCapital'[e] = 0
          /\ reservedCapital' \in [Executors -> Nat]
      BY <2>2, <3>1 DEF Forget
    <3> QED BY <1>8, <2>1, <3>2 DEF OneExecutor
  <2> QED BY <1>9, <2>3, <2>4, <2>5
<1>10. ASSUME PowerLoss PROVE WithinLimit'
  <2>1. Spent' = Spent BY <1>3, <1>10 DEF PowerLoss
  <2> QED BY <1>8, <1>10, <2>1 DEF PowerLoss, Forget
<1>11. ASSUME UNCHANGED vars PROVE WithinLimit'
  <2>1. Spent' = Spent BY <1>3, <1>11 DEF vars
  <2> QED BY <1>2, <1>11, <2>1 DEF vars, memory, WithinLimit, Running
<1> QED BY <1>4, <1>5, <1>6, <1>7, <1>9, <1>10, <1>11 DEF Next

(* The limit on the capital at risk covers every bundle ever sent, over    *)
(* restarts, failed writes and torn files (reserve and load, execution.rs),*)
(* as long as one executor uses the journal.                               *)
THEOREM CapitalStaysWithinLimit ==
  ASSUME OneExecutor
  PROVE  Spec => []CapitalBounded
<1>1. Init => CapitalInv BY CapitalInit
<1>2. IInv /\ IInv' /\ CapitalInv /\ [Next]_vars => CapitalInv'
  BY CapitalStable, CapitalFile, CapitalMemory DEF CapitalInv
<1>3. CapitalInv => CapitalBounded
  BY DEF CapitalInv, WithinLimit, CapitalBounded, Spent
<1> QED BY <1>1, <1>2, <1>3, Inductive, PTL DEF Spec

-----------------------------------------------------------------------------
(* The refinement of BuyOnce.  What is committed never shrinks.            *)
CommittedBy(lines) == IF LoadFails(lines) THEN Mints ELSE ReservedIn(lines)

LEMMA CommittedGrows ==
  ASSUME NEW a \in Seq(Lines), NEW b \in Seq(Lines), Begins(a, b)
  PROVE  CommittedBy(a) \subseteq CommittedBy(b) /\ CommittedBy(b) \subseteq Mints
<1>1. ASSUME NEW lines \in Seq(Lines) PROVE ReservedIn(lines) \subseteq Mints
  <2>1. \A i \in DOMAIN lines : lines[i] \in Lines
    BY ElementOfSeq, LenProperties
  <2> QED BY <2>1 DEF ReservedIn, Reservations, Lines
<1> HIDE DEF LoadFails, ReservedIn
<1> QED BY <1>1, PrefixKeeps DEF CommittedBy

(* How often a mint was sent, after one more send.                         *)
LEMMA SendCounts ==
  ASSUME sends \in Seq(Lines), NEW line \in Lines, line.mint \notin SentMints,
         sends' = Append(sends, line)
  PROVE  /\ Sends[line.mint] = 0
         /\ Sends' = [Sends EXCEPT ![line.mint] = 1]
<1> DEFINE At(s, m) == {i \in DOMAIN s : s[i].mint = m}
<1>1. line.mint \in Mints BY DEF Lines
<1>2. /\ DOMAIN sends = 1..Len(sends) /\ Len(sends) \in Nat
      /\ DOMAIN sends' = 1..Len(sends) + 1
      /\ \A i \in 1..Len(sends) : sends'[i] = sends[i]
      /\ sends'[Len(sends) + 1] = line
  BY AppendProperties, LenProperties
<1>3. At(sends, line.mint) = {} BY DEF SentMints
<1>4. At(sends', line.mint) = {Len(sends) + 1} BY <1>2, <1>3
<1>5. \A m \in Mints : m # line.mint => At(sends', m) = At(sends, m)
  BY <1>2
<1> HIDE DEF At
<1>6. /\ Cardinality(At(sends, line.mint)) = 0
      /\ Cardinality(At(sends', line.mint)) = 1
  BY <1>3, <1>4, FS_EmptySet, FS_Singleton
<1>7. /\ Sends = [m \in Mints |-> Cardinality(At(sends, m))]
      /\ Sends' = [m \in Mints |-> Cardinality(At(sends', m))]
  BY DEF Sends, At
<1> HIDE DEF Sends
<1> QED BY <1>1, <1>5, <1>6, <1>7

LEMMA LedgerStep ==
  ASSUME OneExecutor, OnceInv, IInv', [Next]_vars
  PROVE  [Ledger!Next]_(Ledger!vars)
<1>1. IInv BY DEF OnceInv
<1>2. /\ Stable \in Seq(Lines) /\ Stable' \in Seq(Lines) /\ Begins(Stable, Stable')
  BY <1>1, StableStep
<1>3. Committed = CommittedBy(Stable) /\ Committed' = CommittedBy(Stable')
  BY DEF Committed, CommittedBy, Stable
<1>4. Committed \subseteq Committed' /\ Committed' \subseteq Mints
  BY <1>2, <1>3, CommittedGrows
<1>5. ASSUME sends' = sends PROVE [Ledger!Next]_(Ledger!vars)
  <2>1. Sends' = Sends BY <1>5 DEF Sends
  <2>2. Committed' = Committed \cup (Committed' \ Committed) BY <1>4
  <2>3. Committed' \ Committed \in SUBSET Mints BY <1>4
  <2> HIDE DEF Committed, Sends
  <2> QED BY <2>1, <2>2, <2>3 DEF Ledger!Next, Ledger!Reserve
<1>6. ASSUME NEW e \in Executors, Submit(e) PROVE [Ledger!Next]_(Ledger!vars)
  <2>1. /\ sends' = Append(sends, job[e]) /\ phase[e] = "submit"
        /\ journal' = journal /\ durable' = durable
    BY <1>6 DEF Submit
  <2>2. /\ job[e] \in Lines /\ Safe(job[e].mint) /\ sends \in Seq(Lines)
        /\ job[e].mint \notin SentMints
    BY <1>1, <2>1 DEF IInv, JobKept, WriteAhead, FileTyped, OnceInv, SentAreKnown
  <2>3. job[e].mint \in Mints BY <2>2 DEF Lines
  <2>4. Committed' = Committed BY <2>1 DEF Committed
  <2>5. job[e].mint \in Committed
    <3>1. /\ DOMAIN Stable = 1..durable
          /\ \A i \in 1..durable : Stable[i] = journal[i]
      BY <1>1, <1>2, StableIsPrefix, LenProperties DEF IInv
    <3>2. PICK i \in 1..durable : Names(journal[i], job[e].mint)
      BY <2>2 DEF Safe
    <3> HIDE DEF Stable
    <3>3. i \in DOMAIN Stable /\ Names(Stable[i], job[e].mint) BY <3>1, <3>2
    <3>4. IsTorn(Stable) \/ job[e].mint \in ReservedIn(Stable)
      BY <3>3 DEF Names, IsTorn, ReservedIn, Reservations
    <3> QED BY <1>3, <2>3, <3>4 DEF CommittedBy, LoadFails, Overdrawn
  <2>6. Sends[job[e].mint] = 0 /\ Sends' = [Sends EXCEPT ![job[e].mint] = 1]
    BY <2>1, <2>2, SendCounts
  <2> HIDE DEF Committed, Sends
  <2> QED BY <2>3, <2>4, <2>5, <2>6 DEF Ledger!Next, Ledger!Buy
<1>7. ASSUME NEW e \in Executors,
             \/ RemoveLock(e) \/ Replay(e) \/ FailLock(e)
             \/ \E m \in Mints, c \in Amounts : BeginReserve(e, m, c)
             \/ WriteLine(e) \/ FailWrite(e) \/ SyncLine(e) \/ FailSync(e)
             \/ RecordAcceptance(e) \/ FailAcceptance(e) \/ Kill(e)
      PROVE  sends' = sends
  BY <1>7 DEF RemoveLock, Replay, FailLock, BeginReserve, WriteLine, FailWrite,
              SyncLine, FailSync, RecordAcceptance, FailAcceptance, Kill
<1>8. PowerLoss \/ UNCHANGED vars => sends' = sends
  BY DEF PowerLoss, vars
<1> QED BY <1>5, <1>6, <1>7, <1>8 DEF Next

(* The journal implements BuyOnce over every crash, failed write and power *)
(* failure: what is durable is reserved, and what is sent was reserved and *)
(* not sent before, as long as one executor uses the file.                 *)
THEOREM JournalImplementsBuyOnce ==
  ASSUME OneExecutor
  PROVE  Spec => ImplementsBuyOnce
<1>1. Init => Ledger!Init
  <2> SUFFICES ASSUME Init PROVE Ledger!Init OBVIOUS
  <2>1. DOMAIN sends = {} /\ sends = <<>> /\ durable = 0 BY DEF Init
  <2>2. Sends = [m \in Mints |-> 0]
    <3>1. \A m : {i \in DOMAIN sends : sends[i].mint = m} = {} BY <2>1
    <3> QED BY <3>1, FS_EmptySet DEF Sends
  <2>3. Stable \in Seq(Lines) /\ Len(Stable) = 0
    BY <2>1, InitEstablishes, StableIsPrefix DEF IInv
  <2>4. Committed = CommittedBy(Stable) BY DEF Committed, CommittedBy, Stable
  <2> HIDE DEF Stable
  <2>5. Stable = <<>> BY <2>3, EmptySeq
  <2>6. DOMAIN Stable = {} BY <2>5
  <2>7. ~LoadFails(Stable)
    BY <2>3, <2>5, <2>6, CapitalEmpty, LimitsAssumption
    DEF LoadFails, Overdrawn, IsTorn, Reservations
  <2>8. ReservedIn(Stable) = {} BY <2>6 DEF ReservedIn, Reservations
  <2> QED BY <2>2, <2>4, <2>7, <2>8 DEF Ledger!Init, CommittedBy
<1>2. Init => OnceInv BY OnceInit
<1>3. OnceInv /\ [Next]_vars => OnceInv' BY OncePreserved
<1>4. OnceInv /\ OnceInv' /\ [Next]_vars => [Ledger!Next]_(Ledger!vars)
  BY LedgerStep DEF OnceInv
<1> QED BY <1>1, <1>2, <1>3, <1>4, PTL DEF Spec, ImplementsBuyOnce, Ledger!Spec

-----------------------------------------------------------------------------
(* Which fault is behind a refused file.  As long as no sync has failed,   *)
(* the memory of a running executor covers the file, so that its checks    *)
(* keep the file within the limits; and only a write that fails and a      *)
(* power failure leave a piece of a line.                                  *)
Without(kinds) == \A i \in DOMAIN incidents : incidents[i] \notin kinds

MemoryCovers ==
  \A e \in Executors :
    /\ phase[e] \in {"idle", "write", "submit", "accept"} =>
         /\ ReservedIn(journal) \subseteq reservedMints[e]
         /\ CapitalOf(journal) <= reservedCapital[e]
    /\ phase[e] = "write" => job[e].mint \notin reservedMints[e]
    /\ phase[e] = "sync" =>
         /\ ReservedIn(journal) \subseteq reservedMints[e] \cup {job[e].mint}
         /\ CapitalOf(journal) <= reservedCapital[e] + job[e].capital

Torers == {"write", "power"}

CauseInv ==
  /\ incidents \in Seq(FaultClasses)
  /\ Without(Torers) => ~IsTorn(journal)
  /\ Without({"sync"}) => ~Overdrawn(journal) /\ MemoryCovers

(* Every fault is recorded, so a kind that has not happened after a step   *)
(* had not happened before it, nor is it the fault of the step.            *)
LEMMA FaultsShow ==
  ASSUME NEW kind \in FaultClasses, NEW kinds,
         incidents \in Seq(FaultClasses), Incident(kind)
  PROVE  /\ incidents' \in Seq(FaultClasses)
         /\ Without(kinds)' => Without(kinds) /\ kind \notin kinds
<1>1. /\ incidents' \in Seq(FaultClasses)
      /\ DOMAIN incidents = 1..Len(incidents) /\ Len(incidents) \in Nat
      /\ DOMAIN incidents' = 1..Len(incidents) + 1
      /\ \A i \in 1..Len(incidents) : incidents'[i] = incidents[i]
      /\ incidents'[Len(incidents) + 1] = kind
  BY AppendProperties, LenProperties DEF Incident
<1>2. ASSUME Without(kinds)' PROVE Without(kinds) /\ kind \notin kinds
  BY <1>1, <1>2 DEF Without
<1> QED BY <1>1, <1>2

(* What a line adds to a file, whatever is in it.                          *)
Adds(lines, line, longer) ==
  /\ IsTorn(longer) => IsTorn(lines) \/ line.event = "torn"
  /\ CapitalOf(longer) = CapitalOf(lines) + Counted(line)
  /\ line.event = "reserved" =>
       /\ Reservations(longer) = Reservations(lines) \cup {Len(lines) + 1}
       /\ ReservedIn(longer) = ReservedIn(lines) \cup {line.mint}
  /\ line.event # "reserved" =>
       /\ Reservations(longer) = Reservations(lines)
       /\ ReservedIn(longer) = ReservedIn(lines)
  /\ \A i \in Reservations(lines) : longer[i] = lines[i]
  /\ longer[Len(lines) + 1] = line

LEMMA AppendAdds ==
  ASSUME NEW lines \in Seq(Lines), NEW line \in Lines
  PROVE  Adds(lines, line, Append(lines, line))
<1> DEFINE longer == Append(lines, line)
<1>2. /\ DOMAIN lines = 1..Len(lines) /\ Len(lines) \in Nat
      /\ DOMAIN longer = 1..Len(lines) + 1
      /\ \A i \in 1..Len(lines) : longer[i] = lines[i]
      /\ longer[Len(lines) + 1] = line
  BY AppendProperties, LenProperties
<1>4. CapitalOf(longer) = CapitalOf(lines) + Counted(line)
  BY CapitalAppend
<1> HIDE DEF longer
<1>3. IsTorn(longer) => IsTorn(lines) \/ line.event = "torn"
  BY <1>2 DEF IsTorn
<1>5. \A i \in Reservations(lines) : i \in 1..Len(lines) /\ longer[i] = lines[i]
  BY <1>2 DEF Reservations
<1>6. ASSUME line.event = "reserved"
      PROVE  Reservations(longer) = Reservations(lines) \cup {Len(lines) + 1}
  BY <1>2, <1>6 DEF Reservations
<1>7. ASSUME line.event # "reserved"
      PROVE  Reservations(longer) = Reservations(lines)
  BY <1>2, <1>7 DEF Reservations
<1>8. ASSUME line.event = "reserved"
      PROVE  ReservedIn(longer) = ReservedIn(lines) \cup {line.mint}
  BY <1>2, <1>5, <1>6, <1>8 DEF ReservedIn
<1>9. ASSUME line.event # "reserved"
      PROVE  ReservedIn(longer) = ReservedIn(lines)
  BY <1>5, <1>7, <1>9 DEF ReservedIn
<1>10. Adds(lines, line, longer)
  BY <1>2, <1>3, <1>4, <1>5, <1>6, <1>7, <1>8, <1>9 DEF Adds
<1> QED BY <1>10 DEF longer

(* A file that has no reservation the other lacks.                         *)
NoMore(a, b) ==
  /\ ReservedIn(a) \subseteq ReservedIn(b)
  /\ CapitalOf(a) <= CapitalOf(b)
  /\ Overdrawn(a) => Overdrawn(b)

LEMMA NoMoreSame ==
  ASSUME NEW a \in Seq(Lines) PROVE NoMore(a, a)
<1>1. CapitalOf(a) \in Nat BY CapitalType
<1> HIDE DEF CapitalOf, ReservedIn, Overdrawn
<1> QED BY <1>1 DEF NoMore

LEMMA NoMorePrefix ==
  ASSUME NEW a \in Seq(Lines), NEW b \in Seq(Lines), Begins(a, b)
  PROVE  NoMore(a, b) /\ (IsTorn(a) => IsTorn(b))
<1>1. IsTorn(a) => IsTorn(b) BY PrefixKeeps
<1>2. ReservedIn(a) \subseteq ReservedIn(b) BY PrefixKeeps
<1>3. CapitalOf(a) <= CapitalOf(b) /\ CapitalOf(a) \in Nat /\ CapitalOf(b) \in Nat
  BY CapitalPrefix, CapitalType
<1>4. \A i \in Reservations(a) : i \in Reservations(b) /\ b[i] = a[i]
  <2>1. /\ DOMAIN a = 1..Len(a) /\ DOMAIN b = 1..Len(b)
        /\ Len(a) \in Nat /\ Len(b) \in Nat /\ Len(a) <= Len(b)
        /\ \A i \in DOMAIN a : i \in DOMAIN b /\ b[i] = a[i]
    BY LenProperties DEF Begins
  <2> QED BY <2>1 DEF Reservations
<1>5. ASSUME NEW i \in Reservations(a), NEW j \in Reservations(a), i # j,
             a[i].mint = a[j].mint
      PROVE  Overdrawn(b)
  BY <1>4, <1>5 DEF Overdrawn
<1> HIDE DEF CapitalOf
<1>6. CapitalOf(a) > MaxPendingCapital => Overdrawn(b)
  BY <1>3, LimitsAssumption DEF Overdrawn
<1>7. Overdrawn(a) => Overdrawn(b) BY <1>5, <1>6 DEF Overdrawn
<1> QED BY <1>1, <1>2, <1>3, <1>7 DEF NoMore

LEMMA NoMoreAppend ==
  ASSUME NEW a \in Seq(Lines), NEW line \in Lines, line.event # "reserved"
  PROVE  NoMore(Append(a, line), a)
<1> PICK longer : longer = Append(a, line) OBVIOUS
<1>0. Adds(a, line, longer) BY AppendAdds
<1>1. Counted(line) = 0 /\ CapitalOf(a) \in Nat BY CapitalType DEF Counted
<1>2. /\ CapitalOf(longer) = CapitalOf(a) + Counted(line)
      /\ Reservations(longer) = Reservations(a)
      /\ ReservedIn(longer) = ReservedIn(a)
      /\ \A i \in Reservations(a) : longer[i] = a[i]
  BY <1>0 DEF Adds
<1> HIDE DEF CapitalOf, ReservedIn, Reservations, Counted
<1>3. CapitalOf(longer) = CapitalOf(a) BY <1>1, <1>2
<1>4. Overdrawn(longer) => Overdrawn(a)
  <2>1. ASSUME NEW i \in Reservations(longer), NEW j \in Reservations(longer),
               i # j, longer[i].mint = longer[j].mint
        PROVE  Overdrawn(a)
    <3>1. /\ i \in Reservations(a) /\ j \in Reservations(a)
          /\ a[i].mint = a[j].mint
      BY <1>2, <2>1
    <3> QED BY <2>1, <3>1 DEF Overdrawn
  <2>2. CapitalOf(longer) > MaxPendingCapital => Overdrawn(a)
    BY <1>3 DEF Overdrawn
  <2> QED BY <2>1, <2>2 DEF Overdrawn
<1> QED BY <1>1, <1>2, <1>3, <1>4 DEF NoMore

LEMMA NoMoreTrans ==
  ASSUME NEW a \in Seq(Lines), NEW b \in Seq(Lines), NEW c \in Seq(Lines),
         NoMore(a, b), NoMore(b, c)
  PROVE  NoMore(a, c)
<1>1. CapitalOf(a) \in Nat /\ CapitalOf(b) \in Nat /\ CapitalOf(c) \in Nat
  BY CapitalType
<1> HIDE DEF CapitalOf, ReservedIn, Overdrawn
<1> QED BY <1>1 DEF NoMore

(* A line that reserves nothing, written whole or torn.                    *)
LEMMA GrownQuietly ==
  ASSUME NEW a \in Seq(Lines), NEW line \in Lines, line.event # "reserved"
  PROVE  /\ Grown(a, line) \in Seq(Lines)
         /\ NoMore(Grown(a, line), a)
         /\ IsTorn(Grown(a, line)) => IsTorn(a) \/ line.event = "torn"
<1>1. Grown(a, line) \in Seq(Lines) BY GrownExtends
<1>2. CASE Grown(a, line) = a BY <1>1, <1>2, NoMoreSame
<1>3. CASE Grown(a, line) = Append(a, line)
  <2>1. Adds(a, line, Grown(a, line)) BY <1>3, AppendAdds
  <2>2. NoMore(Grown(a, line), a) BY <1>3, NoMoreAppend
  <2> QED BY <1>1, <2>1, <2>2 DEF Adds
<1> QED BY <1>2, <1>3 DEF Grown

LEMMA CauseInit == Init => CauseInv
<1> SUFFICES ASSUME Init PROVE CauseInv OBVIOUS
<1>1. /\ journal = <<>> /\ DOMAIN journal = {}
      /\ <<>> \in Seq(FaultClasses) /\ incidents = <<>>
  BY DEF Init
<1>2. ~IsTorn(journal) BY <1>1 DEF IsTorn
<1>3. ~Overdrawn(journal)
  BY <1>1, CapitalEmpty, LimitsAssumption DEF Overdrawn, Reservations
<1>4. MemoryCovers BY DEF Init, MemoryCovers
<1> QED BY <1>1, <1>2, <1>3, <1>4 DEF CauseInv

(* Steps that leave the file with no more reservations, and no executor    *)
(* with less in memory.                                                    *)
LEMMA CauseQuiet ==
  ASSUME journal \in Seq(Lines), journal' \in Seq(Lines),
         reservedCapital \in [Executors -> Nat],
         CauseInv, NoMore(journal', journal),
         incidents' \in Seq(FaultClasses),
         Without(Torers)' => Without(Torers) /\ (IsTorn(journal') => IsTorn(journal)),
         Without({"sync"})' => Without({"sync"}),
         \A e \in Executors :
           \/ phase'[e] \in {"down", "starting"}
           \/ /\ reservedMints'[e] = reservedMints[e]
              /\ reservedCapital'[e] = reservedCapital[e]
              /\ \/ phase'[e] = phase[e] /\ job'[e] = job[e] /\ journal' = journal
                 \/ /\ phase[e] \in {"write", "submit", "accept"}
                    /\ phase'[e] \in {"idle", "accept"}
  PROVE  CauseInv'
<1>1. Without(Torers)' => ~IsTorn(journal)' BY DEF CauseInv
<1>2. ASSUME Without({"sync"})' PROVE ~Overdrawn(journal)' /\ MemoryCovers'
  <2>1. ~Overdrawn(journal) /\ MemoryCovers BY <1>2 DEF CauseInv
  <2>2. CapitalOf(journal) \in Nat /\ CapitalOf(journal') \in Nat BY CapitalType
  <2> HIDE DEF ReservedIn, CapitalOf, Overdrawn
  <2>3. ReservedIn(journal') \subseteq ReservedIn(journal)
        /\ CapitalOf(journal') <= CapitalOf(journal)
        /\ ~Overdrawn(journal')
    BY <2>1 DEF NoMore
  <2>4. ASSUME NEW e \in Executors,
               phase'[e] \in {"idle", "write", "submit", "accept"}
        PROVE  /\ ReservedIn(journal') \subseteq reservedMints'[e]
               /\ CapitalOf(journal') <= reservedCapital'[e]
    <3>1. phase[e] \in {"idle", "write", "submit", "accept"} BY <2>4
    <3>2. /\ ReservedIn(journal) \subseteq reservedMints[e]
          /\ CapitalOf(journal) <= reservedCapital[e]
      BY <2>1, <3>1 DEF MemoryCovers
    <3>3. /\ reservedMints'[e] = reservedMints[e]
          /\ reservedCapital'[e] = reservedCapital[e]
          /\ reservedCapital[e] \in Nat
      BY <2>4
    <3> QED BY <2>2, <2>3, <3>2, <3>3
  <2>5. ASSUME NEW e \in Executors, phase'[e] \in {"write", "sync"}
        PROVE  /\ phase[e] = phase'[e] /\ job'[e] = job[e] /\ journal' = journal
               /\ reservedMints'[e] = reservedMints[e]
               /\ reservedCapital'[e] = reservedCapital[e]
    BY <2>5
  <2>6. MemoryCovers' BY <2>1, <2>4, <2>5 DEF MemoryCovers
  <2> QED BY <2>3, <2>6
<1> QED BY <1>1, <1>2 DEF CauseInv

(* A reservation that passed the checks against memory is written.         *)
LEMMA CauseWrite ==
  ASSUME NEW e \in Executors,
         OneExecutor, IInv, WithinLimit, MemoryTyped, CauseInv, WriteLine(e)
  PROVE  CauseInv'
<1>1. /\ journal \in Seq(Lines) /\ incidents \in Seq(FaultClasses)
      /\ phase \in [Executors -> Phases]
      /\ reservedCapital \in [Executors -> Nat]
      /\ MaxPendingCapital \in Nat
  BY LimitsAssumption DEF IInv, FileTyped, WithinLimit, MemoryTyped, CauseInv
<1>2. /\ journal' = Grown(journal, job[e]) /\ incidents' = incidents
      /\ phase[e] = "write" /\ phase'[e] = "sync" /\ job' = job
      /\ reservedMints' = reservedMints /\ reservedCapital' = reservedCapital
      /\ job[e] \in Lines /\ job[e].event = "reserved"
      /\ job[e].capital \in Nat /\ Counted(job[e]) = job[e].capital
  BY <1>1, CapitalNumbers DEF WriteLine, Goto, IInv, JobKept
<1>3. CapitalOf(journal) \in Nat BY <1>1, CapitalType
<1>4. Without(Torers)' => ~IsTorn(journal)'
  <2>1. ASSUME Without(Torers)' PROVE ~IsTorn(journal)
    BY <1>2, <2>1 DEF Without, CauseInv
  <2>2. journal' = journal \/ journal' = Append(journal, job[e])
    BY <1>2 DEF Grown
  <2>3. IsTorn(journal') => IsTorn(journal)
    <3>1. CASE journal' = journal BY <3>1
    <3>2. CASE journal' = Append(journal, job[e])
      <4>1. Adds(journal, job[e], journal') BY <1>1, <1>2, <3>2, AppendAdds
      <4> QED BY <1>2, <4>1 DEF Adds
    <3> QED BY <2>2, <3>1, <3>2
  <2> QED BY <2>1, <2>3
<1>5. ASSUME Without({"sync"})' PROVE ~Overdrawn(journal)' /\ MemoryCovers'
  <2>1. ~Overdrawn(journal) /\ MemoryCovers
    BY <1>2, <1>5 DEF Without, CauseInv
  <2>2. /\ CapitalOf(journal) <= reservedCapital[e]
        /\ ReservedIn(journal) \subseteq reservedMints[e]
        /\ job[e].mint \notin reservedMints[e]
    BY <1>2, <2>1 DEF MemoryCovers
  <2>3. reservedCapital[e] + job[e].capital <= MaxPendingCapital
        /\ reservedCapital[e] \in Nat
    BY <1>1, <1>2 DEF WithinLimit
  <2>4. CASE journal' = journal
    <3> HIDE DEF ReservedIn, CapitalOf, Overdrawn
    <3>1. /\ ReservedIn(journal') \subseteq reservedMints[e] \cup {job[e].mint}
          /\ CapitalOf(journal') <= reservedCapital[e] + job[e].capital
      BY <1>2, <1>3, <2>2, <2>3, <2>4
    <3>2. MemoryCovers' BY <1>2, <3>1 DEF MemoryCovers, OneExecutor
    <3> QED BY <2>1, <2>4, <3>2
  <2>5. CASE journal' = Append(journal, job[e])
    <3>1. /\ CapitalOf(journal') = CapitalOf(journal) + job[e].capital
          /\ Reservations(journal') = Reservations(journal) \cup {Len(journal) + 1}
          /\ ReservedIn(journal') = ReservedIn(journal) \cup {job[e].mint}
          /\ \A i \in Reservations(journal) : journal'[i] = journal[i]
          /\ journal'[Len(journal) + 1] = job[e]
      <4>1. Adds(journal, job[e], journal') BY <1>1, <1>2, <2>5, AppendAdds
      <4> QED BY <1>2, <4>1 DEF Adds
    <3>2. CapitalOf(journal') <= reservedCapital[e] + job[e].capital
          /\ CapitalOf(journal') <= MaxPendingCapital
          /\ CapitalOf(journal') \in Nat
      BY <1>1, <1>2, <1>3, <2>2, <2>3, <3>1
    <3>3. \A i \in Reservations(journal) : journal[i].mint # job[e].mint
      BY <2>2 DEF ReservedIn
    <3>4. \A i, j \in Reservations(journal) :
            journal[i].mint = journal[j].mint => i = j
      BY <2>1 DEF Overdrawn
    <3>5. \A i, j \in Reservations(journal') :
            journal'[i].mint = journal'[j].mint => i = j
      BY <3>1, <3>3, <3>4
    <3> HIDE DEF ReservedIn, CapitalOf
    <3>6. ~Overdrawn(journal') BY <1>1, <3>2, <3>5 DEF Overdrawn
    <3>7. MemoryCovers' BY <1>2, <2>2, <3>1, <3>2 DEF MemoryCovers, OneExecutor
    <3> QED BY <3>6, <3>7
  <2> QED BY <1>2, <2>4, <2>5 DEF Grown
<1> QED BY <1>1, <1>2, <1>4, <1>5 DEF CauseInv

(* The file is replayed: memory is what it says.                           *)
LEMMA CauseReplay ==
  ASSUME NEW e \in Executors, OneExecutor, IInv, WithinLimit, MemoryTyped,
         CauseInv, Replay(e), ~LoadFails(journal)
  PROVE  CauseInv'
<1>1. /\ journal \in Seq(Lines) /\ phase \in [Executors -> Phases]
      /\ reservedCapital \in [Executors -> Nat]
      /\ reservedMints \in [Executors -> SUBSET Mints]
  BY DEF IInv, FileTyped, WithinLimit, MemoryTyped
<1>2. CapitalOf(journal) \in Nat BY <1>1, CapitalType
<1>3. /\ journal' = journal /\ incidents' = incidents
      /\ phase' = [phase EXCEPT ![e] = "idle"]
      /\ reservedMints' = [reservedMints EXCEPT ![e] = ReservedIn(journal)]
      /\ reservedCapital' = [reservedCapital EXCEPT ![e] = CapitalOf(journal)]
  BY DEF Replay, Goto
<1> HIDE DEF CapitalOf, ReservedIn
<1>4. phase'[e] = "idle" /\ reservedMints'[e] = ReservedIn(journal)
      /\ reservedCapital'[e] = CapitalOf(journal)
  BY <1>1, <1>3
<1>5. MemoryCovers' BY <1>2, <1>3, <1>4 DEF MemoryCovers, OneExecutor
<1>6. /\ Without(Torers)' => ~IsTorn(journal)'
      /\ Without({"sync"})' => ~Overdrawn(journal)'
  BY <1>3 DEF LoadFails
<1> QED BY <1>3, <1>5, <1>6 DEF CauseInv

(* A power failure takes reservations, never adds one.                     *)
LEMMA CutLosesOnly ==
  ASSUME journal \in Seq(Lines), durable \in 0..Len(journal), PowerLoss
  PROVE  journal' \in Seq(Lines) /\ NoMore(journal', journal)
<1>1. Len(journal) \in Nat BY LenProperties
<1>2. PICK k \in durable..Len(journal) :
        \/ journal' = SubSeq(journal, 1, k)
        \/ /\ k < Len(journal)
           /\ journal' = Append(SubSeq(journal, 1, k), Torn(journal[k + 1]))
  BY DEF PowerLoss
<1>3. PICK kept : kept = SubSeq(journal, 1, k) OBVIOUS
<1>4. kept \in Seq(Lines) /\ Begins(kept, journal)
  BY <1>1, <1>3, CutProperties DEF Begins
<1>5. NoMore(kept, journal) BY <1>4, NoMorePrefix
<1>6. CASE journal' = kept BY <1>4, <1>5, <1>6
<1>7. CASE k < Len(journal) /\ journal' = Append(kept, Torn(journal[k + 1]))
  <2>1. journal[k + 1] \in Lines BY <1>1, <1>7, ElementOfSeq
  <2>2. Torn(journal[k + 1]) \in Lines /\ Torn(journal[k + 1]).event # "reserved"
    BY <2>1, TornIsLine DEF Torn, Lines
  <2>3. journal' \in Seq(Lines) /\ NoMore(journal', kept)
    BY <1>4, <1>7, <2>2, NoMoreAppend, AppendProperties
  <2> QED BY <1>4, <1>5, <2>3, NoMoreTrans
<1> QED BY <1>2, <1>3, <1>6, <1>7

(* The writes that fail, and the one that records an acceptance.           *)
LEMMA CauseFaults ==
  ASSUME NEW e \in Executors, OneExecutor, IInv, WithinLimit, MemoryTyped,
         CauseInv,
         FailWrite(e) \/ FailSync(e) \/ FailAcceptance(e) \/ RecordAcceptance(e)
  PROVE  CauseInv'
<1>1. /\ journal \in Seq(Lines) /\ incidents \in Seq(FaultClasses)
      /\ phase \in [Executors -> Phases]
      /\ reservedCapital \in [Executors -> Nat]
  BY DEF IInv, FileTyped, WithinLimit, CauseInv
<1>2. Torers = {"write", "power"} /\ {"write", "sync"} \subseteq FaultClasses
  BY DEF Torers, FaultClasses
<1>3. CASE FailWrite(e)
  <2>1. /\ journal' \in {journal, Grown(journal, Torn(job[e]))}
        /\ Incident("write") /\ phase[e] = "write" /\ phase'[e] = "idle"
        /\ reservedMints' = reservedMints /\ reservedCapital' = reservedCapital
    BY <1>1, <1>3 DEF FailWrite, Finish, Goto
  <2>2. Torn(job[e]) \in Lines /\ Torn(job[e]).event # "reserved"
    BY <2>1, TornIsLine DEF IInv, JobKept, Torn, Lines
  <2>3. journal' \in Seq(Lines) /\ NoMore(journal', journal)
    BY <1>1, <2>1, <2>2, GrownQuietly, NoMoreSame
  <2>4. /\ incidents' \in Seq(FaultClasses) /\ ~Without(Torers)'
        /\ Without({"sync"})' => Without({"sync"})
    BY <1>1, <1>2, <2>1, FaultsShow
  <2> QED BY <1>1, <2>1, <2>3, <2>4, CauseQuiet DEF OneExecutor
<1>4. CASE FailSync(e)
  <2>1. journal' = journal /\ Incident("sync") BY <1>4 DEF FailSync
  <2>2. /\ incidents' \in Seq(FaultClasses) /\ ~Without({"sync"})'
        /\ Without(Torers)' => Without(Torers)
    BY <1>1, <1>2, <2>1, FaultsShow
  <2> QED BY <2>1, <2>2 DEF CauseInv
<1>5. CASE FailAcceptance(e)
  <2>1. PICK line : line = Accepted(job[e].mint) OBVIOUS
  <2>2. /\ phase'[e] = "down" /\ phase[e] = "accept"
        /\ \/ Incident("write") /\ journal' \in {journal, Grown(journal, Torn(line))}
           \/ Incident("sync") /\ journal' = Grown(journal, line)
    BY <1>1, <1>5, <2>1 DEF FailAcceptance, Forget
  <2>3. /\ line \in Lines /\ line.event = "accepted"
        /\ Torn(line) \in Lines /\ Torn(line).event # "reserved"
    BY <2>1, <2>2, AcceptedIsLine, TornIsLine
    DEF IInv, JobKept, Accepted, Torn, Lines
  <2>4. CASE Incident("write") /\ journal' \in {journal, Grown(journal, Torn(line))}
    <3>1. journal' \in Seq(Lines) /\ NoMore(journal', journal)
      BY <1>1, <2>3, <2>4, GrownQuietly, NoMoreSame
    <3>2. /\ incidents' \in Seq(FaultClasses) /\ ~Without(Torers)'
          /\ Without({"sync"})' => Without({"sync"})
      BY <1>1, <1>2, <2>4, FaultsShow
    <3> QED BY <1>1, <2>2, <3>1, <3>2, CauseQuiet DEF OneExecutor
  <2>5. CASE Incident("sync") /\ journal' = Grown(journal, line)
    <3>1. IsTorn(journal') => IsTorn(journal)
      BY <1>1, <2>3, <2>5, GrownQuietly
    <3>2. /\ incidents' \in Seq(FaultClasses) /\ ~Without({"sync"})'
          /\ Without(Torers)' => Without(Torers)
      BY <1>1, <1>2, <2>5, FaultsShow
    <3> QED BY <3>1, <3>2 DEF CauseInv
  <2> QED BY <2>2, <2>4, <2>5
<1>6. CASE RecordAcceptance(e)
  <2>1. PICK line : line = Accepted(job[e].mint) OBVIOUS
  <2>2. /\ journal' = Grown(journal, line) /\ incidents' = incidents
        /\ phase[e] = "accept" /\ phase'[e] = "idle"
        /\ reservedMints' = reservedMints /\ reservedCapital' = reservedCapital
    BY <1>1, <1>6, <2>1 DEF RecordAcceptance, Finish, Goto
  <2>3. line \in Lines /\ line.event = "accepted"
    BY <2>1, <2>2, AcceptedIsLine DEF IInv, JobKept, Accepted
  <2>4. /\ journal' \in Seq(Lines) /\ NoMore(journal', journal)
        /\ IsTorn(journal') => IsTorn(journal)
    BY <1>1, <2>2, <2>3, GrownQuietly
  <2>5. /\ Without(Torers)' => Without(Torers)
        /\ Without({"sync"})' => Without({"sync"})
    BY <2>2 DEF Without
  <2> QED BY <1>1, <2>2, <2>4, <2>5, CauseQuiet DEF OneExecutor
<1> QED BY <1>3, <1>4, <1>5, <1>6

LEMMA CausePreserved ==
  ASSUME OneExecutor, IInv, WithinLimit, MemoryTyped, CauseInv, [Next]_vars
  PROVE  CauseInv'
<1>1. /\ journal \in Seq(Lines) /\ incidents \in Seq(FaultClasses)
      /\ durable \in 0..Len(journal)
      /\ phase \in [Executors -> Phases]
      /\ job \in [Executors -> Lines \cup {NoLine}]
      /\ reservedCapital \in [Executors -> Nat]
      /\ reservedMints \in [Executors -> SUBSET Mints]
  BY DEF IInv, FileTyped, WithinLimit, MemoryTyped, CauseInv
<1>2. CapitalOf(journal) \in Nat BY <1>1, CapitalType
<1>3. ASSUME incidents' = incidents, NEW kinds PROVE Without(kinds)' => Without(kinds)
  BY <1>3 DEF Without
<1>4. NoMore(journal, journal) BY <1>1, NoMoreSame
<1>5. ASSUME NEW e \in Executors, Replay(e) PROVE CauseInv'
  <2>1. CASE LoadFails(journal)
    <3>1. /\ phase'[e] = "down" /\ journal' = journal /\ incidents' = incidents
      BY <1>1, <1>5, <2>1 DEF Replay, Goto
    <3> QED BY <1>1, <1>3, <1>4, <3>1, CauseQuiet DEF OneExecutor
  <2> QED BY <1>5, <2>1, CauseReplay
<1>6. ASSUME NEW e \in Executors, NEW m \in Mints, NEW c \in Amounts,
             BeginReserve(e, m, c)
      PROVE  CauseInv'
  <2>1. /\ journal' = journal /\ incidents' = incidents
        /\ phase[e] = "idle" /\ phase'[e] = "write"
        /\ job'[e].mint = m /\ m \notin reservedMints[e]
        /\ reservedMints' = reservedMints /\ reservedCapital' = reservedCapital
    BY <1>1, <1>6 DEF BeginReserve, Goto, Reserved
  <2> HIDE DEF ReservedIn, CapitalOf
  <2>2. MemoryCovers => MemoryCovers'
    BY <2>1 DEF MemoryCovers, OneExecutor
  <2> QED BY <1>3, <2>1, <2>2 DEF CauseInv
<1>7. ASSUME NEW e \in Executors, SyncLine(e) PROVE CauseInv'
  <2>1. /\ journal' = journal /\ incidents' = incidents
        /\ phase[e] = "sync" /\ phase'[e] = "submit" /\ job' = job
        /\ reservedMints'[e] = reservedMints[e] \cup {job[e].mint}
        /\ reservedCapital'[e] = reservedCapital[e] + job[e].capital
    BY <1>1, <1>7 DEF SyncLine, Goto
  <2> HIDE DEF ReservedIn, CapitalOf
  <2>2. MemoryCovers => MemoryCovers'
    BY <2>1 DEF MemoryCovers, OneExecutor
  <2> QED BY <1>3, <2>1, <2>2 DEF CauseInv
<1>8. ASSUME PowerLoss PROVE CauseInv'
  <2>1. Incident("power") /\ "power" \in FaultClasses /\ Torers = {"write", "power"}
    BY <1>8 DEF PowerLoss, FaultClasses, Torers
  <2>2. /\ incidents' \in Seq(FaultClasses) /\ ~Without(Torers)'
        /\ Without({"sync"})' => Without({"sync"})
    BY <1>1, <2>1, FaultsShow
  <2>3. \A e \in Executors : phase'[e] = "down" BY <1>8 DEF PowerLoss, Forget
  <2>4. journal' \in Seq(Lines) /\ NoMore(journal', journal)
    BY <1>1, <1>8, CutLosesOnly
  <2> QED BY <1>1, <2>2, <2>3, <2>4, CauseQuiet
<1>9. ASSUME NEW e \in Executors, FailLock(e) \/ Kill(e) PROVE CauseInv'
  <2>1. PICK kind \in {"kill", "lock"} : Incident(kind)
    BY <1>9 DEF FailLock, Kill
  <2>2. kind \in FaultClasses /\ Torers = {"write", "power"}
    BY DEF FaultClasses, Torers
  <2>3. /\ incidents' \in Seq(FaultClasses)
        /\ Without(Torers)' => Without(Torers)
        /\ Without({"sync"})' => Without({"sync"})
    BY <1>1, <2>1, <2>2, FaultsShow
  <2>4. CASE FailLock(e)
    BY <1>1, <1>4, <2>3, <2>4, CauseQuiet DEF FailLock, memory
  <2>5. CASE Kill(e)
    <3>1. phase'[e] = "down" /\ journal' = journal BY <2>5 DEF Kill, Forget
    <3> QED BY <1>1, <1>4, <2>3, <3>1, CauseQuiet DEF OneExecutor
  <2> QED BY <1>9, <2>4, <2>5
<1>10. ASSUME NEW e \in Executors, RemoveLock(e) PROVE CauseInv'
  <2>1. phase'[e] = "starting" /\ journal' = journal /\ incidents' = incidents
    BY <1>1, <1>10 DEF RemoveLock, Goto
  <2> QED BY <1>1, <1>3, <1>4, <2>1, CauseQuiet DEF OneExecutor
<1>11. ASSUME NEW e \in Executors, Submit(e) PROVE CauseInv'
  <2>1. /\ phase[e] = "submit" /\ phase'[e] \in {"idle", "accept"}
        /\ journal' = journal /\ incidents' = incidents
        /\ reservedMints' = reservedMints /\ reservedCapital' = reservedCapital
    BY <1>1, <1>11 DEF Submit, Finish, Goto
  <2> QED BY <1>1, <1>3, <1>4, <2>1, CauseQuiet DEF OneExecutor
<1>12. ASSUME UNCHANGED vars PROVE CauseInv'
  <2>1. journal' = journal /\ incidents' = incidents BY <1>12 DEF vars
  <2> QED BY <1>1, <1>3, <1>4, <1>12, <2>1, CauseQuiet DEF vars, memory
<1> QED BY <1>5, <1>6, <1>7, <1>8, <1>9, <1>10, <1>11, <1>12, CauseWrite,
           CauseFaults DEF Next

(* What load() refuses of a file that one executor kept has a fault behind *)
(* it, and which one: kills and failures to take the lock never cost the   *)
(* operator the journal.  (That the file outgrows what load() reads is not *)
(* among what it says: nothing in the code keeps it short.)                *)
THEOREM RefusalsHaveACause ==
  ASSUME OneExecutor
  PROVE  Spec => []RefusalsExplained
<1>1. Init => CauseInv BY CauseInit
<1>2. IInv /\ CapitalInv /\ OnceInv /\ CauseInv /\ [Next]_vars => CauseInv'
  BY CausePreserved DEF CapitalInv, OnceInv
<1>3. CauseInv => RefusalsExplained
  <2> SUFFICES ASSUME CauseInv PROVE RefusalsExplained OBVIOUS
  <2>1. ASSUME NEW kinds, ~Without(kinds)
        PROVE  Range(incidents) \cap kinds # {}
    BY <2>1 DEF Without, Range
  <2>2. IsTorn(journal) => Range(incidents) \cap Torers # {}
    BY <2>1 DEF CauseInv
  <2>3. Overdrawn(journal) => Range(incidents) \cap {"sync"} # {}
    BY <2>1 DEF CauseInv
  <2> QED BY <2>2, <2>3 DEF RefusalsExplained, Torers
<1>4. Init => CapitalInv BY CapitalInit
<1>5. IInv /\ IInv' /\ CapitalInv /\ [Next]_vars => CapitalInv'
  BY CapitalStable, CapitalFile, CapitalMemory DEF CapitalInv
<1>6. Init => OnceInv BY OnceInit
<1>7. OnceInv /\ [Next]_vars => OnceInv' BY OncePreserved
<1> QED BY <1>1, <1>2, <1>3, <1>4, <1>5, <1>6, <1>7, Inductive, PTL DEF Spec

=============================================================================
