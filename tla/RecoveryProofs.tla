--------------------------- MODULE RecoveryProofs ---------------------------
(***************************************************************************)
(* Proofs about module Recovery, for every bound: no two entries have one  *)
(* sequence number, a crash at any moment leaves a database that opens,    *)
(* and an acknowledged write is not lost.                                  *)
(*                                                                         *)
(* RecoveryOpenProofs and RecoveryWriteProofs have the steps of Open, of   *)
(* the writers and of the background thread; here are closing, crashes and *)
(* RepairDB, the facts about numbers, and the theorems.                    *)
(***************************************************************************)
EXTENDS RecoveryWriteProofs

-----------------------------------------------------------------------------
(* Closing and crashes.                                                    *)

\* A cut leaves edits in order.
LEMMA OrderlyCut ==
    ASSUME NEW d \in Seq(Edit), Orderly(d), NEW k \in 0 .. Len(d)
    PROVE  /\ SubSeq(d, 1, k) \in Seq(Edit) /\ Len(SubSeq(d, 1, k)) = k
           /\ \A i \in 1 .. k : SubSeq(d, 1, k)[i] = d[i]
           /\ Orderly(SubSeq(d, 1, k))
<1>1. /\ SubSeq(d, 1, k) \in Seq(Edit) /\ Len(SubSeq(d, 1, k)) = k
      /\ DOMAIN SubSeq(d, 1, k) = 1 .. k /\ 1 .. k \subseteq DOMAIN d
      /\ \A i \in 1 .. k : SubSeq(d, 1, k)[i] = d[i]
  OBVIOUS
<1> QED
  BY <1>1 DEF Orderly

\* What a crash does besides.
LEMMA CrashFacts ==
    ASSUME IInv, Crashes
    PROVE  /\ Gone /\ spent' \in Spent /\ spent'.writes = spent.writes
           /\ \A o : o \cap {"unsynced", "repair", "unrepaired", "removed"} = {}
                        => (odd \cup Interrupted \subseteq o => Trusted /\ repair = NoRepair)
<1>1. Gone /\ spent' = [spent EXCEPT !.crashes = @ + 1]
  BY DEF Crashes
<1>2. spent \in Spent
  BY DEF IInv, ProcessType
<1>3. spent' \in Spent /\ spent'.writes = spent.writes
  BY <1>1, <1>2 DEF Spent
<1>4. ASSUME NEW o, o \cap {"unsynced", "repair", "unrepaired", "removed"} = {}, odd \cup Interrupted \subseteq o
      PROVE  Trusted /\ repair = NoRepair
  <2>1. Interrupted \subseteq o /\ odd \subseteq o /\ "repair" \notin o
    BY <1>4
  <2>2. repair = NoRepair
    BY <2>1 DEF Interrupted
  <2> QED
    BY <1>4, <2>1, <2>2 DEF Trusted
<1> QED
  BY <1>1, <1>3, <1>4

\* A file after a crash of the machine.
LEMMA CutsLemma ==
    ASSUME NEW f, NEW g \in Cuts(f)
    PROVE  /\ DOMAIN g = DOMAIN f
           /\ \A n \in DOMAIN f : \E k \in f[n].synced .. Len(f[n].data) :
                 g[n] = Written(SubSeq(f[n].data, 1, k), k)
BY DEF Cuts

\* What is left of a log is a part of it.
LEMMA LogCut ==
    ASSUME NEW log \in Log, NEW k \in log.synced .. Len(log.data)
    PROVE  LET cut == Written(SubSeq(log.data, 1, k), k)
           IN /\ cut \in Log /\ cut.synced = k /\ Len(cut.data) = k /\ k \in 0 .. Len(log.data)
              /\ DOMAIN cut.data = 1 .. k
              /\ \A i \in DOMAIN cut.data : i \in DOMAIN log.data /\ cut.data[i] = log.data[i]
<1>1. log.data \in Seq(SUBSET Entry) /\ log.synced \in Nat
  BY DEF Log
<1>2. PICK d \in Seq(SUBSET Entry) : d = log.data
  BY <1>1, Zenon
<1>3. k \in Nat /\ k \in 0 .. Len(d)
  BY <1>1, <1>2
<1>4. /\ SubSeq(d, 1, k) \in Seq(SUBSET Entry) /\ Len(SubSeq(d, 1, k)) = k /\ DOMAIN SubSeq(d, 1, k) = 1 .. k
      /\ \A i \in 1 .. k : i \in DOMAIN d /\ SubSeq(d, 1, k)[i] = d[i]
  BY <1>3
<1> QED
  BY <1>2, <1>3, <1>4 DEF Written, Log

\* What is left of the edits after a cut makes the version that it made before.
LEMMA VersionOfCut ==
    ASSUME NEW d \in Seq(Edit), NEW k \in 0 .. Len(d)
    PROVE  Ver(SubSeq(d, 1, k), k) = Ver(d, k)
<1>1. SubSeq(SubSeq(d, 1, k), 1, k) = SubSeq(d, 1, k)
  OBVIOUS
<1> QED
  BY <1>1, Zenon DEF Ver

\* What is left of a MANIFEST says what the MANIFEST said up to there.
LEMMA ManifestCut ==
    ASSUME NEW m \in Manifest, Orderly(m.data), NEW k \in Kept(m), NEW c,
           c = Written(SubSeq(m.data, 1, k), k)
    PROVE  /\ c \in Manifest /\ c.synced = k /\ Len(c.data) = k /\ Orderly(c.data) /\ k \in Nat
           /\ Kept(c) = {k} /\ Ver(c.data, k) = Ver(m.data, k)
           /\ k # 0 => c.data[k] = m.data[k]
<1>1. m.data \in Seq(Edit) /\ m.synced \in Nat
  BY DEF Manifest
<1>2. PICK d \in Seq(Edit) : d = m.data
  BY <1>1, Zenon
<1>3. k \in Nat /\ k \in 0 .. Len(d) /\ Orderly(d)
  BY <1>1, <1>2 DEF Kept
<1>4. /\ SubSeq(d, 1, k) \in Seq(Edit) /\ Len(SubSeq(d, 1, k)) = k /\ Orderly(SubSeq(d, 1, k))
      /\ \A i \in 1 .. k : SubSeq(d, 1, k)[i] = d[i]
  BY <1>3, OrderlyCut
<1>5. Ver(SubSeq(d, 1, k), k) = Ver(d, k)
  BY <1>3, VersionOfCut
<1>6. k # 0 => k \in 1 .. k
  BY <1>3
<1>7. c.data = SubSeq(d, 1, k) /\ c.synced = k
  BY <1>2, Zenon DEF Written
<1>8. c \in Manifest
  BY <1>2, <1>3, <1>4 DEF Written, Manifest
<1>9. Kept(c) = {k}
  BY <1>3, <1>4, <1>7 DEF Kept
<1> QED
  BY <1>2, <1>3, <1>4, <1>5, <1>6, <1>7, <1>8, <1>9, Zenon

\* An open database can be recovered from its files: what is only in memory is in the logs
\* that every version CURRENT may name keeps.
LEMMA OpenIsRecoverable ==
    ASSUME IInv, DInv, Fine, db.pc = "open"
    PROVE  /\ OnDisk(promised, Safe, logs, tables)
           /\ Recoverable(promised, Safe, manifests[current], logs, tables)
<1>1. PICK m : m = manifests[current]
  OBVIOUS
<1>2. /\ m \in Manifest /\ m.synced <= Len(m.data) /\ Len(m.data) \in Nat /\ m.synced \in Nat
      /\ SoundManifest(m, tables) /\ DOMAIN logs \subseteq Nat /\ db.logfile \in DOMAIN logs
      /\ \A k \in Kept(m) : k \in 1 .. Len(m.data) /\ Readable(m, k) /\ Full(m.data[k])
  BY <1>1, OpenFacts
<1>3. db.log_number \in Nat /\ db.logfile \in Nat /\ db.log_number <= db.logfile
  BY DEF IInv, ProcessType, DB, ProcessInv, OpenInv
<1>4. ASSUME NEW k \in Kept(m)
      PROVE  /\ m.data[k].log \in Nat /\ TablesOf(db.version, tables) \subseteq TablesOf(Ver(m.data, k), tables)
             /\ m.data[k].log <= db.logfile
             /\ m.data[k].log <= db.log_number \/ UNION db.imm \subseteq TablesOf(Ver(m.data, k), tables)
  <2>1. m.data[k].log \in Nat
    BY <1>2, ManifestLemma
  <2>2. Covers(m, k, db, tables)
    BY <1>1, Zenon DEF DInv, ContentsInv
  <2> QED
    BY <2>1, <2>2 DEF Covers
<1>5. ASSUME NEW k \in Kept(m), NEW T, NEW g, T = TablesOf(Ver(m.data, k), tables), g = m.data[k].log
      PROVE  Safe \subseteq Ids(T \cup SafeFrom(g, logs))
  <2>1. Safe \subseteq Ids(TablesOf(db.version, tables) \cup SafeFrom(db.log_number, logs))
    BY Zenon DEF DInv, ContentsInv
  <2>2. /\ g \in Nat /\ TablesOf(db.version, tables) \subseteq T /\ g <= db.logfile
        /\ g <= db.log_number \/ UNION db.imm \subseteq T
    BY <1>4, <1>5, Zenon
  <2>3. ASSUME NEW x \in SafeFrom(db.log_number, logs)
        PROVE  x \in T \cup SafeFrom(g, logs)
    <3>1. PICK n \in DOMAIN logs : n >= db.log_number /\ \E i \in 1 .. logs[n].synced : x \in logs[n].data[i]
      BY <2>3, InLogs
    <3>2. PICK i \in 1 .. logs[n].synced : x \in logs[n].data[i]
      BY <3>1
    <3>3. CASE n >= g
      BY <3>2, <3>3, InLogs
    <3>4. CASE ~(n >= g)
      <4>1. n < db.logfile /\ db.log_number <= n /\ UNION db.imm \subseteq T
        BY <1>2, <1>3, <2>2, <3>1, <3>4
      <4>2. i \in DOMAIN logs[n].data
        <5>1. logs[n].data \in Seq(SUBSET Entry) /\ logs[n].synced \in Nat /\ logs[n].synced <= Len(logs[n].data)
          BY DEF IInv, DirType, Files, Log, DirInv, FilesInv
        <5> QED
          BY <5>1
      <4>3. logs[n].data[i] \subseteq UNION db.imm
        BY <4>1, <4>2, Zenon DEF DInv, ContentsInv
      <4> QED
        BY <3>2, <4>1, <4>3
    <3> QED
      BY <3>3, <3>4
  <2>4. TablesOf(db.version, tables) \cup SafeFrom(db.log_number, logs) \subseteq T \cup SafeFrom(g, logs)
    BY <2>2, <2>3
  <2> QED
    BY <2>1, <2>4, IdsGrow
<1>6. ASSUME NEW k \in Kept(m), NEW T, NEW g, T = TablesOf(Ver(m.data, k), tables), g = m.data[k].log
      PROVE  promised \subseteq Ids(T \cup LogsFrom(g, logs))
  <2>1. promised \subseteq Ids(Contents) /\ Contents = db.mem \cup (UNION db.imm) \cup TablesOf(db.version, tables)
    BY DEF DInv, ContentsInv, Contents, TablesOf
  <2>2. /\ g \in Nat /\ TablesOf(db.version, tables) \subseteq T /\ g <= db.logfile
        /\ g <= db.log_number \/ UNION db.imm \subseteq T
    BY <1>4, <1>6, Zenon
  <2>3. ASSUME NEW x \in db.mem PROVE x \in LogsFrom(g, logs)
    <3>1. \E i \in DOMAIN logs[db.logfile].data : x \in logs[db.logfile].data[i]
      BY DEF DInv, ContentsInv
    <3>2. db.logfile >= g
      BY <1>3, <2>2
    <3> QED
      BY <1>2, <3>1, <3>2, InLogs
  <2>4. ASSUME NEW x \in UNION db.imm PROVE x \in T \cup LogsFrom(g, logs)
    <3>1. PICK n \in DOMAIN logs : n >= db.log_number /\ \E i \in DOMAIN logs[n].data : x \in logs[n].data[i]
      BY DEF DInv, ContentsInv
    <3>2. n >= g \/ x \in T
      BY <1>2, <1>3, <2>2, <3>1
    <3> QED
      BY <3>1, <3>2, InLogs
  <2>5. Contents \subseteq T \cup LogsFrom(g, logs)
    BY <2>1, <2>2, <2>3, <2>4
  <2> QED
    BY <2>1, <2>5, IdsGrow
<1>7. Len(m.data) \in Kept(m) /\ Readable(m, Len(m.data))
  BY <1>2 DEF Kept
<1>8. Recoverable(promised, Safe, m, logs, tables)
  BY <1>5, <1>6, <1>7, Zenon DEF Recoverable
<1>9. OnDisk(promised, Safe, logs, tables)
  BY <1>2, <1>7, <1>8, DiskHasIt
<1> QED
  BY <1>1, <1>8, <1>9

\* What a process leaves behind.
LEMMA LeftBehind ==
    ASSUME IInv, DInv, Fine
    PROVE  /\ OnDisk(promised, Safe, logs, tables)
           /\ repair = NoRepair /\ "repair" \notin odd /\ current \in DOMAIN manifests =>
                 Recoverable(promised, Safe, manifests[current], logs, tables)
<1>1. CASE db.pc = "open"
  BY <1>1, OpenIsRecoverable
<1>2. CASE db.pc # "open"
  BY <1>2, Zenon DEF DInv, DiskInv
<1> QED
  BY <1>1, <1>2

\* A process ends: what matters is on disk.
LEMMA ClosedDurable ==
    ASSUME db'.pc = "closed", Fine' /\ current' = NULL => promised' = {},
           Fine' => OnDisk(promised', Safe', logs', tables'),
           Fine' /\ repair' = NoRepair /\ "repair" \notin odd' /\ current' \in DOMAIN manifests' =>
              Recoverable(promised', Safe', manifests'[current'], logs', tables')
    PROVE  DInv'
<1>1. db'.pc # "open" /\ db'.pc # "logs" /\ db'.pc \notin {"sync", "current", "install"}
  OBVIOUS
<1>2. DiskInv'
  BY Zenon DEF DiskInv
<1>3. RecoveryInv'
  BY <1>1, Zenon DEF RecoveryInv
<1>4. ContentsInv'
  BY <1>1, Zenon DEF ContentsInv
<1> QED
  BY <1>2, <1>3, <1>4 DEF DInv

\* Closing the database, and crashes, keep the invariant.
LEMMA LeavingKeepsInv ==
    ASSUME NumberFacts
    PROVE  IInv /\ (Close \/ ProcessCrash \/ MachineCrash) => IInv'
\* A process is gone and leaves files behind.
<1>GoneStep. ASSUME IInv, Gone, spent' \in Spent, spent'.writes = spent.writes, bound' = bound, synced' = synced,
                    DirType', FilesInv', CurrentInv', CompleteInv',
                    DOMAIN logs' = DOMAIN logs, tables' = tables,
                    \A n \in DOMAIN logs : \A i \in DOMAIN logs'[n].data :
                       i \in DOMAIN logs[n].data /\ logs'[n].data[i] = logs[n].data[i]
             PROVE  IInv'
  <2> USE <1>GoneStep
  <2>1. /\ db' = Closed /\ queue' = <<>> /\ group' = NoGroup /\ bg' = Quiet /\ repair' = NoRepair
    BY DEF Gone
  <2>2. /\ Closed \in DB /\ Closed.mem = {} /\ Closed.imm = {} /\ Closed.pc = "closed" /\ Closed.version = {}
    BY DEF Closed, DB
  <2>3. DirType /\ EntriesInv /\ ProcessType /\ QueueInv
    BY DEF IInv, DirInv, ProcessInv
  <2>4. EntriesInv'
    <3>1. Held(db'.mem, db'.imm, tables', logs') \subseteq Held(db.mem, db.imm, tables, logs)
      BY <2>1, <2>2, HeldLemma
    <3> QED
      BY <2>3, <3>1, EntriesStay
  <2>5. PhaseInv' /\ LogsInv' /\ EndInv' /\ RepairInv'
    <3>1. NoRepair.pc = "none"
      BY DEF NoRepair
    <3> QED
      BY <2>1, <2>2, <3>1 DEF PhaseInv, LogsInv, EndInv, RepairInv
  <2>6. ProcessType' /\ ProcessInv'
    <3>1. repair' \in [pc : {"none", "logs", "current"}, next : Nat, found : SUBSET Nat]
      BY <2>1 DEF NoRepair
    <3>2. db' \in DB /\ db'.pc # "open"
      BY <2>1, <2>2
    <3> QED
      BY <2>1, <2>3, <3>1, <3>2, NotOpen
  <2> QED
    BY <2>4, <2>5, <2>6 DEF IInv, DirInv, OpeningInv
\* A process that leaves the files as they are.
<1>GoneQuietly. ASSUME IInv, Gone, UNCHANGED dir, spent' \in Spent, spent'.writes = spent.writes,
                       bound' = bound, synced' = synced, Trusted' => Trusted /\ repair = NoRepair
                PROVE  IInv'
  <2> USE <1>GoneQuietly
  <2>1. logs' = logs /\ manifests' = manifests /\ tables' = tables /\ current' = current
    BY DEF dir
  <2>2. DirType' /\ FilesInv' /\ CurrentInv'
    BY DirStays DEF IInv, DirInv
  <2>3. CompleteInv'
    BY <2>1, Zenon DEF IInv, DirInv, CompleteInv
  <2> QED
    BY <2>1, <2>2, <2>3, <1>GoneStep
\* The database is closed.
<1>CloseStep. ASSUME IInv, Close
              PROVE  IInv'
  <2> USE <1>CloseStep
  <2>1. /\ db.pc = "open" /\ Gone /\ UNCHANGED dir /\ spent' = spent /\ bound' = bound /\ odd' = odd
        /\ synced' = synced
    BY DEF Close, promises
  <2>2. spent \in Spent /\ repair = NoRepair
    BY <2>1 DEF IInv, ProcessType, OpeningInv, PhaseInv
  <2>3. Trusted' => Trusted /\ repair = NoRepair
    BY <2>1, <2>2 DEF Trusted
  <2> QED
    BY <2>1, <2>2, <2>3, <1>GoneQuietly
\* The process is killed.
<1>ProcessCrashStep. ASSUME IInv, ProcessCrash
                     PROVE  IInv'
  <2> USE <1>ProcessCrashStep
  <2>1. /\ Crashes /\ odd' = odd \cup Interrupted /\ UNCHANGED dir /\ bound' = bound /\ synced' = synced
    BY DEF ProcessCrash, promises
  <2>2. Trusted' => Trusted /\ repair = NoRepair
    BY <2>1, CrashFacts DEF Trusted
  <2> QED
    BY <2>1, <2>2, CrashFacts, <1>GoneQuietly
\* CURRENT after a crash of the machine.
<1>CurrentCut. ASSUME IInv, manifests' \in Cuts(manifests), current' = current, tables' = tables
               PROVE  CurrentInv'
  <2> USE <1>CurrentCut
  <2>1. FilesInv /\ CurrentInv /\ Files(manifests, Manifest)
    BY DEF IInv, DirInv, DirType
  <2>2. SUFFICES ASSUME current \in DOMAIN manifests
                PROVE  SoundManifest(manifests'[current], tables) /\ NumbersAfter(current, manifests'[current])
    BY CutsLemma, Zenon DEF CurrentInv
  <2>3. PICK m \in Manifest : m = manifests[current]
    BY <2>1, <2>2 DEF Files
  <2>4. PICK k \in Kept(m) : manifests'[current] = Written(SubSeq(m.data, 1, k), k)
    BY <2>2, <2>3, CutsLemma DEF Kept
  <2>5. Orderly(m.data)
    BY <2>1, <2>2, <2>3, Zenon DEF FilesInv
  <2>6. PICK c : c = Written(SubSeq(m.data, 1, k), k) /\ c = manifests'[current]
    BY <2>4
  <2>7. /\ c \in Manifest /\ Len(c.data) = k /\ k \in Nat
        /\ Kept(c) = {k} /\ Ver(c.data, k) = Ver(m.data, k) /\ (k # 0 => c.data[k] = m.data[k])
    BY <2>4, <2>5, <2>6, ManifestCut
  <2>8. SoundManifest(m, tables) /\ NumbersAfter(current, m)
    BY <2>1, <2>2, <2>3, Zenon DEF CurrentInv
  <2>9. ASSUME Readable(c, k)
        PROVE  Sound(c, k, tables) /\ (current # 1 => current < c.data[k].next)
    <3>1. k # 0 /\ c.data[k] = m.data[k] /\ Readable(m, k)
      BY <2>7, <2>9 DEF Readable
    <3>2. Sound(m, k, tables) /\ (current # 1 => current < m.data[k].next)
      BY <2>8, <3>1 DEF SoundManifest, NumbersAfter
    <3>3. c.data[k].next <= c.data[k].next
      <4>1. k \in 1 .. Len(c.data)
        BY <2>7, <3>1
      <4>2. c.data[k].next \in Nat
        BY <2>7, <2>9, <4>1, ManifestLemma DEF Readable
      <4> QED
        BY <4>2
    <3> QED
      BY <2>7, <3>1, <3>2, <3>3, Zenon DEF Sound
  <2> QED
    BY <2>6, <2>7, <2>9, Zenon DEF SoundManifest, NumbersAfter
\* After a crash of the machine CURRENT names a MANIFEST that can be read, unless it was
\* never synced.
<1>CompleteCut. ASSUME IInv, MachineCrash
                PROVE  CompleteInv'
  <2> USE <1>CompleteCut
  <2>1. /\ Crashes /\ manifests' \in Cuts(manifests) /\ current' = current
        /\ odd \cup Interrupted \subseteq odd'
        /\ current = 1 /\ (1 \in DOMAIN manifests => ~Complete(manifests'[1].data)) => "unsynced" \in odd'
    BY DEF MachineCrash
  <2>2. FilesInv /\ CompleteInv /\ Files(manifests, Manifest)
    BY DEF IInv, DirInv, DirType
  <2>3. SUFFICES ASSUME current # NULL, Trusted'
                PROVE  /\ current \in DOMAIN manifests'
                       /\ LET m == manifests'[current]
                          IN IF current = 1 THEN Readable(m, Len(m.data)) ELSE m.synced >= 2
    BY <2>1, Zenon DEF CompleteInv
  <2>4. Trusted /\ repair = NoRepair /\ "unsynced" \notin odd'
    BY <2>1, <2>3, CrashFacts DEF Trusted
  <2>5. /\ current \in DOMAIN manifests
        /\ current # 1 => manifests[current].synced >= 2
    BY <2>2, <2>3, <2>4 DEF CompleteInv
  <2>6. DOMAIN manifests' = DOMAIN manifests
    BY <2>1, CutsLemma
  <2>7. PICK m \in Manifest : m = manifests[current]
    BY <2>2, <2>5 DEF Files
  <2>8. PICK k \in Kept(m) : manifests'[current] = Written(SubSeq(m.data, 1, k), k)
    BY <2>1, <2>5, <2>7, CutsLemma DEF Kept
  <2>9. Orderly(m.data)
    BY <2>2, <2>5, <2>7, Zenon DEF FilesInv
  <2>10. PICK c : c = Written(SubSeq(m.data, 1, k), k) /\ c = manifests'[current]
    BY <2>8
  <2>11. c \in Manifest /\ Len(c.data) = k /\ k \in Nat /\ c.synced = k /\ Orderly(c.data)
    BY <2>8, <2>9, <2>10, ManifestCut
  <2>12. CASE current = 1
    <3>1. Complete(c.data)
      BY <2>1, <2>4, <2>5, <2>10, <2>12
    <3>2. c.data \in Seq(Edit)
      BY <2>11 DEF Manifest
    <3>3. Readable(c, Len(c.data))
      BY <2>11, <3>1, <3>2, CompleteLemma DEF Readable
    <3> QED
      BY <2>5, <2>6, <2>10, <2>12, <3>3
  <2>13. CASE current # 1
    <3>1. k >= 2
      BY <2>5, <2>7, <2>13 DEF Kept, Manifest
    <3> QED
      BY <2>5, <2>6, <2>10, <2>11, <2>13, <3>1
  <2> QED
    BY <2>12, <2>13
\* The machine crashes.
<1>MachineCrashStep. ASSUME IInv, MachineCrash
                     PROVE  IInv'
  <2> USE <1>MachineCrashStep
  <2>1. /\ Crashes /\ logs' \in Cuts(logs) /\ manifests' \in Cuts(manifests) /\ tables' = tables
        /\ current' = current /\ synced' = synced /\ bound' = bound
    BY DEF MachineCrash
  <2>2. FilesInv /\ DirType
    BY DEF IInv, DirInv
  <2>3. DOMAIN logs' = DOMAIN logs /\ DOMAIN manifests' = DOMAIN manifests
    BY <2>1, CutsLemma
  <2>4. ASSUME NEW n \in DOMAIN logs
        PROVE  /\ logs'[n] \in Log /\ logs'[n].synced <= Len(logs'[n].data)
               /\ \A i \in DOMAIN logs'[n].data :
                     i \in DOMAIN logs[n].data /\ logs'[n].data[i] = logs[n].data[i]
    <3>1. PICK log \in Log : log = logs[n]
      BY <2>2 DEF DirType, Files
    <3>2. PICK k \in log.synced .. Len(log.data) : logs'[n] = Written(SubSeq(log.data, 1, k), k)
      BY <2>1, <3>1, CutsLemma
    <3>3. k \in Nat
      BY <3>1, <3>2 DEF Log
    <3> QED
      BY <3>1, <3>2, <3>3, LogCut
  <2>5. ASSUME NEW n \in DOMAIN manifests
        PROVE  /\ manifests'[n] \in Manifest /\ manifests'[n].synced <= Len(manifests'[n].data)
               /\ Orderly(manifests'[n].data)
    <3>1. PICK m \in Manifest : m = manifests[n]
      BY <2>2 DEF DirType, Files
    <3>2. PICK k \in Kept(m) : manifests'[n] = Written(SubSeq(m.data, 1, k), k)
      BY <2>1, <3>1, CutsLemma DEF Kept
    <3>3. Orderly(m.data)
      BY <2>2, <3>1, Zenon DEF FilesInv
    <3>4. PICK c : c = Written(SubSeq(m.data, 1, k), k) /\ c = manifests'[n]
      BY <3>2
    <3>5. c \in Manifest /\ Len(c.data) = k /\ k \in Nat /\ c.synced = k /\ Orderly(c.data)
      BY <3>2, <3>3, <3>4, ManifestCut
    <3> QED
      BY <3>4, <3>5
  <2>6. DirType'
    <3>1. logs' = [n \in DOMAIN logs |-> logs'[n]] /\ manifests' = [n \in DOMAIN manifests |-> manifests'[n]]
      BY <2>1 DEF Cuts
    <3>2. logs' \in [DOMAIN logs -> Log] /\ manifests' \in [DOMAIN manifests -> Manifest]
      BY <2>4, <2>5, <3>1, Zenon
    <3> QED
      BY <2>1, <2>2, <2>3, <3>2, Zenon DEF DirType, Files
  <2>7. FilesInv'
    BY <2>3, <2>4, <2>5, Zenon DEF FilesInv
  <2>8. CurrentInv' /\ CompleteInv'
    BY <2>1, <1>CurrentCut, <1>CompleteCut
  <2> QED
    BY <2>1, <2>3, <2>4, <2>6, <2>7, <2>8, CrashFacts, <1>GoneStep
<1> QED
  BY <1>CloseStep, <1>ProcessCrashStep, <1>MachineCrashStep

\* Closing the database, and crashes, keep what is promised.
LEMMA LeavingIsDurable ==
    ASSUME NumberFacts
    PROVE  IInv /\ IInv' /\ DInv /\ (Close \/ ProcessCrash \/ MachineCrash) => DInv'
\* The database is closed or the process is killed.
<1>GoneDurable. ASSUME IInv, DInv, Gone, UNCHANGED <<dir, promises>>, odd \cup Interrupted = odd' \/ (odd' = odd /\ repair = NoRepair)
                PROVE  DInv'
  <2> USE <1>GoneDurable
  <2>1. /\ logs' = logs /\ tables' = tables /\ manifests' = manifests /\ current' = current
        /\ promised' = promised /\ Safe' = Safe /\ db'.pc = "closed"
    BY DEF dir, promises, Safe, Gone, Closed
  <2>2. /\ Fine' => Fine
        /\ "repair" \notin odd' => "repair" \notin odd /\ repair = NoRepair
    BY DEF Interrupted, Fine
  <2>3. Fine' /\ current' = NULL => promised' = {}
    BY <2>1, <2>2 DEF DInv, RecoveryInv
  <2>4. Fine' => /\ OnDisk(promised', Safe', logs', tables')
                 /\ "repair" \notin odd' /\ current' \in DOMAIN manifests' =>
                      Recoverable(promised', Safe', manifests'[current'], logs', tables')
    BY <2>1, <2>2, LeftBehind, Zenon
  <2> QED
    BY <2>1, <2>3, <2>4, ClosedDurable
\* The database is closed.
<1>CloseDurable. ASSUME IInv, DInv, Close
                 PROVE  DInv'
  <2> USE <1>CloseDurable
  <2>1. Gone /\ UNCHANGED <<dir, promises>> /\ odd' = odd /\ db.pc = "open"
    BY DEF Close
  <2>2. repair = NoRepair
    BY <2>1 DEF IInv, OpeningInv, PhaseInv
  <2> QED
    BY <2>1, <2>2, <1>GoneDurable
\* The process is killed.
<1>ProcessCrashDurable. ASSUME IInv, DInv, ProcessCrash
                        PROVE  DInv'
  <2> USE <1>ProcessCrashDurable
  <2>1. Gone /\ UNCHANGED <<dir, promises>> /\ odd' = odd \cup Interrupted
    BY DEF ProcessCrash, Crashes
  <2> QED
    BY <2>1, <1>GoneDurable
\* A crash of the machine leaves of a log what was synced.
<1>LogsCut. ASSUME NEW ls, Files(ls, Log), \A n \in DOMAIN ls : ls[n].synced <= Len(ls[n].data),
                   NEW ks \in Cuts(ls), NEW l
            PROVE  SafeFrom(l, ls) \subseteq SafeFrom(l, ks) /\ SafeFrom(l, ks) \subseteq LogsFrom(l, ks)
  <2> USE <1>LogsCut
  <2>1. ASSUME NEW n \in DOMAIN ls
        PROVE  /\ n \in DOMAIN ks /\ DOMAIN ks[n].data = 1 .. ks[n].synced
               /\ \A i \in 1 .. ls[n].synced : i \in 1 .. ks[n].synced /\ ks[n].data[i] = ls[n].data[i]
    <3>1. n \in DOMAIN ks /\ \E k \in ls[n].synced .. Len(ls[n].data) : ks[n] = Written(SubSeq(ls[n].data, 1, k), k)
      BY CutsLemma
    <3>2. PICK k \in ls[n].synced .. Len(ls[n].data) : ks[n] = Written(SubSeq(ls[n].data, 1, k), k)
      BY <3>1
    <3>3. PICK log \in Log : log = ls[n]
      BY DEF Files
    <3>4. k \in log.synced .. Len(log.data) /\ ks[n] = Written(SubSeq(log.data, 1, k), k)
      BY <3>2, <3>3
    <3>5. /\ ks[n].synced = k /\ DOMAIN ks[n].data = 1 .. k
          /\ \A i \in DOMAIN ks[n].data : ks[n].data[i] = log.data[i]
      BY <3>4, LogCut
    <3>6. log.synced \in Nat /\ Len(log.data) \in Nat
      BY DEF Log
    <3>7. \A i \in 1 .. log.synced : i \in 1 .. k
      BY <3>4, <3>6
    <3> QED
      BY <3>1, <3>3, <3>5, <3>7
  <2>2. DOMAIN ks = DOMAIN ls
    BY CutsLemma
  <2>3. SafeFrom(l, ls) \subseteq SafeFrom(l, ks)
    BY <2>1, InLogs
  <2>4. SafeFrom(l, ks) \subseteq LogsFrom(l, ks)
    <3>1. \A n \in DOMAIN ks : DOMAIN ks[n].data = 1 .. ks[n].synced
      BY <2>1, <2>2
    <3> QED
      BY <3>1, InLogs, Zenon
  <2> QED
    BY <2>3, <2>4
\* A crash of the machine: what was acknowledged with sync is in the part of the files
\* that is left.
<1>MachineCrashDurable. ASSUME IInv, DInv, MachineCrash
                        PROVE  DInv'
  <2> USE <1>MachineCrashDurable
  <2>1. /\ Gone /\ logs' \in Cuts(logs) /\ manifests' \in Cuts(manifests) /\ tables' = tables
        /\ promised' = promised \cap synced /\ current' = current /\ synced' = synced
        /\ odd \cup Interrupted \subseteq odd'
    BY DEF MachineCrash, Crashes
  <2>2. promised' = Safe /\ Safe' = Safe /\ db'.pc = "closed"
    BY <2>1 DEF Safe, Gone, Closed
  <2>3. /\ Fine' => Fine
        /\ "repair" \notin odd' => "repair" \notin odd /\ repair = NoRepair
    BY <2>1 DEF Interrupted, Fine
  <2>4. Fine' /\ current' = NULL => promised' = {}
    BY <2>1, <2>3 DEF DInv, RecoveryInv
  <2>5. PICK ks, ms : ks = logs' /\ ms = manifests'
    OBVIOUS
  <2>6. /\ Files(logs, Log) /\ Files(manifests, Manifest)
        /\ \A n \in DOMAIN logs : logs[n].synced <= Len(logs[n].data)
        /\ \A n \in DOMAIN manifests : Orderly(manifests[n].data)
    BY DEF IInv, DirType, DirInv, FilesInv
  <2>7. ASSUME NEW l PROVE SafeFrom(l, logs) \subseteq SafeFrom(l, ks) /\ SafeFrom(l, ks) \subseteq LogsFrom(l, ks)
    BY <2>1, <2>5, <2>6, <1>LogsCut
  <2>8. ASSUME NEW T, NEW l, Safe \subseteq Ids(T \cup SafeFrom(l, logs))
        PROVE  Safe \subseteq Ids(T \cup SafeFrom(l, ks)) /\ Safe \subseteq Ids(T \cup LogsFrom(l, ks))
    <3>1. /\ T \cup SafeFrom(l, logs) \subseteq T \cup SafeFrom(l, ks)
          /\ T \cup SafeFrom(l, ks) \subseteq T \cup LogsFrom(l, ks)
      BY <2>7
    <3>2. Ids(T \cup SafeFrom(l, logs)) \subseteq Ids(T \cup SafeFrom(l, ks))
      BY <3>1, IdsGrow
    <3>3. Ids(T \cup SafeFrom(l, ks)) \subseteq Ids(T \cup LogsFrom(l, ks))
      BY <3>1, IdsGrow
    <3> QED
      BY <2>8, <3>2, <3>3
  <2>9. ASSUME Fine' PROVE OnDisk(Safe, Safe, ks, tables)
    <3>1. Safe \subseteq Ids(AllEntries(tables) \cup SafeFrom(0, logs))
      BY <2>3, <2>9, LeftBehind DEF OnDisk
    <3> QED
      BY <2>8, <3>1, Zenon DEF OnDisk
  <2>10. ASSUME Fine', "repair" \notin odd', current \in DOMAIN ms
         PROVE  Recoverable(Safe, Safe, ms[current], ks, tables)
    <3>1. PICK m, c : m = manifests[current] /\ c = ms[current]
      OBVIOUS
    <3>2. current \in DOMAIN manifests /\ \E k \in m.synced .. Len(m.data) : c = Written(SubSeq(m.data, 1, k), k)
      BY <2>1, <2>5, <2>10, <3>1, CutsLemma
    <3>3. m \in Manifest /\ Orderly(m.data) /\ Recoverable(promised, Safe, m, logs, tables)
      BY <2>3, <2>6, <2>10, <3>1, <3>2, LeftBehind DEF Files
    <3>4. PICK k \in Kept(m) : c = Written(SubSeq(m.data, 1, k), k)
      BY <3>2, Zenon DEF Kept
    <3>5. /\ Len(c.data) = k /\ Kept(c) = {k} /\ Ver(c.data, k) = Ver(m.data, k)
          /\ k # 0 => c.data[k] = m.data[k]
      BY <3>3, <3>4, ManifestCut
    <3>6. CASE Readable(c, k)
      <4>1. Readable(m, k) /\ c.data[k] = m.data[k]
        BY <3>5, <3>6 DEF Readable
      <4>2. Safe \subseteq Ids(TablesOf(Ver(m.data, k), tables) \cup SafeFrom(m.data[k].log, logs))
        BY <3>3, <3>4, <4>1, Zenon DEF Recoverable
      <4>3. /\ Safe \subseteq Ids(TablesOf(Ver(c.data, k), tables) \cup SafeFrom(c.data[k].log, ks))
            /\ Safe \subseteq Ids(TablesOf(Ver(c.data, k), tables) \cup LogsFrom(c.data[k].log, ks))
        BY <2>8, <3>5, <4>1, <4>2, Zenon
      <4> QED
        BY <3>1, <3>5, <4>3, Zenon DEF Recoverable
    <3>7. CASE ~Readable(c, k)
      BY <3>1, <3>5, <3>7, Zenon DEF Recoverable
    <3> QED
      BY <3>6, <3>7
  <2>11. /\ Fine' => OnDisk(promised', Safe', logs', tables')
         /\ Fine' /\ "repair" \notin odd' /\ current' \in DOMAIN manifests' =>
               Recoverable(promised', Safe', manifests'[current'], logs', tables')
    BY <2>1, <2>2, <2>5, <2>9, <2>10, Zenon
  <2> QED
    BY <2>2, <2>4, <2>11, ClosedDurable
<1> QED
  BY <1>CloseDurable, <1>ProcessCrashDurable, <1>MachineCrashDurable

-----------------------------------------------------------------------------
(* RepairDB.                                                               *)

\* One more open, or run of RepairDB, is counted.
LEMMA SpentOnOpen ==
    \A s \in Spent : /\ [s EXCEPT !.opens = @ + 1] \in Spent
                     /\ [s EXCEPT !.opens = @ + 1].writes = s.writes
BY DEF Spent

\* RepairDB runs while the database is closed, and there is no entry but on disk.
LEMMA RepairFacts ==
    ASSUME IInv, repair.pc # "none"
    PROVE  /\ db = Closed /\ Closed.mem = {} /\ Closed.imm = {} /\ repair.next \in Nat
           /\ repair.found \in SUBSET Nat /\ NoRepair.pc = "none" /\ spent \in Spent
           /\ repair \in [pc : {"none", "logs", "current"}, next : Nat, found : SUBSET Nat]
<1>1. /\ repair \in [pc : {"none", "logs", "current"}, next : Nat, found : SUBSET Nat]
      /\ db = Closed /\ spent \in Spent
  BY DEF IInv, ProcessType, RepairInv
<1> QED
  BY <1>1 DEF Closed, NoRepair

\* The tables after ConvertLogToTable.
LEMMA ConvertedTables ==
    ASSUME IInv, repair.pc # "none", NEW n \in DOMAIN logs, ConvertLogToTable(n)
    PROVE  /\ Files(tables', SUBSET Entry)
           /\ DOMAIN tables \subseteq DOMAIN tables'
           /\ \A i \in DOMAIN tables : tables'[i] = tables[i]
           /\ \A i \in DOMAIN tables' : i \notin DOMAIN tables =>
                 i = repair.next /\ tables'[i] = EntriesOf(logs[n])
           /\ EntriesOf(logs[n]) # {} => repair.next \in DOMAIN tables'
           /\ repair'.pc = "logs" /\ repair'.next = repair.next + 1 /\ repair'.found = DOMAIN tables'
           /\ repair' \in [pc : {"none", "logs", "current"}, next : Nat, found : SUBSET Nat]
<1>1. PICK data : data = EntriesOf(logs[n])
  OBVIOUS
<1>2. /\ repair.pc = "logs" /\ tables' = (IF data = {} THEN tables ELSE Put(tables, repair.next, data))
      /\ repair' = [repair EXCEPT !.next = @ + 1,
                       !.found = IF data = {} THEN @ ELSE @ \cup {repair.next}]
  BY <1>1, ZenonT(60) DEF ConvertLogToTable
<1>3. /\ Files(tables, SUBSET Entry) /\ repair.next \in Nat /\ repair.found = DOMAIN tables
      /\ \A i \in DOMAIN tables : i < repair.next
  BY RepairFacts DEF IInv, DirType, RepairInv
<1>4. data \in SUBSET Entry
  <2>1. logs[n] \in Log
    BY DEF IInv, DirType, Files
  <2>2. logs[n].data \in Seq(SUBSET Entry)
    BY <2>1 DEF Log
  <2> QED
    BY <1>1, <2>2 DEF EntriesOf, Range
<1>5. PICK b \in Nat : b = repair.next
  BY <1>3
<1>6. /\ Files(tables', SUBSET Entry)
      /\ DOMAIN tables' = IF data = {} THEN DOMAIN tables ELSE DOMAIN tables \cup {b}
      /\ \A i \in DOMAIN tables : tables'[i] = tables[i]
      /\ \A i \in DOMAIN tables' : i \notin DOMAIN tables => i = b /\ tables'[i] = data
  <2>1. CASE data = {}
    BY <1>2, <1>3, <2>1
  <2>2. CASE data # {}
    <3>1. b \notin DOMAIN tables /\ tables' = Put(tables, b, data)
      BY <1>2, <1>3, <1>5, <2>2
    <3> QED
      BY <1>3, <1>4, <2>2, <3>1 DEF Files, Put
  <2> QED
    BY <2>1, <2>2
<1>7. /\ repair'.pc = "logs" /\ repair'.next = repair.next + 1 /\ repair'.found = DOMAIN tables'
      /\ repair' \in [pc : {"none", "logs", "current"}, next : Nat, found : SUBSET Nat]
  <2>1. PICK F \in SUBSET Nat : F = (IF data = {} THEN repair.found ELSE repair.found \cup {repair.next})
    BY RepairFacts, Zenon
  <2>2. PICK N \in Nat : N = repair.next + 1
    BY <1>3
  <2>3. repair' = [repair EXCEPT !.next = N, !.found = F]
    BY <1>2, <2>1, <2>2
  <2>4. F = DOMAIN tables'
    BY <1>3, <1>5, <1>6, <2>1
  <2> QED
    BY <1>2, <2>2, <2>3, <2>4, RepairFacts, Zenon
<1> QED
  BY <1>1, <1>5, <1>6, <1>7, Zenon

\* It is sound.
LEMMA RepairDescriptorIsSound ==
    ASSUME NumberFacts, IInv, repair.pc # "none"
    PROVE  /\ RepairDescriptor \in Manifest /\ RepairDescriptor.synced <= Len(RepairDescriptor.data)
           /\ Orderly(RepairDescriptor.data) /\ SoundManifest(RepairDescriptor, tables)
           /\ Len(RepairDescriptor.data) = 1 /\ Readable(RepairDescriptor, 1)
<1> DEFINE S == Seqs(AllEntries(tables))
<1>1. /\ repair.found = DOMAIN tables /\ \A n \in DOMAIN tables : n < repair.next
      /\ Files(tables, SUBSET Entry)
  BY DEF IInv, RepairInv, DirType
<1>2. AllEntries(tables) \subseteq Entry
  BY <1>1 DEF AllEntries, Files
<1>3. S \subseteq Nat /\ Bounded(S)
  <2>1. S \subseteq Nat
    BY <1>2 DEF Seqs, Entry
  <2>2. S \subseteq Seqs(Held(db.mem, db.imm, tables, logs))
    BY ZenonT(60) DEF Seqs, Held
  <2>3. Bounded(Seqs(Held(db.mem, db.imm, tables, logs)))
    BY DEF IInv, DirInv, EntriesInv
  <2> HIDE DEF S
  <2> QED
    BY <2>1, <2>2, <2>3, Zenon DEF Bounded
<1>4. Largest(S) \in Nat /\ \A y \in S : y <= Largest(S)
  <2> HIDE DEF S
  <2>1. PICK b \in Nat : \A y \in S : y <= b
    BY <1>3 DEF Bounded
  <2> QED
    BY <1>3, <2>1, LargestLemma
<1>5. PICK l \in Nat : l = Largest(S)
  BY <1>4
<1>6. PICK e \in Edit : /\ e = VersionEdit(0, repair.next, l, repair.found, {})
                        /\ e.log = 0 /\ e.next = repair.next /\ e.last = l /\ e.added = repair.found
  <2>1. PICK e : e = VersionEdit(0, repair.next, l, repair.found, {})
    OBVIOUS
  <2>2. e \in Edit /\ e.log = 0 /\ e.next = repair.next /\ e.last = l /\ e.added = repair.found
    BY <1>5, <2>1, RepairFacts DEF VersionEdit, Edit, Number
  <2> QED
    BY <2>1, <2>2, Zenon
<1>7. Full(e)
  BY <1>5, <1>6, RepairFacts, NullAssumption DEF Full
<1>8. PICK m : m = RepairDescriptor
  OBVIOUS
<1>9. m.data = <<e>> /\ m.synced = 0 /\ m = [data |-> <<e>>, synced |-> 0]
  BY <1>5, <1>6, <1>8 DEF RepairDescriptor, Written
<1>10. Len(m.data) = 1 /\ m.data[1] = e /\ m.data \in Seq(Edit) /\ DOMAIN m.data = {1}
  BY <1>9
<1>11. m \in Manifest /\ m.synced <= Len(m.data)
  BY <1>9, <1>10 DEF Manifest
<1>12. Orderly(m.data) /\ Readable(m, 1)
  BY <1>7, <1>10 DEF Orderly, Readable
<1>13. Sound(m, 1, tables)
  <2>1. Ver(m.data, 1) = DOMAIN tables
    BY <1>1, <1>6, <1>9, VersionOfOne
  <2>2. ASSUME NEW n \in DOMAIN tables, NEW x \in tables[n] PROVE x[1] <= l
    BY <1>4, <1>5 DEF Seqs, AllEntries
  <2>3. e.log <= e.next /\ e.next <= e.next
    BY <1>6, RepairFacts
  <2> QED
    BY <1>1, <1>6, <1>10, <2>1, <2>2, <2>3, Zenon DEF Sound
<1>14. SoundManifest(m, tables)
  <2>1. ASSUME NEW k \in Kept(m), Readable(m, k) PROVE k = 1
    BY <1>9, <1>10, <2>1 DEF Kept, Readable
  <2> QED
    BY <1>13, <2>1 DEF SoundManifest
<1> QED
  BY <1>8, <1>10, <1>11, <1>12, <1>14, Zenon

\* The steps of RepairDB keep the invariant.
LEMMA RepairKeepsInv ==
    ASSUME NumberFacts
    PROVE  IInv /\ (RepairBegins \/ Repairing) => IInv'
\* A step of RepairDB with the directory as it is now.
<1>RepairStep. ASSUME IInv, db = Closed, UNCHANGED NotRepairing, spent' \in Spent, spent'.writes = spent.writes,
                      repair' \in [pc : {"none", "logs", "current"}, next : Nat, found : SUBSET Nat],
                      DirType', FilesInv', CurrentInv', EntriesInv', CompleteInv', RepairInv'
               PROVE  IInv'
  <2> USE <1>RepairStep
  <2>1. /\ db' = Closed /\ queue' = queue /\ group' = group /\ bg' = bg /\ synced' = synced /\ bound' = bound
    BY ZenonT(60) DEF NotRepairing, promises
  <2>2. /\ Closed \in DB /\ Closed.pc = "closed" /\ Closed.version = {}
    BY DEF Closed, DB
  <2>3. ProcessType /\ QueueInv /\ queue = <<>> /\ group = NoGroup /\ bg = Quiet
    BY <2>2 DEF IInv, ProcessInv, OpeningInv, PhaseInv
  <2>4. PhaseInv' /\ LogsInv' /\ EndInv'
    BY <2>1, <2>2, <2>3 DEF PhaseInv, LogsInv, EndInv
  <2>5. db' \in DB /\ db'.pc # "open"
    BY <2>1, <2>2
  <2>6. ProcessType' /\ ProcessInv'
    BY <2>1, <2>3, <2>5, NotOpen
  <2> QED
    BY <2>4, <2>6 DEF IInv, DirInv, OpeningInv
\* RepairDB begins: the numbers of its tables come after those that it has found.
<1>RepairBeginsStep. ASSUME IInv, RepairBegins
                     PROVE  IInv'
  <2> USE <1>RepairBeginsStep
  <2> DEFINE D == DOMAIN logs \cup DOMAIN tables
  <2>1. /\ db.pc = "closed" /\ UNCHANGED NotRepairing /\ UNCHANGED dir
        /\ repair' = [pc |-> "logs", next |-> Largest(D) + 1, found |-> DOMAIN tables]
        /\ spent' = [spent EXCEPT !.opens = @ + 1]
    BY DEF RepairBegins
  <2>2. DirType /\ ProcessType /\ FilesInv /\ CurrentInv /\ EntriesInv /\ db = Closed
    BY <2>1 DEF IInv, DirInv, OpeningInv, PhaseInv
  <2>3. logs' = logs /\ tables' = tables /\ db' = db /\ DOMAIN tables \subseteq Nat
    BY <2>1, <2>2 DEF dir, NotRepairing, DirType, Files
  <2>4. D \subseteq Nat /\ Bounded(D)
    BY <2>2 DEF DirType, Files, EntriesInv
  <2> HIDE DEF D
  <2>5. Largest(D) \in Nat /\ \A n \in D : n <= Largest(D)
    <3>1. PICK b \in Nat : \A n \in D : n <= b
      BY <2>4 DEF Bounded
    <3> QED
      BY <2>4, <3>1, LargestLemma, Zenon
  <2>6. /\ repair' \in [pc : {"none", "logs", "current"}, next : Nat, found : SUBSET Nat]
        /\ repair'.pc = "logs" /\ repair'.found = DOMAIN tables /\ \A n \in D : n < repair'.next
    <3>1. PICK b \in Nat : b = Largest(D) + 1
      BY <2>5
    <3>2. \A n \in D : n < b
      BY <2>4, <2>5, <3>1
    <3> QED
      BY <2>1, <2>3, <3>1, <3>2
  <2>7. DirType' /\ FilesInv' /\ CurrentInv'
    BY <2>1, <2>2, DirStays
  <2>8. EntriesInv'
    BY <2>2, <2>3, Zenon DEF EntriesInv
  <2>9. CompleteInv' /\ RepairInv'
    <3>1. repair' # NoRepair
      BY <2>6 DEF NoRepair
    <3> QED
      BY <2>2, <2>3, <2>6, <3>1, Zenon DEF CompleteInv, RepairInv, D
  <2>10. spent' \in Spent /\ spent'.writes = spent.writes
    BY <2>1, <2>2, SpentOnOpen, ZenonT(60) DEF ProcessType
  <2> QED
    BY <2>1, <2>2, <2>6, <2>7, <2>8, <2>9, <2>10, <1>RepairStep
\* RepairDB makes a log into a table.
<1>ConvertLogToTableStep. ASSUME IInv, NEW n \in DOMAIN logs, ConvertLogToTable(n)
                          PROVE  IInv'
  <2> USE <1>ConvertLogToTableStep
  <2>1. /\ repair.pc = "logs" /\ UNCHANGED NotRepairing /\ manifests' = manifests /\ current' = current
        /\ spent' = spent /\ logs' = Restrict(logs, DOMAIN logs \ {n})
    BY DEF ConvertLogToTable
  <2>2. DirType /\ FilesInv /\ CurrentInv /\ EntriesInv /\ db' = db /\ RepairInv
    BY <2>1 DEF IInv, DirInv, NotRepairing
  <2>3. Files(logs, Log) /\ Files(manifests, Manifest) /\ current \in Number
    BY <2>2 DEF DirType
  <2>4. Files(logs', Log) /\ DOMAIN logs' = DOMAIN logs \ {n} /\ \A i \in DOMAIN logs' : logs'[i] = logs[i]
    BY <2>1, <2>3 DEF Files, Restrict
  <2>5. DirType' /\ FilesInv'
    <3>1. DirType'
      BY <2>1, <2>3, <2>4, ConvertedTables, Zenon DEF DirType
    <3> QED
      BY <2>1, <2>2, <2>4, <3>1, Zenon DEF FilesInv
  <2>6. CurrentInv'
    <3>1. DOMAIN tables \subseteq DOMAIN tables' /\ \A i \in DOMAIN tables : tables'[i] = tables[i]
      BY <2>1, ConvertedTables
    <3>2. PICK ts : ts = tables'
      OBVIOUS
    <3>3. ASSUME NEW m, SoundManifest(m, tables) PROVE SoundManifest(m, ts)
      BY <3>1, <3>2, <3>3, Zenon DEF SoundManifest, Sound
    <3> QED
      BY <2>1, <2>2, <3>2, <3>3, Zenon DEF CurrentInv
  <2>7. EntriesInv'
    <3>1. ASSUME NEW x \in EntriesOf(logs[n]) PROVE x \in Held(db.mem, db.imm, tables, logs)
      BY ZenonT(60) DEF Held
    <3>2. ASSUME NEW x \in Held(db'.mem, db'.imm, tables', logs') PROVE x \in Held(db.mem, db.imm, tables, logs)
      <4>1. PICK ts, ls : ts = tables' /\ ls = logs'
        BY Zenon
      <4>5. x \in Held(db.mem, db.imm, ts, ls)
        BY <2>2, <3>2, <4>1, Zenon
      <4>2. \/ x \in db.mem \/ \E M \in db.imm : x \in M
            \/ \E i \in DOMAIN ts : x \in ts[i]
            \/ \E i \in DOMAIN ls : \E j \in DOMAIN ls[i].data : x \in ls[i].data[j]
        BY <4>5, HeldLemma
      <4>3. CASE \E i \in DOMAIN ts : x \in ts[i]
        <5>1. x \in EntriesOf(logs[n]) \/ \E i \in DOMAIN tables : x \in tables[i]
          BY <2>1, <4>1, <4>3, ConvertedTables, Zenon
        <5> QED
          BY <3>1, <5>1, HeldLemma
      <4>4. CASE \E i \in DOMAIN ls : \E j \in DOMAIN ls[i].data : x \in ls[i].data[j]
        <5>1. \E i \in DOMAIN logs : \E j \in DOMAIN logs[i].data : x \in logs[i].data[j]
          BY <2>4, <4>1, <4>4, ZenonT(60)
        <5> QED
          BY <5>1, HeldLemma
      <4> QED
        BY <4>2, <4>3, <4>4, HeldLemma
    <3>3. DOMAIN logs' \cup DOMAIN tables' \subseteq DOMAIN logs \cup DOMAIN tables \cup {repair.next}
      BY <2>1, <2>4, ConvertedTables
    <3> QED
      BY <2>1, <2>2, <3>2, <3>3, RepairFacts, EntriesStay, Zenon
  <2>8. CompleteInv' /\ RepairInv'
    <3>1. repair' # NoRepair /\ repair'.pc = "logs"
      BY <2>1, ConvertedTables DEF NoRepair
    <3>2. \A i \in DOMAIN tables' \cup DOMAIN logs' : i < repair'.next
      <4>1. /\ \A i \in DOMAIN tables \cup DOMAIN logs : i < repair.next
            /\ DOMAIN tables \cup DOMAIN logs \subseteq Nat
        BY <2>1, <2>2 DEF RepairInv, DirType, Files
      <4> QED
        BY <2>1, <2>4, <4>1, RepairFacts, ConvertedTables
    <3> QED
      BY <2>1, <2>2, <3>1, <3>2, ConvertedTables, ZenonT(60) DEF CompleteInv, RepairInv
  <2> QED
    BY <2>1, <2>5, <2>6, <2>7, <2>8, RepairFacts, ConvertedTables, <1>RepairStep
\* RepairDB writes its MANIFEST.
<1>WriteDescriptorStep. ASSUME IInv, WriteDescriptor
                        PROVE  IInv'
  <2> USE <1>WriteDescriptorStep
  <2>1. /\ repair.pc = "logs" /\ DOMAIN logs = {} /\ UNCHANGED NotRepairing /\ logs' = logs /\ tables' = tables
        /\ current' = current /\ spent' = spent /\ manifests' = Put(NoFile, 1, RepairDescriptor)
        /\ repair' = [repair EXCEPT !.pc = "current"]
    BY DEF WriteDescriptor, RepairDescriptor
  <2>2. DirType /\ FilesInv /\ EntriesInv /\ db' = db /\ RepairInv
    BY <2>1 DEF IInv, DirInv, NotRepairing
  <2>3. PICK m \in Manifest : /\ m = RepairDescriptor /\ m.synced <= Len(m.data) /\ Orderly(m.data)
                              /\ SoundManifest(m, tables)
    BY <2>1, RepairDescriptorIsSound
  <2>4. DOMAIN manifests' = {1} /\ manifests'[1] = m /\ Files(manifests', Manifest)
    BY <2>1, <2>3 DEF Put, NoFile, Files
  <2>5. DirType' /\ FilesInv'
    <3>1. DirType'
      BY <2>1, <2>2, <2>4 DEF DirType
    <3> QED
      BY <2>1, <2>2, <2>3, <2>4, <3>1 DEF FilesInv
  <2>6. CurrentInv'
    <3>1. NumbersAfter(1, m)
      BY DEF NumbersAfter
    <3> QED
      BY <2>1, <2>3, <2>4, <3>1 DEF CurrentInv
  <2>7. EntriesInv'
    BY <2>1, <2>2, Zenon DEF EntriesInv
  <2>8. /\ repair' \in [pc : {"none", "logs", "current"}, next : Nat, found : SUBSET Nat]
        /\ repair'.pc = "current" /\ repair'.next = repair.next /\ repair'.found = repair.found
    BY <2>1, RepairFacts
  <2>9. CompleteInv' /\ RepairInv'
    <3>1. repair' # NoRepair
      BY <2>8 DEF NoRepair
    <3>2. manifests' = Put(NoFile, 1, Written(<<VersionEdit(0, repair'.next,
                                  Largest(Seqs(AllEntries(tables'))), repair'.found, {})>>, 0))
      BY <2>1, <2>8 DEF RepairDescriptor
    <3> QED
      BY <2>1, <2>2, <2>8, <3>1, <3>2, Zenon DEF CompleteInv, RepairInv
  <2> QED
    BY <2>1, <2>5, <2>6, <2>7, <2>8, <2>9, RepairFacts, <1>RepairStep
\* RepairDB names its MANIFEST in CURRENT.
<1>RepairEndsStep. ASSUME IInv, RepairEnds
                   PROVE  IInv'
  <2> USE <1>RepairEndsStep
  <2>1. /\ repair.pc = "current" /\ UNCHANGED NotRepairing /\ logs' = logs /\ tables' = tables
        /\ manifests' = manifests /\ current' = 1 /\ spent' = spent /\ repair' = NoRepair
    BY ZenonT(60) DEF RepairEnds, SetCurrentFile
  <2>2. DirType /\ FilesInv /\ EntriesInv /\ db' = db /\ manifests = Put(NoFile, 1, RepairDescriptor)
    BY <2>1 DEF IInv, DirInv, NotRepairing, RepairInv, RepairDescriptor
  <2>3. PICK m \in Manifest : /\ m = RepairDescriptor /\ Len(m.data) = 1 /\ Readable(m, 1)
                              /\ SoundManifest(m, tables)
    BY <2>1, RepairDescriptorIsSound
  <2>4. DOMAIN manifests = {1} /\ manifests[1] = m
    BY <2>2, <2>3 DEF Put, NoFile
  <2>5. DirType' /\ FilesInv'
    <3>1. DirType'
      BY <2>1, <2>2 DEF DirType, Number
    <3> QED
      BY <2>1, <2>2, <3>1 DEF FilesInv
  <2>6. CurrentInv' /\ CompleteInv'
    <3>1. NumbersAfter(1, m)
      BY DEF NumbersAfter
    <3> QED
      BY <2>1, <2>3, <2>4, <3>1, Zenon DEF CurrentInv, CompleteInv
  <2>7. EntriesInv'
    BY <2>1, <2>2, ZenonT(60) DEF EntriesInv
  <2>8. RepairInv' /\ repair' \in [pc : {"none", "logs", "current"}, next : Nat, found : SUBSET Nat]
    BY <2>1 DEF NoRepair, RepairInv
  <2> QED
    BY <2>1, <2>5, <2>6, <2>7, <2>8, RepairFacts, <1>RepairStep
<1> QED
  BY <1>RepairBeginsStep, <1>ConvertLogToTableStep, <1>WriteDescriptorStep, <1>RepairEndsStep DEF Repairing

\* The steps of RepairDB keep what is promised.
LEMMA RepairIsDurable ==
    ASSUME NumberFacts
    PROVE  IInv /\ IInv' /\ DInv /\ (RepairBegins \/ Repairing) => DInv'
\* RepairDB begins.
<1>RepairBeginsDurable. ASSUME IInv, DInv, RepairBegins
                        PROVE  DInv'
  <2> USE <1>RepairBeginsDurable
  <2>1. /\ db.pc = "closed" /\ db' = db /\ repair'.pc = "logs" /\ odd' = odd
        /\ logs' = logs /\ tables' = tables /\ current' = current /\ promised' = promised /\ synced' = synced
    BY DEF RepairBegins, dir, NotRepairing, promises
  <2>2. repair' # NoRepair /\ (Fine' => Fine) /\ Safe' = Safe
    BY <2>1 DEF NoRepair, Fine, Safe
  <2>3. Fine' => OnDisk(promised', Safe', logs', tables')
    BY <2>1, <2>2, LeftBehind
  <2>4. Fine' /\ current' = NULL => promised' = {}
    BY <2>1, <2>2, Zenon DEF DInv, RecoveryInv
  <2> QED
    BY <2>1, <2>2, <2>3, <2>4, ClosedDurable
\* A log becomes a table: its entries stay on disk.
<1>ConvertLogToTableDurable. ASSUME IInv, DInv, NEW n \in DOMAIN logs, ConvertLogToTable(n)
                             PROVE  DInv'
  <2> USE <1>ConvertLogToTableDurable
  <2>1. /\ repair.pc = "logs" /\ db' = db /\ odd' = odd /\ current' = current
        /\ promised' = promised /\ synced' = synced /\ logs' = Restrict(logs, DOMAIN logs \ {n})
    BY DEF ConvertLogToTable, NotRepairing, promises
  <2>2. PICK ks, us : ks = logs' /\ us = tables'
    BY Zenon
  <2>3. /\ DOMAIN tables \subseteq DOMAIN us /\ \A i \in DOMAIN tables : us[i] = tables[i]
        /\ \A i \in DOMAIN us : i \notin DOMAIN tables => i = repair.next /\ us[i] = EntriesOf(logs[n])
        /\ EntriesOf(logs[n]) # {} => repair.next \in DOMAIN us
        /\ repair'.pc = "logs"
    BY <2>1, <2>2, ConvertedTables, Zenon
  <2>4. repair.next \notin DOMAIN tables /\ db.pc = "closed"
    <3>1. /\ db = Closed /\ repair.next \in Nat /\ \A i \in DOMAIN tables : i < repair.next /\ i \in Nat
      BY <2>1, RepairFacts DEF IInv, RepairInv, DirType, Files
    <3>2. ~(repair.next < repair.next) /\ Closed.pc = "closed"
      BY <3>1 DEF Closed
    <3> QED
      BY <3>1, <3>2, Zenon
  <2>5. repair' # NoRepair /\ (Fine' => Fine) /\ Safe' = Safe
    BY <2>1, <2>3 DEF NoRepair, Fine, Safe
  <2>6. DOMAIN ks = DOMAIN logs \ {n} /\ \A i \in DOMAIN ks : ks[i] = logs[i]
    BY <2>1, <2>2 DEF Restrict
  <2>7. ASSUME NEW x, NEW i \in DOMAIN logs[n].data, x \in logs[n].data[i]
        PROVE  x \in AllEntries(us)
    <3>1. x \in EntriesOf(logs[n])
      BY <2>7, Zenon DEF EntriesOf, Range
    <3>2. repair.next \in DOMAIN us /\ us[repair.next] = EntriesOf(logs[n])
      BY <2>3, <2>4, <3>1, Zenon
    <3> QED
      BY <3>1, <3>2 DEF AllEntries
  <2>8. AllEntries(tables) \subseteq AllEntries(us)
    BY <2>3 DEF AllEntries
  <2>9. logs[n].data \in Seq(SUBSET Entry) /\ logs[n].synced \in Nat /\ logs[n].synced <= Len(logs[n].data)
    BY DEF IInv, DirType, Files, Log, DirInv, FilesInv
  <2>10. LogsFrom(0, logs) \subseteq AllEntries(us) \cup LogsFrom(0, ks)
    BY <2>6, <2>7, InLogs
  <2>11. SafeFrom(0, logs) \subseteq AllEntries(us) \cup SafeFrom(0, ks)
    <3>1. \A i \in 1 .. logs[n].synced : i \in DOMAIN logs[n].data
      BY <2>9
    <3> QED
      BY <2>6, <2>7, <3>1, InLogs
  <2>12. ASSUME Fine' PROVE OnDisk(promised, Safe, ks, us)
    <3>1. OnDisk(promised, Safe, logs, tables)
      BY <2>5, <2>12, LeftBehind
    <3>2. /\ AllEntries(tables) \cup LogsFrom(0, logs) \subseteq AllEntries(us) \cup LogsFrom(0, ks)
          /\ AllEntries(tables) \cup SafeFrom(0, logs) \subseteq AllEntries(us) \cup SafeFrom(0, ks)
      BY <2>8, <2>10, <2>11
    <3>3. /\ Ids(AllEntries(tables) \cup LogsFrom(0, logs)) \subseteq Ids(AllEntries(us) \cup LogsFrom(0, ks))
          /\ Ids(AllEntries(tables) \cup SafeFrom(0, logs)) \subseteq Ids(AllEntries(us) \cup SafeFrom(0, ks))
      BY <3>2, IdsGrow
    <3> QED
      BY <3>1, <3>3, Zenon DEF OnDisk
  <2>13. Fine' => OnDisk(promised', Safe', logs', tables')
    BY <2>1, <2>2, <2>5, <2>12, SMTT(30)
  <2>14. Fine' /\ current' = NULL => promised' = {}
    BY <2>1, <2>5 DEF DInv, RecoveryInv
  <2> QED
    BY <2>1, <2>4, <2>5, <2>13, <2>14, ClosedDurable
\* The MANIFEST is written.
<1>WriteDescriptorDurable. ASSUME IInv, DInv, WriteDescriptor
                           PROVE  DInv'
  <2> USE <1>WriteDescriptorDurable
  <2>1. /\ repair.pc = "logs" /\ db' = db /\ odd' = odd /\ current' = current
        /\ promised' = promised /\ synced' = synced /\ logs' = logs /\ tables' = tables
        /\ repair' = [repair EXCEPT !.pc = "current"]
    BY DEF WriteDescriptor, NotRepairing, promises
  <2>2. db.pc = "closed" /\ repair'.pc = "current"
    BY <2>1, RepairFacts DEF Closed
  <2>3. repair' # NoRepair /\ (Fine' => Fine) /\ Safe' = Safe
    BY <2>1, <2>2 DEF NoRepair, Fine, Safe
  <2>4. Fine' => OnDisk(promised', Safe', logs', tables')
    BY <2>1, <2>3, LeftBehind
  <2>5. Fine' /\ current' = NULL => promised' = {}
    BY <2>1, <2>3 DEF DInv, RecoveryInv
  <2> QED
    BY <2>1, <2>2, <2>3, <2>4, <2>5, ClosedDurable
\* CURRENT names the MANIFEST with all tables.
<1>RepairEndsDurable. ASSUME IInv, DInv, RepairEnds
                      PROVE  DInv'
  <2> USE <1>RepairEndsDurable
  <2>1. /\ repair.pc = "current" /\ db' = db /\ odd' = odd \ {"repair"} /\ current' = 1
        /\ promised' = promised /\ synced' = synced /\ logs' = logs /\ tables' = tables
        /\ manifests' = manifests
    BY DEF RepairEnds, NotRepairing, promises, SetCurrentFile
  <2>2. db.pc = "closed" /\ (Fine' => Fine) /\ Safe' = Safe
    <3>1. db = Closed /\ Closed.pc = "closed"
      BY <2>1, RepairFacts DEF Closed
    <3>2. Fine' => Fine
      BY <2>1, Zenon DEF Fine
    <3> QED
      BY <2>1, <3>1, <3>2, ZenonT(60) DEF Safe
  <2>3. /\ manifests = Put(NoFile, 1, RepairDescriptor) /\ repair.found = DOMAIN tables
        /\ repair.next \in Nat /\ DOMAIN tables \subseteq Nat
    <3>1. repair.next \in Nat
      BY <2>1, RepairFacts
    <3>2. RepairInv /\ DirType
      BY Zenon DEF IInv
    <3> QED
      BY <2>1, <3>1, <3>2, Zenon DEF RepairInv, RepairDescriptor, DirType, Files
  <2>4. PICK e : /\ e = VersionEdit(0, repair.next, Largest(Seqs(AllEntries(tables))), repair.found, {})
                 /\ RepairDescriptor = Written(<<e>>, 0)
    BY DEF RepairDescriptor
  <2>5. PICK m : m = RepairDescriptor
    BY ZenonT(60)
  <2>6. m.data = <<e>> /\ m.synced = 0 /\ m \in Manifest /\ manifests[1] = m
    BY <2>1, <2>3, <2>4, <2>5, RepairDescriptorIsSound DEF Written, Put
  <2>7. e \in Edit
    <3>1. Len(m.data) = 1 /\ m.data[1] = e
      BY <2>6
    <3>2. \A k \in 1 .. Len(m.data) : m.data[k] \in Edit
      BY <2>6, ManifestLemma, Zenon
    <3>3. 1 \in 1 .. Len(m.data)
      BY <3>1
    <3> QED
      BY <3>1, <3>2, <3>3, Zenon
  <2>8. Ver(m.data, 1) = DOMAIN tables /\ m.data[1].log = 0
    BY <2>3, <2>4, <2>6, <2>7, VersionOfOne DEF VersionEdit
  <2>9. TablesOf(DOMAIN tables, tables) = AllEntries(tables)
    BY Zenon DEF TablesOf, AllEntries
  <2>10. ASSUME NEW k \in Kept(m), Readable(m, k) PROVE k = 1
    BY <2>6, <2>10 DEF Kept, Readable
  <2>11. ASSUME Fine' PROVE OnDisk(promised, Safe, logs, tables) /\ Recoverable(promised, Safe, m, logs, tables)
    <3>1. OnDisk(promised, Safe, logs, tables)
      BY <2>2, <2>11, LeftBehind
    <3>2. Len(m.data) = 1
      BY <2>6, ZenonT(60)
    <3>3. Recoverable(promised, Safe, m, logs, tables)
      BY <2>8, <2>9, <2>10, <3>1, <3>2 DEF Recoverable, OnDisk
    <3> QED
      BY <3>1, <3>3
  <2>12. Fine' => /\ OnDisk(promised', Safe', logs', tables')
                  /\ Recoverable(promised', Safe', manifests'[current'], logs', tables')
    BY <2>1, <2>2, <2>6, <2>11
  <2>13. current' # NULL
    BY <2>1, NullAssumption
  <2> QED
    BY <2>1, <2>2, <2>12, <2>13, ClosedDurable
<1> QED
  BY <1>RepairBeginsDurable, <1>ConvertLogToTableDurable, <1>WriteDescriptorDurable, <1>RepairEndsDurable
     DEF Repairing

-----------------------------------------------------------------------------
(* The logs that are needed.                                               *)

\* A step that removes no log and leaves the MANIFEST alone that CURRENT names.
LEMMA LogsStay ==
    ASSUME LogInv, DOMAIN logs \subseteq DOMAIN logs', current' = current,
           current # NULL /\ repair' = NoRepair /\ Trusted' =>
               repair = NoRepair /\ Trusted /\ manifests'[current] = manifests[current],
           db'.pc = "open" => db.pc = "open" /\ db'.log_number = db.log_number
    PROVE  LogInv'
BY Zenon DEF LogInv, LogsKept

\* The MANIFEST that Open has written starts from the new log.
LEMMA EndLogs == IInv /\ Ending => EndLogged
<1> SUFFICES ASSUME IInv, Ending
             PROVE  EndLogged
  OBVIOUS
<1>1. EndDescribed
  BY EndLemma
<1>2. db.logfile \in DOMAIN logs
  BY DEF IInv, OpeningInv, EndInv, Ending
<1> QED
  BY <1>1, <1>2, Zenon DEF EndDescribed, Described, EndLogged, LogsKept

\* The same after a step.
LEMMA EndLogsNext == IInv' /\ Ending' => EndLogged'
BY EndLogs, PTL

\* The only edit of the MANIFEST of NewDB or RepairDB starts from no log.
LEMMA FirstLogs ==
    ASSUME NEW e, e.log = 0, NEW ls
    PROVE  LogsKept(Written(<<e>>, 0), ls)
<1>1. PICK m : m = Written(<<e>>, 0)
  BY Zenon
<1>2. m.synced = 0 /\ Len(m.data) = 1 /\ m.data[1] = e
  BY <1>1 DEF Written
<1>3. \A k \in Kept(m) : k # 0 => k = 1
  BY <1>2 DEF Kept
<1> QED
  BY <1>1, <1>2, <1>3, Zenon DEF LogsKept, Readable

\* The steps of DB::Open keep the log that is needed.
LEMMA OpeningKeepsLogs ==
    ASSUME IInv, IInv', LogInv, OpenBegins \/ Opening
    PROVE  LogInv'
\* A step before the new MANIFEST is written.
<1>Reads. ASSUME logs' = logs, manifests' = manifests, current' = current, repair' = repair,
                 odd \subseteq odd', db'.pc # "open"
          PROVE  LogInv'
  <2>1. Trusted' => Trusted
    BY <1>Reads DEF Trusted
  <2> QED
    BY <1>Reads, <2>1, LogsStay
\* A step that leaves the MANIFEST alone that CURRENT names, or has written it.
<1>Writes. ASSUME DOMAIN logs \subseteq DOMAIN logs', current' = current, repair' = repair, odd' = odd,
                  db'.pc # "open", Ending' \/ current # db.manifest, db'.manifest = db.manifest \/ ~Ending',
                  current # NULL /\ current # db.manifest /\ Trusted => manifests'[current] = manifests[current]
           PROVE  LogInv'
  <2>1. Trusted' <=> Trusted
    BY <1>Writes DEF Trusted
  <2>2. CASE current # db.manifest
    BY <1>Writes, <2>1, <2>2, LogsStay
  <2>3. CASE current = db.manifest
    <3>1. EndLogged'
      BY <1>Writes, <2>3, EndLogsNext
    <3>2. manifests'[db'.manifest] = manifests'[current']
      BY <1>Writes, <2>3, Zenon
    <3> QED
      BY <1>Writes, <3>1, <3>2, Zenon DEF LogInv, EndLogged
  <2> QED
    BY <2>2, <2>3
<1>1. CASE OpenBegins
  <2>1. /\ logs' = logs /\ current' = current /\ repair' = repair /\ odd \subseteq odd'
    BY <1>1 DEF OpenBegins, NotOpening
  <2>2. CASE current # NULL
    <3>1. manifests' = manifests /\ db'.pc # "open"
      BY <1>1, <2>2 DEF OpenBegins, Closed
    <3> QED
      BY <2>1, <3>1, <1>Reads
  <2>3. CASE current = NULL
    <3>1. db'.pc # "open"
      BY <1>1, <2>3 DEF OpenBegins, Closed
    <3> QED
      BY <2>1, <2>3, <3>1, Zenon DEF LogInv
  <2> QED
    BY <2>2, <2>3
<1>2. CASE NewDBEnds
  <2>1. /\ manifests' = manifests /\ current' = 1 /\ db' = [db EXCEPT !.pc = "recover"] /\ db.pc = "newdb"
    BY <1>2 DEF NewDBEnds, SetCurrentFile
  <2>2. manifests[1] = Written(<<VersionEdit(0, 2, 0, {}, {})>>, 0) /\ db \in DB
    BY <2>1 DEF IInv, OpeningInv, PhaseInv, ProcessType, NewDescriptor
  <2>3. LogsKept(manifests'[current'], logs')
    <3>1. VersionEdit(0, 2, 0, {}, {}).log = 0
      BY DEF VersionEdit
    <3> QED
      BY <2>1, <2>2, <3>1, FirstLogs
  <2>4. db'.pc # "open"
    BY <2>1, <2>2 DEF DB
  <2> QED
    BY <2>3, <2>4, Zenon DEF LogInv
<1>3. CASE RecoverVersion
  <2>1. logs' = logs /\ manifests' = manifests /\ current' = current /\ repair' = repair
    BY <1>3 DEF RecoverVersion, dir, NotOpening
  <2> DEFINE edits == IF current \in DOMAIN manifests THEN manifests[current].data ELSE <<>>
  <2>2. \/ db' = Closed /\ odd' = odd \cup {"corrupt"}
        \/ /\ odd' = odd
           /\ db' = [db EXCEPT !.pc = "logs", !.version = Built(edits),
                          !.manifest = LastOf(edits, "next"),
                          !.next_file_number = LastOf(edits, "next") + 1,
                          !.last_sequence = LastOf(edits, "last"),
                          !.log_number = LastOf(edits, "log"),
                          !.todo = {n \in DOMAIN logs : n >= LastOf(edits, "log")}]
    BY <1>3 DEF RecoverVersion
  <2> HIDE DEF edits
  <2>3. odd \subseteq odd' /\ db'.pc # "open"
    <3>1. db \in DB
      BY DEF IInv, ProcessType
    <3>2. PICK v, m, n, l, g, t : /\ v = Built(edits) /\ m = LastOf(edits, "next")
                                  /\ n = LastOf(edits, "next") + 1 /\ l = LastOf(edits, "last")
                                  /\ g = LastOf(edits, "log")
                                  /\ t = {i \in DOMAIN logs : i >= LastOf(edits, "log")}
      BY Zenon
    <3>3. \/ db' = Closed
          \/ db' = [db EXCEPT !.pc = "logs", !.version = v, !.manifest = m, !.next_file_number = n,
                              !.last_sequence = l, !.log_number = g, !.todo = t]
      BY <2>2, <3>2
    <3>4. CASE db' = Closed
      BY <2>2, <3>4, ClosedLemma
    <3>5. CASE db' # Closed
      <4>1. db'.pc = "logs"
        BY <3>1, <3>3, <3>5 DEF DB
      <4> QED
        BY <2>2, <3>5, <4>1
    <3> QED
      BY <3>4, <3>5
  <2> QED
    BY <2>1, <2>3, <1>Reads
<1>4. CASE ReplayRecord \/ ReplayEnds
  <2>1. /\ logs' = logs /\ manifests' = manifests /\ current' = current /\ repair' = repair
        /\ db.pc = "logs" /\ db \in DB
    BY <1>4 DEF ReplayRecord, ReplayEnds, NotOpening, IInv, ProcessType
  <2>2. odd \subseteq odd'
    BY <1>4 DEF ReplayRecord, ReplayEnds, Level0Fails, TurnEnds
  <2>3. db'.pc # "open"
    BY <1>4, <2>1 DEF ReplayRecord, ReplayEnds, Level0Fails, Level0Written, TurnEnds, DB
  <2> QED
    BY <2>1, <2>2, <2>3, <1>Reads
<1>5. CASE RecoveryEnds
  <2>1. /\ current' = current /\ repair' = repair /\ odd' = odd /\ db.pc = "logs" /\ db \in DB
    BY <1>5 DEF RecoveryEnds, NotOpening, IInv, ProcessType
  <2>2. CASE ~db.ok
    <3>1. logs' = logs /\ manifests' = manifests /\ db'.pc # "open"
      BY <1>5, <2>2 DEF RecoveryEnds, Closed
    <3> QED
      BY <2>1, <3>1, <1>Reads
  <2>3. CASE db.ok
    <3>1. /\ DOMAIN logs \subseteq DOMAIN logs' /\ db'.pc = "sync" /\ db'.manifest = db.manifest
          /\ \A n \in DOMAIN manifests : n # db.manifest => manifests'[n] = manifests[n]
      <4>1. /\ db' = [db EXCEPT !.pc = "sync", !.logfile = db.next_file_number,
                                 !.last_sequence = Larger(db.last_sequence, db.max_sequence),
                                 !.next_file_number = db.next_file_number + 1]
            /\ logs' = Put(logs, db.next_file_number, Written(<<>>, 0))
            /\ \E new : manifests' = Put(manifests, db.manifest, new)
        BY <1>5, <2>3, SMTT(30) DEF RecoveryEnds
      <4> QED
        BY <2>1, <4>1 DEF Put, DB
    <3>2. current \in DOMAIN manifests
      BY <2>1 DEF IInv, OpeningInv, LogsInv
    <3> QED
      BY <2>1, <3>1, <3>2, <1>Writes DEF Ending
  <2> QED
    BY <2>2, <2>3
<1>6. CASE OpenSyncs
  <2>1. /\ logs' = logs /\ current' = current /\ repair' = repair /\ db.pc = "sync" /\ db \in DB
    BY <1>6 DEF OpenSyncs, NotOpening, IInv, ProcessType
  <2>2. CASE /\ db' = [db EXCEPT !.pc = "current"] /\ odd' = odd
             /\ manifests' = [manifests EXCEPT ![db.manifest].synced = 2]
    <3>1. /\ db'.pc = "current" /\ db'.manifest = db.manifest
          /\ current # db.manifest => manifests'[current] = manifests[current]
      BY <2>1, <2>2 DEF DB
    <3> QED
      BY <2>1, <2>2, <3>1, <1>Writes DEF Ending
  <2>3. CASE /\ db' = Closed /\ odd' = IF db.manifest = current THEN odd \cup {"removed"} ELSE odd
             /\ manifests' = Restrict(manifests, DOMAIN manifests \ {db.manifest})
    <3>1. db'.pc = "closed"
      BY <2>3 DEF Closed
    <3>2. CASE current = db.manifest
      <4>1. ~Trusted'
        BY <2>3, <3>2 DEF Trusted
      <4> QED
        BY <3>1, <4>1, Zenon DEF LogInv
    <3>3. CASE current # db.manifest
      <4>1. odd' = odd
        BY <2>3, <3>3
      <4>2. current # NULL /\ Trusted => manifests'[current] = manifests[current]
        <5>1. current # NULL /\ Trusted => current \in DOMAIN manifests
          <6>1. repair = NoRepair /\ CompleteInv
            BY <2>1 DEF IInv, OpeningInv, PhaseInv, DirInv
          <6> QED
            BY <6>1 DEF CompleteInv
        <5> QED
          BY <2>3, <3>3, <5>1 DEF Restrict
      <4> QED
        BY <2>1, <3>1, <3>3, <4>1, <4>2, <1>Writes DEF Ending
    <3> QED
      BY <3>2, <3>3
  <2> QED
    BY <1>6, <2>2, <2>3 DEF OpenSyncs
<1>7. CASE OpenSetsCurrent
  <2>1. /\ current' = db.manifest /\ db' = [db EXCEPT !.pc = "install"] /\ db \in DB
    BY <1>7 DEF OpenSetsCurrent, SetCurrentFile, IInv, ProcessType
  <2>2. db'.pc = "install" /\ db'.manifest = current'
    BY <2>1 DEF DB
  <2>3. EndLogged'
    BY <2>2, EndLogsNext DEF Ending
  <2> QED
    BY <2>2, <2>3, Zenon DEF LogInv, EndLogged
<1>8. CASE OpenEnds
  <2>1. /\ db.pc = "install" /\ db \in DB /\ current' = current
        /\ db' = [db EXCEPT !.pc = "open", !.version = @ \cup db.added, !.log_number = db.logfile, !.added = {}]
        /\ logs' = Restrict(logs, {n \in DOMAIN logs : n >= db'.log_number})
        /\ manifests' = Restrict(manifests, {n \in DOMAIN manifests : n >= db'.manifest})
    BY <1>8 DEF OpenEnds, DeleteObsoleteFiles, IInv, ProcessType
  <2>2. /\ db.logfile \in DOMAIN logs /\ db.logfile \in Nat /\ db.manifest \in Nat
        /\ current = db.manifest /\ current \in DOMAIN manifests
    BY <2>1 DEF IInv, OpeningInv, EndInv, DB
  <2>3. db'.log_number = db.logfile /\ db'.manifest = db.manifest
    BY <2>1 DEF DB
  <2>4. db.logfile \in DOMAIN logs' /\ manifests'[current'] = manifests[current]
    BY <2>1, <2>2, <2>3 DEF Restrict
  <2>5. EndDescribed
    BY <2>1, EndLemma DEF Ending
  <2>6. LogsKept(manifests'[current'], logs')
    BY <2>2, <2>4, <2>5, Zenon DEF EndDescribed, Described, LogsKept
  <2> QED
    BY <2>3, <2>4, <2>6, Zenon DEF LogInv
<1> QED
  BY <1>1, <1>2, <1>3, <1>4, <1>5, <1>6, <1>7, <1>8 DEF Opening

\* The steps of DB::Write keep it: they make logs and remove none.
LEMMA WritingKeepsLogs ==
    ASSUME IInv, LogInv, (\E s \in bound.sizes, sync \in BOOLEAN : Enqueue(s, sync)) \/ Writing
    PROVE  LogInv'
<1>1. /\ current' = current /\ manifests' = manifests /\ repair' = repair /\ odd' = odd
  BY DEF Enqueue, Writing, RoomFails, SwitchLog, AddRecord, SyncLog, WriteEnds, NotWriting
<1>2. DOMAIN logs \subseteq DOMAIN logs'
  BY DEF Enqueue, Writing, RoomFails, SwitchLog, AddRecord, SyncLog, WriteEnds, Put
<1>3. db \in DB
  BY DEF IInv, ProcessType
<1>4. db'.pc = db.pc /\ db'.log_number = db.log_number
  BY <1>3 DEF Enqueue, Writing, RoomFails, SwitchLog, AddRecord, SyncLog, WriteEnds, DB
<1>5. Trusted' <=> Trusted
  BY <1>1 DEF Trusted
<1> QED
  BY <1>1, <1>2, <1>4, <1>5, LogsStay

\* The steps of the background thread keep it: files are deleted when the edit which no
\* longer needs them is synced.
LEMMA BackgroundKeepsLogs ==
    ASSUME IInv, LogInv, Background
    PROVE  LogInv'
<1>1. CASE BuildTable
  <2>1. /\ logs' = logs /\ current' = current /\ manifests' = manifests /\ repair' = repair /\ odd' = odd
    BY <1>1 DEF BuildTable, NotBackground
  <2>2. db'.pc = db.pc /\ db'.log_number = db.log_number
    BY <1>1 DEF BuildTable, IInv, ProcessType, DB
  <2>3. Trusted' <=> Trusted
    BY <2>1 DEF Trusted
  <2> QED
    BY <2>1, <2>2, <2>3, LogsStay
\* The logs of the edits after the MANIFEST in use has changed.
<1>Edits. ASSUME logs' = logs, current' = current, repair' = repair, odd' = odd,
                 db'.pc = db.pc, db'.log_number = db.log_number,
                 LogsKept(manifests[current], logs) => LogsKept(manifests'[current], logs)
          PROVE  LogInv'
  <2>1. Trusted' <=> Trusted
    BY <1>Edits DEF Trusted
  <2> QED
    BY <1>Edits, <2>1, Zenon DEF LogInv
\* An edit of the background thread starts from a log that is there.
<1>EditLog. bg.pc # "idle" => db.pc = "open" /\ bg.edit.log \in DOMAIN logs /\ bg.edit \in Edit
  <2> SUFFICES ASSUME bg.pc # "idle"
               PROVE  db.pc = "open" /\ bg.edit.log \in DOMAIN logs /\ bg.edit \in Edit
    OBVIOUS
  <2>1. db.pc = "open" /\ (Flush(bg.edit) \/ Compaction(bg.edit)) /\ bg.edit \in Edit
    BY BackgroundFacts
  <2>2. db.logfile \in DOMAIN logs /\ db.log_number \in DOMAIN logs
    BY <2>1 DEF IInv, ProcessInv, OpenInv, LogInv
  <2> QED
    BY <2>1, <2>2, Zenon DEF Flush, Compaction
<1>2. CASE LogEdit
  <2>1. PICK e : /\ e = [bg.edit EXCEPT !.next = db.next_file_number, !.last = db.last_sequence]
                 /\ manifests' = [manifests EXCEPT ![db.manifest].data = Append(@, e)]
    BY <1>2, Zenon DEF LogEdit
  <2>2. /\ bg.pc = "log" /\ logs' = logs /\ current' = current /\ repair' = repair /\ odd' = odd /\ db' = db
    BY <1>2 DEF LogEdit, NotBackground
  <2>3. e \in Edit /\ e.log \in DOMAIN logs
    <3>1. db.next_file_number \in Number /\ db.last_sequence \in Number
      BY DEF IInv, ProcessType, DB, Number
    <3> QED
      BY <2>1, <2>2, <3>1, <1>EditLog DEF Edit
  <2>4. PICK old, m : old = manifests[current] /\ m = manifests'[current]
    BY Zenon
  <2>5. /\ m.synced = old.synced /\ Len(m.data) = Len(old.data) + 1 /\ DOMAIN old.data = 1 .. Len(old.data)
        /\ m.data[Len(m.data)] = e /\ \A i \in DOMAIN old.data : m.data[i] = old.data[i]
    <3>1. db.pc = "open"
      BY <2>2, <1>EditLog, SMTT(30)
    <3> QED
      BY <2>1, <2>3, <2>4, <3>1, ManifestGrows, ZenonT(60)
  <2>6. old.synced \in Nat /\ Len(old.data) \in Nat
    BY <2>2, <2>4, <1>EditLog, OpenFacts
  <2>7. \A k \in Kept(m) : k = Len(m.data) \/ k = 0 \/ (k \in Kept(old) /\ k \in DOMAIN old.data)
    BY <2>5, <2>6 DEF Kept
  <2>8. LogsKept(old, logs) => LogsKept(m, logs)
    BY <2>3, <2>5, <2>7, ZenonT(60) DEF LogsKept, Readable
  <2> QED
    BY <2>2, <2>4, <2>8, <1>Edits
<1>3. CASE SyncManifest
  <2>1. /\ bg.pc = "sync" /\ logs' = logs /\ current' = current /\ repair' = repair /\ odd' = odd
    BY <1>3 DEF SyncManifest, NotBackground
  <2>2. db'.pc = db.pc /\ db'.log_number = db.log_number
    BY <1>3 DEF SyncManifest, IInv, ProcessType, DB
  <2>3. PICK m : m = manifests[current]
    BY ZenonT(60)
  <2>4. /\ current = db.manifest /\ current \in DOMAIN manifests /\ m \in Manifest
        /\ m.synced <= Len(m.data) /\ m.synced \in Nat /\ Len(m.data) \in Nat
    BY <2>1, <2>3, <1>EditLog, OpenFacts
  <2>5. LogsKept(m, logs) => LogsKept(manifests'[current], logs)
    <3>1. CASE manifests' = manifests
      BY <2>3, <3>1
    <3>2. CASE manifests' = [manifests EXCEPT ![db.manifest].synced = Len(manifests[db.manifest].data)]
      <4>1. manifests'[current] = [m EXCEPT !.synced = Len(m.data)]
        BY <2>3, <2>4, <3>2
      <4>2. PICK c : c = manifests'[current] /\ c.data = m.data /\ c.synced = Len(m.data)
        BY <2>4, <4>1 DEF Manifest
      <4>3. Kept(c) \subseteq Kept(m)
        BY <2>4, <4>2 DEF Kept
      <4> QED
        BY <4>2, <4>3, Zenon DEF LogsKept, Readable
    <3> QED
      BY <1>3, <3>1, <3>2 DEF SyncManifest
  <2> QED
    BY <2>1, <2>2, <2>3, <2>5, <1>Edits
<1>4. CASE Install
  <2>1. PICK m, l : m = manifests[current] /\ l = Len(m.data)
    BY Zenon
  <2>2. /\ bg.pc = "install" /\ current' = current /\ m.data[l] = bg.edit /\ Kept(m) = {l}
        /\ bg.edit.log \in Nat /\ db'.log_number = bg.edit.log
        /\ \A i \in DOMAIN logs : i >= bg.edit.log => i \in DOMAIN logs'
        /\ current \in DOMAIN manifests' /\ \A i \in DOMAIN manifests' : manifests'[i] = manifests[i]
    BY <1>4, <2>1, InstallFacts, Zenon
  <2>3. bg.edit.log \in DOMAIN logs'
    BY <2>2, <1>EditLog
  <2>4. LogsKept(manifests'[current'], logs')
    BY <2>1, <2>2, <2>3, Zenon DEF LogsKept
  <2> QED
    BY <2>2, <2>3, <2>4, Zenon DEF LogInv
<1> QED
  BY <1>1, <1>2, <1>3, <1>4 DEF Background

\* Closing, crashes and RepairDB keep it.
LEMMA LeavingKeepsLogs ==
    ASSUME IInv, LogInv, Close \/ ProcessCrash \/ MachineCrash \/ RepairBegins \/ Repairing
    PROVE  LogInv'
<1>1. CASE Close
  <2>1. /\ logs' = logs /\ manifests' = manifests /\ current' = current /\ odd' = odd /\ db' = Closed
        /\ db.pc = "open"
    BY <1>1 DEF Close, Gone, dir
  <2>2. repair = NoRepair /\ db'.pc # "open"
    BY <2>1 DEF IInv, OpeningInv, PhaseInv, Closed
  <2>3. Trusted' <=> Trusted
    BY <2>1 DEF Trusted
  <2> QED
    BY <2>1, <2>2, <2>3, LogsStay
<1>2. CASE ProcessCrash
  <2>1. /\ logs' = logs /\ manifests' = manifests /\ current' = current /\ odd' = odd \cup Interrupted
        /\ db' = Closed /\ Crashes
    BY <1>2 DEF ProcessCrash, Crashes, Gone, dir
  <2>2. db'.pc # "open"
    BY <2>1 DEF Closed
  <2>3. Trusted' => Trusted /\ repair = NoRepair
    BY <2>1, CrashFacts, Zenon DEF Trusted
  <2> QED
    BY <2>1, <2>2, <2>3, LogsStay
<1>3. CASE MachineCrash
  <2>1. /\ logs' \in Cuts(logs) /\ manifests' \in Cuts(manifests) /\ current' = current
        /\ odd \cup Interrupted \subseteq odd' /\ db' = Closed /\ Crashes
    BY <1>3, SMTT(30) DEF MachineCrash, Crashes, Gone
  <2>2. db'.pc # "open" /\ DOMAIN logs' = DOMAIN logs
    BY <2>1, CutsLemma DEF Closed
  <2>3. ASSUME current # NULL, Trusted'
        PROVE  LogsKept(manifests'[current], logs')
    <3>1. Trusted /\ repair = NoRepair
      BY <2>1, <2>3, CrashFacts, Zenon DEF Trusted
    <3>2. current \in DOMAIN manifests /\ DirType /\ FilesInv /\ LogsKept(manifests[current], logs)
      BY <2>3, <3>1 DEF IInv, DirInv, CompleteInv, LogInv
    <3>3. PICK m \in Manifest : m = manifests[current] /\ Orderly(m.data)
      BY <3>2, SMTT(30) DEF DirType, Files, FilesInv
    <3>4. PICK k \in Kept(m) : manifests'[current] = Written(SubSeq(m.data, 1, k), k)
      BY <2>1, <3>2, <3>3, CutsLemma, SMTT(30) DEF Kept
    <3>5. PICK c : c = manifests'[current] /\ Kept(c) = {k} /\ (k # 0 => c.data[k] = m.data[k])
      BY <3>3, <3>4, ManifestCut
    <3> QED
      BY <2>2, <3>2, <3>3, <3>5, Zenon DEF LogsKept, Readable
  <2> QED
    BY <2>1, <2>2, <2>3, Zenon DEF LogInv
<1>4. CASE RepairEnds
  <2>1. current' = 1 /\ manifests' = manifests /\ db' = db /\ repair.pc = "current"
    BY <1>4 DEF RepairEnds, SetCurrentFile, NotRepairing
  <2>2. PICK e : e.log = 0 /\ manifests[1] = Written(<<e>>, 0)
    <3>1. manifests = Put(NoFile, 1, Written(<<VersionEdit(0, repair.next,
                                Largest(Seqs(AllEntries(tables))), repair.found, {})>>, 0))
      BY <2>1 DEF IInv, RepairInv
    <3>2. PICK e : e = VersionEdit(0, repair.next, Largest(Seqs(AllEntries(tables))), repair.found, {})
      BY Zenon
    <3>3. e.log = 0
      BY <3>2 DEF VersionEdit
    <3>4. manifests[1] = Written(<<e>>, 0)
      BY <3>1, <3>2 DEF Put
    <3> QED
      BY <3>3, <3>4, SMTT(30)
  <2>3. LogsKept(manifests'[current'], logs')
    BY <2>1, <2>2, FirstLogs, Zenon
  <2>4. db'.pc # "open"
    <3>1. repair.pc # "none"
      BY <2>1
    <3>2. db' = Closed
      BY <2>1, <3>1, RepairFacts, Zenon
    <3> QED
      BY <3>2, ClosedLemma
  <2> QED
    BY <2>3, <2>4, Zenon DEF LogInv
<1>5. CASE RepairBegins
  <2>1. repair'.pc = "logs" /\ db' = db /\ db.pc = "closed"
    BY <1>5, SMTT(30) DEF RepairBegins, NotRepairing
  <2> QED
    BY <2>1 DEF LogInv, NoRepair
<1>6. CASE (\E n \in DOMAIN logs : ConvertLogToTable(n)) \/ WriteDescriptor
  <2>1. repair.pc = "logs" /\ db' = db
    BY <1>6, Zenon DEF ConvertLogToTable, WriteDescriptor, NotRepairing
  <2>2. /\ db = Closed
        /\ repair \in [pc : {"none", "logs", "current"}, next : Nat, found : SUBSET Nat]
    <3>1. repair.pc # "none"
      BY <2>1
    <3> QED
      BY <3>1, RepairFacts, Zenon
  <2>3. \/ \E n, f : repair' = [repair EXCEPT !.next = n, !.found = f]
        \/ repair' = [repair EXCEPT !.pc = "current"]
    BY <1>6, Zenon DEF ConvertLogToTable, WriteDescriptor
  <2>4. repair'.pc # "none"
    BY <2>1, <2>2, <2>3, Zenon
  <2> QED
    BY <2>1, <2>2, <2>4 DEF LogInv, NoRepair, Closed
<1> QED
  BY <1>1, <1>2, <1>3, <1>4, <1>5, <1>6 DEF Repairing

-----------------------------------------------------------------------------
(* Every step.                                                             *)

\* In a new directory.
LEMMA InitInv ==
    ASSUME Init
    PROVE  IInv
<1>1. /\ logs = NoFile /\ manifests = NoFile /\ tables = NoFile /\ current = NULL /\ db = Closed
      /\ queue = <<>> /\ group = NoGroup /\ bg = Quiet /\ repair = NoRepair /\ synced = {}
      /\ spent = [opens |-> 0, writes |-> 0, crashes |-> 0] /\ bound \in Bounds
  BY DEF Init
<1>2. /\ Closed \in DB /\ Closed.pc = "closed" /\ Closed.mem = {} /\ Closed.imm = {} /\ Closed.version = {}
  BY Zenon DEF Closed, DB
<1>3. DOMAIN NoFile = {} /\ \A T : Files(NoFile, T)
  BY ZenonT(60) DEF NoFile, Files
<1>4. DirType /\ ProcessType
  <2>1. DirType
    BY <1>1, <1>3, Zenon DEF DirType, Number
  <2>2. spent \in Spent /\ queue \in Seq(Writer)
    BY <1>1 DEF Spent
  <2> QED
    BY <1>1, <1>2, <2>1, <2>2 DEF ProcessType, NoGroup, Quiet, NoRepair
<1>5. FilesInv /\ CurrentInv /\ CompleteInv
  BY <1>1, <1>3, ZenonT(60) DEF FilesInv, CurrentInv, CompleteInv
<1>6. EntriesInv
  <2>1. Held(db.mem, db.imm, tables, logs) = {}
    BY <1>1, <1>2, <1>3, HeldLemma
  <2>2. Seqs({}) = {} /\ Bounded({}) /\ Unique({})
    BY DEF Seqs, Bounded, Unique
  <2> QED
    BY <1>1, <1>3, <2>1, <2>2, Zenon DEF EntriesInv
<1>7. PhaseInv /\ LogsInv /\ EndInv /\ RepairInv
  BY <1>1, <1>2 DEF PhaseInv, LogsInv, EndInv, RepairInv, NoRepair
<1>8. OpenInv /\ SequenceInv /\ EditInv
  BY <1>1, <1>2, ZenonT(60) DEF OpenInv, SequenceInv, EditInv
<1>9. GroupInv /\ QueueInv
  BY <1>1 DEF GroupInv, QueueInv, NoGroup, InFlight
<1> QED
  BY <1>4, <1>5, <1>6, <1>7, <1>8, <1>9 DEF IInv, DirInv, OpeningInv, ProcessInv

\* The counters agree and sequence numbers are unique, wherever entries are.
LEMMA UniqueFromInv ==
    ASSUME IInv
    PROVE  SequencesAreUnique
<1>1. DirType /\ ProcessType /\ FilesInv /\ EntriesInv /\ PhaseInv /\ OpenInv /\ GroupInv
  BY DEF IInv, DirInv, OpeningInv, ProcessInv
<1>2. TypeOK
  BY <1>1, Zenon DEF TypeOK, FilesInv, OpenInv, GroupInv
<1>3. Everything \subseteq Held(db.mem, db.imm, tables, logs)
  BY <1>1, Zenon DEF Everything, Contents, Held, AllEntries, PhaseInv
<1>4. \A a, b \in Held(db.mem, db.imm, tables, logs) : a[1] = b[1] => a = b
  BY <1>1, Zenon DEF EntriesInv, Unique
<1> QED
  BY <1>2, <1>3, <1>4, Zenon DEF SequencesAreUnique

\* Every part of the MANIFEST that a crash may leave opens the database.
LEMMA RecoverFromInv ==
    ASSUME IInv, LogInv
    PROVE  CrashPointsRecover
<1>1. DirType /\ FilesInv /\ CurrentInv /\ CompleteInv
  BY DEF IInv, DirInv
<1> SUFFICES ASSUME current # NULL, repair = NoRepair, Trusted
             PROVE  LET m == manifests[current]
                    IN /\ current \in DOMAIN manifests
                       /\ \A k \in (IF current = 1 THEN Len(m.data) ELSE m.synced) .. Len(m.data) :
                             LET edits == SubSeq(m.data, 1, k)
                             IN /\ Complete(edits) /\ Built(edits) \subseteq DOMAIN tables
                                /\ LastOf(edits, "log") \in DOMAIN logs \cup {0}
  BY Zenon DEF CrashPointsRecover, Trusted
<1>2. /\ current \in DOMAIN manifests
      /\ LET m == manifests[current]
         IN IF current = 1 THEN Readable(m, Len(m.data)) ELSE m.synced >= 2
  BY <1>1 DEF CompleteInv
<1>3. PICK m \in Manifest : m = manifests[current]
  BY <1>1, <1>2 DEF DirType, Files
<1>4. /\ m.synced <= Len(m.data) /\ Orderly(m.data) /\ SoundManifest(m, tables)
      /\ IF current = 1 THEN Readable(m, Len(m.data)) ELSE m.synced >= 2
      /\ LogsKept(m, logs)
  BY <1>1, <1>2, <1>3, Zenon DEF FilesInv, CurrentInv, LogInv
<1>5. m.data \in Seq(Edit) /\ m.synced \in Nat /\ Len(m.data) \in Nat
  BY ManifestLemma
<1>6. ASSUME NEW k \in (IF current = 1 THEN Len(m.data) ELSE m.synced) .. Len(m.data)
      PROVE  /\ Complete(SubSeq(m.data, 1, k)) /\ Built(SubSeq(m.data, 1, k)) \subseteq DOMAIN tables
             /\ LastOf(SubSeq(m.data, 1, k), "log") \in DOMAIN logs \cup {0}
  <2>1. k \in Kept(m) /\ k \in 0 .. Len(m.data) /\ (k = Len(m.data) \/ k >= 2)
    BY <1>4, <1>5 DEF Kept
  <2>2. Readable(m, k)
    <3>1. CASE current = 1
      BY <1>4, <1>5, <3>1
    <3>2. CASE current # 1
      <4>1. k >= 2 /\ k \in DOMAIN m.data
        BY <1>4, <1>5, <2>1, <3>2, SMTT(30)
      <4>2. Full(m.data[k])
        BY <1>4, <4>1 DEF Orderly
      <4> QED
        BY <4>1, <4>2, SMTT(30) DEF Readable
    <3> QED
      BY <3>1, <3>2
  <2>3. Sound(m, k, tables)
    BY <1>4, <2>1, <2>2 DEF SoundManifest
  <2>4. Built(SubSeq(m.data, 1, k)) \subseteq DOMAIN tables
    BY <2>3 DEF Sound, Ver
  <2>5. PICK d \in Seq(Edit) : d = m.data
    BY <1>5, Zenon
  <2>6. PICK c \in Seq(Edit) : c = SubSeq(d, 1, k) /\ Orderly(c) /\ Len(c) = k /\ (k # 0 => c[k] = d[k])
    <3>1. SubSeq(d, 1, k) \in Seq(Edit) /\ Len(SubSeq(d, 1, k)) = k /\ (k # 0 => SubSeq(d, 1, k)[k] = d[k])
      BY <2>1, <2>5, SMTT(30)
    <3>2. Orderly(SubSeq(d, 1, k))
      BY <1>4, <2>1, <2>5, OrderlyCut
    <3> QED
      BY <3>1, <3>2, Zenon
  <2>7. Complete(c) /\ LastOf(c, "log") = d[k].log
    BY <2>2, <2>5, <2>6, CompleteLemma, Zenon DEF Readable
  <2>8. d[k].log \in DOMAIN logs \cup {0}
    BY <1>4, <2>1, <2>2, <2>5, Zenon DEF LogsKept
  <2> QED
    BY <2>4, <2>5, <2>6, <2>7, <2>8, Zenon
<1> QED
  BY <1>2, <1>3, <1>6, Zenon

\* In a directory without files nothing is promised.
LEMMA InitDurable ==
    ASSUME Init
    PROVE  DInv
<1>1. /\ promised = {} /\ db.pc = "closed" /\ DOMAIN manifests = {} /\ odd = {}
  BY DEF Init, Closed, NoFile
<1>2. Safe = {}
  BY <1>1 DEF Safe
<1>3. OnDisk(promised, Safe, logs, tables)
  BY <1>1, <1>2 DEF OnDisk
<1>4. DiskInv
  BY <1>1, <1>3, Zenon DEF DiskInv
<1>5. RecoveryInv
  BY <1>1, Zenon DEF RecoveryInv
<1>6. ContentsInv
  BY <1>1, ZenonT(60) DEF ContentsInv
<1> QED
  BY <1>4, <1>5, <1>6, SMTT(30) DEF DInv

\* In a new directory no log is needed.
LEMMA InitLogs ==
    ASSUME Init
    PROVE  LogInv
BY DEF Init, LogInv, Closed

\* Every step keeps the invariant.
LEMMA NextInv ==
    ASSUME NumberFacts, IInv, [Next]_vars
    PROVE  IInv'
<1>1. CASE UNCHANGED vars
  <2>1. /\ logs' = logs /\ manifests' = manifests /\ tables' = tables /\ current' = current
        /\ db' = db /\ queue' = queue /\ group' = group /\ bg' = bg /\ repair' = repair
        /\ synced' = synced /\ spent' = spent /\ bound' = bound /\ odd' = odd
    BY <1>1, Zenon DEF vars, dir, promises
  <2>2. DirType' /\ ProcessType'
    BY <2>1 DEF IInv, DirType, ProcessType
  <2>3. FilesInv' /\ CurrentInv' /\ EntriesInv' /\ CompleteInv'
    BY <2>1, Zenon DEF IInv, DirInv, FilesInv, CurrentInv, EntriesInv, CompleteInv, Trusted
  <2>4. PhaseInv' /\ LogsInv' /\ EndInv' /\ RepairInv'
    BY <2>1, Zenon DEF IInv, OpeningInv, PhaseInv, LogsInv, EndInv, RepairInv, OpenDescriptor
  <2>5. OpenInv' /\ SequenceInv' /\ EditInv'
    BY <2>1, Zenon DEF IInv, ProcessInv, OpenInv, SequenceInv, EditInv, InFlight, Flush, Compaction
  <2>6. GroupInv' /\ QueueInv'
    BY <2>1, Zenon DEF IInv, ProcessInv, GroupInv, QueueInv, InFlight
  <2> QED
    BY <2>2, <2>3, <2>4, <2>5, <2>6 DEF IInv, DirInv, OpeningInv, ProcessInv
<1> QED
  BY <1>1, OpeningKeepsInv, WritingKeepsInv, BackgroundKeepsInv, LeavingKeepsInv, RepairKeepsInv
     DEF Next

\* Every step keeps what is promised.
LEMMA NextDurable ==
    ASSUME NumberFacts, IInv, IInv', DInv, [Next]_vars
    PROVE  DInv'
<1>1. CASE UNCHANGED vars
  <2>1. /\ logs' = logs /\ manifests' = manifests /\ tables' = tables /\ current' = current /\ db' = db
        /\ group' = group /\ repair' = repair /\ promised' = promised /\ synced' = synced /\ odd' = odd
    BY <1>1 DEF vars, dir, promises
  <2>2. (Fine' <=> Fine) /\ Safe' = Safe /\ (InFlight' <=> InFlight) /\ Contents' = Contents
    BY <2>1 DEF Fine, Safe, InFlight, Contents
  <2>3. DiskInv'
    BY <2>1, <2>2, Zenon DEF DInv, DiskInv
  <2>4. RecoveryInv'
    BY <2>1, <2>2, Zenon DEF DInv, RecoveryInv
  <2>5. ContentsInv'
    BY <2>1, <2>2, Zenon DEF DInv, ContentsInv
  <2> QED
    BY <2>3, <2>4, <2>5 DEF DInv
<1> QED
  BY <1>1, OpeningIsDurable, WritingIsDurable, BackgroundIsDurable, LeavingIsDurable, RepairIsDurable
     DEF Next

\* Every step keeps the log that is needed.
LEMMA NextLogs ==
    ASSUME IInv, IInv', LogInv, [Next]_vars
    PROVE  LogInv'
<1>1. CASE UNCHANGED vars
  <2>1. /\ logs' = logs /\ manifests' = manifests /\ current' = current /\ db' = db /\ repair' = repair
        /\ odd' = odd
    BY <1>1 DEF vars, dir
  <2>2. Trusted' <=> Trusted
    BY <2>1 DEF Trusted
  <2> QED
    BY <2>1, <2>2, LogsStay
<1> QED
  BY <1>1, OpeningKeepsLogs, WritingKeepsLogs, BackgroundKeepsLogs, LeavingKeepsLogs DEF Next

-----------------------------------------------------------------------------
(* The facts about numbers.                                                *)

INSTANCE FiniteSetTheorems

\* A set of naturals that is not empty has a smallest member.
LEMMA SmallestMember ==
    ASSUME NEW S \in SUBSET Nat, S # {}
    PROVE  Smallest(S) \in S /\ \A y \in S : Smallest(S) <= y
<1> DEFINE R == OpToRel(<, Nat)
<1>1. IsWellFoundedOn(R, Nat)
  BY NatLessThanWellFounded, Zenon
<1> HIDE DEF R
<1>2. PICK x \in S : \A y \in S : ~ (<<y, x>> \in R)
  BY <1>1, WFMin, Zenon
<1>3. \A y \in S : ~ (y < x)
  BY <1>2, Zenon DEF OpToRel, R
<1>4. \A y \in S : x <= y
  BY <1>3
<1> QED
  BY <1>4, Zenon DEF Smallest

\* The entries of the batches of the first p writers, told apart by their places.
Places(ws, p) == UNION {{i} \X (1 .. ws[i].size) : i \in 1 .. p}

\* They are finitely many.
LEMMA PlacesAreFinite ==
    ASSUME NEW ws \in Seq(Writer), NEW p \in 0 .. Len(ws)
    PROVE  IsFiniteSet(Places(ws, p)) /\ Cardinality(Places(ws, p)) \in Nat
<1> DEFINE place == [i \in 1 .. p |-> {i} \X (1 .. ws[i].size)]
           F == {{i} \X (1 .. ws[i].size) : i \in 1 .. p}
<1>1. place \in Surjection(1 .. p, F)
  BY Zenon DEF Surjection
<1>2. IsFiniteSet(1 .. p)
  BY FS_Interval
<1>3. IsFiniteSet(F)
  BY <1>1, <1>2, FS_Surjection
<1>4. ASSUME NEW T \in F PROVE IsFiniteSet(T)
  <2>1. PICK i \in 1 .. p : T = {i} \X (1 .. ws[i].size)
    OBVIOUS
  <2>2. i \in 1 .. Len(ws)
    OBVIOUS
  <2>3. 1 \in Int /\ ws[i].size \in Int
    BY <2>2, WriterLemma
  <2>4. IsFiniteSet({i}) /\ IsFiniteSet(1 .. ws[i].size)
    BY <2>3, FS_Singleton, FS_Interval, Zenon
  <2> QED
    BY <2>1, <2>4, FS_Product, Zenon
<1>5. IsFiniteSet(UNION F)
  BY <1>3, <1>4, FS_UNION, Zenon
<1> QED
  BY <1>5, FS_CardinalityType DEF Places

\* Count of the first p writers.
LEMMA CountOfPrefix ==
    ASSUME NEW ws \in Seq(Writer), NEW p \in 0 .. Len(ws)
    PROVE  Count(SubSeq(ws, 1, p)) = Cardinality(Places(ws, p))
<1> DEFINE c == SubSeq(ws, 1, p)
<1>1. DOMAIN c = 1 .. p /\ \A i \in 1 .. p : c[i] = ws[i]
  OBVIOUS
<1> HIDE DEF c
<1>2. {{i} \X (1 .. c[i].size) : i \in DOMAIN c} = {{i} \X (1 .. ws[i].size) : i \in 1 .. p}
  BY <1>1, Zenon
<1> QED
  BY <1>2, Zenon DEF Count, Places, c

\* The batch of writer i is counted after those before it, and within any longer prefix.
LEMMA CountGrows ==
    ASSUME NEW ws \in Seq(Writer), NEW i \in 1 .. Len(ws), NEW q \in i .. Len(ws)
    PROVE  /\ Count(SubSeq(ws, 1, i - 1)) \in Nat /\ Count(SubSeq(ws, 1, q)) \in Nat
           /\ Count(SubSeq(ws, 1, i - 1)) + ws[i].size <= Count(SubSeq(ws, 1, q))
<1> DEFINE U == Places(ws, i - 1)
           W == {i} \X (1 .. ws[i].size)
           V == Places(ws, q)
<1>1. i - 1 \in 0 .. Len(ws) /\ q \in 0 .. Len(ws) /\ ws[i].size \in Nat
  BY WriterLemma
<1>2. IsFiniteSet(U) /\ Cardinality(U) \in Nat /\ IsFiniteSet(V) /\ Cardinality(V) \in Nat
  BY <1>1, PlacesAreFinite, ZenonT(60)
<1>3. IsFiniteSet(W) /\ Cardinality(W) = ws[i].size
  <2>1. IsFiniteSet({i}) /\ Cardinality({i}) = 1
    BY FS_Singleton, Zenon
  <2>2. IsFiniteSet(1 .. ws[i].size) /\ Cardinality(1 .. ws[i].size) = ws[i].size
    <3>1. 1 \in Int /\ ws[i].size \in Int
      BY <1>1
    <3>2. /\ IsFiniteSet(1 .. ws[i].size)
          /\ Cardinality(1 .. ws[i].size) = IF 1 > ws[i].size THEN 0 ELSE ws[i].size - 1 + 1
      BY <3>1, FS_Interval, Zenon
    <3> QED
      BY <1>1, <3>2
  <2>3. IsFiniteSet(W) /\ Cardinality(W) = Cardinality({i}) * Cardinality(1 .. ws[i].size)
    BY <2>1, <2>2, FS_Product, Zenon
  <2> QED
    BY <1>1, <2>1, <2>2, <2>3
<1>4. U \cap W = {}
  <2> SUFFICES ASSUME NEW x \in U, x \in W PROVE FALSE
    OBVIOUS
  <2>1. PICK j \in 1 .. i - 1 : x \in {j} \X (1 .. ws[j].size)
    BY DEF Places
  <2>2. x[1] = j /\ x[1] = i
    BY <2>1
  <2> QED
    BY <2>1, <2>2
<1>5. U \cup W \subseteq V
  <2>1. U \subseteq V
    <3> SUFFICES ASSUME NEW x \in U PROVE x \in V
      OBVIOUS
    <3>1. PICK j \in 1 .. i - 1 : x \in {j} \X (1 .. ws[j].size)
      BY DEF Places
    <3>2. j \in 1 .. q
      OBVIOUS
    <3> QED
      BY <3>1, <3>2, Zenon DEF Places
  <2>2. i \in 1 .. q
    OBVIOUS
  <2>3. W \subseteq V
    BY <2>2, Zenon DEF Places
  <2> QED
    BY <2>1, <2>3
<1> HIDE DEF U, V, W
<1>6. Cardinality(U \cup W) = Cardinality(U) + Cardinality(W)
  <2>1. Cardinality(U \cup W) = Cardinality(U) + Cardinality(W) - Cardinality(U \cap W)
    BY <1>2, <1>3, FS_Union
  <2>2. Cardinality(U \cap W) = 0
    BY <1>4, FS_EmptySet, Zenon
  <2> QED
    BY <1>1, <1>2, <1>3, <2>1, <2>2
<1>7. Cardinality(U \cup W) <= Cardinality(V)
  BY <1>2, <1>5, FS_Subset
<1>8. Count(SubSeq(ws, 1, i - 1)) = Cardinality(U) /\ Count(SubSeq(ws, 1, q)) = Cardinality(V)
  BY <1>1, CountOfPrefix DEF U, V
<1> QED
  BY <1>1, <1>2, <1>3, <1>6, <1>7, <1>8

\* The entries of a group have the numbers from s on, each its own, and the ids of the
\* writers whose batch is not empty (Write, WriteBatchInternal::SetSequence).
LEMMA NumberedEntries ==
    ASSUME NEW ws \in Seq(Writer), NEW s \in Nat
    PROVE  /\ Count(ws) \in Nat /\ Numbered(ws, s) \subseteq Entry
           /\ \A x \in Numbered(ws, s) : s <= x[1] /\ x[1] < s + Count(ws)
           /\ \A a, b \in Numbered(ws, s) : a[1] = b[1] => a = b
           /\ \A x \in Numbered(ws, s) : \E i \in DOMAIN ws : x[2] = ws[i].id
           /\ \A i \in DOMAIN ws : ws[i].size > 0 => \E x \in Numbered(ws, s) : x[2] = ws[i].id
<1> DEFINE at(i) == Count(SubSeq(ws, 1, i - 1))
           all == Count(ws)
<1>1. Len(ws) \in Nat /\ DOMAIN ws = 1 .. Len(ws)
  OBVIOUS
<1>2. all \in Nat
  <2>1. SubSeq(ws, 1, Len(ws)) = ws
    OBVIOUS
  <2>2. Len(ws) \in 0 .. Len(ws)
    BY <1>1
  <2>3. Count(SubSeq(ws, 1, Len(ws))) = Cardinality(Places(ws, Len(ws)))
    BY <2>2, CountOfPrefix, Zenon
  <2>4. Cardinality(Places(ws, Len(ws))) \in Nat
    BY <2>2, PlacesAreFinite, Zenon
  <2> QED
    BY <2>1, <2>3, <2>4, Zenon
<1>3. ASSUME NEW i \in DOMAIN ws
      PROVE  /\ at(i) \in Nat /\ ws[i].size \in Nat /\ ws[i].id \in Nat
             /\ at(i) + ws[i].size <= all
             /\ \A j \in DOMAIN ws : i < j => at(i) + ws[i].size <= at(j)
  <2>1. ws[i].size \in Nat /\ ws[i].id \in Nat
    BY <1>1, WriterLemma
  <2>2. SubSeq(ws, 1, Len(ws)) = ws
    OBVIOUS
  <2>3. at(i) \in Nat /\ at(i) + ws[i].size <= all
    <3>1. i \in 1 .. Len(ws) /\ Len(ws) \in i .. Len(ws)
      BY <1>1
    <3> QED
      BY <2>2, <3>1, CountGrows, Zenon
  <2>4. ASSUME NEW j \in DOMAIN ws, i < j PROVE at(i) + ws[i].size <= at(j)
    <3>1. i \in 1 .. Len(ws) /\ j - 1 \in i .. Len(ws)
      BY <1>1, <2>4
    <3> QED
      BY <3>1, CountGrows, Zenon
  <2> QED
    BY <2>1, <2>3, <2>4
<1> HIDE DEF at, all
<1>4. ASSUME NEW x \in Numbered(ws, s)
      PROVE  \E i \in DOMAIN ws : \E j \in 0 .. ws[i].size - 1 : x = <<s + at(i) + j, ws[i].id>>
  BY <1>4 DEF Numbered, at
<1>5. ASSUME NEW x \in Numbered(ws, s)
      PROVE  /\ x \in Entry /\ s <= x[1] /\ x[1] < s + all
             /\ \E i \in DOMAIN ws : x[2] = ws[i].id
  <2>1. PICK i \in DOMAIN ws : \E j \in 0 .. ws[i].size - 1 : x = <<s + at(i) + j, ws[i].id>>
    BY <1>4
  <2>2. PICK j \in 0 .. ws[i].size - 1 : x = <<s + at(i) + j, ws[i].id>>
    BY <2>1, Zenon
  <2>3. /\ at(i) \in Nat /\ ws[i].size \in Nat /\ ws[i].id \in Nat
        /\ at(i) + ws[i].size <= all
    BY <1>3
  <2>4. x[1] = s + at(i) + j /\ x[2] = ws[i].id
    BY <2>2
  <2>5. s + at(i) + j \in Nat /\ s <= s + at(i) + j /\ s + at(i) + j < s + all
    <3>1. PICK m \in Nat : m = at(i)
      BY <2>3, Zenon
    <3>2. PICK z \in Nat : z = ws[i].size
      BY <2>3, Zenon
    <3>3. j \in 0 .. z - 1 /\ m + z <= all
      BY <2>3, <3>1, <3>2, Zenon
    <3>4. s + m + j \in Nat /\ s <= s + m + j /\ s + m + j < s + all
      BY <1>2, <3>3
    <3> QED
      BY <3>1, <3>4, Zenon
  <2>6. x \in Entry
    BY <2>2, <2>3, <2>5, Zenon DEF Entry
  <2> QED
    BY <2>4, <2>5, <2>6, Zenon
<1>6. ASSUME NEW a \in Numbered(ws, s), NEW b \in Numbered(ws, s), a[1] = b[1]
      PROVE  a = b
  <2>1. PICK i \in DOMAIN ws : \E j \in 0 .. ws[i].size - 1 : a = <<s + at(i) + j, ws[i].id>>
    BY <1>4
  <2>2. PICK j \in 0 .. ws[i].size - 1 : a = <<s + at(i) + j, ws[i].id>>
    BY <2>1
  <2>3. PICK k \in DOMAIN ws : \E j1 \in 0 .. ws[k].size - 1 : b = <<s + at(k) + j1, ws[k].id>>
    BY <1>4, Zenon
  <2>4. PICK l \in 0 .. ws[k].size - 1 : b = <<s + at(k) + l, ws[k].id>>
    BY <2>3, Zenon
  <2>5. /\ at(i) \in Nat /\ ws[i].size \in Nat
        /\ i < k => at(i) + ws[i].size <= at(k)
    BY <1>3
  <2>6. /\ at(k) \in Nat /\ ws[k].size \in Nat
        /\ k < i => at(k) + ws[k].size <= at(i)
    BY <1>3
  <2>9. s + at(i) + j = s + at(k) + l
    <3>1. a[1] = s + at(i) + j /\ b[1] = s + at(k) + l
      BY <2>2, <2>4
    <3> QED
      BY <1>6, <3>1, Zenon
  <2>7. at(i) + j = at(k) + l
    <3>1. PICK m \in Nat, n \in Nat : m = at(i) /\ n = at(k)
      BY <2>5, <2>6, Zenon
    <3>2. j \in Int /\ l \in Int
      BY <2>5, <2>6
    <3>3. s + m + j = s + n + l
      BY <2>9, <3>1, Zenon
    <3>4. m + j = n + l
      BY <3>2, <3>3
    <3> QED
      BY <3>1, <3>4, Zenon
  <2>8. i = k
    <3>1. i \in Nat /\ k \in Nat
      BY <1>1
    <3>2. PICK m \in Nat, n \in Nat : m = at(i) /\ n = at(k)
      BY <2>5, <2>6, Zenon
    <3>3. PICK y \in Nat, z \in Nat : y = ws[i].size /\ z = ws[k].size
      BY <2>5, <2>6, Zenon
    <3>4. /\ j \in 0 .. y - 1 /\ l \in 0 .. z - 1 /\ m + j = n + l
          /\ i < k => m + y <= n
          /\ k < i => n + z <= m
      BY <2>5, <2>6, <2>7, <3>2, <3>3, Zenon
    <3> QED
      BY <3>1, <3>4
  <2> QED
    BY <2>2, <2>4, <2>9, <2>8, Zenon
<1>7. ASSUME NEW i \in DOMAIN ws, ws[i].size > 0
      PROVE  \E x \in Numbered(ws, s) : x[2] = ws[i].id
  <2>1. 0 \in 0 .. ws[i].size - 1
    BY <1>3, <1>7
  <2>2. <<s + at(i) + 0, ws[i].id>> \in Numbered(ws, s)
    BY <2>1 DEF Numbered, at
  <2> QED
    BY <2>2
<1> QED
  BY <1>2, <1>5, <1>6, <1>7, Zenon DEF all

\* The facts about numbers hold.
LEMMA NumberFactsHold == NumberFacts
<1>1. ASSUME NEW S \in SUBSET Nat, S # {} PROVE \E x \in S : \A y \in S : x <= y
  BY <1>1, SmallestMember, Zenon
<1>2. Cardinality({}) = 0
  BY FS_EmptySet
<1>3. ASSUME NEW ws \in Seq(Writer), NEW s \in Nat PROVE GroupNumbered(ws, s)
  BY NumberedEntries, Zenon DEF GroupNumbered
<1> QED
  BY <1>1, <1>2, <1>3 DEF NumberFacts

-----------------------------------------------------------------------------
(* The theorems.                                                           *)

\* The invariant of the database and its directory holds, whatever crashes.
THEOREM InvHolds == Spec => []IInv
<1>1. Init => IInv
  BY InitInv
<1>2. IInv /\ [Next]_vars => IInv'
  BY NumberFactsHold, NextInv
<1> QED
  BY <1>1, <1>2, PTL DEF Spec

\* The counters agree, and no two entries have one sequence number, in memory, in tables
\* or in logs: SetLastSequence after a group, and Recover from the descriptor and the logs.
THEOREM SequencesTheorem == Spec => []SequencesAreUnique
<1>1. IInv => SequencesAreUnique
  BY UniqueFromInv
<1> QED
  BY <1>1, InvHolds, PTL

\* At every moment a crash leaves a database that opens: LogAndApply, Recover and
\* SetCurrentFile write in an order that no crash can spoil.
THEOREM CrashPointsTheorem == Spec => []CrashPointsRecover
<1>1. Init => LogInv
  BY InitLogs
<1>2. IInv /\ IInv' /\ LogInv /\ [Next]_vars => LogInv'
  BY NextLogs, Zenon
<1>3. IInv /\ LogInv => CrashPointsRecover
  BY RecoverFromInv
<1> QED
  BY <1>1, <1>2, <1>3, InvHolds, PTL DEF Spec

\* What is promised is where a crash, Open and RepairDB find it.
THEOREM DurableHolds == Spec => []DInv
<1>1. Init => DInv
  BY InitDurable
<1>2. IInv /\ IInv' /\ DInv /\ [Next]_vars => DInv'
  BY NumberFactsHold, NextDurable, Zenon
<1> QED
  BY <1>1, <1>2, InvHolds, PTL DEF Spec

\* Every acknowledged write is in the open database, however often the process was
\* killed or the database repaired; after a crash of the machine, every write acknowledged
\* with sync.
THEOREM AcknowledgedTheorem == Spec => []AcknowledgedSurvives
<1>1. DInv => AcknowledgedSurvives
  BY Zenon DEF DInv, ContentsInv, Fine, AcknowledgedSurvives
<1> QED
  BY <1>1, DurableHolds, PTL
=============================================================================
