------------------------------ MODULE Recovery ------------------------------
(***************************************************************************)
(* What a LevelDB database keeps on disk, and opening it again             *)
(* (leveldb-1.15.0: db/db_impl.cc, db/version_set.cc, db/version_edit.cc,  *)
(* db/filename.cc, db/write_batch.cc, db/repair.cc).  Writers queue up and *)
(* one of them writes for a group; the log, the tables and the MANIFEST    *)
(* are written in the order that is meant to survive a crash of the        *)
(* process or of the machine at any point; Open and RepairDB put the state *)
(* together again.                                                         *)
(*                                                                         *)
(* An entry is <<sequence number, write>>; all writes are of different     *)
(* keys, so contents are sets and a compaction only replaces tables by one *)
(* (levels and keys are the subject of Compactions).  A log is a sequence  *)
(* of records, a record the set of entries of a group (LogFile shows that  *)
(* a cut loses whole records at the end).                                  *)
(*                                                                         *)
(* A crash of the machine keeps at least what was synced of every file.    *)
(* Creating, renaming and deleting files takes effect at once and in       *)
(* order; a table is synced before the MANIFEST names it.                  *)
(***************************************************************************)
EXTENDS Integers, Sequences, FiniteSets, Functions

CONSTANTS
    NULL,
    WriteBuffer,   \* entries that fill a memtable
    GroupLimit,    \* entries of a group of writers
    QueueLimit,    \* threads that write
    Bounds         \* of a behaviour: writes, crashes, opens, machine (whether the machine
                   \* may crash), fail (whether I/O may fail), repair, sizes (of batches)

ASSUME NullAssumption == NULL \notin Nat

ASSUME BoundsAssumption ==
    Bounds \subseteq [writes : Nat, crashes : Nat, opens : Nat, machine : BOOLEAN,
                      fail : BOOLEAN, repair : BOOLEAN, sizes : SUBSET Nat]

VARIABLES
    logs, manifests,   \* number -> [data, synced]: records or edits, and how many are safe
    tables,            \* number -> set of entries
    current,           \* the number that CURRENT names, or NULL
    db,                \* the process: DBImpl and VersionSet
    queue,             \* writers_: [id, size, sync]; size 0 is the NULL batch
    group,             \* what the first writer is doing
    bg,                \* the background thread: [pc, edit]
    repair,            \* RepairDB
    promised,          \* writes that must be there when the database is open
    acked, synced,     \* writes acknowledged and not lost, and acknowledged after a sync
    spent,             \* what the behaviour has used of its bounds
    bound, odd

dir == <<logs, manifests, tables, current>>
promises == <<promised, acked, synced>>
vars == <<dir, db, queue, group, bg, repair, promises, spent, bound, odd>>

\* imm holds no memtable or one.
Closed == [pc |-> "closed", mem |-> {}, imm |-> {}, last_sequence |-> 0,
           next_file_number |-> 2, log_number |-> 0, manifest |-> 0, logfile |-> 0,
           version |-> {}, bg_error |-> FALSE,
           todo |-> {}, read |-> 0, max_sequence |-> 0, added |-> {}, ok |-> TRUE]

Quiet == [pc |-> "idle", edit |-> NULL]
NoGroup == [pc |-> "none", n |-> 0]
NoRepair == [pc |-> "none", next |-> 0, found |-> {}]

Larger(a, b) == IF a >= b THEN a ELSE b

Largest(S) == CHOOSE x \in S \cup {0} : \A y \in S : y <= x
Smallest(S) == CHOOSE x \in S : \A y \in S : x <= y

Seqs(S) == {e[1] : e \in S}
Ids(S) == {e[2] : e \in S}
AllEntries(f) == UNION {f[n] : n \in DOMAIN f}
EntriesOf(log) == UNION Range(log.data)

\* VersionEdit: NULL is a field that is not there.
VersionEdit(log, next, last, added, deleted) ==
    [log |-> log, next |-> next, last |-> last, added |-> added, deleted |-> deleted]

Has(edits, f) == \E i \in DOMAIN edits : edits[i][f] # NULL

LastOf(edits, f) ==
    edits[Largest({i \in DOMAIN edits : edits[i][f] # NULL})][f]

\* VersionSet::Builder.
Apply(v, e) == (v \ e.deleted) \cup e.added

\* What the edits applied in turn leave: what one of them adds and no later one deletes.
Built(edits) ==
    UNION {{n \in edits[i].added : \A j \in i + 1 .. Len(edits) : n \notin edits[j].deleted} :
              i \in DOMAIN edits}

Complete(edits) == Has(edits, "next") /\ Has(edits, "log") /\ Has(edits, "last")

NoFile == [n \in {} |-> <<>>]
Put(f, n, v) == [i \in DOMAIN f \cup {n} |-> IF i = n THEN v ELSE f[i]]
Written(data, n) == [data |-> data, synced |-> n]

\* DBImpl::DeleteObsoleteFiles with the state d.
DeleteObsoleteFiles(d, ls, ms) ==
    /\ logs' = Restrict(ls, {n \in DOMAIN ls : n >= d.log_number})
    /\ manifests' = Restrict(ms, {n \in DOMAIN ms : n >= d.manifest})
    /\ tables' = Restrict(tables, DOMAIN tables \cap d.version)

-----------------------------------------------------------------------------
(* DB::Open.                                                               *)

NotOpening == <<queue, group, bg, repair, promises, bound>>

OpenBegins ==
    /\ db.pc = "closed" /\ repair = NoRepair /\ spent.opens < bound.opens
    /\ spent' = [spent EXCEPT !.opens = @ + 1]
    /\ \/ /\ current # NULL
          /\ db' = [Closed EXCEPT !.pc = "recover"]
          /\ manifests' = manifests
       \/ /\ current = NULL              \* NewDB: the file is not synced
          /\ db' = [Closed EXCEPT !.pc = "newdb"]
          /\ manifests' = Put(manifests, 1, Written(<<VersionEdit(0, 2, 0, {}, {})>>, 0))
    /\ odd' = IF "repair" \in odd THEN odd \cup {"unrepaired"} ELSE odd
    /\ UNCHANGED <<logs, tables, current, NotOpening>>

\* SetCurrentFile writes and syncs a temporary file and renames it.
SetCurrentFile(n) == current' = n

NewDBEnds ==
    /\ db.pc = "newdb"
    /\ SetCurrentFile(1)
    /\ db' = [db EXCEPT !.pc = "recover"]
    /\ UNCHANGED <<logs, manifests, tables, NotOpening, spent, odd>>

\* VersionSet::Recover, and DBImpl::Recover up to the logs.  A missing table is overlooked
\* when another kind of file has its number.
RecoverVersion ==
    /\ db.pc = "recover"
    /\ LET edits == IF current \in DOMAIN manifests THEN manifests[current].data ELSE <<>>
           v == Built(edits)
           min_log == LastOf(edits, "log")
           missing == v \ (DOMAIN tables \cup DOMAIN logs \cup DOMAIN manifests)
       IN IF ~Complete(edits) \/ missing # {}
          THEN /\ db' = Closed
               /\ odd' = odd \cup {"corrupt"}
          ELSE /\ db' = [db EXCEPT !.pc = "logs", !.version = v,
                           !.manifest = LastOf(edits, "next"),
                           !.next_file_number = LastOf(edits, "next") + 1,
                           !.last_sequence = LastOf(edits, "last"),
                           !.log_number = min_log,
                           !.todo = {n \in DOMAIN logs : n >= min_log}]
               /\ odd' = odd
    /\ UNCHANGED <<dir, NotOpening, spent>>

\* VersionSet::MarkFileNumberUsed.
MarkFileNumberUsed(next, n) == Larger(next, n + 1)

\* A turn of Recover's loop over the logs, the n-th one, ends in state d.  The status of a
\* turn replaces that of the turn before.
TurnEnds(d, n, ok) ==
    /\ db' = [d EXCEPT !.todo = @ \ {n}, !.read = 0, !.mem = {}, !.ok = ok,
                       !.next_file_number = MarkFileNumberUsed(@, n)]
    /\ odd' = IF ok /\ ~db.ok THEN odd \cup {"overlooked"} ELSE odd

\* WriteLevel0Table of the memtable filled from the log, in state d.
Level0Written(d) == [d EXCEPT !.next_file_number = @ + 1, !.mem = {},
                              !.added = @ \cup {d.next_file_number}]

\* It fails: BuildTable removes the file, and the turn is over.
Level0Fails(d, n) ==
    /\ bound.fail
    /\ tables' = Restrict(tables, DOMAIN tables \ {d.next_file_number})
    /\ TurnEnds([d EXCEPT !.next_file_number = @ + 1], n, FALSE)

\* RecoverLogFile reads a record into the memtable db.mem and writes that when it is full.
ReplayRecord ==
    /\ db.pc = "logs" /\ db.todo # {}
    /\ LET n == Smallest(db.todo)
           record == logs[n].data[db.read + 1]
           d == [db EXCEPT !.read = @ + 1, !.mem = @ \cup record,
                           !.max_sequence = Larger(@, Largest(Seqs(record)))]
           full == Cardinality(d.mem) > WriteBuffer
       IN /\ db.read < Len(logs[n].data)
          /\ \/ ~full /\ db' = d /\ UNCHANGED <<tables, odd>>
             \/ /\ full /\ db' = Level0Written(d)
                /\ tables' = Put(tables, d.next_file_number, d.mem) /\ odd' = odd
             \/ full /\ Level0Fails(d, n)
    /\ UNCHANGED <<logs, manifests, current, NotOpening, spent>>

\* The end of the log: RecoverLogFile writes what is left.
ReplayEnds ==
    /\ db.pc = "logs" /\ db.todo # {}
    /\ LET n == Smallest(db.todo)
       IN /\ db.read = Len(logs[n].data)
          /\ \/ db.mem = {} /\ TurnEnds(db, n, TRUE) /\ tables' = tables
             \/ /\ db.mem # {} /\ TurnEnds(Level0Written(db), n, TRUE)
                /\ tables' = Put(tables, db.next_file_number, db.mem)
             \/ db.mem # {} /\ Level0Fails(db, n)
    /\ UNCHANGED <<logs, manifests, current, NotOpening, spent>>

\* A new log, and LogAndApply with a new MANIFEST: a snapshot and the edit.
RecoveryEnds ==
    /\ db.pc = "logs" /\ db.todo = {}
    /\ LET log == db.next_file_number
           last == Larger(db.last_sequence, db.max_sequence)
       IN IF ~db.ok
          THEN db' = Closed /\ UNCHANGED <<logs, manifests>>
          ELSE /\ db' = [db EXCEPT !.pc = "sync", !.logfile = log, !.last_sequence = last,
                                   !.next_file_number = log + 1]
               /\ logs' = Put(logs, log, Written(<<>>, 0))
               /\ manifests' = Put(manifests, db.manifest,
                     Written(<<VersionEdit(NULL, NULL, NULL, db.version, {}),
                               VersionEdit(log, log + 1, last, db.added, {})>>, 0))
    /\ UNCHANGED <<tables, current, NotOpening, spent, odd>>

\* The MANIFEST is synced; when that fails it is removed and Open fails.  It may be the one
\* that CURRENT names: a RepairDB that finds neither logs nor tables starts the numbers at 1.
OpenSyncs ==
    /\ db.pc = "sync"
    /\ \/ /\ db' = [db EXCEPT !.pc = "current"]
          /\ manifests' = [manifests EXCEPT ![db.manifest].synced = 2]
          /\ odd' = odd
       \/ /\ bound.fail
          /\ db' = Closed
          /\ manifests' = Restrict(manifests, DOMAIN manifests \ {db.manifest})
          /\ odd' = IF db.manifest = current THEN odd \cup {"removed"} ELSE odd
    /\ UNCHANGED <<logs, tables, current, NotOpening, spent>>

OpenSetsCurrent ==
    /\ db.pc = "current"
    /\ SetCurrentFile(db.manifest)
    /\ db' = [db EXCEPT !.pc = "install"]
    /\ UNCHANGED <<logs, manifests, tables, NotOpening, spent, odd>>

OpenEnds ==
    /\ db.pc = "install"
    /\ db' = [db EXCEPT !.pc = "open", !.version = @ \cup db.added, !.log_number = db.logfile,
                        !.added = {}]
    /\ DeleteObsoleteFiles(db', logs, manifests)
    /\ UNCHANGED <<current, NotOpening, spent, odd>>

-----------------------------------------------------------------------------
(* DBImpl::Write.                                                          *)

NotWriting == <<manifests, tables, current, bg, repair, bound>>

\* WriteBatchInternal::Count of the batches of ws together.
Count(ws) == Cardinality(UNION {{i} \X (1 .. ws[i].size) : i \in DOMAIN ws})

Enqueue(size, sync) ==
    /\ db.pc = "open" /\ Len(queue) < QueueLimit /\ spent.writes < bound.writes
    /\ queue' = Append(queue, [id |-> spent.writes + 1, size |-> size, sync |-> sync])
    /\ spent' = [spent EXCEPT !.writes = @ + 1]
    /\ UNCHANGED <<logs, db, group, promises, odd, NotWriting>>

\* A deviation: a sync write may join a group that is not synced.
DevAnySync ==
    Largest({n \in 1 .. Len(queue) : \A i \in 2 .. n :
                queue[i].size > 0 => Count(SubSeq(queue, 1, i)) <= GroupLimit})

\* BuildBatchGroup: how many of the queue's writers.  A NULL batch adds nothing.
GroupSize ==
    Largest({n \in 1 .. Len(queue) : \A i \in 2 .. n :
                /\ queue[i].sync => queue[1].sync
                /\ queue[i].size > 0 => Count(SubSeq(queue, 1, i)) <= GroupLimit})

\* The entries of the group, numbered from s.
Numbered(ws, s) ==
    UNION {{<<s + Count(SubSeq(ws, 1, i - 1)) + j, ws[i].id>> : j \in 0 .. ws[i].size - 1} :
              i \in DOMAIN ws}

\* A forced switch is done once, and then there is room.
HasRoom == IF queue[1].size = 0 THEN group.pc = "room" ELSE Cardinality(db.mem) <= WriteBuffer

\* A deviation: no second turn of MakeRoomForWrite's loop.
DevOneTurn == queue # <<>> /\ db.pc = "open" /\ group.pc = "none"

AtFront == queue # <<>> /\ db.pc = "open" /\ group.pc \in {"none", "room"}

\* The first n writers return.
Return(n) == queue' = SubSeq(queue, n + 1, Len(queue)) /\ group' = NoGroup

\* MakeRoomForWrite: an earlier background error, or no new log file.
RoomFails ==
    /\ AtFront
    /\ \/ db.bg_error /\ db' = db
       \/ ~db.bg_error /\ ~HasRoom /\ db.imm = {} /\ bound.fail /\ db' = db
    /\ Return(1)
    /\ UNCHANGED <<logs, promises, spent, odd, NotWriting>>

\* MakeRoomForWrite: a new log and memtable.
SwitchLog ==
    /\ AtFront /\ ~db.bg_error /\ ~HasRoom /\ db.imm = {}
    /\ db' = [db EXCEPT !.logfile = db.next_file_number, !.next_file_number = @ + 1,
                        !.imm = {db.mem}, !.mem = {}]
    /\ logs' = Put(logs, db.next_file_number, Written(<<>>, 0))
    /\ group' = [pc |-> "room", n |-> 0]
    /\ UNCHANGED <<queue, promises, spent, odd, NotWriting>>

\* A deviation: the writes of the group do not count.
DevCountsOne(ws) == db.last_sequence + 1

\* last_sequence after the writers ws.
NextSequence(ws) == db.last_sequence + Count(ws)

\* The group is put together and its record appended, or nothing is for a NULL batch.
\* AddRecord may fail, which is not a background error: the sequence numbers are used up.
AddRecord ==
    /\ AtFront /\ ~db.bg_error /\ HasRoom
    /\ LET n == GroupSize
           record == Numbered(SubSeq(queue, 1, n), db.last_sequence + 1)
       IN \/ /\ queue[1].size > 0
             /\ logs' = [logs EXCEPT ![db.logfile].data = Append(@, record)]
             /\ group' = [pc |-> IF queue[1].sync THEN "sync" ELSE "insert", n |-> n]
             /\ UNCHANGED <<queue, db>>
          \/ /\ queue[1].size > 0 /\ bound.fail
             /\ db' = [db EXCEPT !.last_sequence = NextSequence(SubSeq(queue, 1, n))]
             /\ Return(n) /\ UNCHANGED logs
          \/ /\ queue[1].size = 0
             /\ Return(1) /\ UNCHANGED <<logs, db>>
    /\ UNCHANGED <<promises, spent, odd, NotWriting>>

SyncLog ==
    /\ group.pc = "sync"
    /\ \/ /\ logs' = [logs EXCEPT ![db.logfile].synced = Len(logs[db.logfile].data)]
          /\ group' = [group EXCEPT !.pc = "insert"]
       \/ bound.fail /\ group' = [group EXCEPT !.pc = "failed"] /\ logs' = logs
    /\ UNCHANGED <<db, queue, promises, spent, odd, NotWriting>>

\* InsertInto, unless the sync failed, SetLastSequence, and everyone in the group returns.
WriteEnds ==
    /\ group.pc \in {"insert", "failed"}
    /\ LET data == logs[db.logfile].data
           record == data[Len(data)]
           failed == group.pc = "failed"
       IN /\ db' = [db EXCEPT !.mem = IF failed THEN @ ELSE @ \cup record,
                              !.last_sequence = NextSequence(SubSeq(queue, 1, group.n)),
                              !.bg_error = @ \/ failed]
          /\ promised' = IF failed THEN promised ELSE promised \cup Ids(record)
          /\ acked' = IF failed THEN acked ELSE acked \cup Ids(record)
          /\ synced' = IF failed THEN synced
                       ELSE synced \cup (IF queue[1].sync THEN Ids(record) ELSE {})
                               \cup {queue[i].id : i \in {j \in 1 .. group.n :
                                                          queue[j].sync /\ queue[j].size > 0}}
    /\ Return(group.n)
    /\ UNCHANGED <<logs, spent, odd, NotWriting>>

-----------------------------------------------------------------------------
(* The background thread: a memtable or all tables go into a new table.    *)

NotBackground == <<current, queue, group, repair, promises, spent, bound, odd>>

\* BuildTable.
BuildTable ==
    /\ db.pc = "open" /\ bg.pc = "idle" /\ ~db.bg_error
    /\ db.imm # {} \/ Cardinality(db.version) > 1
    /\ LET n == db.next_file_number
           flush == db.imm # {}
           data == IF flush THEN UNION db.imm ELSE UNION {tables[i] : i \in db.version}
           added == IF data = {} THEN {} ELSE {n}
       IN \/ /\ tables' = IF data = {} THEN tables ELSE Put(tables, n, data)
             /\ bg' = [pc |-> "log",
                       edit |-> VersionEdit(IF flush THEN db.logfile ELSE db.log_number,
                                    n + 1, 0, added, IF flush THEN {} ELSE db.version)]
             /\ db' = [db EXCEPT !.next_file_number = @ + 1]
          \/ /\ bound.fail
             /\ db' = [db EXCEPT !.bg_error = TRUE, !.next_file_number = @ + 1]
             /\ UNCHANGED <<tables, bg>>
    /\ UNCHANGED <<logs, manifests, NotBackground>>

\* LogAndApply writes the edit with the counters of this moment.
LogEdit ==
    /\ bg.pc = "log"
    /\ LET e == [bg.edit EXCEPT !.next = db.next_file_number, !.last = db.last_sequence]
       IN /\ manifests' = [manifests EXCEPT ![db.manifest].data = Append(@, e)]
          /\ bg' = [pc |-> "sync", edit |-> e]
    /\ UNCHANGED <<logs, tables, db, NotBackground>>

SyncManifest ==
    /\ bg.pc = "sync"
    /\ \/ /\ manifests' = [manifests EXCEPT ![db.manifest].synced =
                                              Len(manifests[db.manifest].data)]
          /\ bg' = [bg EXCEPT !.pc = "install"]
          /\ db' = db
       \/ /\ bound.fail
          /\ db' = [db EXCEPT !.bg_error = TRUE]
          /\ bg' = Quiet
          /\ manifests' = manifests
    /\ UNCHANGED <<logs, tables, NotBackground>>

\* A deviation: files are deleted before the edit is safe.
DevDeletesEarly ==
    /\ bg.pc \in {"sync", "install"}
    /\ db' = [db EXCEPT !.version = Apply(@, bg.edit), !.log_number = bg.edit.log,
                        !.imm = IF bg.edit.deleted = {} THEN {} ELSE @]
    /\ bg' = Quiet
    /\ DeleteObsoleteFiles(db', logs, manifests)
    /\ UNCHANGED NotBackground

\* The new version is installed and obsolete files are deleted, unless another thread has
\* met an error.
Install ==
    /\ bg.pc = "install"
    /\ db' = [db EXCEPT !.version = Apply(@, bg.edit), !.log_number = bg.edit.log,
                        !.imm = IF bg.edit.deleted = {} THEN {} ELSE @]
    /\ bg' = Quiet
    /\ IF db.bg_error THEN UNCHANGED <<logs, manifests, tables>>
       ELSE DeleteObsoleteFiles(db', logs, manifests)
    /\ UNCHANGED NotBackground

-----------------------------------------------------------------------------
(* The end of a process.                                                   *)

Gone ==
    /\ db' = Closed /\ queue' = <<>> /\ group' = NoGroup /\ bg' = Quiet /\ repair' = NoRepair

\* The destructor waits for the background thread and writes nothing.
Close ==
    /\ db.pc = "open" /\ queue = <<>> /\ bg.pc = "idle" /\ spent.opens < bound.opens
    /\ Gone
    /\ UNCHANGED <<dir, promises, spent, bound, odd>>

Crashes ==
    /\ db.pc # "closed" \/ repair # NoRepair
    /\ spent.crashes < bound.crashes
    /\ spent' = [spent EXCEPT !.crashes = @ + 1]
    /\ Gone

\* A repair that was cut short has to be done again.
Interrupted == IF repair = NoRepair THEN {} ELSE {"repair"}

ProcessCrash ==
    /\ Crashes
    /\ odd' = odd \cup Interrupted
    /\ UNCHANGED <<dir, promises, bound>>

\* What may be left of the files f.
Cuts(f) ==
    {g \in [DOMAIN f -> UNION {{Written(SubSeq(f[n].data, 1, k), k) : k \in f[n].synced .. Len(f[n].data)}
                                  : n \in DOMAIN f}] :
        \A n \in DOMAIN f : \E k \in f[n].synced .. Len(f[n].data) :
            g[n] = Written(SubSeq(f[n].data, 1, k), k)}

MachineCrash ==
    /\ bound.machine
    /\ Crashes
    /\ logs' \in Cuts(logs)
    /\ manifests' \in Cuts(manifests)
    /\ promised' = promised \cap synced
    /\ acked' = {i \in acked : \E j \in synced : i <= j}
    /\ odd' = odd \cup Interrupted \cup
                 (IF current = 1 /\ (1 \in DOMAIN manifests => ~Complete(manifests'[1].data))
                  THEN {"unsynced"} ELSE {})
    /\ UNCHANGED <<tables, current, synced, bound>>

-----------------------------------------------------------------------------
(* RepairDB, which takes no lock: nobody has the database open.            *)

NotRepairing == <<db, queue, group, bg, promises, bound>>

\* FindFiles.
RepairBegins ==
    /\ bound.repair /\ db.pc = "closed" /\ repair = NoRepair /\ spent.opens < bound.opens
    /\ DOMAIN logs \cup DOMAIN tables \cup DOMAIN manifests # {}
    /\ repair' = [pc |-> "logs", next |-> Largest(DOMAIN logs \cup DOMAIN tables) + 1,
                  found |-> DOMAIN tables]
    /\ spent' = [spent EXCEPT !.opens = @ + 1]
    /\ UNCHANGED <<dir, odd, NotRepairing>>

\* ConvertLogToTable, and the log is moved away.
ConvertLogToTable(n) ==
    /\ repair.pc = "logs"
    /\ LET data == EntriesOf(logs[n])
       IN /\ tables' = IF data = {} THEN tables ELSE Put(tables, repair.next, data)
          /\ repair' = [repair EXCEPT !.next = @ + 1,
                           !.found = IF data = {} THEN @ ELSE @ \cup {repair.next}]
    /\ logs' = Restrict(logs, DOMAIN logs \ {n})
    /\ UNCHANGED <<manifests, current, spent, odd, NotRepairing>>

\* WriteDescriptor: the old MANIFESTs are moved away and number 1 is new.
WriteDescriptor ==
    /\ repair.pc = "logs" /\ DOMAIN logs = {}
    /\ manifests' = Put(NoFile, 1, Written(<<VersionEdit(0, repair.next,
                                       Largest(Seqs(AllEntries(tables))),
                                       repair.found, {})>>, 0))
    /\ repair' = [repair EXCEPT !.pc = "current"]
    /\ UNCHANGED <<logs, tables, current, spent, odd, NotRepairing>>

RepairEnds ==
    /\ repair.pc = "current"
    /\ SetCurrentFile(1)
    /\ repair' = NoRepair
    /\ odd' = odd \ {"repair"}
    /\ UNCHANGED <<logs, manifests, tables, spent, NotRepairing>>

-----------------------------------------------------------------------------
Init ==
    /\ bound \in Bounds
    /\ logs = NoFile /\ manifests = NoFile /\ tables = NoFile /\ current = NULL
    /\ db = Closed /\ queue = <<>> /\ group = NoGroup /\ bg = Quiet /\ repair = NoRepair
    /\ promised = {} /\ acked = {} /\ synced = {} /\ odd = {}
    /\ spent = [opens |-> 0, writes |-> 0, crashes |-> 0]

Opening ==
    \/ NewDBEnds \/ RecoverVersion \/ ReplayRecord \/ ReplayEnds \/ RecoveryEnds
    \/ OpenSyncs \/ OpenSetsCurrent \/ OpenEnds

Writing == RoomFails \/ SwitchLog \/ AddRecord \/ SyncLog \/ WriteEnds

Background == BuildTable \/ LogEdit \/ SyncManifest \/ Install

Repairing == (\E n \in DOMAIN logs : ConvertLogToTable(n)) \/ WriteDescriptor \/ RepairEnds

Next ==
    \/ OpenBegins \/ Opening
    \/ \E s \in bound.sizes, sync \in BOOLEAN : Enqueue(s, sync)
    \/ Writing \/ Background
    \/ Close \/ ProcessCrash \/ MachineCrash
    \/ RepairBegins \/ Repairing

Spec == Init /\ [][Next]_vars /\ WF_vars(Opening) /\ WF_vars(Writing) /\ WF_vars(Background)

-----------------------------------------------------------------------------
Contents == db.mem \cup (UNION db.imm) \cup UNION {tables[n] : n \in db.version}

Everything ==
    Contents \cup AllEntries(tables) \cup UNION {EntriesOf(logs[n]) : n \in DOMAIN logs}

TypeOK ==
    /\ db.pc = "open" => db.log_number <= db.logfile /\ db.logfile < db.next_file_number
    /\ \A n \in DOMAIN logs : logs[n].synced <= Len(logs[n].data)
    /\ group.n <= Len(queue)

\* Every write that was acknowledged is in the open database, however often the process
\* has been killed or the database repaired; after a crash of the machine, every write
\* acknowledged with sync.  Not so when Open overlooked an error, or ran on what a repair
\* that was cut short had left.
AcknowledgedSurvives ==
    db.pc = "open" /\ odd \cap {"overlooked", "unrepaired"} = {} => promised \subseteq Ids(Contents)

\* The counters of files and logs agree (TypeOK), and no two entries have one sequence
\* number, wherever they are: Write numbers groups from the last sequence number, Recover
\* from the largest in the logs and the descriptor.
SequencesAreUnique ==
    /\ TypeOK
    /\ \A a, b \in Everything : a[1] = b[1] => a = b

\* At every moment CURRENT names a MANIFEST that opens the database, whatever part of it
\* that was not synced a crash takes: the counters are there, the tables exist and the log
\* that the version starts from (0: none) is kept.  The MANIFESTs of NewDB and RepairDB,
\* which have number 1, are not synced.  Not so while a repair that was cut short has not
\* been done again, or when Open removed the MANIFEST.
CrashPointsRecover ==
    (current # NULL /\ repair = NoRepair /\ odd \cap {"unsynced", "repair", "unrepaired", "removed"} = {}) =>
        LET m == manifests[current]
        IN /\ current \in DOMAIN manifests
           /\ \A k \in (IF current = 1 THEN Len(m.data) ELSE m.synced) .. Len(m.data) :
                 LET edits == SubSeq(m.data, 1, k)
                 IN /\ Complete(edits) /\ Built(edits) \subseteq DOMAIN tables
                    /\ LastOf(edits, "log") \in DOMAIN logs \cup {0}

\* "In the event of a crash, the bulk load is restarted just after the last synchronous
\* write": no write acknowledged before a synced one is missing after a crash of the
\* machine (AddRecord and Sync of the log in use; SwitchLog does not sync the old log).
SyncCoversEarlier ==
    db.pc = "open" /\ odd = {} =>
        \A i \in acked : (\E j \in synced : i < j) => i \in Ids(Contents)

\* Every write gets its answer, unless the process dies.
WritesReturn == queue # <<>> ~> (queue = <<>> \/ db.pc = "closed")
=============================================================================
