----------------------------- MODULE MCStorage -----------------------------
(***************************************************************************)
(* The parts of LevelDB below the database, one in each behaviour: the     *)
(* three of PosixEnv, the memtable and the log.  The variables of the      *)
(* others stay as they are.                                                *)
(***************************************************************************)
EXTENDS PosixEnv, MemTable

CONSTANTS RecordLengths, Offsets  \* of LogFile: record lengths, initial_offset

VARIABLES records, wr, file, extent, damage, rd

logVars == <<records, wr, file, extent, damage, rd>>
storageVars == <<envVars, allvars, logVars>>

-----------------------------------------------------------------------------
(* Two user keys; the second is only deleted. *)
MCUsers == {1, 2}
MCUserLess(a, b) == a < b
MCKey == [user : MCUsers, seq : 0 .. MaxSeq, type : {kTypeDeletion, kTypeValue}]
MCEntries == {<<1, kTypeValue>>, <<2, kTypeDeletion>>}

(* The internal keys are ordered (skiplist.h, Comparator). *)
ASSUME OrderAssumption == MemTableAssumptions /\ ListAssumptions

(* Blocks of 7 bytes with headers of 3: records of 0 to 9 bytes take one   *)
(* to three fragments.  The bytes of the i-th record are all i.            *)
Filled(i, n) == [j \in 1 .. n |-> i]
LF == INSTANCE LogFile WITH kBlockSize <- 7, Bytes <- {0, 1, 2, 4, 5}, InitialOffsets <- Offsets,
        Damages <- {"none", "cut", "flip", "error"},
        Records <- {<<Filled(1, a), Filled(2, b), Filled(3, c)>> : a, b, c \in RecordLengths}

-----------------------------------------------------------------------------
NoLog == records = NULL /\ wr = NULL /\ file = NULL /\ extent = NULL /\ damage = NULL /\ rd = NULL

StorageInit ==
  /\ MInit
  /\ \/ EnvInit /\ NoLog
     \/ part = "memtable" /\ EnvIdle /\ NoLog
     \/ part = "log" /\ EnvIdle /\ LF!Init

EnvSteps == EnvNext /\ UNCHANGED <<allvars, logVars>>
MemTableSteps == part = "memtable" /\ MNext /\ UNCHANGED <<envVars, logVars>>
LogSteps == part = "log" /\ LF!Next /\ UNCHANGED <<envVars, allvars>>

StorageNext == EnvSteps \/ MemTableSteps \/ LogSteps

\* The background thread, a reader of the memtable and the reader of the log go on
\* while they can: none of them waits for another.
PartGoesOn(r) ==
  \/ part = "queue" /\ (BGThread \/ Run) /\ UNCHANGED <<part, allvars, logVars>>
  \/ part = "memtable" /\ Walks(r) /\ UNCHANGED <<envVars, logVars>>
  \/ part = "log" /\ (LF!ReadRecord \/ LF!ReadBlock \/ LF!ReadFragment) /\ UNCHANGED <<envVars, allvars>>

StorageSpec == StorageInit /\ [][StorageNext]_storageVars /\ \A r \in Readers : WF_storageVars(PartGoesOn(r))

-----------------------------------------------------------------------------
\* A log read from an offset, whole or cut off by a crash, gives exactly the records
\* completely written from there on, with their offsets (see LogFile).
LogReadsBack == part = "log" => LF!TypeOK /\ LF!ReadsFromOffset /\ LF!CutLosesOnlyTail /\ LF!OffsetsAreClose

\* A damaged byte costs only records of its block, and never in silence (see LogFile).
LogDamageIsReported == part = "log" => LF!DamageIsContained /\ LF!LossIsReported

Busy(r) == \/ part = "queue" /\ ran # sent
           \/ part = "memtable" /\ ~Quiet(r)
           \/ part = "log" /\ rd.pc = "call"

Ended(r) == \/ part = "queue" /\ ran = sent
            \/ part = "memtable" /\ Quiet(r)
            \/ part = "log" /\ LF!Done

\* What is started ends: scheduled functions run, searches of a growing list and
\* reads of a damaged log return (Schedule and BGThread, FindGreaterOrEqual and the
\* other walks, ReadRecord).
StorageGoesOn == \A r \in Readers : Busy(r) ~> Ended(r)
=============================================================================
