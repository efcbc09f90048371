---------------------------- MODULE RunIterator ----------------------------
(***************************************************************************)
(* Several RunIterators that scan the runs of one file through one shared  *)
(* stream, called in any order: iterator i is made for the i-th run, and   *)
(* then has_next, next and get_current_record are called on the live       *)
(* iterators, and each of them may be deleted.  yielded[i] is the history  *)
(* of the records iterator i has returned as new.                          *)
(***************************************************************************)
EXTENDS RunIteratorOps

CONSTANTS Files,       \* the contents the file of runs may have
          RunLengths,  \* the run lengths the caller may choose
          BufSizes,    \* the buffer sizes the caller may choose, in bytes
          NumIters     \* the number of iterators

ASSUME FilesAssumption == Files \subseteq Seq(Record)
ASSUME RunLengthsAssumption == RunLengths \subseteq Nat \ {0}
ASSUME BufSizesAssumption == BufSizes \subseteq Nat \ {0}
ASSUME NumItersAssumption == NumIters \in Nat

\* An allocated iterator is not the null pointer.
ASSUME NullAssumption == NULL \notin Iterator

VARIABLES scan_runs,   \* the file, which nobody writes during the scan
          scan_run_length,
          scan_buf_size,
          scan_fp,     \* the position of the shared stream
          scan_iters,  \* the iterators; NULL when not allocated
          yielded,     \* the records each iterator has returned
          crashed      \* a null pointer was dereferenced

scanVars == <<scan_runs, scan_run_length, scan_buf_size, scan_fp, scan_iters, yielded, crashed>>
scanParams == <<scan_runs, scan_run_length, scan_buf_size>>

ScanIters == 1 .. NumIters
Live == {i \in ScanIters : scan_iters[i] # NULL}

ScanTypeOK == /\ scan_runs \in Seq(Record)
              /\ scan_run_length \in Nat \ {0}
              /\ scan_buf_size \in Nat \ {0}
              /\ scan_fp \in Nat
              /\ scan_iters \in [ScanIters -> Iterator \cup {NULL}]
              /\ yielded \in [ScanIters -> Seq(Record)]
              /\ crashed \in BOOLEAN

ScanInit == /\ scan_runs \in Files
            /\ scan_run_length \in RunLengths
            /\ scan_buf_size \in BufSizes
            /\ scan_fp = 0
            /\ scan_iters = [i \in ScanIters |-> NULL]
            /\ yielded = [i \in ScanIters |-> << >>]
            /\ crashed = FALSE

\* new RunIterator for the i-th run; the constructor seeks the stream.
New(i) ==
    LET start_pos == scan_run_length * (i - 1)
    IN  /\ scan_iters[i] = NULL
        /\ scan_iters' = [scan_iters EXCEPT
                            ![i] = new_RunIterator(start_pos, scan_run_length, scan_buf_size)]
        /\ scan_fp' = start_pos
        /\ UNCHANGED <<scanParams, yielded, crashed>>

\* Iterator i and the stream are left as method result s says.
ScanReturn(i, s) == /\ scan_iters' = [scan_iters EXCEPT ![i] = s.it]
                    /\ scan_fp' = s.fp
                    /\ UNCHANGED <<scanParams, crashed>>

HasNext(i) ==
    /\ i \in Live
    /\ ScanReturn(i, has_next(scan_runs, scan_fp, scan_iters[i]))
    /\ UNCHANGED yielded

\* The history after iterator i has returned record r.
Yield(i, r) == IF r = NULL THEN yielded ELSE [yielded EXCEPT ![i] = Append(@, r)]

Next_(i) ==
    LET s == next(scan_runs, scan_fp, scan_iters[i])
    IN  /\ i \in Live
        /\ ScanReturn(i, s)
        /\ yielded' = Yield(i, s.ret)

\* The first call on an iterator reads a record; later calls do not.
GetCurrentRecord(i) ==
    LET s == get_current_record(scan_runs, scan_fp, scan_iters[i])
    IN  /\ i \in Live
        /\ ScanReturn(i, s)
        /\ yielded' = IF scan_iters[i].records_left = scan_run_length
                      THEN Yield(i, s.ret) ELSE yielded

\* RunIterator::~RunIterator frees current_record->data.
Delete(i) ==
    /\ i \in Live
    /\ IF scan_iters[i].current_record = NULL
       THEN crashed' = TRUE /\ UNCHANGED <<scan_iters, yielded>>
       ELSE /\ scan_iters' = [scan_iters EXCEPT ![i] = NULL]
            /\ yielded' = [yielded EXCEPT ![i] = << >>]
            /\ UNCHANGED crashed
    /\ UNCHANGED <<scanParams, scan_fp>>

ScanNext == /\ ~crashed
            /\ \E i \in ScanIters :
                  New(i) \/ HasNext(i) \/ Next_(i) \/ GetCurrentRecord(i) \/ Delete(i)

ScanSpec == ScanInit /\ [][ScanNext]_scanVars

-----------------------------------------------------------------------------
(***************************************************************************)
(* Properties                                                              *)
(***************************************************************************)

\* Whatever the other iterators did to the shared stream in between, an
\* iterator returns consecutive records of the file, starting at the start of
\* its run: read_into_buffer seeks before it reads, and next copies from a
\* buffer_pointer that never leaves what the last refill read.
ScansConsecutively ==
    \A i \in Live : \A j \in 1 .. Len(yielded[i]) :
        /\ StartPos(scan_iters[i]) + j =< Len(scan_runs)
        /\ yielded[i][j] = scan_runs[StartPos(scan_iters[i]) + j]

\* An iterator returns no record of the run after its own, provided that the
\* file goes on long enough after the run to fill the buffer: only a short
\* read (read_into_buffer's "we are out of records") overwrites records_left,
\* and it happens only within a buffer of the end of the file.
StaysInRun ==
    \A i \in Live :
        Len(scan_runs) >= scan_iters[i].end_file_pos + BufRecords(scan_iters[i]) - 1
            => Len(yielded[i]) =< scan_iters[i].run_length

\* An iterator that has reported its end has returned every record of its run
\* that the file holds, if its buffer has room for a record at all: short
\* reads, partial last runs and refills that reach past the run lose nothing.
RunIsComplete ==
    \A i \in Live :
        /\ scan_iters[i].current_record = NULL
        /\ BufRecords(scan_iters[i]) >= 1
        => \/ Len(yielded[i]) >= scan_iters[i].run_length
           \/ StartPos(scan_iters[i]) + Len(yielded[i]) >= Len(scan_runs)

\* An iterator returns the records of its run and no others: both of the above.
RunIsExact == StaysInRun /\ RunIsComplete

\* Once next has set current_record to NULL, has_next answers false for ever:
\* otherwise the following next would copy a record through a null pointer.
NullIsFinal ==
    \A i \in Live :
        scan_iters[i].current_record = NULL => ~has_next(scan_runs, scan_fp, scan_iters[i]).ret

\* After the first record, get_current_record returns the last record
\* returned, or NULL at the end.  Before it, get_current_record reads the first
\* record because the whole run is still left; it can hand out the constructor's
\* uninitialised record only if has_next was called first and its refill came
\* out short, that is, only for a run within a buffer of the end of the file.
CurrentRecordIsLast ==
    \A i \in Live :
        LET r == get_current_record(scan_runs, scan_fp, scan_iters[i]).ret
        IN  IF yielded[i] = << >>
            THEN r = Garbage => Len(scan_runs) < StartPos(scan_iters[i]) + RefillSize(scan_iters[i])
            ELSE r \in {NULL, yielded[i][Len(yielded[i])]}

=============================================================================
