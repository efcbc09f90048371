------------------------------- MODULE MSort -------------------------------
(***************************************************************************)
(* msort's main, one or more invocations in the same directory.  It makes  *)
(* sorted runs of the input in tmp_file (module MkRuns), then merges all   *)
(* runs (module MergeRuns) pass after pass, alternating between tmp_file   *)
(* and tmp_file2 and writing the last pass to the output file.  An         *)
(* invocation may be killed at any step; what it has flushed stays in the  *)
(* directory for the next one.                                             *)
(***************************************************************************)
EXTENDS Records, FiniteSets

CONSTANTS Invocations,     \* the command lines and inputs to consider
          MaxInvocations,  \* how many invocations share the directory
          Repeated         \* those that may be killed and that follow one another

\* The buffers of mem_capacity/(k + 1) bytes have at least one byte: has_next looks
\* at the first byte of a buffer, which is undefined in one of none.
ASSUME InvocationsAssumption ==
    /\ Invocations \subseteq [ mem    : Nat,                \* <mem_capacity>, in bytes
                               k      : Nat \ {0, 1},       \* <k>
                               schema : BOOLEAN,            \* enough arguments, a schema that parses
                               attrs  : BOOLEAN,            \* the sort attributes exist
                               input  : Seq(Record) \cup {NULL},  \* NULL: no such file
                               tail   : Record \cup {NULL} ]
    /\ \A i \in Invocations : RecordSize =< i.mem => i.k < i.mem

\* A file that is missing is not a file with records.
ASSUME FileAssumption == NULL \notin Seq(Record)
ASSUME MaxInvocationsAssumption == MaxInvocations \in Nat \ {0}
ASSUME RepeatedAssumption == Repeated \subseteq Invocations

VARIABLES inv,         \* the current invocation
          count,       \* how many invocations there have been
          fs,          \* the directory: contents by name, NULL if absent
          before,      \* the output file as the invocation found it
          main,        \* where main is
          flip, write_filename,
          heap,        \* bytes malloc'ed for iterator buffers and not freed
          input, tail, run_length, in_pos, reading, chunk, unwritten, out,  \* see MkRuns
          runs, buf_size, num_runs, fp, iters, pc, idx, min, outbuf  \* see MergeRuns

mkVars == <<input, tail, in_pos, reading, chunk, unwritten>>
mergeVars == <<runs, buf_size, num_runs, fp, iters, pc, idx, min, outbuf>>
mainVars == <<flip, write_filename, heap>>
vars == <<inv, count, fs, before, main, mainVars, mkVars, mergeVars, run_length, out>>

MK == INSTANCE MkRuns WITH MkCalls <- {}, mk_run_length <- run_length, mk_out <- out
MR == INSTANCE MergeRuns WITH Merges <- {}

FileNames == {"tmp_file", "tmp_file2", "output"}
Exits == {"exit0", "exit1", "exit2", "exit3", "segv", "killed"}

TypeOK == /\ count \in 1 .. MaxInvocations
          /\ fs \in [FileNames -> Seq(Record) \cup {NULL}]
          /\ before \in Seq(Record) \cup {NULL}
          /\ main \in {"start", "mk_runs", "loop", "merge"} \cup Exits
          /\ flip \in BOOLEAN
          /\ write_filename \in FileNames
          /\ heap \in Nat
          /\ main \in {"mk_runs", "loop", "merge"} => run_length \in Nat \ {0}
          /\ main = "mk_runs" => MK!MkTypeOK
          /\ main = "merge" => MR!TypeOK

\* number_of_records: the complete records of the input.
num_records == Len(inv.input)

\* The variables of mk_runs and of merge_runs mean something only while main is
\* in them; before that they have arbitrary fixed values.
Init == /\ inv \in Invocations
        /\ count = 1
        /\ fs = [f \in FileNames |-> NULL]
        /\ before = NULL
        /\ main = "start"
        /\ flip = FALSE /\ write_filename = "output" /\ heap = 0
        /\ input = << >> /\ tail = NULL /\ run_length = 0
        /\ in_pos = 0 /\ reading = FALSE /\ chunk = << >> /\ unwritten = {} /\ out = << >>
        /\ runs = << >> /\ buf_size = 1 /\ num_runs = 1 /\ fp = 0 /\ iters = << >>
        /\ pc = "done" /\ idx = 1 /\ min = 0 /\ outbuf = << >>

\* Where main goes when the arguments do not allow it to go on.
ArgumentError ==
    IF ~inv.schema THEN "exit1"
    ELSE IF ~inv.attrs THEN "exit2"
    ELSE IF RecordSize > inv.mem THEN "exit3"
    ELSE "ok"

\* The arguments are refused.
Refuse ==
    /\ main = "start"
    /\ ArgumentError # "ok"
    /\ main' = ArgumentError
    /\ UNCHANGED <<inv, count, fs, before, mainVars, mkVars, mergeVars, run_length, out>>

\* The files are opened, tmp_file is truncated, and mk_runs starts.  The result
\* of fopen is not checked: a missing input is dereferenced by mk_runs' rewind.
Open ==
    /\ main = "start"
    /\ ArgumentError = "ok"
    /\ fs' = [fs EXCEPT !["tmp_file"] = << >>]
    /\ IF inv.input = NULL
       THEN main' = "segv" /\ UNCHANGED <<mkVars, run_length, out>>
       ELSE /\ main' = "mk_runs"
            /\ input' = inv.input
            /\ tail' = inv.tail
            /\ run_length' = inv.mem \div RecordSize
            /\ in_pos' = 0 /\ reading' = TRUE /\ chunk' = << >> /\ unwritten' = {} /\ out' = << >>
    /\ UNCHANGED <<inv, count, before, mainVars, mergeVars>>

\* A step of mk_runs; what it has written is in tmp_file.
MakeRuns ==
    /\ main = "mk_runs"
    /\ MK!MkNext
    /\ fs' = [fs EXCEPT !["tmp_file"] = out']
    /\ main' = IF reading' THEN main ELSE "loop"
    /\ UNCHANGED <<inv, count, before, mainVars, mergeVars>>

\* ceil((float)num_records / run_length)
NumRuns == (num_records + run_length - 1) \div run_length

\* Deviation: the file that is written ignores flip.
DevNoFlip ==
    IF NumRuns < inv.k \/ NumRuns * run_length = num_records THEN "output" ELSE "tmp_file2"

\* Deviation: only a pass with few runs writes the output.
DevFewRuns == IF NumRuns < inv.k THEN "output" ELSE IF flip THEN "tmp_file" ELSE "tmp_file2"

\* Deviation: k runs are few enough for the last pass.
DevUpToK ==
    IF NumRuns =< inv.k \/ NumRuns * run_length = num_records THEN "output"
    ELSE IF flip THEN "tmp_file" ELSE "tmp_file2"

\* "ugly logic to avoid reading and writing to and from the same file"
ReadFilename == IF flip THEN "tmp_file2" ELSE "tmp_file"
WriteFilename ==
    IF NumRuns < inv.k \/ NumRuns * run_length = num_records THEN "output"
    ELSE IF flip THEN "tmp_file" ELSE "tmp_file2"

\* A pass of the while loop starts: the iterators are made on the file to read
\* and never deleted, then the file to write is truncated.  A missing file is
\* dereferenced by the first iterator's fseek.
OpenPass ==
    /\ main = "loop"
    /\ run_length < num_records
    /\ UNCHANGED <<inv, count, before, flip, mkVars, run_length>>
    /\ IF fs[ReadFilename] = NULL
       THEN /\ main' = "segv"
            /\ UNCHANGED <<fs, write_filename, heap, mergeVars, out>>
       ELSE /\ main' = "merge"
            /\ runs' = fs[ReadFilename]
            /\ num_runs' = NumRuns
            /\ buf_size' = inv.mem \div (inv.k + 1)
            /\ iters' = MR!NewIterators(NumRuns, run_length, buf_size')
            /\ fp' = run_length * (NumRuns - 1)
            /\ pc' = "have" /\ idx' = 1 /\ min' = 0
            /\ outbuf' = << >> /\ out' = << >>
            /\ heap' = heap + NumRuns * buf_size'
            /\ write_filename' = WriteFilename
            /\ fs' = [fs EXCEPT ![WriteFilename] = << >>]

\* A step of merge_runs; what it flushes is in the file being written.
Merge ==
    /\ main = "merge"
    /\ MR!Next
    /\ fs' = [fs EXCEPT ![write_filename] = out']
    /\ UNCHANGED <<inv, count, before, main, mainVars, mkVars>>

\* merge_runs has returned: the pass ends.
ClosePass ==
    /\ main = "merge"
    /\ pc = "done"
    /\ flip' = ~flip
    /\ run_length' = run_length * inv.k
    /\ main' = "loop"
    /\ UNCHANGED <<inv, count, fs, before, write_filename, heap, mkVars, mergeVars, out>>

\* The while loop is over: the temporary files are removed.
Finish ==
    /\ main = "loop"
    /\ run_length >= num_records
    /\ fs' = [fs EXCEPT !["tmp_file"] = NULL, !["tmp_file2"] = NULL]
    /\ main' = "exit0"
    /\ UNCHANGED <<inv, count, before, mainVars, mkVars, mergeVars, run_length, out>>

\* The process is killed.
Kill ==
    /\ inv \in Repeated
    /\ main \notin Exits
    /\ main' = "killed"
    /\ UNCHANGED <<inv, count, fs, before, mainVars, mkVars, mergeVars, run_length, out>>

\* The program is invoked again in the same directory.
InvokeAgain ==
    /\ main \in Exits
    /\ count < MaxInvocations
    /\ inv \in Repeated /\ inv' \in Repeated
    /\ count' = count + 1
    /\ before' = fs["output"]
    /\ main' = "start"
    /\ flip' = FALSE /\ write_filename' = "output" /\ heap' = 0
    /\ input' = << >> /\ tail' = NULL /\ run_length' = 0
    /\ in_pos' = 0 /\ reading' = FALSE /\ chunk' = << >> /\ unwritten' = {} /\ out' = << >>
    /\ runs' = << >> /\ buf_size' = 1 /\ num_runs' = 1 /\ fp' = 0 /\ iters' = << >>
    /\ pc' = "done" /\ idx' = 1 /\ min' = 0 /\ outbuf' = << >>
    /\ UNCHANGED fs

Step == Refuse \/ Open \/ MakeRuns \/ OpenPass \/ Merge \/ ClosePass \/ Finish

Next == Step \/ Kill \/ InvokeAgain

\* A running invocation keeps taking steps until it ends; nobody is obliged to
\* kill it or to invoke the program again.
Spec == Init /\ [][Next]_vars /\ WF_vars(Step)

-----------------------------------------------------------------------------
(***************************************************************************)
(* Properties                                                              *)
(*                                                                         *)
(* What becomes of an invocation depends only on the number of records, on *)
(* the length of the first runs, on the size of the buffers and on k.      *)
(***************************************************************************)
Accepted == ArgumentError = "ok" /\ inv.input # NULL

FirstLength == inv.mem \div RecordSize
BufferRecords == (inv.mem \div (inv.k + 1)) \div RecordSize

\* The run lengths of the passes of the while loop: the first one multiplied by k
\* again and again, as long as they are less than the number of records.
Lengths(first, k) == LET l[i \in Nat] == IF i = 0 THEN first ELSE k * l[i - 1] IN l
PassLengths ==
    {l \in {Lengths(FirstLength, inv.k)[i] : i \in 0 .. num_records \div FirstLength} : l < num_records}
RunsOf(l) == (num_records + l - 1) \div l

\* No pass writes the output file: there is no pass, or the last run is not full
\* and no pass has fewer than k runs.
NeverWritten == \/ PassLengths = {}
                \/ num_records % FirstLength # 0 /\ \A l \in PassLengths : RunsOf(l) >= inv.k

\* The first pass writes the output file and is not the last pass: the second
\* one reads a tmp_file2 that this invocation has not written.
ReadsLeftover == /\ FirstLength < num_records
                 /\ num_records % FirstLength = 0
                 /\ FirstLength * inv.k < num_records

\* The records that mk_runs writes (see TailKeptUnlessAlone in module MkRuns).
Kept == IF inv.tail # NULL /\ num_records % FirstLength # 0 THEN Append(inv.input, inv.tail)
        ELSE inv.input

\* The iterators stay in their runs in every pass.
NoOverread == \A l \in PassLengths : ~MR!Overreads(Len(Kept), l, BufferRecords)

\* Sequence s holds the records of t, sorted.
SortOf(s, t) == /\ Sorted(s)
                /\ Len(s) = Len(t)
                /\ \A j \in 1 .. Len(t) : MK!MkCopies(s, t[j]) = MK!MkCopies(t, t[j])

\* If the output is written at all, from this invocation's own data, with
\* iterators that stay in their runs, then when msort exits the output is the
\* sorted input, whatever an earlier invocation that was killed has left in the
\* directory.  Buffers of mem_capacity/(k + 1) bytes that do not hold a record
\* leave the output empty instead.
SortsItsInput ==
    /\ main = "exit0"
    /\ ~NeverWritten /\ ~ReadsLeftover /\ NoOverread
    => IF BufferRecords > 0 THEN SortOf(fs["output"], Kept) ELSE fs["output"] = << >>

\* When there is no pass, or none that has few enough runs, msort exits
\* successfully and leaves the output file as it found it.
LeavesOutput ==
    main = "exit0" /\ Accepted /\ NeverWritten => fs["output"] = before

\* msort dereferences a null pointer only without an input file, or in the
\* second pass over full runs, when no earlier invocation left a tmp_file2.
CrashesOnlyWithoutFile ==
    main = "segv" => IF inv.input = NULL THEN fs["tmp_file"] = << >>
                     ELSE ReadsLeftover /\ fs["tmp_file2"] = NULL

\* "ugly logic to avoid reading and writing to and from the same file": as long
\* as a merge goes on, the file it reads is as it was when the merge began.
ReadsWhatItDoesNotWrite ==
    main = "merge" => write_filename # ReadFilename /\ fs[ReadFilename] = runs

\* The first pass merges all the runs, not k of them: after it the file is
\* sorted, and the other passes copy it.
FirstPassSorts ==
    /\ main = "loop"
    /\ FirstLength < run_length
    /\ ~ReadsLeftover
    /\ BufferRecords > 0 /\ NoOverread
    => SortOf(fs[write_filename], Kept)

\* A pass reads a file that exists and that it does not write, and the first pass
\* already leaves everything sorted (see the three properties above).
PassesAreSound == TypeOK /\ CrashesOnlyWithoutFile /\ ReadsWhatItDoesNotWrite /\ FirstPassSorts

\* Every invocation that is not killed ends: each pass multiplies run_length by
\* k, and each merge ends.
MSortTerminates == main = "start" ~> main \in Exits

\* What test_msort.py:19 expects of a sort that has succeeded, here for an input
\* that msort has to merge with buffers which hold a record (without one merge_runs
\* writes nothing wherever it writes to): the output has all the lines ("FAILURE: NUM
\* LINES IS").
MergedOutputIsWritten ==
    main = "exit0" /\ FirstLength < num_records /\ BufferRecords > 0 =>
        fs["output"] # NULL /\ Len(fs["output"]) >= num_records

\* What test_msort.py:14 expects: a line of the output is not smaller than the
\* line before it ("FAILURE AT CGPA").
OutputIsSorted ==
    main = "exit0" /\ fs["output"] # NULL => Sorted(fs["output"])

\* What run_tests.sh:14 says of <k>, "Of course, k must be greater than 1": then
\* msort runs to its end on an input that exists.
AnyKRuns == main = "segv" => inv.input = NULL

\* What run_tests.sh:11 says of <mem_capacity>: it is the "total memory allowed".
MemoryWithinCapacity == heap =< inv.mem

=============================================================================
