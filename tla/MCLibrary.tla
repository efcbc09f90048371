----------------------------- MODULE MCLibrary -----------------------------
(***************************************************************************)
(* The parts of library.cc that work on runs, one in each behaviour:       *)
(* iterators called in any order (RunIterator), merge_runs (MergeRuns),    *)
(* mk_runs (MkRuns) and the sizes of the passes (PassSizes).  The          *)
(* variables of the others stay as they are.                               *)
(*                                                                         *)
(* A record is its key and its position in the file, so that records with  *)
(* equal keys differ.  The iterators never look into the records, so files *)
(* with any keys do for them; merge_runs gets every file whose runs are    *)
(* sorted, mk_runs every input, with and without an unterminated record.   *)
(***************************************************************************)
EXTENDS RunIterator, MergeRuns, MkRuns

CONSTANTS MaxFile,   \* the longest file of runs
          MaxInput,  \* the longest input of mk_runs
          MaxKey

MCRecord == [key : 1 .. MaxKey, id : 0 .. MaxFile]
MCKey == [r \in MCRecord |-> r.key]
MCFiles == {[j \in 1 .. n |-> [key |-> 1, id |-> j]] : n \in 0 .. MaxFile}
MCRunLengths == 1 .. 4
MCBufSizes == 1 .. 7

KeyRuns(n, rl) ==
    { [p \in 1 .. n |-> [key |-> k[p], id |-> p]] :
        k \in { g \in [1 .. n -> 1 .. MaxKey] :
                  \A p \in 1 .. n - 1 : p % rl # 0 => g[p] =< g[p + 1] } }

MCMerges ==
    UNION { { [runs |-> f, run_length |-> rl, buf_size |-> b,
               num_runs |-> (n + rl - 1) \div rl] :
                f \in KeyRuns(n, rl), b \in {1, 2, 3, 5, 7, 8} } :
            n \in 1 .. MaxFile, rl \in 1 .. 5 }

Inputs == UNION { { [p \in 1 .. n |-> [key |-> k[p], id |-> p]] : k \in [1 .. n -> 1 .. MaxKey] } :
                  n \in 0 .. MaxInput }

MCMkCalls == [input : Inputs, tail : {NULL} \cup [key : 1 .. MaxKey, id : {0}], run_length : 1 .. 4]

VARIABLES which,   \* the part: "iterators", "merge_runs", "mk_runs" or "sizes"
          bytes, record_size, k, num_records, p_run_length, p_num_runs, at

sizeVars == <<bytes, record_size, k, num_records, p_run_length, p_num_runs, at>>

ASSUME MergeRunsAssumption == MergesAssumption
ASSUME MkRunsAssumption == MkCallsAssumption

(* Eight bits for an int and five for a float: files of up to two times    *)
(* the largest int, and numbers of records beyond what a float holds.      *)
PS == INSTANCE PassSizes WITH IntBits <- 8, FloatBits <- 5, Bytes <- 0 .. 260, RecordSizes <- {1, 3},
        RunLengths <- 1 .. 12, Ks <- {2, 3}, run_length <- p_run_length, num_runs <- p_num_runs

(* A part that is not called is at its beginning, with nothing to read. *)
NoIterators == ScanInit /\ scan_runs = << >> /\ scan_run_length = 1 /\ scan_buf_size = 1

NoMerge == /\ runs = << >> /\ run_length = 1 /\ buf_size = 1 /\ num_runs = 1
           /\ fp = 0 /\ iters = NewIterators(1, 1, 1)
           /\ pc = "have" /\ idx = 1 /\ min = 0 /\ outbuf = << >> /\ out = << >>

NoMkRuns == /\ input = << >> /\ tail = NULL /\ mk_run_length = 1
            /\ in_pos = 0 /\ reading = TRUE /\ chunk = << >> /\ unwritten = {} /\ mk_out = << >>

NoSizes == /\ bytes = NULL /\ record_size = NULL /\ k = NULL /\ num_records = NULL
           /\ p_run_length = NULL /\ p_num_runs = NULL /\ at = NULL

LibraryInit ==
    \/ which = "iterators" /\ ScanInit /\ NoMerge /\ NoMkRuns /\ NoSizes
    \/ which = "merge_runs" /\ NoIterators /\ Init /\ NoMkRuns /\ NoSizes
    \/ which = "mk_runs" /\ NoIterators /\ NoMerge /\ MkInit /\ NoSizes
    \/ which = "sizes" /\ NoIterators /\ NoMerge /\ NoMkRuns /\ PS!Init

IteratorsNext == which = "iterators" /\ ScanNext /\ UNCHANGED <<which, vars, mkVars, sizeVars>>
MergeRunsNext == which = "merge_runs" /\ Next /\ UNCHANGED <<which, scanVars, mkVars, sizeVars>>
MkRunsNext == which = "mk_runs" /\ MkNext /\ UNCHANGED <<which, scanVars, vars, sizeVars>>
SizesNext == which = "sizes" /\ PS!Next /\ UNCHANGED <<which, scanVars, vars, mkVars>>

LibraryNext == IteratorsNext \/ MergeRunsNext \/ MkRunsNext \/ SizesNext

libraryVars == <<which, scanVars, vars, mkVars, sizeVars>>

\* merge_runs and mk_runs are sequential code that nothing blocks.
LibrarySpec == LibraryInit /\ [][LibraryNext]_libraryVars /\ WF_libraryVars(MergeRunsNext) /\ WF_libraryVars(MkRunsNext)

-----------------------------------------------------------------------------
\* Below the limits of int and float the passes have exactly the runs of the file (see
\* PassesCoverFile).
SizesAreRight == which = "sizes" => PS!PassesCoverFile

\* merge_runs and mk_runs return: every turn of their loops takes a record, or the
\* loop ends.
LibraryReturns == <>(which \in {"iterators", "sizes"} \/ pc = "done" \/ reading = FALSE)
=============================================================================
