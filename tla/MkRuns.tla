------------------------------- MODULE MkRuns -------------------------------
(***************************************************************************)
(* mk_runs: the input is read run_length records at a time, each chunk is  *)
(* sorted in memory and appended to the output.  The input holds the       *)
(* complete records input and possibly an unterminated last record tail    *)
(* (fewer than record_size bytes, at least one).  The loops are unfolded:  *)
(* one step per chunk read and one per record written.                     *)
(***************************************************************************)
EXTENDS Records, FiniteSets

CONSTANT MkCalls  \* the calls of mk_runs to consider: input, tail, run_length

MkCallsAssumption == MkCalls \subseteq [input : Seq(Record), tail : Record \cup {NULL},
                                        run_length : Nat \ {0}]

VARIABLES input, tail, mk_run_length,
          in_pos,     \* records read so far
          reading,    \* the do loop goes on
          chunk,      \* the records in the buffer, in the order they were read
          unwritten,  \* those of them that are not written yet, as indices
          mk_out      \* the records written to out_fp

mkParams == <<input, tail, mk_run_length>>
mkVars == <<mkParams, in_pos, reading, chunk, unwritten, mk_out>>

MkTypeOK == /\ input \in Seq(Record)
            /\ tail \in Record \cup {NULL}
            /\ mk_run_length \in Nat \ {0}
            /\ in_pos \in 0 .. Len(input)
            /\ reading \in BOOLEAN
            /\ chunk \in Seq(Record)
            /\ unwritten \subseteq 1 .. Len(chunk)
            /\ mk_out \in Seq(Record)

\* Both files are rewound.
MkInit == /\ \E m \in MkCalls : input = m.input /\ tail = m.tail /\ mk_run_length = m.run_length
          /\ in_pos = 0 /\ reading = TRUE /\ chunk = << >> /\ unwritten = {} /\ mk_out = << >>

\* How many complete records fread delivers.
RecordsRead == FreadCount(input, in_pos, mk_run_length)

\* Where the input stands after the read.
AfterRead == in_pos + RecordsRead

\* Deviation: the records are counted by fread's result.
DevCountByFread == SubSeq(input, in_pos + 1, in_pos + RecordsRead)

\* The records in the zeroed buffer after fread: the complete ones and, if
\* there is room behind them, the bytes of the unterminated one, which ends in
\* zeros.  The loop that collects the records stops at the first zero byte.
BufferedRecords ==
    SubSeq(input, in_pos + 1, in_pos + RecordsRead)
        \o (IF RecordsRead < mk_run_length /\ tail # NULL THEN <<tail>> ELSE << >>)

\* Deviation: an empty read does not leave the loop.
DevNoBreak ==
    /\ reading /\ unwritten = {}
    /\ chunk' = BufferedRecords
    /\ unwritten' = 1 .. Len(BufferedRecords)
    /\ in_pos' = AfterRead
    /\ UNCHANGED <<mkParams, reading, mk_out>>

\* The chunk is read and its records are collected.  A chunk with no complete
\* record ends the do loop before anything is written.
ReadChunk ==
    /\ reading /\ unwritten = {}
    /\ IF RecordsRead = 0
       THEN reading' = FALSE /\ UNCHANGED <<in_pos, chunk, unwritten>>
       ELSE /\ chunk' = BufferedRecords
            /\ unwritten' = 1 .. Len(BufferedRecords)
            /\ in_pos' = AfterRead
            /\ UNCHANGED reading
    /\ UNCHANGED <<mkParams, mk_out>>

\* Record i of the chunk is one that qsort may have put first of those that are
\* not written yet: records with equal keys come in any order.
IsFirst(i) == \A j \in unwritten : record_object_comparator(chunk[i], chunk[j]) =< 0

\* One turn of the loop that writes the sorted chunk.  After the last record the
\* output is flushed, and a chunk that did not fill the buffer ends the do loop.
WriteRecord ==
    /\ \E i \in unwritten : /\ IsFirst(i)
                            /\ mk_out' = Append(mk_out, chunk[i])
                            /\ unwritten' = unwritten \ {i}
    /\ reading' = (unwritten' # {} \/ Len(chunk) = mk_run_length)
    /\ UNCHANGED <<mkParams, in_pos, chunk>>

MkNext == ReadChunk \/ WriteRecord

\* mk_runs is sequential code that nothing blocks.
MkSpec == MkInit /\ [][MkNext]_mkVars /\ WF_mkVars(MkNext)

-----------------------------------------------------------------------------
(***************************************************************************)
(* Properties                                                              *)
(***************************************************************************)

\* Every maximal block of run_length records of the output that starts at a
\* multiple of run_length is sorted: the layout the RunIterators rely on.
RunsAreSorted ==
    \A p, q \in 1 .. Len(mk_out) :
        /\ p < q
        /\ (p - 1) \div mk_run_length = (q - 1) \div mk_run_length
        => record_object_comparator(mk_out[p], mk_out[q]) =< 0

MkCopies(s, r) == Cardinality({j \in 1 .. Len(s) : s[j] = r})

\* Between two turns of the do loop the output holds exactly the records read, run
\* by run: sorting and the handling of the buffer lose and repeat nothing, and
\* no record leaves its run.
RunsKeepRecords ==
    LET taken == SubSeq(input, 1, in_pos)
                     \o (IF Len(mk_out) > in_pos THEN <<tail>> ELSE << >>)
    IN  unwritten = {} =>
        /\ Len(mk_out) = Len(taken)
        /\ \A n \in 1 .. Len(mk_out), j \in 1 .. Len(mk_out) :
              n % mk_run_length = 0 \/ n = Len(mk_out) =>
                  MkCopies(SubSeq(mk_out, 1, n), taken[j]) = MkCopies(SubSeq(taken, 1, n), taken[j])

\* When mk_runs returns, every complete record has been written, and the
\* unterminated last record has been written too unless it stands alone in its
\* chunk: then fread returns 0 and mk_runs drops it.
TailKeptUnlessAlone ==
    ~reading =>
        /\ in_pos = Len(input)
        /\ Len(mk_out) = Len(input) + (IF tail # NULL /\ Len(input) % mk_run_length # 0 THEN 1 ELSE 0)

\* What mk_runs promises: all of the above.
MakesSortedRuns == MkTypeOK /\ RunsAreSorted /\ RunsKeepRecords /\ TailKeptUnlessAlone

=============================================================================
