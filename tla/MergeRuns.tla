----------------------------- MODULE MergeRuns -----------------------------
(***************************************************************************)
(* merge_runs: the num_runs runs of file runs, each behind a RunIterator,  *)
(* are merged through an output buffer of buf_size bytes into file out.    *)
(* The loops are unfolded: one step per get_current_record call of         *)
(* iterators_have_records and get_iterator_with_smallest_value, one per    *)
(* record copied to the buffer and one per buffer written out.             *)
(***************************************************************************)
EXTENDS RunIteratorOps, FiniteSets

CONSTANT Merges  \* the calls of merge_runs to consider: runs, run_length, buf_size, num_runs

MergesAssumption == Merges \subseteq [runs : Seq(Record), run_length : Nat \ {0},
                                      buf_size : Nat \ {0}, num_runs : Nat \ {0}]

VARIABLES runs,        \* the file of runs, read only
          run_length,
          buf_size,    \* bytes of the output buffer and of each iterator's
          num_runs,
          fp,          \* position of the stream the iterators share
          iters,
          pc,          \* where merge_runs is
          idx,         \* loop index over the iterators
          min,         \* min_record_iterator, 0 for NULL
          outbuf,      \* the records in buf
          out          \* the records written to out_fp

params == <<runs, run_length, buf_size, num_runs>>
vars == <<params, fp, iters, pc, idx, min, outbuf, out>>

Iters == 1 .. num_runs

\* floor(buf_size / record_size)
max_number_of_records_in_buffer == buf_size \div RecordSize

TypeOK == /\ runs \in Seq(Record)
          /\ run_length \in Nat \ {0}
          /\ buf_size \in Nat \ {0}
          /\ num_runs \in Nat \ {0}
          /\ fp \in Nat
          /\ iters \in [Iters -> Iterator]
          /\ pc \in {"have", "scan", "copy", "flush", "done"}
          /\ idx \in 1 .. num_runs + 1
          /\ min \in 0 .. num_runs
          /\ outbuf \in Seq(Record)
          /\ out \in Seq(Record)

\* The iterators as msort makes them: one per run, at multiples of run_length.
\* The last constructor leaves the stream at the start of the last run.
NewIterators(n, rl, bs) == [i \in 1 .. n |-> new_RunIterator(rl * (i - 1), rl, bs)]

Init == /\ \E m \in Merges : /\ runs = m.runs
                             /\ run_length = m.run_length
                             /\ buf_size = m.buf_size
                             /\ num_runs = m.num_runs
        /\ fp = run_length * (num_runs - 1)
        /\ iters = NewIterators(num_runs, run_length, buf_size)
        /\ pc = "have"
        /\ idx = 1
        /\ min = 0
        /\ outbuf = << >>
        /\ out = << >>

\* Iterator i and the stream are left as method result s says.
Return(i, s) == iters' = [iters EXCEPT ![i] = s.it] /\ fp' = s.fp

\* Where the for loop over the output buffer goes when the buffer holds n records.
FillOrFlush(n) == IF n < max_number_of_records_in_buffer THEN "scan" ELSE "flush"

\* One turn of the loop of iterators_have_records; a record found starts a new
\* buffer.
IteratorsHaveRecords ==
    /\ pc = "have"
    /\ idx \in Iters
    /\ LET s == get_current_record(runs, fp, iters[idx])
       IN  /\ Return(idx, s)
           /\ IF s.ret # NULL THEN pc' = FillOrFlush(0) /\ idx' = 1
                              ELSE pc' = pc /\ idx' = idx + 1
    /\ UNCHANGED <<params, min, outbuf, out>>

\* Deviation: the while loop does not end.
DevLoopsForEver ==
    /\ pc = "have"
    /\ idx > num_runs
    /\ pc' = "flush"
    /\ UNCHANGED <<params, fp, iters, idx, min, outbuf, out>>

\* No iterator has a record: merge_runs returns.
NoMoreRecords ==
    /\ pc = "have"
    /\ idx > num_runs
    /\ pc' = "done"
    /\ UNCHANGED <<params, fp, iters, idx, min, outbuf, out>>

\* Deviation: a later iterator wins a tie.
DevLastOfEqual(m, i, cur) ==
    IF /\ cur # NULL
       /\ m # 0 => record_object_comparator(iters[m].current_record, cur) >= 0
    THEN i ELSE m

\* The iterator with the smaller current record, m or i, whose record is cur.
\* The first of several smallest ones is kept.
SmallerOf(m, i, cur) ==
    IF /\ cur # NULL
       /\ m # 0 => record_object_comparator(iters[m].current_record, cur) > 0
    THEN i ELSE m

\* One turn of the loop of get_iterator_with_smallest_value.
GetSmallest ==
    /\ pc = "scan"
    /\ idx \in Iters
    /\ LET s == get_current_record(runs, fp, iters[idx])
       IN  /\ Return(idx, s)
           /\ min' = SmallerOf(min, idx, s.ret)
    /\ idx' = idx + 1
    /\ UNCHANGED <<params, pc, outbuf, out>>

\* The loop of get_iterator_with_smallest_value is over: with no iterator left
\* the buffer is written as it is.
GotSmallest ==
    /\ pc = "scan"
    /\ idx > num_runs
    /\ pc' = IF min = 0 THEN "flush" ELSE "copy"
    /\ UNCHANGED <<params, fp, iters, idx, min, outbuf, out>>

\* The smallest record goes to the buffer and its iterator advances.
CopyRecord ==
    /\ pc = "copy"
    /\ outbuf' = Append(outbuf, iters[min].current_record)
    /\ Return(min, next(runs, fp, iters[min]))
    /\ pc' = FillOrFlush(Len(outbuf) + 1)
    /\ idx' = 1
    /\ min' = 0
    /\ UNCHANGED <<params, out>>

\* fwrite and fflush of the buffer, then back to the while loop.
Flush ==
    /\ pc = "flush"
    /\ out' = out \o outbuf
    /\ outbuf' = << >>
    /\ pc' = "have"
    /\ idx' = 1
    /\ min' = 0
    /\ UNCHANGED <<params, fp, iters>>

Next == \/ IteratorsHaveRecords \/ NoMoreRecords
        \/ GetSmallest \/ GotSmallest
        \/ CopyRecord \/ Flush

\* merge_runs is sequential code that nothing blocks: it keeps taking steps.
Spec == Init /\ [][Next]_vars /\ WF_vars(Next)

-----------------------------------------------------------------------------
(***************************************************************************)
(* Properties                                                              *)
(***************************************************************************)

\* The positions of the i-th run in the file, as msort lays runs out.
RunPositions(i) == {p \in 1 .. Len(runs) : run_length * (i - 1) < p /\ p =< run_length * i}

\* Every run is sorted, as mk_runs leaves it.
RunsSorted ==
    \A i \in Iters : \A p, q \in RunPositions(i) :
        p < q => record_object_comparator(runs[p], runs[q]) =< 0

\* The runs cover the file.
RunsCover == Len(runs) =< run_length * num_runs

\* In a file of len records with runs of length rl and buffers of B records, the
\* last refill of the last full run ends in a short read that also holds the
\* whole last run: then the iterator goes on into the last run.
Overreads(len, rl, B) ==
    /\ 0 < B /\ B < rl /\ rl < len
    /\ 0 < rl % B /\ 0 < len % rl
    /\ (rl % B) + (len % rl) < B

OverreadsLastRun == Overreads(Len(runs), run_length, max_number_of_records_in_buffer)

\* Sorted runs merge into sorted output, at every moment of the merge, in the
\* buffer and in the file, unless an iterator runs into the next run.
MergeIsSorted ==
    RunsSorted /\ ~OverreadsLastRun => Sorted(out \o outbuf)

\* Position p of file f comes before position q in the order of a stable sort.
Before(f, p, q) == LET c == record_object_comparator(f[p], f[q])
                   IN  c < 0 \/ (c = 0 /\ p < q)

\* Where a stable sort of the positions P of file f puts the p-th record.
StableRank(f, P, p) == Cardinality({q \in P : Before(f, q, p)}) + 1

\* When merge_runs returns, the output is the stable sort of the whole file:
\* no record is lost or duplicated, and equal records keep the order of their
\* runs (get_iterator_with_smallest_value replaces the candidate only by a
\* strictly smaller one).
MergeIsStableSort ==
    /\ pc = "done"
    /\ RunsSorted /\ RunsCover /\ ~OverreadsLastRun
    /\ max_number_of_records_in_buffer > 0
    => /\ Len(out) = Len(runs)
       /\ \A p \in 1 .. Len(runs) : out[StableRank(runs, 1 .. Len(runs), p)] = runs[p]

\* How often record r occurs among the positions P of sequence s.
Copies(s, P, r) == Cardinality({j \in P : s[j] = r})

\* When it does run into the last run, merge_runs writes each record of the
\* last run once more and loses none.
OverreadDuplicatesLastRun ==
    /\ pc = "done"
    /\ RunsCover /\ run_length * (num_runs - 1) < Len(runs)
    /\ OverreadsLastRun
    => \A r \in Record :
           Copies(out, 1 .. Len(out), r)
               = Copies(runs, 1 .. Len(runs), r) + Copies(runs, RunPositions(num_runs), r)

\* The output buffer is never overrun: library.h allows merge_runs buf_size
\* bytes of buf.
OutputBufferFits == RecordSize * Len(outbuf) =< buf_size

\* Only initialised records are compared and written: no step of the merge
\* leaves an iterator that it has looked at with an uninitialised record.
ComparesInitialisedData ==
    /\ min # 0 => iters[min].current_record \in Record
    /\ pc = "scan" => \A i \in 1 .. idx - 1 : iters[i].current_record # Garbage

\* What merge_runs promises: all of the above.
MergeSorts == /\ TypeOK /\ MergeIsStableSort /\ MergeIsSorted /\ OverreadDuplicatesLastRun
              /\ OutputBufferFits /\ ComparesInitialisedData

=============================================================================
