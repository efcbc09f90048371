------------------------- MODULE RunIteratorProofs -------------------------
(***************************************************************************)
(* Proofs about module RunIterator, for every file, run length, buffer     *)
(* size, record size and number of iterators.  The inductive invariant     *)
(* gives every live iterator the invariant of MergeRunsProofs, with        *)
(* as many records returned as its history holds, and says that the        *)
(* history is a stretch of the file.                                       *)
(***************************************************************************)
EXTENDS RunIterator, MergeRunsProofs

\* The records y are the first ones of file f from position start.
ScanInv(f, start, y) ==
    \A j \in 1 .. Len(y) : start + j =< Len(f) /\ y[j] = f[start + j]

\* The iterator has returned the records y.
ReturnedInv(f, rl, bs, B, start, it, y) ==
    /\ IterInv(f, rl, bs, B, start, it, Len(y))
    /\ ScanInv(f, start, y)

\* The inductive invariant.
IInv == /\ ScanTypeOK
        /\ \A i \in ScanIters :
              scan_iters[i] # NULL =>
                  ReturnedInv(scan_runs, scan_run_length, scan_buf_size, scan_buf_size \div RecordSize,
                              scan_run_length * (i - 1), scan_iters[i], yielded[i])
        /\ \A i \in ScanIters : scan_iters[i] = NULL => yielded[i] = << >>

-----------------------------------------------------------------------------
\* Where the run of an iterator starts is a natural number.
LEMMA ScanStartLemma ==
    ASSUME NEW rl \in Nat \ {0}, NEW i \in ScanIters
    PROVE  rl * (i - 1) \in Nat
<1>1. i - 1 \in Nat
  BY NumItersAssumption DEF ScanIters
<1> QED
  BY <1>1

\* A method that leaves iterator i with its invariant leaves IInv true: the
\* other iterators do not notice.
LEMMA MethodLemma ==
    ASSUME IInv, NEW i \in ScanIters, NEW jt, NEW z \in Seq(Record),
           ReturnedInv(scan_runs, scan_run_length, scan_buf_size, scan_buf_size \div RecordSize,
                       scan_run_length * (i - 1), jt, z),
           scan_iters' = [scan_iters EXCEPT ![i] = jt],
           yielded' = [yielded EXCEPT ![i] = z],
           scan_fp' \in Nat, UNCHANGED <<scanParams, crashed>>
    PROVE  IInv'
<1>1. jt \in Iterator
  BY DEF ReturnedInv, IterInv
<1>2. ScanTypeOK'
  BY <1>1 DEF IInv, ScanTypeOK, scanParams
<1>3. /\ scan_iters'[i] = jt /\ yielded'[i] = z
      /\ \A j \in ScanIters \ {i} : scan_iters'[j] = scan_iters[j] /\ yielded'[j] = yielded[j]
  BY DEF IInv, ScanTypeOK
<1>4. scan_runs' = scan_runs /\ scan_run_length' = scan_run_length /\ scan_buf_size' = scan_buf_size
  BY DEF scanParams
<1>5. ASSUME NEW j \in ScanIters, scan_iters'[j] # NULL
      PROVE  ReturnedInv(scan_runs', scan_run_length', scan_buf_size', scan_buf_size' \div RecordSize,
                         scan_run_length' * (j - 1), scan_iters'[j], yielded'[j])
  <2>1. CASE j = i
    BY <1>3, <1>4, <2>1
  <2>2. CASE j # i
    BY <1>3, <1>4, <1>5, <2>2 DEF IInv
  <2> QED
    BY <2>1, <2>2
<1>6. ASSUME NEW j \in ScanIters, scan_iters'[j] = NULL
      PROVE  yielded'[j] = << >>
  <2>1. j # i
    BY <1>1, <1>3, <1>6, NullAssumption
  <2> QED
    BY <1>3, <1>6, <2>1 DEF IInv
<1> QED
  BY <1>2, <1>5, <1>6 DEF IInv

\* The state before any iterator is made.
LEMMA InitLemma == ScanInit => IInv
<1> SUFFICES ASSUME ScanInit PROVE IInv
  OBVIOUS
<1>1. ScanTypeOK
  <2>1. scan_runs \in Seq(Record)
    BY FilesAssumption DEF ScanInit
  <2>2. scan_run_length \in Nat \ {0} /\ scan_buf_size \in Nat \ {0} /\ scan_fp \in Nat
    BY RunLengthsAssumption, BufSizesAssumption DEF ScanInit
  <2>3. scan_iters \in [ScanIters -> Iterator \cup {NULL}]
    BY DEF ScanInit
  <2>4. << >> \in Seq(Record)
    OBVIOUS
  <2>5. yielded \in [ScanIters -> Seq(Record)] /\ crashed \in BOOLEAN
    BY <2>4 DEF ScanInit
  <2> QED
    BY <2>1, <2>2, <2>3, <2>5 DEF ScanTypeOK
<1>2. \A i \in ScanIters : scan_iters[i] = NULL /\ yielded[i] = << >>
  BY DEF ScanInit
<1> QED
  BY <1>1, <1>2 DEF IInv

\* Every call of a method, and every construction and deletion, keeps IInv.
LEMMA StepLemma == IInv /\ [ScanNext]_scanVars => IInv'
<1> SUFFICES ASSUME IInv, [ScanNext]_scanVars PROVE IInv'
  OBVIOUS
<1> DEFINE B == scan_buf_size \div RecordSize
<1>1. /\ scan_runs \in Seq(Record) /\ scan_run_length \in Nat \ {0} /\ scan_buf_size \in Nat \ {0}
      /\ scan_fp \in Nat /\ scan_iters \in [ScanIters -> Iterator \cup {NULL}]
      /\ yielded \in [ScanIters -> Seq(Record)]
  BY DEF IInv, ScanTypeOK
<1>2. B \in Nat
  BY <1>1, BufRecordsLemma
<1>3. CASE UNCHANGED scanVars
  BY <1>3 DEF scanVars, IInv, ScanTypeOK
<1>4. ASSUME NEW i \in ScanIters, New(i) PROVE IInv'
  <2>1. scan_run_length * (i - 1) \in Nat
    BY <1>1, ScanStartLemma
  <2>2. ReturnedInv(scan_runs, scan_run_length, scan_buf_size, B, scan_run_length * (i - 1),
                    new_RunIterator(scan_run_length * (i - 1), scan_run_length, scan_buf_size), << >>)
    <3>1. IterInv(scan_runs, scan_run_length, scan_buf_size, B, scan_run_length * (i - 1),
                  new_RunIterator(scan_run_length * (i - 1), scan_run_length, scan_buf_size), 0)
      BY <1>1, <2>1, NewLemma
    <3> QED
      BY <3>1 DEF ReturnedInv, ScanInv
  <2>3. yielded' = [yielded EXCEPT ![i] = << >>]
    BY <1>1, <1>4 DEF New, IInv
  <2>4. << >> \in Seq(Record)
    OBVIOUS
  <2> QED
    BY <1>4, <2>1, <2>2, <2>3, <2>4, MethodLemma DEF New
<1>5. ASSUME NEW i \in ScanIters, i \in Live
      PROVE  /\ scan_run_length * (i - 1) \in Nat
             /\ yielded[i] \in Seq(Record) /\ Len(yielded[i]) \in Nat
             /\ ScanInv(scan_runs, scan_run_length * (i - 1), yielded[i])
             /\ IterInv(scan_runs, scan_run_length, scan_buf_size, B, scan_run_length * (i - 1), scan_iters[i],
                        Len(yielded[i]))
  BY <1>1, <1>5, ScanStartLemma DEF Live, IInv, ReturnedInv
<1>6. ASSUME NEW i \in ScanIters, HasNext(i) PROVE IInv'
  <2>1. i \in Live
    BY <1>6 DEF HasNext
  <2>2. HasNextPost(scan_runs, scan_run_length, scan_buf_size, B, scan_run_length * (i - 1), scan_iters[i], Len(yielded[i]),
                    has_next(scan_runs, scan_fp, scan_iters[i]))
    BY <1>1, <1>2, <1>5, <2>1, HasNextLemma
  <2>3. yielded' = [yielded EXCEPT ![i] = yielded[i]]
    BY <1>1, <1>6 DEF HasNext
  <2>4. ReturnedInv(scan_runs, scan_run_length, scan_buf_size, B, scan_run_length * (i - 1),
                    has_next(scan_runs, scan_fp, scan_iters[i]).it, yielded[i])
    BY <1>5, <2>1, <2>2 DEF HasNextPost, ReturnedInv
  <2>5. has_next(scan_runs, scan_fp, scan_iters[i]).fp \in Nat
    BY <2>2 DEF HasNextPost
  <2> QED
    BY <1>5, <1>6, <2>1, <2>3, <2>4, <2>5, MethodLemma DEF HasNext, ScanReturn
<1>7. ASSUME NEW i \in ScanIters, i \in Live, NEW s,
             NextPost(scan_runs, scan_run_length, scan_buf_size, B, scan_run_length * (i - 1), Len(yielded[i]), s),
             ScanReturn(i, s), yielded' = Yield(i, s.ret)
      PROVE  IInv'
  <2> DEFINE z == IF s.ret = NULL THEN yielded[i] ELSE Append(yielded[i], s.ret)
  <2>1. z \in Seq(Record)
    BY <1>5, <1>7 DEF NextPost
  <2>2. yielded' = [yielded EXCEPT ![i] = z]
    BY <1>1, <1>7 DEF Yield
  <2>3. s.fp \in Nat
    BY <1>7 DEF NextPost
  <2>4. ReturnedInv(scan_runs, scan_run_length, scan_buf_size, B, scan_run_length * (i - 1), s.it, z)
    <3>1. CASE s.ret = NULL
      BY <1>5, <1>7, <3>1, RecordAssumption DEF NextPost, ReturnedInv
    <3>2. CASE s.ret # NULL
      <4> DEFINE y == yielded[i]
                 start == scan_run_length * (i - 1)
      <4>1. /\ s.ret \in Record /\ s.ret = scan_runs[start + Len(y) + 1]
            /\ start + Len(y) + 1 =< Len(scan_runs)
            /\ IterInv(scan_runs, scan_run_length, scan_buf_size, B, start, s.it, Len(y) + 1)
        BY <1>7, <3>2 DEF NextPost
      <4>2. /\ y \in Seq(Record) /\ Len(y) \in Nat /\ start \in Nat
            /\ ScanInv(scan_runs, start, y)
        BY <1>5, <1>7
      <4>3. z = Append(y, s.ret)
        BY <3>2
      <4> HIDE DEF y, start, z
      <4>4. /\ Len(z) = Len(y) + 1 /\ z[Len(y) + 1] = s.ret
            /\ \A j \in 1 .. Len(y) : z[j] = y[j]
        BY <4>1, <4>2, <4>3, AppendFacts
      <4>5. ScanInv(scan_runs, start, z)
        <5> SUFFICES ASSUME NEW j \in 1 .. Len(y) + 1
                     PROVE  start + j =< Len(scan_runs) /\ z[j] = scan_runs[start + j]
          BY <4>4 DEF ScanInv
        <5>1. CASE j = Len(y) + 1
          <6>1. start + j = start + Len(y) + 1
            BY <4>2, <5>1
          <6> QED
            BY <4>1, <4>4, <5>1, <6>1
        <5>2. CASE j # Len(y) + 1
          <6>1. j \in 1 .. Len(y)
            BY <4>2, <5>2
          <6> QED
            BY <4>2, <4>4, <6>1 DEF ScanInv
        <5> QED
          BY <5>1, <5>2
      <4> QED
        BY <4>1, <4>4, <4>5 DEF ReturnedInv, start
    <3> QED
      BY <3>1, <3>2
  <2> HIDE DEF z
  <2> QED
    BY <1>7, <2>1, <2>2, <2>3, <2>4, MethodLemma DEF ScanReturn
<1>8. ASSUME NEW i \in ScanIters, Next_(i) PROVE IInv'
  <2>1. i \in Live
    BY <1>8 DEF Next_
  <2>2. NextPost(scan_runs, scan_run_length, scan_buf_size, B, scan_run_length * (i - 1), Len(yielded[i]),
                 next(scan_runs, scan_fp, scan_iters[i]))
    BY <1>1, <1>2, <1>5, <2>1, NextLemma
  <2> QED
    BY <1>7, <1>8, <2>1, <2>2 DEF Next_
<1>9. ASSUME NEW i \in ScanIters, GetCurrentRecord(i) PROVE IInv'
  <2>1. i \in Live
    BY <1>9 DEF GetCurrentRecord
  <2>2. scan_iters[i].run_length = scan_run_length
    BY <1>5, <2>1 DEF IterInv
  <2>3. CASE scan_iters[i].records_left = scan_run_length
    <3>1. get_current_record(scan_runs, scan_fp, scan_iters[i]) = next(scan_runs, scan_fp, scan_iters[i])
      BY <2>2, <2>3 DEF get_current_record
    <3>2. NextPost(scan_runs, scan_run_length, scan_buf_size, B, scan_run_length * (i - 1), Len(yielded[i]),
                   next(scan_runs, scan_fp, scan_iters[i]))
      BY <1>1, <1>2, <1>5, <2>1, NextLemma
    <3> QED
      BY <1>7, <1>9, <2>1, <2>3, <3>1, <3>2 DEF GetCurrentRecord
  <2>4. CASE scan_iters[i].records_left # scan_run_length
    <3>1. get_current_record(scan_runs, scan_fp, scan_iters[i])
            = [it |-> scan_iters[i], fp |-> scan_fp, ret |-> scan_iters[i].current_record]
      BY <2>2, <2>4 DEF get_current_record
    <3>2. /\ scan_iters' = [scan_iters EXCEPT ![i] = scan_iters[i]]
          /\ yielded' = [yielded EXCEPT ![i] = yielded[i]]
          /\ scan_fp' \in Nat
          /\ UNCHANGED <<scanParams, crashed>>
      BY <1>1, <1>9, <2>4, <3>1 DEF GetCurrentRecord, ScanReturn
    <3>3. ReturnedInv(scan_runs, scan_run_length, scan_buf_size, B, scan_run_length * (i - 1), scan_iters[i], yielded[i])
      BY <1>5, <2>1 DEF ReturnedInv
    <3> QED
      BY <1>5, <2>1, <3>2, <3>3, MethodLemma
  <2> QED
    BY <2>3, <2>4
<1>10. ASSUME NEW i \in ScanIters, Delete(i) PROVE IInv'
  <2>1. CASE scan_iters[i].current_record = NULL
    BY <1>1, <1>10, <2>1 DEF Delete, IInv, ScanTypeOK, scanParams
  <2>2. CASE scan_iters[i].current_record # NULL
    <3>1. /\ scan_runs' = scan_runs /\ scan_run_length' = scan_run_length /\ scan_buf_size' = scan_buf_size /\ scan_fp' = scan_fp
          /\ crashed' = crashed
          /\ scan_iters' = [scan_iters EXCEPT ![i] = NULL]
          /\ yielded' = [yielded EXCEPT ![i] = << >>]
      BY <1>10, <2>2 DEF Delete, scanParams
    <3>2. ScanTypeOK'
      BY <1>1, <3>1 DEF IInv, ScanTypeOK
    <3>3. ASSUME NEW j \in ScanIters
          PROVE  /\ scan_iters'[j] # NULL => scan_iters'[j] = scan_iters[j] /\ yielded'[j] = yielded[j]
                 /\ scan_iters'[j] = NULL => yielded'[j] = << >>
      BY <1>1, <3>1 DEF IInv
    <3>4. ASSUME NEW j \in ScanIters, scan_iters'[j] # NULL
          PROVE  ReturnedInv(scan_runs', scan_run_length', scan_buf_size', scan_buf_size' \div RecordSize,
                             scan_run_length' * (j - 1), scan_iters'[j], yielded'[j])
      BY <3>1, <3>3, <3>4 DEF IInv
    <3> QED
      BY <3>2, <3>3, <3>4 DEF IInv
  <2> QED
    BY <2>1, <2>2
<1> QED
  BY <1>3, <1>4, <1>6, <1>8, <1>9, <1>10 DEF ScanNext

\* IInv is an invariant of the iterators.
THEOREM Invariance == ScanSpec => []IInv
BY InitLemma, StepLemma, PTL DEF ScanSpec

-----------------------------------------------------------------------------
\* What IInv says of a live iterator.
LEMMA LiveLemma ==
    ASSUME IInv, NEW i \in Live
    PROVE  /\ i \in ScanIters
           /\ scan_runs \in Seq(Record) /\ scan_run_length \in Nat \ {0} /\ scan_buf_size \in Nat \ {0}
           /\ scan_fp \in Nat /\ scan_buf_size \div RecordSize \in Nat
           /\ scan_run_length * (i - 1) \in Nat
           /\ yielded[i] \in Seq(Record) /\ Len(yielded[i]) \in Nat
           /\ ScanInv(scan_runs, scan_run_length * (i - 1), yielded[i])
           /\ IterInv(scan_runs, scan_run_length, scan_buf_size, scan_buf_size \div RecordSize,
                      scan_run_length * (i - 1), scan_iters[i], Len(yielded[i]))
<1>1. /\ scan_runs \in Seq(Record) /\ scan_run_length \in Nat \ {0} /\ scan_buf_size \in Nat \ {0}
      /\ scan_fp \in Nat /\ yielded \in [ScanIters -> Seq(Record)]
  BY DEF IInv, ScanTypeOK
<1>2. i \in ScanIters /\ scan_iters[i] # NULL
  BY DEF Live
<1>3. scan_buf_size \div RecordSize \in Nat /\ scan_run_length * (i - 1) \in Nat
  BY <1>1, <1>2, BufRecordsLemma, ScanStartLemma
<1> QED
  BY <1>1, <1>2, <1>3 DEF IInv, ReturnedInv

\* Every field of every iterator always has its type.
THEOREM TypeCorrectness == ScanSpec => []ScanTypeOK
<1>1. IInv => ScanTypeOK
  BY DEF IInv
<1> QED
  BY <1>1, Invariance, PTL

\* Iterators that share a stream return consecutive records of the file from the
\* start of their runs, in whatever order their methods are called.
THEOREM ScansConsecutivelyTheorem == ScanSpec => []ScansConsecutively
<1>1. IInv => ScansConsecutively
  <2> SUFFICES ASSUME IInv, NEW i \in Live, NEW j \in 1 .. Len(yielded[i])
               PROVE  /\ StartPos(scan_iters[i]) + j =< Len(scan_runs)
                      /\ yielded[i][j] = scan_runs[StartPos(scan_iters[i]) + j]
    BY DEF ScansConsecutively
  <2>1. StartPos(scan_iters[i]) = scan_run_length * (i - 1)
    <3>1. /\ IterInv(scan_runs, scan_run_length, scan_buf_size, scan_buf_size \div RecordSize,
                     scan_run_length * (i - 1), scan_iters[i], Len(yielded[i]))
          /\ Len(yielded[i]) \in Nat /\ scan_runs \in Seq(Record)
          /\ scan_run_length \in Nat \ {0} /\ scan_buf_size \in Nat \ {0}
          /\ scan_buf_size \div RecordSize \in Nat /\ scan_run_length * (i - 1) \in Nat
      BY LiveLemma
    <3> QED
      BY <3>1, GeometryLemma
  <2>2. ScanInv(scan_runs, scan_run_length * (i - 1), yielded[i])
    BY LiveLemma
  <2> QED
    BY <2>1, <2>2 DEF ScanInv
<1> QED
  BY <1>1, Invariance, PTL

\* An iterator returns a record of the next run only if the file ends within a
\* buffer of the end of its own run.
THEOREM StaysInRunTheorem == ScanSpec => []StaysInRun
<1>1. ASSUME NEW f \in Seq(Record), NEW rl \in Nat \ {0}, NEW bs \in Nat \ {0},
             NEW B \in Nat, NEW start \in Nat, NEW it, NEW n \in Nat,
             IterInv(f, rl, bs, B, start, it, n),
             Len(f) >= it.end_file_pos + BufRecords(it) - 1
      PROVE  n =< it.run_length
  <2>1. /\ BufRecords(it) = B /\ it.run_length = rl /\ it.end_file_pos = start + rl
        /\ it.records_left \in Nat /\ Len(f) \in Nat
    BY <1>1, GeometryLemma
  <2> DEFINE size == Whole(rl, B)
  <2>2. size \in Nat /\ size =< B
    BY DEF Whole
  <2> HIDE DEF size
  <2>3. ~Short(f, rl, size, start, it, n)
    <3> SUFFICES ASSUME NEW m \in Nat, m * size < rl, Len(f) < start + m * size + size
                 PROVE  FALSE
      BY DEF Short
    <3>1. PICK w \in Nat : w = m * size
      BY <2>2
    <3> QED
      BY <1>1, <2>1, <2>2, <3>1
  <2>4. it.records_left + n = rl
    BY <1>1, <2>3 DEF IterInv, CountInv, NotShort, size
  <2> QED
    BY <2>1, <2>4
<1>2. IInv => StaysInRun
  BY <1>1, LiveLemma DEF StaysInRun
<1> QED
  BY <1>2, Invariance, PTL

\* An iterator that reports its end has returned its whole run, or all that the
\* file holds of it.
THEOREM RunIsCompleteTheorem == ScanSpec => []RunIsComplete
<1>1. IInv => RunIsComplete
  BY LiveLemma, CompleteLemma DEF RunIsComplete
<1> QED
  BY <1>1, Invariance, PTL

\* An iterator that has reported its end, away from the end of the file, has returned
\* exactly its run.
THEOREM RunIsExactTheorem == ScanSpec => []RunIsExact
<1>1. StaysInRun /\ RunIsComplete => RunIsExact
  BY DEF RunIsExact
<1> QED
  BY <1>1, StaysInRunTheorem, RunIsCompleteTheorem, PTL

\* After next has returned NULL, has_next answers false for ever.
THEOREM NullIsFinalTheorem == ScanSpec => []NullIsFinal
<1>1. ASSUME NEW f \in Seq(Record), NEW rl \in Nat \ {0}, NEW bs \in Nat \ {0},
             NEW B \in Nat, NEW start \in Nat, NEW it, NEW n \in Nat, NEW s,
             HasNextPost(f, rl, bs, B, start, it, n, s),
             it.current_record = NULL
      PROVE  ~s.ret
  <2> SUFFICES ASSUME s.ret PROVE FALSE
    OBVIOUS
  <2>1. /\ IterInv(f, rl, bs, B, start, s.it, n) /\ s.it.current_record = NULL
        /\ s.it.left_in_buf > 0 /\ s.it.records_left > 0
    BY <1>1 DEF HasNextPost
  <2>2. B = 0
    BY <2>1 DEF IterInv, CurrentInv
  <2>3. s.it \in Iterator
    BY <2>1 DEF IterInv
  <2>4. PICK p \in Nat, l \in Nat, len \in Nat :
           p = s.it.buffer_pointer /\ l = s.it.left_in_buf /\ len = Len(s.it.buffer)
    BY <2>3 DEF Iterator
  <2>5. len =< 0 /\ p >= 1 /\ len + 1 = p + l /\ l > 0
    BY <2>1, <2>2, <2>4 DEF IterInv, BufferInv
  <2> QED
    BY <2>5
<1>2. IInv => NullIsFinal
  <2> SUFFICES ASSUME IInv, NEW i \in Live, scan_iters[i].current_record = NULL
               PROVE  ~has_next(scan_runs, scan_fp, scan_iters[i]).ret
    BY DEF NullIsFinal
  <2>1. HasNextPost(scan_runs, scan_run_length, scan_buf_size, scan_buf_size \div RecordSize,
                    scan_run_length * (i - 1), scan_iters[i], Len(yielded[i]),
                    has_next(scan_runs, scan_fp, scan_iters[i]))
    BY LiveLemma, HasNextLemma
  <2> QED
    BY <1>1, <2>1, LiveLemma
<1> QED
  BY <1>2, Invariance, PTL

\* get_current_record returns the last record returned, or NULL at the end; it
\* hands out the constructor's uninitialised record only in a run that the file
\* does not hold up to the first refill.
THEOREM CurrentRecordIsLastTheorem == ScanSpec => []CurrentRecordIsLast
<1>1. IInv => CurrentRecordIsLast
  <2> SUFFICES ASSUME IInv, NEW i \in Live
               PROVE  LET r == get_current_record(scan_runs, scan_fp, scan_iters[i]).ret
                      IN  IF yielded[i] = << >>
                          THEN r = Garbage =>
                                   Len(scan_runs) < StartPos(scan_iters[i]) + RefillSize(scan_iters[i])
                          ELSE r \in {NULL, yielded[i][Len(yielded[i])]}
    BY DEF CurrentRecordIsLast
  <2> DEFINE it == scan_iters[i]
             y == yielded[i]
             start == scan_run_length * (i - 1)
             B == scan_buf_size \div RecordSize
             size == Whole(scan_run_length, B)
  <2>1. /\ IterInv(scan_runs, scan_run_length, scan_buf_size, B, start, it, Len(y))
        /\ ScanInv(scan_runs, start, y)
        /\ y \in Seq(Record) /\ Len(y) \in Nat /\ scan_runs \in Seq(Record)
        /\ scan_run_length \in Nat \ {0} /\ scan_buf_size \in Nat \ {0}
        /\ B \in Nat /\ start \in Nat /\ scan_fp \in Nat
    BY LiveLemma
  <2>2. /\ StartPos(it) = start /\ it.run_length = scan_run_length /\ it.records_left \in Nat
        /\ RefillSize(it) = size
    BY <2>1, GeometryLemma
  <2>3. NextPost(scan_runs, scan_run_length, scan_buf_size, B, start, Len(y), next(scan_runs, scan_fp, it))
    BY <2>1, NextLemma
  <2>4. CountInv(scan_runs, scan_run_length, size, start, it, Len(y)) /\ CurrentInv(scan_runs, B, start, it, Len(y))
    BY <2>1 DEF IterInv
  <2>5. size \in Nat
    BY <2>1 DEF Whole
  <2> HIDE DEF it, y, start, B, size
  <2>6. CASE it.records_left = scan_run_length
    <3>1. get_current_record(scan_runs, scan_fp, it) = next(scan_runs, scan_fp, it)
      BY <2>2, <2>6 DEF get_current_record
    <3>2. next(scan_runs, scan_fp, it).ret # Garbage
      BY <2>3, RecordAssumption DEF NextPost
    <3>3. y = << >>
      <4>1. ~Short(scan_runs, scan_run_length, size, start, it, Len(y))
        BY <2>1, <2>6 DEF Short
      <4>2. it.records_left + Len(y) = scan_run_length
        BY <2>4, <4>1 DEF CountInv, NotShort
      <4>3. Len(y) = 0
        BY <2>1, <2>6, <4>2
      <4> QED
        BY <2>1, <4>3, EmptyFacts
    <3> QED
      BY <3>1, <3>2, <3>3 DEF it, y
  <2>7. CASE it.records_left # scan_run_length
    <3>1. get_current_record(scan_runs, scan_fp, it).ret = it.current_record
      BY <2>2, <2>7 DEF get_current_record
    <3>2. CASE y = << >>
      <4>1. Len(y) = 0
        BY <3>2
      <4>2. Short(scan_runs, scan_run_length, size, start, it, 0)
        BY <2>2, <2>4, <2>7, <4>1 DEF CountInv, NotShort
      <4>3. Len(scan_runs) < start + 0 + size
        BY <4>2, Zenon DEF Short
      <4>4. Len(scan_runs) < start + size
        BY <2>1, <2>5, <4>3
      <4> QED
        BY <2>2, <3>2, <4>4 DEF it, y
    <3>3. CASE y # << >>
      <4>1. Len(y) # 0 /\ y[Len(y)] = scan_runs[start + Len(y)]
        BY <2>1, <3>3, EmptyFacts DEF ScanInv
      <4>2. it.current_record \in {NULL, y[Len(y)]}
        BY <2>4, <4>1 DEF CurrentInv
      <4> QED
        BY <3>1, <3>3, <4>2 DEF it, y
    <3> QED
      BY <3>2, <3>3
  <2> QED
    BY <2>6, <2>7
<1> QED
  BY <1>1, Invariance, PTL

=============================================================================
