-------------------------- MODULE MergeRunsProofs ---------------------------
(***************************************************************************)
(* Proofs about module MergeRuns, for every file of runs, run length,      *)
(* buffer size, record size and number of runs; first what the methods of  *)
(* class RunIterator promise, which RunIteratorProofs uses too.            *)
(*                                                                         *)
(* The invariant of an iterator speaks of the run that starts at position  *)
(* start, of which n records have been returned.  It relates the buffer to *)
(* the file (the buffer is the stretch of the file that ends at file_pos), *)
(* file_pos to the records returned so far, and records_left to both:      *)
(* either no short read has happened, records_left counts the records of   *)
(* the run that are still to come and whole refills have been read, or one *)
(* has, and then what is left is what is in the buffer and the file has    *)
(* ended.                                                                  *)
(*                                                                         *)
(* The output is described by the pairs of an iterator and a position of   *)
(* the file that it has copied: the output holds the records of these      *)
(* pairs, each once.  While the iterators stay in their runs, the          *)
(* positions copied come before all others in the order of a stable sort,  *)
(* because the record copied next is the least of the iterators' current   *)
(* records, each of which is the least that is left of its run.            *)
(***************************************************************************)
EXTENDS MergeRuns, FiniteSetTheorems, TLAPS

\* The buffer of iterator it is the stretch of file f that ends at file_pos, of
\* which left_in_buf records have not been returned; n records have been.
BufferInv(f, start, it, n) ==
    /\ it.buffer_pointer >= 1
    /\ Len(it.buffer) + 1 = it.buffer_pointer + it.left_in_buf
    /\ Len(it.buffer) =< it.file_pos
    /\ it.file_pos = start + n + it.left_in_buf
    /\ \A j \in 1 .. Len(it.buffer) :
          /\ it.file_pos - Len(it.buffer) + j =< Len(f)
          /\ it.buffer[j] = f[it.file_pos - Len(it.buffer) + j]

\* The records of a refill into a buffer of B records, in a run of rl.
Whole(rl, B) == IF B < rl THEN B ELSE rl

\* No refill has come out short: whole refills of size records have been read.
NotShort(rl, size, it, n) ==
    /\ it.records_left + n = rl
    /\ \E m \in Nat : n + it.left_in_buf = m * size

\* A refill has come out short, after m whole ones.
Short(f, rl, size, start, it, n) ==
    /\ it.records_left = it.left_in_buf
    /\ it.records_left < rl
    /\ Len(f) =< it.file_pos
    /\ Len(f) < start + n + size
    /\ \E m \in Nat : m * size < rl /\ Len(f) < start + m * size + size

CountInv(f, rl, size, start, it, n) ==
    NotShort(rl, size, it, n) \/ Short(f, rl, size, start, it, n)

\* current_record is the last record returned, or NULL at the end.
CurrentInv(f, B, start, it, n) ==
    IF it.current_record = NULL THEN it.records_left = 0 \/ B = 0
    ELSE it.current_record = IF n = 0 THEN Garbage ELSE f[start + n]

\* The invariant of iterator it, made for the run of file f that starts at
\* start, with a buffer of B records, once it has returned n records.
IterInv(f, rl, bs, B, start, it, n) ==
    /\ it \in Iterator
    /\ it.run_length = rl
    /\ it.buf_size = bs
    /\ B = bs \div RecordSize
    /\ it.end_file_pos = start + rl
    /\ Len(it.buffer) =< B
    /\ BufferInv(f, start, it, n)
    /\ n > 0 => start + n =< Len(f)
    /\ CountInv(f, rl, Whole(rl, B), start, it, n)
    /\ CurrentInv(f, B, start, it, n)

\* What read_into_buffer promises: its result s keeps the invariant, and leaves
\* the buffer empty only if nothing is left, or if it has no room for a record.
RefillPost(f, rl, bs, B, start, it, n, s) ==
    /\ s.fp \in Nat
    /\ IterInv(f, rl, bs, B, start, s.it, n)
    /\ s.it.current_record = it.current_record
    /\ s.it.left_in_buf = 0 => s.it.records_left = 0 \/ (B = 0 /\ s.it.buffer = << >>)

\* What has_next promises: its result s keeps the invariant.  When it answers
\* true there is a record in the buffer; when it answers false none is left, or
\* the buffer has no room for one.
HasNextPost(f, rl, bs, B, start, it, n, s) ==
    /\ s.fp \in Nat
    /\ IterInv(f, rl, bs, B, start, s.it, n)
    /\ s.it.current_record = it.current_record
    /\ s.ret => s.it.left_in_buf > 0 /\ s.it.records_left > 0
    /\ ~s.ret => s.it.records_left = 0 \/ B = 0

\* The iterator after next has taken a record from its buffer.
Advanced(it) == [it EXCEPT !.current_record = RecordAtPointer(it),
                           !.buffer_pointer = it.buffer_pointer + 1,
                           !.left_in_buf    = it.left_in_buf - 1,
                           !.records_left   = it.records_left - 1]

\* What next promises: its result s keeps the invariant, and is NULL or the record
\* of the file that follows the n records returned before.
NextPost(f, rl, bs, B, start, n, s) ==
    /\ s.fp \in Nat
    /\ s.it.current_record = s.ret
    /\ \/ s.ret = NULL /\ IterInv(f, rl, bs, B, start, s.it, n)
       \/ /\ s.ret \in Record
          /\ s.ret = f[start + n + 1]
          /\ start + n + 1 =< Len(f)
          /\ IterInv(f, rl, bs, B, start, s.it, n + 1)

-----------------------------------------------------------------------------
\* Quotient and remainder.
LEMMA DivLemma ==
    ASSUME NEW a \in Nat, NEW b \in Nat \ {0}
    PROVE  /\ a \div b \in Nat
           /\ a % b \in 0 .. b - 1
           /\ a = (a \div b) * b + (a % b)
OBVIOUS

\* They are the only ones.
LEMMA ModLemma ==
    ASSUME NEW a \in Nat, NEW b \in Nat \ {0}, NEW q \in Nat, NEW r \in 0 .. b - 1, a = q * b + r
    PROVE  a % b = r /\ a \div b = q
OBVIOUS

\* Appending a record, as fwrite does.
LEMMA AppendFacts ==
    ASSUME NEW S, NEW q \in Seq(S), NEW e \in S
    PROVE  /\ Append(q, e) \in Seq(S)
           /\ Append(q, e) # << >>
           /\ Len(Append(q, e)) = Len(q) + 1
           /\ \A i \in 1 .. Len(q) : Append(q, e)[i] = q[i]
           /\ Append(q, e)[Len(q) + 1] = e
<1>1. /\ Append(q, e) \in Seq(S)
      /\ Len(Append(q, e)) = Len(q) + 1
      /\ \A i \in 1 .. Len(q) : Append(q, e)[i] = q[i]
      /\ Append(q, e)[Len(q) + 1] = e
  OBVIOUS
<1>2. Append(q, e) # << >>
  BY <1>1
<1> QED
  BY <1>1, <1>2

\* Writing one stretch of records after another.
LEMMA ConcatFacts ==
    ASSUME NEW S, NEW q \in Seq(S), NEW u \in Seq(S)
    PROVE  /\ q \o u \in Seq(S)
           /\ Len(q \o u) = Len(q) + Len(u)
           /\ \A i \in 1 .. Len(q) + Len(u) :
                 (q \o u)[i] = IF i =< Len(q) THEN q[i] ELSE u[i - Len(q)]
OBVIOUS

\* Writing nothing.
LEMMA ConcatEmpty ==
    ASSUME NEW S, NEW q \in Seq(S)
    PROVE  q \o << >> = q /\ << >> \o q = q
OBVIOUS

\* An empty file.
LEMMA EmptyFacts ==
    ASSUME NEW S
    PROVE  /\ << >> \in Seq(S)
           /\ Len(<< >>) = 0
           /\ \A q \in Seq(S) : q # << >> => Len(q) \in Nat \ {0}
<1>1. ASSUME NEW q \in Seq(S), Len(q) = 0 PROVE q = << >>
  BY <1>1
<1> QED
  BY <1>1

\* A stretch of a file.
LEMMA SubSeqFacts ==
    ASSUME NEW S, NEW s, NEW m \in Int, NEW n \in Int, \A i \in m .. n : s[i] \in S
    PROVE  /\ SubSeq(s, m, n) \in Seq(S)
           /\ Len(SubSeq(s, m, n)) = IF m <= n THEN n - m + 1 ELSE 0
           /\ \A i \in 1 .. n - m + 1 : SubSeq(s, m, n)[i] = s[m + i - 1]
OBVIOUS

\* What fread delivers: no more than it is asked for, less only at the end of the
\* file.
LEMMA FreadCountLemma ==
    ASSUME NEW f \in Seq(Record), NEW pos \in Nat, NEW size \in Nat
    PROVE  LET got == FreadCount(f, pos, size)
           IN  /\ got \in Nat
               /\ got =< size
               /\ got > 0 => pos + got =< Len(f)
               /\ got < size => Len(f) =< pos + got
               /\ got < size => Len(f) < pos + size
<1> Len(f) \in Nat
  OBVIOUS
<1> QED
  BY DEF FreadCount

\* The records that a refill of got records at position pos puts in the buffer.
LEMMA StretchLemma ==
    ASSUME NEW f \in Seq(Record), NEW pos \in Nat, NEW got \in Nat,
           got > 0 => pos + got =< Len(f)
    PROVE  /\ SubSeq(f, pos + 1, pos + got) \in Seq(Record)
           /\ Len(SubSeq(f, pos + 1, pos + got)) = got
           /\ \A j \in 1 .. got : SubSeq(f, pos + 1, pos + got)[j] = f[pos + j]
<1> Len(f) \in Nat
  OBVIOUS
<1>1. CASE got = 0
  BY <1>1
<1>2. CASE got > 0
  <2>1. pos + 1 \in Int /\ pos + got \in Int /\ pos + 1 =< pos + got /\ pos + got =< Len(f)
    BY <1>2
  <2>2. \A i \in pos + 1 .. pos + got : f[i] \in Record
    BY <2>1
  <2>3. /\ SubSeq(f, pos + 1, pos + got) \in Seq(Record)
        /\ Len(SubSeq(f, pos + 1, pos + got)) = (pos + got) - (pos + 1) + 1
        /\ \A i \in 1 .. (pos + got) - (pos + 1) + 1 :
              SubSeq(f, pos + 1, pos + got)[i] = f[(pos + 1) + i - 1]
    BY <2>1, <2>2, SubSeqFacts
  <2>4. /\ (pos + got) - (pos + 1) + 1 = got
        /\ \A i \in 1 .. got : (pos + 1) + i - 1 = pos + i
    OBVIOUS
  <2> QED
    BY <2>3, <2>4, Zenon
<1>3. got = 0 \/ got > 0
  OBVIOUS
<1> QED
  BY <1>1, <1>2, <1>3, Zenon

\* An iterator with another buffer and other counters is an iterator.
LEMMA UpdateLemma ==
    ASSUME NEW it \in Iterator, NEW b \in Seq(Record),
           NEW p \in Nat, NEW l \in Nat, NEW r \in Nat, NEW q \in Nat
    PROVE  [it EXCEPT !.buffer = b, !.buffer_pointer = p, !.left_in_buf = l,
                      !.records_left = r, !.file_pos = q] \in Iterator
BY Zenon DEF Iterator

\* An iterator that has moved on to another record is an iterator.
LEMMA AdvanceLemma ==
    ASSUME NEW it \in Iterator, NEW c \in Record,
           NEW p \in Nat, NEW l \in Nat, NEW r \in Nat
    PROVE  [it EXCEPT !.current_record = c, !.buffer_pointer = p, !.left_in_buf = l,
                      !.records_left = r] \in Iterator
BY DEF Iterator

\* read_into_buffer keeps its promise.
LEMMA RefillLemma ==
    ASSUME NEW f \in Seq(Record), NEW rl \in Nat \ {0}, NEW bs \in Nat \ {0},
           NEW B \in Nat, NEW start \in Nat, NEW pos \in Nat, NEW it, NEW n \in Nat,
           IterInv(f, rl, bs, B, start, it, n)
    PROVE  RefillPost(f, rl, bs, B, start, it, n, read_into_buffer(f, pos, it))
<1> DEFINE s == read_into_buffer(f, pos, it)
           size == Whole(rl, B)
           got == FreadCount(f, it.file_pos, size)
           b == SubSeq(f, it.file_pos + 1, it.file_pos + got)
           left == IF got < size THEN got ELSE it.records_left
           jt == [it EXCEPT !.buffer         = b,
                            !.buffer_pointer = 1,
                            !.left_in_buf    = got,
                            !.records_left   = left,
                            !.file_pos       = it.file_pos + got]
<1>1. it \in Iterator /\ it.run_length = rl /\ it.buf_size = bs
  BY DEF IterInv
<1>2. RefillSize(it) = size
  <2>1. B = bs \div RecordSize
    BY DEF IterInv
  <2> QED
    BY <1>1, <2>1 DEF RefillSize, BufRecords, Whole
<1>3. CASE it.left_in_buf > 0 \/ it.records_left = 0
  <2>1. s = [it |-> it, fp |-> pos]
    BY <1>3 DEF read_into_buffer
  <2>2. it.left_in_buf \in Nat
    BY <1>1 DEF Iterator
  <2> QED
    BY <1>3, <2>1, <2>2 DEF RefillPost
<1>4. CASE ~(it.left_in_buf > 0 \/ it.records_left = 0)
  <2>1. s = [it |-> jt, fp |-> it.file_pos + got]
    BY <1>2, <1>4 DEF read_into_buffer, SeekPos, RecordsLeftAfter
  <2>2. /\ it.file_pos \in Nat /\ it.left_in_buf = 0
        /\ it.records_left \in Nat \ {0}
        /\ Len(f) \in Nat /\ n \in Nat
    BY <1>1, <1>4 DEF Iterator
  <2>3. size \in Nat /\ size =< B /\ size =< rl /\ (size = 0 => B = 0)
    BY DEF Whole
  <2> HIDE DEF size
  <2>4. /\ got \in Nat /\ got =< size
        /\ got > 0 => it.file_pos + got =< Len(f)
        /\ got < size => Len(f) =< it.file_pos + got
        /\ got < size => Len(f) < it.file_pos + size
    BY <2>2, <2>3, FreadCountLemma
  <2> HIDE DEF got
  <2>5. b \in Seq(Record) /\ Len(b) = got /\ \A j \in 1 .. got : b[j] = f[it.file_pos + j]
    <3> DEFINE p == it.file_pos
    <3>1. p \in Nat /\ got \in Nat /\ (got > 0 => p + got =< Len(f))
      BY <2>2, <2>4
    <3> HIDE DEF p
    <3>2. /\ SubSeq(f, p + 1, p + got) \in Seq(Record)
          /\ Len(SubSeq(f, p + 1, p + got)) = got
          /\ \A j \in 1 .. got : SubSeq(f, p + 1, p + got)[j] = f[p + j]
      BY <3>1, StretchLemma
    <3> QED
      BY <3>2 DEF p
  <2>6. left \in Nat
    BY <2>2, <2>4
  <2> HIDE DEF b, left
  <2>7. jt \in Iterator
    <3>1. it.file_pos + got \in Nat
      BY <2>2, <2>4
    <3> QED
      BY <1>1, <2>4, <2>5, <2>6, <3>1, UpdateLemma, Zenon
  <2>8. /\ jt.run_length = rl /\ jt.buf_size = bs /\ jt.end_file_pos = it.end_file_pos
        /\ jt.buffer = b /\ jt.buffer_pointer = 1 /\ jt.left_in_buf = got
        /\ jt.records_left = left /\ jt.file_pos = it.file_pos + got
        /\ jt.current_record = it.current_record
    BY <1>1 DEF Iterator
  <2> HIDE DEF jt
  <2>9. PICK w \in Nat : it.file_pos = start + n /\ it.records_left + n = rl /\ n = w * size
    <3>1. it.file_pos = start + n /\ NotShort(rl, size, it, n)
      BY <2>2 DEF IterInv, BufferInv, CountInv, Short, Whole, size
    <3> QED
      BY <2>2, <3>1 DEF NotShort
  <2>10. BufferInv(f, start, jt, n)
    <3>1. \A j \in 1 .. Len(b) : /\ jt.file_pos - Len(b) + j =< Len(f)
                                 /\ b[j] = f[jt.file_pos - Len(b) + j]
      <4> SUFFICES ASSUME NEW j \in 1 .. got
                   PROVE  /\ jt.file_pos - got + j =< Len(f)
                          /\ b[j] = f[jt.file_pos - got + j]
        BY <2>5
      <4>1. jt.file_pos - got + j = it.file_pos + j
        BY <2>2, <2>4, <2>8
      <4>2. it.file_pos + j =< Len(f)
        BY <2>2, <2>4
      <4> QED
        BY <2>5, <4>1, <4>2
    <3>2. /\ jt.buffer_pointer >= 1
          /\ Len(b) + 1 = jt.buffer_pointer + jt.left_in_buf
          /\ Len(b) =< jt.file_pos
          /\ jt.file_pos = start + n + jt.left_in_buf
      BY <2>2, <2>4, <2>5, <2>8, <2>9
    <3> QED
      BY <2>8, <3>1, <3>2 DEF BufferInv
  <2>11. CountInv(f, rl, size, start, jt, n)
    <3>1. CASE got < size
      <4>1. left = got
        BY <3>1 DEF left
      <4>2. w * size < rl /\ Len(f) < start + w * size + size
        BY <2>2, <2>4, <2>9, <3>1
      <4>3. Len(f) < start + n + size /\ Len(f) =< jt.file_pos /\ left < rl
        BY <2>2, <2>3, <2>4, <2>8, <2>9, <3>1, <4>1
      <4> QED
        BY <2>8, <4>1, <4>2, <4>3 DEF CountInv, Short
    <3>2. CASE ~(got < size)
      <4>1. got = size /\ left = it.records_left
        BY <2>3, <2>4, <3>2 DEF left
      <4>2. n + got = (w + 1) * size /\ w + 1 \in Nat
        BY <2>3, <2>9, <4>1
      <4> QED
        BY <2>8, <2>9, <4>1, <4>2 DEF CountInv, NotShort
    <3> QED
      BY <3>1, <3>2
  <2>12. CurrentInv(f, B, start, jt, n)
    <3>1. CASE it.current_record = NULL
      <4>1. B = 0
        BY <2>2, <3>1 DEF IterInv, CurrentInv
      <4> QED
        BY <2>8, <3>1, <4>1 DEF CurrentInv
    <3>2. CASE it.current_record # NULL
      BY <2>8, <3>2 DEF IterInv, CurrentInv
    <3> QED
      BY <3>1, <3>2
  <2>13. IterInv(f, rl, bs, B, start, jt, n)
    <3>1. Len(jt.buffer) =< B
      BY <2>3, <2>4, <2>5, <2>8
    <3> QED
      BY <2>7, <2>8, <2>10, <2>11, <2>12, <3>1 DEF IterInv, size
  <2>14. jt.left_in_buf = 0 => jt.records_left = 0 \/ (B = 0 /\ jt.buffer = << >>)
    <3>1. CASE got < size
      BY <2>8, <3>1 DEF left
    <3>2. CASE ~(got < size)
      <4>1. got = 0 => B = 0 /\ b = << >>
        BY <2>3, <2>4, <2>5, <3>2, EmptyFacts
      <4> QED
        BY <2>8, <4>1
    <3> QED
      BY <3>1, <3>2
  <2> QED
    BY <2>1, <2>2, <2>4, <2>8, <2>13, <2>14 DEF RefillPost
<1> QED
  BY <1>3, <1>4

\* What has_next answers after the refill.
LEMMA HasRecordLemma ==
    ASSUME NEW f \in Seq(Record), NEW rl \in Nat \ {0}, NEW bs \in Nat \ {0},
           NEW B \in Nat, NEW start \in Nat, NEW it, NEW n \in Nat,
           IterInv(f, rl, bs, B, start, it, n),
           it.left_in_buf = 0 => it.records_left = 0 \/ (B = 0 /\ it.buffer = << >>)
    PROVE  /\ HasRecord(it) => it.left_in_buf > 0 /\ it.records_left > 0
           /\ ~HasRecord(it) => it.records_left = 0 \/ B = 0
<1>1. it.left_in_buf \in Nat /\ it.records_left \in Nat
  BY DEF IterInv, Iterator
<1> QED
  BY <1>1 DEF HasRecord

\* has_next keeps its promise.
LEMMA HasNextLemma ==
    ASSUME NEW f \in Seq(Record), NEW rl \in Nat \ {0}, NEW bs \in Nat \ {0},
           NEW B \in Nat, NEW start \in Nat, NEW pos \in Nat, NEW it, NEW n \in Nat,
           IterInv(f, rl, bs, B, start, it, n)
    PROVE  HasNextPost(f, rl, bs, B, start, it, n, has_next(f, pos, it))
<1>1. ASSUME NEW s, RefillPost(f, rl, bs, B, start, it, n, s)
      PROVE  HasNextPost(f, rl, bs, B, start, it, n,
                         [it |-> s.it, fp |-> s.fp, ret |-> HasRecord(s.it)])
  <2>1. HasRecord(s.it) \in BOOLEAN
    BY DEF HasRecord
  <2>2. /\ HasRecord(s.it) => s.it.left_in_buf > 0 /\ s.it.records_left > 0
        /\ ~HasRecord(s.it) => s.it.records_left = 0 \/ B = 0
    BY <1>1, HasRecordLemma DEF RefillPost
  <2> QED
    BY <1>1, <2>1, <2>2 DEF RefillPost, HasNextPost
<1>2. CASE it.left_in_buf = 0
  <2>1. RefillPost(f, rl, bs, B, start, it, n, read_into_buffer(f, pos, it))
    BY RefillLemma
  <2>2. has_next(f, pos, it) = [ it  |-> read_into_buffer(f, pos, it).it,
                                 fp  |-> read_into_buffer(f, pos, it).fp,
                                 ret |-> HasRecord(read_into_buffer(f, pos, it).it) ]
    BY <1>2 DEF has_next
  <2> QED
    BY <1>1, <2>1, <2>2
<1>3. CASE it.left_in_buf # 0
  <2> DEFINE s == [it |-> it, fp |-> pos]
  <2>1. RefillPost(f, rl, bs, B, start, it, n, s)
    BY <1>3 DEF RefillPost
  <2>2. has_next(f, pos, it) = [it |-> s.it, fp |-> s.fp, ret |-> HasRecord(s.it)]
    BY <1>3 DEF has_next
  <2> HIDE DEF s
  <2> QED
    BY <1>1, <2>1, <2>2
<1> QED
  BY <1>2, <1>3

\* next at the end of the run.
LEMMA EndLemma ==
    ASSUME NEW f \in Seq(Record), NEW rl \in Nat \ {0}, NEW bs \in Nat \ {0},
           NEW B \in Nat, NEW start \in Nat, NEW it, NEW n \in Nat,
           IterInv(f, rl, bs, B, start, it, n),
           it.records_left = 0 \/ B = 0
    PROVE  IterInv(f, rl, bs, B, start, [it EXCEPT !.current_record = NULL], n)
<1> DEFINE jt == [it EXCEPT !.current_record = NULL]
<1>1. it \in Iterator
  BY DEF IterInv
<1>2. jt \in Iterator
  BY <1>1 DEF Iterator
<1>3. /\ jt.file_pos = it.file_pos /\ jt.end_file_pos = it.end_file_pos
      /\ jt.run_length = it.run_length /\ jt.records_left = it.records_left
      /\ jt.buf_size = it.buf_size /\ jt.buffer = it.buffer
      /\ jt.buffer_pointer = it.buffer_pointer /\ jt.left_in_buf = it.left_in_buf
      /\ jt.current_record = NULL
  BY <1>1 DEF Iterator
<1> HIDE DEF jt
<1>4. IterInv(f, rl, bs, B, start, jt, n)
  BY <1>2, <1>3 DEF IterInv, BufferInv, CountInv, NotShort, Short, CurrentInv
<1> QED
  BY <1>4 DEF jt

\* next with a record in the buffer: it returns the record of the file that
\* follows those returned before.
LEMMA TakeLemma ==
    ASSUME NEW f \in Seq(Record), NEW rl \in Nat \ {0}, NEW bs \in Nat \ {0},
           NEW B \in Nat, NEW start \in Nat, NEW it, NEW n \in Nat,
           it.left_in_buf > 0, it.records_left > 0
    PROVE  IterInv(f, rl, bs, B, start, it, n) =>
           /\ RecordAtPointer(it) \in Record
           /\ RecordAtPointer(it) = f[start + n + 1]
           /\ start + n + 1 =< Len(f)
           /\ IterInv(f, rl, bs, B, start, Advanced(it), n + 1)
<1> DEFINE r == RecordAtPointer(it)
           jt == [it EXCEPT !.current_record = r,
                            !.buffer_pointer = it.buffer_pointer + 1,
                            !.left_in_buf    = it.left_in_buf - 1,
                            !.records_left   = it.records_left - 1]
           size == Whole(rl, B)
<1>1. SUFFICES ASSUME IterInv(f, rl, bs, B, start, it, n)
              PROVE  /\ r \in Record /\ r = f[start + n + 1] /\ start + n + 1 =< Len(f)
                     /\ IterInv(f, rl, bs, B, start, jt, n + 1)
  BY DEF Advanced
<1>2. it \in Iterator
  BY <1>1 DEF IterInv
<1>3. PICK p \in Nat, q \in Nat, l \in Nat, m \in Nat, len \in Nat, flen \in Nat :
         /\ p = it.buffer_pointer /\ q = it.file_pos
         /\ l = it.left_in_buf /\ m = it.records_left
         /\ len = Len(it.buffer) /\ flen = Len(f)
  <2>1. /\ it.buffer_pointer \in Nat /\ it.file_pos \in Nat
        /\ it.left_in_buf \in Nat /\ it.records_left \in Nat
    BY <1>2 DEF Iterator
  <2>2. Len(it.buffer) \in Nat /\ Len(f) \in Nat
    BY <1>2 DEF Iterator
  <2> QED
    BY <2>1, <2>2, Zenon
<1>4. l > 0 /\ m > 0
  BY <1>3
<1>5. p >= 1 /\ len + 1 = p + l /\ q = start + n + l /\ len =< q
  BY <1>1, <1>3 DEF IterInv, BufferInv
<1>6. p \in 1 .. len /\ q - len + p = start + n + 1
  BY <1>4, <1>5
<1>7. r \in Record /\ start + n + 1 =< flen /\ r = f[start + n + 1]
  <2>1. r = it.buffer[p]
    BY <1>3, <1>6 DEF RecordAtPointer
  <2>2. it.buffer \in Seq(Record)
    BY <1>2 DEF Iterator
  <2>3. r \in Record
    <3>1. p \in 1 .. Len(it.buffer)
      BY <1>3, <1>6, Zenon
    <3>2. it.buffer[p] \in Record
      BY <2>2, <3>1
    <3> QED
      BY <2>1, <3>2, Zenon
  <2>4. q - len + p =< flen /\ it.buffer[p] = f[q - len + p]
    BY <1>1, <1>3, <1>6 DEF IterInv, BufferInv
  <2> QED
    BY <1>6, <2>1, <2>3, <2>4
<1> HIDE DEF r
<1>8. jt \in Iterator
  <2>1. p + 1 \in Nat /\ l - 1 \in Nat /\ m - 1 \in Nat
    BY <1>4
  <2> QED
    BY <1>2, <1>3, <1>7, <2>1, AdvanceLemma, Zenon
<1>9. /\ jt.file_pos = q /\ jt.end_file_pos = it.end_file_pos
      /\ jt.run_length = it.run_length /\ jt.records_left = m - 1
      /\ jt.buf_size = it.buf_size /\ jt.buffer = it.buffer
      /\ jt.buffer_pointer = p + 1 /\ jt.left_in_buf = l - 1
      /\ jt.current_record = r
  BY <1>2, <1>3 DEF Iterator
<1> HIDE DEF jt
<1>10. BufferInv(f, start, jt, n + 1)
  <2>1. p + 1 >= 1 /\ len + 1 = (p + 1) + (l - 1) /\ q = start + (n + 1) + (l - 1)
    BY <1>5
  <2>2. \A j \in 1 .. len : q - len + j =< flen /\ it.buffer[j] = f[q - len + j]
    BY <1>1, <1>3 DEF IterInv, BufferInv
  <2> QED
    BY <1>3, <1>5, <1>9, <2>1, <2>2 DEF BufferInv
<1>11. n + 1 > 0 => start + (n + 1) =< Len(f)
  BY <1>3, <1>7
<1>12. CountInv(f, rl, size, start, jt, n + 1)
  <2>1. size \in Nat
    BY DEF Whole
  <2> HIDE DEF size
  <2>2. CASE NotShort(rl, size, it, n)
    <3>1. m + n = rl /\ \E w \in Nat : n + l = w * size
      BY <1>3, <2>2 DEF NotShort
    <3>2. PICK w \in Nat : n + l = w * size
      BY <3>1
    <3>3. (m - 1) + (n + 1) = rl /\ (n + 1) + (l - 1) = n + l
      BY <3>1
    <3>4. (n + 1) + (l - 1) = w * size
      BY <3>2, <3>3
    <3> QED
      BY <1>9, <3>3, <3>4 DEF CountInv, NotShort
  <2>3. CASE Short(f, rl, size, start, it, n)
    <3>1. /\ m = l /\ m < rl /\ flen =< q /\ flen < start + n + size
          /\ \E w \in Nat : w * size < rl /\ Len(f) < start + w * size + size
      BY <1>3, <2>3 DEF Short
    <3>2. m - 1 = l - 1 /\ m - 1 < rl /\ flen < start + (n + 1) + size
      BY <2>1, <3>1
    <3> QED
      BY <1>3, <1>9, <3>1, <3>2 DEF CountInv, Short
  <2> QED
    BY <1>1, <2>2, <2>3 DEF IterInv, CountInv, size
<1>13. CurrentInv(f, B, start, jt, n + 1)
  <2>1. r # NULL /\ n + 1 # 0 /\ start + (n + 1) = start + n + 1
    BY <1>7, RecordAssumption
  <2> QED
    BY <1>7, <1>9, <2>1 DEF CurrentInv
<1>14. IterInv(f, rl, bs, B, start, jt, n + 1)
  BY <1>1, <1>8, <1>9, <1>10, <1>11, <1>12, <1>13 DEF IterInv
<1> QED
  BY <1>3, <1>7, <1>14

\* next keeps its promise.
LEMMA NextLemma ==
    ASSUME NEW f \in Seq(Record), NEW rl \in Nat \ {0}, NEW bs \in Nat \ {0},
           NEW B \in Nat, NEW start \in Nat, NEW pos \in Nat, NEW it, NEW n \in Nat,
           IterInv(f, rl, bs, B, start, it, n)
    PROVE  NextPost(f, rl, bs, B, start, n, next(f, pos, it))
<1>1. HasNextPost(f, rl, bs, B, start, it, n, has_next(f, pos, it))
  BY HasNextLemma
<1>2. ASSUME NEW s, HasNextPost(f, rl, bs, B, start, it, n, s), ~s.ret
      PROVE  NextPost(f, rl, bs, B, start, n,
                      [it |-> [s.it EXCEPT !.current_record = NULL], fp |-> s.fp, ret |-> NULL])
  <2>1. IterInv(f, rl, bs, B, start, [s.it EXCEPT !.current_record = NULL], n)
    BY <1>2, EndLemma DEF HasNextPost
  <2>2. s.it \in Iterator
    BY <1>2 DEF HasNextPost, IterInv
  <2>3. [s.it EXCEPT !.current_record = NULL].current_record = NULL
    BY <2>2 DEF Iterator
  <2> QED
    BY <1>2, <2>1, <2>3 DEF HasNextPost, NextPost
<1>3. ASSUME NEW s, HasNextPost(f, rl, bs, B, start, it, n, s), s.ret
      PROVE  NextPost(f, rl, bs, B, start, n,
                      [it |-> Advanced(s.it), fp |-> s.fp, ret |-> RecordAtPointer(s.it)])
  <2>1. /\ IterInv(f, rl, bs, B, start, s.it, n)
        /\ s.it.left_in_buf > 0 /\ s.it.records_left > 0
    BY <1>3 DEF HasNextPost
  <2>2. /\ RecordAtPointer(s.it) \in Record
        /\ RecordAtPointer(s.it) = f[start + n + 1]
        /\ start + n + 1 =< Len(f)
        /\ IterInv(f, rl, bs, B, start, Advanced(s.it), n + 1)
    BY <2>1, TakeLemma
  <2>3. Advanced(s.it).current_record = RecordAtPointer(s.it)
    BY <2>1 DEF IterInv, Iterator, Advanced
  <2> QED
    BY <1>3, <2>2, <2>3 DEF HasNextPost, NextPost
<1>4. CASE ~has_next(f, pos, it).ret
  BY <1>1, <1>2, <1>4 DEF next
<1>5. CASE has_next(f, pos, it).ret
  BY <1>1, <1>3, <1>5, Zenon DEF next, Advanced
<1> QED
  BY <1>4, <1>5

\* How many records fit in a buffer is a natural number.
LEMMA BufRecordsLemma ==
    ASSUME NEW bs \in Nat \ {0}
    PROVE  bs \div RecordSize \in Nat
BY RecordSizeAssumption

\* A new iterator has its invariant.
LEMMA NewLemma ==
    ASSUME NEW f \in Seq(Record), NEW rl \in Nat \ {0}, NEW bs \in Nat \ {0},
           NEW start \in Nat
    PROVE  IterInv(f, rl, bs, bs \div RecordSize, start,
                   new_RunIterator(start, rl, bs), 0)
<1> DEFINE it == new_RunIterator(start, rl, bs)
           size == Whole(rl, bs \div RecordSize)
<1>1. it \in Iterator
  BY DEF new_RunIterator, Iterator
<1>2. /\ it.file_pos = start /\ it.end_file_pos = start + rl
      /\ it.run_length = rl /\ it.records_left = rl /\ it.buf_size = bs
      /\ it.buffer = << >> /\ it.buffer_pointer = 1 /\ it.left_in_buf = 0
      /\ it.current_record = Garbage
  BY DEF new_RunIterator
<1>3. size \in Nat
  BY BufRecordsLemma DEF Whole
<1> HIDE DEF it, size
<1>4. BufferInv(f, start, it, 0)
  BY <1>2 DEF BufferInv
<1>5. CountInv(f, rl, size, start, it, 0)
  <2>1. 0 + 0 = 0 * size
    BY <1>3
  <2> QED
    BY <1>2, <2>1 DEF CountInv, NotShort
<1>6. CurrentInv(f, bs \div RecordSize, start, it, 0)
  BY <1>2, RecordAssumption DEF CurrentInv
<1>7. Len(it.buffer) =< bs \div RecordSize
  BY <1>2, BufRecordsLemma
<1>8. IterInv(f, rl, bs, bs \div RecordSize, start, it, 0)
  BY <1>1, <1>2, <1>4, <1>5, <1>6, <1>7 DEF IterInv, size
<1> QED
  BY <1>8 DEF it

\* Where an iterator starts, and how many records its buffer holds.
LEMMA GeometryLemma ==
    ASSUME NEW f \in Seq(Record), NEW rl \in Nat \ {0}, NEW bs \in Nat \ {0},
           NEW B \in Nat, NEW start \in Nat, NEW it, NEW n \in Nat,
           IterInv(f, rl, bs, B, start, it, n)
    PROVE  /\ StartPos(it) = start
           /\ BufRecords(it) = B
           /\ it.run_length = rl /\ it.end_file_pos = start + rl
           /\ it.left_in_buf \in Nat /\ it.records_left \in Nat /\ it.file_pos \in Nat
           /\ it.file_pos = start + n + it.left_in_buf
           /\ RefillSize(it) = Whole(rl, B)
<1>1. /\ it \in Iterator /\ it.run_length = rl /\ it.end_file_pos = start + rl
      /\ it.buf_size = bs /\ B = bs \div RecordSize
  BY DEF IterInv
<1>2. BufRecords(it) = B
  BY <1>1 DEF BufRecords
<1>3. it.left_in_buf \in Nat /\ it.records_left \in Nat /\ it.file_pos \in Nat
  BY <1>1 DEF Iterator
<1>4. StartPos(it) = start
  BY <1>1 DEF StartPos
<1>5. it.file_pos = start + n + it.left_in_buf
  BY DEF IterInv, BufferInv
<1>6. RefillSize(it) = Whole(rl, B)
  BY <1>1, <1>2 DEF RefillSize, Whole
<1> QED
  BY <1>1, <1>2, <1>3, <1>4, <1>5, <1>6

\* An iterator that has reported its end has returned its run, or all that the
\* file holds of it, if its buffer has room for a record.
LEMMA CompleteLemma ==
    ASSUME NEW f \in Seq(Record), NEW rl \in Nat \ {0}, NEW bs \in Nat \ {0},
           NEW B \in Nat, NEW start \in Nat, NEW it, NEW n \in Nat,
           IterInv(f, rl, bs, B, start, it, n),
           it.current_record = NULL, BufRecords(it) >= 1
    PROVE  n >= it.run_length \/ StartPos(it) + n >= Len(f)
<1>1. /\ StartPos(it) = start /\ BufRecords(it) = B /\ it.run_length = rl
      /\ it.left_in_buf \in Nat /\ it.file_pos \in Nat
      /\ it.file_pos = start + n + it.left_in_buf
  BY GeometryLemma
<1>2. it.records_left = 0
  BY <1>1 DEF IterInv, CurrentInv
<1>3. Len(f) \in Nat
  OBVIOUS
<1>4. CASE NotShort(rl, Whole(rl, B), it, n)
  BY <1>1, <1>2, <1>3, <1>4 DEF NotShort
<1>5. CASE Short(f, rl, Whole(rl, B), start, it, n)
  <2>1. it.left_in_buf = 0 /\ Len(f) =< it.file_pos
    BY <1>2, <1>5 DEF Short
  <2> QED
    BY <1>1, <1>3, <2>1
<1> QED
  BY <1>4, <1>5 DEF IterInv, CountInv

-----------------------------------------------------------------------------
(***************************************************************************)
(* merge_runs.                                                             *)
(***************************************************************************)
Start(rl, i) == rl * (i - 1)

\* How many records it, made for the i-th run, has returned.
Returned(rl, i, it) == it.file_pos - it.left_in_buf - Start(rl, i)

\* How many of them are in the output: all but the current record.
CopiedOf(rl, i, it) ==
    IF it.current_record \in Record THEN Returned(rl, i, it) - 1 ELSE Returned(rl, i, it)

\* An iterator of the merge has its invariant, and if it holds no record yet it
\* will read one when it is asked.
MergedInv(f, rl, bs, B, i, it) ==
    /\ Returned(rl, i, it) \in Nat
    /\ IterInv(f, rl, bs, B, Start(rl, i), it, Returned(rl, i, it))
    /\ it.current_record = Garbage => it.records_left = rl

IteratorsInv ==
    \A i \in Iters :
        MergedInv(runs, run_length, buf_size, max_number_of_records_in_buffer, i, iters[i])

Copied == [i \in Iters |-> CopiedOf(run_length, i, iters[i])]

\* Of the iterators before n, m has the smallest current record, and the first of
\* several smallest ones; it is 0 if none of them has one.
Smallest(its, m, n) ==
    /\ \A i \in 1 .. n - 1 : its[i].current_record # Garbage
    /\ m = 0 => \A i \in 1 .. n - 1 : its[i].current_record = NULL
    /\ m # 0 =>
         /\ m < n
         /\ its[m].current_record \in Record
         /\ \A i \in 1 .. n - 1 :
               its[i].current_record # NULL =>
                   /\ Key[its[m].current_record] =< Key[its[i].current_record]
                   /\ i < m => Key[its[m].current_record] < Key[its[i].current_record]

\* What holds at each place of the code.
ControlInv ==
    /\ Len(outbuf) =< max_number_of_records_in_buffer
    /\ pc \in {"scan", "copy"} =>
         Len(outbuf) < max_number_of_records_in_buffer /\ Smallest(iters, min, idx)
    /\ pc = "copy" => min # 0 /\ idx = num_runs + 1
    /\ pc \in {"have", "flush", "done"} => min = 0
    /\ pc \in {"have", "done"} =>
         outbuf = << >> /\ \A i \in 1 .. idx - 1 : iters[i].current_record = NULL
    /\ pc = "done" => idx = num_runs + 1

\* The pairs of an iterator and a position that it has copied, if iterator i has
\* copied c[i] records.
Pairs(f, rl, n, c) ==
    {t \in (1 .. n) \X (1 .. Len(f)) : Start(rl, t[1]) < t[2] /\ t[2] =< Start(rl, t[1]) + c[t[1]]}

\* The output o holds the records of the pairs T, each once.
HoldsPairs(f, T, o) ==
    \E b \in [1 .. Len(o) -> T] :
        /\ \A j \in 1 .. Len(o) : o[j] = f[b[j][2]]
        /\ \A j, k \in 1 .. Len(o) : b[j] = b[k] => j = k
        /\ \A t \in T : \E j \in 1 .. Len(o) : b[j] = t

\* The output o is sorted, and holds the records of the positions C of U at the
\* places where a stable sort of U puts them; those of U that are left come after
\* them.
SortedPrefix(f, U, C, o) ==
    /\ C \subseteq U
    /\ Len(o) = Cardinality(C)
    /\ Sorted(o)
    /\ \A p \in C, q \in U \ C : Before(f, p, q)
    /\ \A p \in C : o[StableRank(f, U, p)] = f[p]

\* The positions of the runs.
RunsUnion == {p \in 1 .. Len(runs) : p =< run_length * num_runs}

OutputInv ==
    LET T == Pairs(runs, run_length, num_runs, Copied)
    IN  /\ HoldsPairs(runs, T, out \o outbuf)
        /\ RunsSorted /\ ~OverreadsLastRun =>
               SortedPrefix(runs, RunsUnion, {t[2] : t \in T}, out \o outbuf)

\* A merge of num_runs runs that starts.
Started ==
    /\ runs \in Seq(Record) /\ run_length \in Nat \ {0} /\ buf_size \in Nat \ {0}
    /\ num_runs \in Nat \ {0}
    /\ fp = run_length * (num_runs - 1)
    /\ iters = NewIterators(num_runs, run_length, buf_size)
    /\ pc = "have" /\ idx = 1 /\ min = 0 /\ outbuf = << >> /\ out = << >>

\* Buffers that do not hold a record: nothing is copied.
NothingFits == max_number_of_records_in_buffer = 0 => outbuf = << >> /\ out = << >>

\* The inductive invariant.
MergeInv == TypeOK /\ IteratorsInv /\ ControlInv /\ OutputInv

\* A one-to-one correspondence keeps the number of elements.
LEMMA SameSize ==
    ASSUME NEW S, NEW T, IsFiniteSet(S), NEW g \in [S -> T],
           \A x, y \in S : g[x] = g[y] => x = y,
           \A t \in T : \E x \in S : g[x] = t
    PROVE  IsFiniteSet(T) /\ Cardinality(T) = Cardinality(S)
<1>1. g \in Bijection(S, T)
  BY DEF Bijection, Injection, Surjection, IsInjective
<1>2. ExistsBijection(S, T)
  BY <1>1 DEF ExistsBijection
<1> QED
  BY <1>2, FS_Bijection

-----------------------------------------------------------------------------
\* A record more in the output is a pair more.
LEMMA HoldsPairsStep ==
    ASSUME NEW f \in Seq(Record), NEW T, NEW o \in Seq(Record),
           NEW t, t \notin T, f[t[2]] \in Record,
           HoldsPairs(f, T, o)
    PROVE  HoldsPairs(f, T \cup {t}, Append(o, f[t[2]]))
<1> DEFINE r == f[t[2]]
           u == Append(o, r)
           V == T \cup {t}
<1>1. PICK b \in [1 .. Len(o) -> T] :
         /\ \A j \in 1 .. Len(o) : o[j] = f[b[j][2]]
         /\ \A j, k \in 1 .. Len(o) : b[j] = b[k] => j = k
         /\ \A x \in T : \E j \in 1 .. Len(o) : b[j] = x
  BY DEF HoldsPairs
<1> DEFINE n == Len(o) + 1
           d == [j \in 1 .. n |-> IF j = n THEN t ELSE b[j]]
<1>2. Len(o) \in Nat /\ n \in Nat
  OBVIOUS
<1>3. Len(u) = n /\ u[n] = r /\ \A j \in 1 .. Len(o) : u[j] = o[j]
  BY AppendFacts
<1> HIDE DEF r, u
<1>4. /\ d \in [1 .. n -> V] /\ d[n] = t
      /\ \A j \in 1 .. Len(o) : d[j] = b[j] /\ d[j] # t
  BY <1>1, <1>2
<1>a. \A j \in 1 .. n : j = n \/ j \in 1 .. Len(o)
  BY <1>2
<1> HIDE DEF d, n
<1>5. ASSUME NEW j \in 1 .. n PROVE u[j] = f[d[j][2]]
  <2>1. CASE j = n
    BY <1>3, <1>4, <2>1 DEF r
  <2>2. CASE j \in 1 .. Len(o)
    <3>1. u[j] = o[j] /\ o[j] = f[b[j][2]] /\ d[j] = b[j]
      BY <1>1, <1>3, <1>4, <2>2
    <3> QED
      BY <3>1, Zenon
  <2> QED
    BY <1>a, <2>1, <2>2
<1>6. ASSUME NEW j \in 1 .. n, NEW k \in 1 .. n, d[j] = d[k] PROVE j = k
  <2>1. CASE j = n \/ k = n
    BY <1>4, <1>6, <1>a, <2>1
  <2>2. CASE j \in 1 .. Len(o) /\ k \in 1 .. Len(o)
    BY <1>1, <1>4, <1>6, <2>2
  <2> QED
    BY <1>a, <2>1, <2>2
<1>7. ASSUME NEW x \in V PROVE \E j \in 1 .. n : d[j] = x
  <2>1. CASE x = t
    <3>1. n \in 1 .. n
      BY <1>2 DEF n
    <3> QED
      BY <1>4, <2>1, <3>1
  <2>2. CASE x \in T
    <3>1. PICK j \in 1 .. Len(o) : b[j] = x
      BY <1>1, <2>2
    <3>2. j \in 1 .. n
      BY <1>2 DEF n
    <3> QED
      BY <1>4, <3>1, <3>2
  <2> QED
    BY <2>1, <2>2
<1>8. HoldsPairs(f, V, u)
  <2>1. /\ d \in [1 .. Len(u) -> V]
        /\ \A j \in 1 .. Len(u) : u[j] = f[d[j][2]]
        /\ \A j, k \in 1 .. Len(u) : d[j] = d[k] => j = k
        /\ \A x \in V : \E j \in 1 .. Len(u) : d[j] = x
    BY <1>3, <1>4, <1>5, <1>6, <1>7, Zenon
  <2> HIDE DEF V
  <2> QED
    BY <2>1, Zenon DEF HoldsPairs
<1> QED
  BY <1>8 DEF u, r

\* Stable order is irreflexive and antisymmetric, and never against the keys.
LEMMA BeforeLemma ==
    ASSUME NEW f \in Seq(Record), NEW p \in 1 .. Len(f), NEW q \in 1 .. Len(f)
    PROVE  /\ ~Before(f, p, p)
           /\ Before(f, p, q) => ~Before(f, q, p)
           /\ Before(f, p, q) => Key[f[p]] =< Key[f[q]]
           /\ Key[f[p]] < Key[f[q]] => Before(f, p, q)
           /\ Key[f[p]] =< Key[f[q]] /\ p < q => Before(f, p, q)
<1>1. f[p] \in Record /\ f[q] \in Record
  OBVIOUS
<1>2. Key[f[p]] \in Int /\ Key[f[q]] \in Int
  BY <1>1, RecordAssumption
<1> QED
  BY <1>2 DEF Before, record_object_comparator

\* The least of the positions left goes to the end of the output.
LEMMA SortedPrefixStep ==
    ASSUME NEW f \in Seq(Record), NEW U \in SUBSET (1 .. Len(f)), NEW C, NEW p \in U \ C,
           NEW o \in Seq(Record), SortedPrefix(f, U, C, o),
           \A j \in 1 .. Len(o) : \E q \in C : o[j] = f[q],
           \A q \in U \ C : q # p => Before(f, p, q)
    PROVE  SortedPrefix(f, U, C \cup {p}, Append(o, f[p]))
<1> DEFINE u == Append(o, f[p])
           n == Len(o)
           D == C \cup {p}
<1>1. /\ n \in Nat /\ f[p] \in Record
      /\ u \in Seq(Record) /\ Len(u) = n + 1 /\ u[n + 1] = f[p]
      /\ \A j \in 1 .. n : u[j] = o[j]
  <2>1. f[p] \in Record /\ n \in Nat
    OBVIOUS
  <2> QED
    BY <2>1, AppendFacts
<1>2. /\ C \subseteq U /\ n = Cardinality(C) /\ Sorted(o)
      /\ \A x \in C, q \in U \ C : Before(f, x, q)
      /\ \A x \in C : o[StableRank(f, U, x)] = f[x]
  BY DEF SortedPrefix
<1>3. IsFiniteSet(U) /\ IsFiniteSet(C)
  <2>1. Len(f) \in Nat
    OBVIOUS
  <2>2. IsFiniteSet(1 .. Len(f))
    BY <2>1, FS_Interval
  <2> QED
    BY <1>2, <2>2, FS_Subset, Zenon
<1> HIDE DEF u
<1>4. D \subseteq U
  BY <1>2
<1>5. Len(u) = Cardinality(D)
  BY <1>1, <1>2, <1>3, FS_AddElement, Zenon
<1>6. Sorted(u)
  <2> SUFFICES ASSUME NEW i \in 1 .. n + 1, NEW j \in 1 .. n + 1, i < j
               PROVE  record_object_comparator(u[i], u[j]) =< 0
    BY <1>1 DEF Sorted
  <2>1. CASE j # n + 1
    <3>1. i \in 1 .. n /\ j \in 1 .. n
      BY <1>1, <2>1
    <3> QED
      BY <1>1, <1>2, <3>1 DEF Sorted
  <2>2. CASE j = n + 1
    <3>1. i \in 1 .. n
      BY <1>1, <2>2
    <3>2. PICK q \in C : o[i] = f[q]
      BY <3>1
    <3>3. Before(f, q, p) /\ q \in 1 .. Len(f) /\ p \in 1 .. Len(f)
      BY <1>2, <3>2
    <3>4. Key[f[q]] =< Key[f[p]]
      BY <3>3, BeforeLemma
    <3>5. f[q] \in Record /\ f[p] \in Record
      BY <3>3
    <3>6. Key[f[q]] \in Int /\ Key[f[p]] \in Int
      BY <3>5, RecordAssumption
    <3>7. u[i] = f[q] /\ u[j] = f[p]
      BY <1>1, <2>2, <3>1, <3>2
    <3> QED
      BY <3>4, <3>6, <3>7 DEF record_object_comparator
  <2> QED
    BY <2>1, <2>2
<1>7. ASSUME NEW x \in D, NEW q \in U \ D PROVE Before(f, x, q)
  BY <1>2
<1>8. ASSUME NEW x \in U, NEW E \in SUBSET U,
             \A q \in U : Before(f, q, x) <=> q \in E
      PROVE  StableRank(f, U, x) = Cardinality(E) + 1
  <2>1. {q \in U : Before(f, q, x)} = E
    BY <1>8, Zenon
  <2> QED
    BY <2>1, Zenon DEF StableRank
<1>9. StableRank(f, U, p) = n + 1
  <2>1. \A q \in U : Before(f, q, p) <=> q \in C
    <3> SUFFICES ASSUME NEW q \in U PROVE Before(f, q, p) <=> q \in C
      OBVIOUS
    <3>1. q \in 1 .. Len(f) /\ p \in 1 .. Len(f)
      OBVIOUS
    <3>2. CASE q \in C
      BY <1>2, <3>2
    <3>3. CASE q = p
      BY <3>1, <3>3, BeforeLemma
    <3>4. CASE q \notin C /\ q # p
      <4>1. Before(f, p, q)
        BY <3>4
      <4> QED
        BY <3>1, <3>4, <4>1, BeforeLemma
    <3> QED
      BY <3>2, <3>3, <3>4
  <2> QED
    BY <1>2, <1>8, <2>1
<1>10. ASSUME NEW x \in C PROVE StableRank(f, U, x) \in 1 .. n
  <2> DEFINE E == {q \in U : Before(f, q, x)}
  <2>1. E \subseteq C \ {x}
    <3> SUFFICES ASSUME NEW q \in E PROVE q \in C /\ q # x
      BY Zenon
    <3>1. q \in 1 .. Len(f) /\ x \in 1 .. Len(f)
      BY <1>2
    <3>2. Before(f, q, x)
      OBVIOUS
    <3>3. q # x
      BY <3>1, <3>2, BeforeLemma
    <3>4. q \in C
      <4> SUFFICES ASSUME q \notin C PROVE FALSE
        OBVIOUS
      <4>1. Before(f, x, q)
        BY <1>2
      <4> QED
        BY <3>1, <3>2, <4>1, BeforeLemma
    <3> QED
      BY <3>3, <3>4
  <2> HIDE DEF E
  <2>2. IsFiniteSet(C \ {x}) /\ Cardinality(C \ {x}) = n - 1
    BY <1>2, <1>3, FS_RemoveElement
  <2>3. Cardinality(E) \in Nat /\ Cardinality(E) =< n - 1
    <3>1. IsFiniteSet(E) /\ Cardinality(E) =< Cardinality(C \ {x})
      BY <2>1, <2>2, FS_Subset
    <3> QED
      BY <2>2, <3>1, FS_CardinalityType
  <2>4. StableRank(f, U, x) = Cardinality(E) + 1
    BY DEF StableRank, E
  <2> QED
    BY <1>1, <2>3, <2>4
<1>11. ASSUME NEW x \in D PROVE u[StableRank(f, U, x)] = f[x]
  <2>1. CASE x = p
    BY <1>1, <1>9, <2>1
  <2>2. CASE x \in C
    BY <1>1, <1>2, <1>10, <2>2
  <2> QED
    BY <2>1, <2>2
<1>12. SortedPrefix(f, U, D, u)
  BY <1>4, <1>5, <1>6, <1>7, <1>11, Zenon DEF SortedPrefix
<1> QED
  BY <1>12 DEF u

-----------------------------------------------------------------------------
\* Where a run starts is a natural number.
LEMMA StartLemma ==
    ASSUME NEW rl \in Nat \ {0}, NEW i \in Nat \ {0}
    PROVE  Start(rl, i) \in Nat
<1>1. i - 1 \in Nat
  OBVIOUS
<1> QED
  BY <1>1 DEF Start

\* An iterator with the invariant for n records has returned n records.
LEMMA ReturnedLemma ==
    ASSUME NEW f \in Seq(Record), NEW rl \in Nat \ {0}, NEW bs \in Nat \ {0},
           NEW B \in Nat, NEW i \in Nat \ {0}, NEW it, NEW n \in Nat,
           IterInv(f, rl, bs, B, Start(rl, i), it, n)
    PROVE  Returned(rl, i, it) = n
<1>1. Start(rl, i) \in Nat
  BY StartLemma
<1>2. it.left_in_buf \in Nat /\ it.file_pos = Start(rl, i) + n + it.left_in_buf
  BY <1>1, GeometryLemma
<1> QED
  BY <1>1, <1>2 DEF Returned

\* What is known of an iterator of the merge: its current record is the one of
\* the file that follows those it has copied.
MergedFacts(f, rl, i, it) ==
    /\ it \in Iterator
    /\ Start(rl, i) \in Nat
    /\ CopiedOf(rl, i, it) \in Nat
    /\ it.current_record \in Record =>
         /\ Returned(rl, i, it) = CopiedOf(rl, i, it) + 1
         /\ Start(rl, i) + CopiedOf(rl, i, it) + 1 =< Len(f)
         /\ it.current_record = f[Start(rl, i) + CopiedOf(rl, i, it) + 1]
         /\ it.records_left < rl
    /\ it.current_record \notin Record => CopiedOf(rl, i, it) = Returned(rl, i, it)

\* The invariant of an iterator of the merge, which next and get_current_record
\* keep, says so.
LEMMA MergedLemma ==
    ASSUME NEW f \in Seq(Record), NEW rl \in Nat \ {0}, NEW bs \in Nat \ {0},
           NEW B \in Nat, NEW i \in Nat \ {0}, NEW it, MergedInv(f, rl, bs, B, i, it)
    PROVE  MergedFacts(f, rl, i, it)
<1> DEFINE n == Returned(rl, i, it)
           start == Start(rl, i)
<1>1. /\ n \in Nat /\ start \in Nat
      /\ IterInv(f, rl, bs, B, start, it, n)
  BY StartLemma DEF MergedInv
<1>2. it \in Iterator /\ it.records_left \in Nat
  BY <1>1 DEF IterInv, Iterator
<1> HIDE DEF n, start
<1>3. CASE it.current_record \in Record
  <2>1. n # 0 /\ it.current_record = f[start + n] /\ start + n =< Len(f)
    BY <1>1, <1>3, RecordAssumption DEF IterInv, CurrentInv
  <2>2. CopiedOf(rl, i, it) = n - 1
    BY <1>3 DEF CopiedOf, n
  <2>3. n - 1 \in Nat /\ n = (n - 1) + 1 /\ start + (n - 1) + 1 = start + n
    BY <1>1, <2>1
  <2>4. it.records_left < rl
    BY <1>1, <1>2, <2>1 DEF IterInv, CountInv, NotShort, Short
  <2> QED
    BY <1>1, <1>2, <1>3, <2>1, <2>2, <2>3, <2>4 DEF n, start, MergedFacts
<1>4. CASE it.current_record \notin Record
  BY <1>1, <1>2, <1>4 DEF CopiedOf, n, start, MergedFacts
<1> QED
  BY <1>3, <1>4

\* What get_current_record and next leave behind: an iterator of the merge that
\* has looked at a record, or at the end of its run.
MergedPost(f, rl, bs, B, i, s) ==
    /\ s.fp \in Nat
    /\ MergedInv(f, rl, bs, B, i, s.it)
    /\ s.it.current_record = s.ret
    /\ s.ret \in Record \cup {NULL}

\* next, in a merge: the record that was current counts as copied.
LEMMA MergedNext ==
    ASSUME NEW f \in Seq(Record), NEW rl \in Nat \ {0}, NEW bs \in Nat \ {0},
           NEW B \in Nat, NEW i \in Nat \ {0}, NEW pos \in Nat, NEW it,
           MergedInv(f, rl, bs, B, i, it)
    PROVE  LET s == next(f, pos, it)
           IN  /\ MergedPost(f, rl, bs, B, i, s)
               /\ CopiedOf(rl, i, s.it) = Returned(rl, i, it)
<1> DEFINE n == Returned(rl, i, it)
           start == Start(rl, i)
           s == next(f, pos, it)
<1>1. /\ n \in Nat /\ start \in Nat
      /\ IterInv(f, rl, bs, B, start, it, n)
  BY StartLemma DEF MergedInv
<1>2. NextPost(f, rl, bs, B, start, n, s)
  BY <1>1, NextLemma
<1> HIDE DEF s, n
<1>3. CASE s.ret = NULL
  <2>1. IterInv(f, rl, bs, B, start, s.it, n) /\ s.fp \in Nat /\ s.it.current_record = NULL
    BY <1>2, <1>3, RecordAssumption DEF NextPost
  <2>2. Returned(rl, i, s.it) = n
    BY <1>1, <2>1, ReturnedLemma
  <2>3. CopiedOf(rl, i, s.it) = n
    BY <2>1, <2>2, RecordAssumption DEF CopiedOf
  <2> QED
    BY <1>1, <1>3, <2>1, <2>2, <2>3, RecordAssumption DEF MergedPost, MergedInv, s, n
<1>4. CASE s.ret # NULL
  <2>1. /\ IterInv(f, rl, bs, B, start, s.it, n + 1) /\ s.fp \in Nat
        /\ s.ret \in Record /\ s.it.current_record = s.ret
    BY <1>2, <1>4 DEF NextPost
  <2>2. n + 1 \in Nat /\ (n + 1) - 1 = n
    BY <1>1
  <2>3. Returned(rl, i, s.it) = n + 1
    BY <2>1, <2>2, ReturnedLemma
  <2>4. CopiedOf(rl, i, s.it) = n
    BY <2>1, <2>2, <2>3 DEF CopiedOf
  <2> QED
    BY <2>1, <2>2, <2>3, <2>4, RecordAssumption DEF MergedPost, MergedInv, s, n
<1> QED
  BY <1>3, <1>4

\* get_current_record, in a merge: it copies nothing.
LEMMA MergedCurrent ==
    ASSUME NEW f \in Seq(Record), NEW rl \in Nat \ {0}, NEW bs \in Nat \ {0},
           NEW B \in Nat, NEW i \in Nat \ {0}, NEW pos \in Nat, NEW it,
           MergedInv(f, rl, bs, B, i, it)
    PROVE  LET s == get_current_record(f, pos, it)
           IN  /\ MergedPost(f, rl, bs, B, i, s)
               /\ CopiedOf(rl, i, s.it) = CopiedOf(rl, i, it)
<1>1. it \in Iterator /\ it.run_length = rl
  BY DEF MergedInv, IterInv
<1>2. CASE it.records_left = rl
  <2>1. get_current_record(f, pos, it) = next(f, pos, it)
    BY <1>1, <1>2 DEF get_current_record
  <2>2. it.records_left \in Nat
    BY <1>1 DEF Iterator
  <2>3. it.current_record \notin Record
    BY <1>2, <2>2, MergedLemma DEF MergedFacts
  <2>4. CopiedOf(rl, i, it) = Returned(rl, i, it)
    BY <2>3, MergedLemma DEF MergedFacts
  <2> QED
    BY <2>1, <2>4, MergedNext
<1>3. CASE it.records_left # rl
  <2>1. get_current_record(f, pos, it) = [it |-> it, fp |-> pos, ret |-> it.current_record]
    BY <1>1, <1>3 DEF get_current_record
  <2>2. it.current_record # Garbage
    BY <1>3 DEF MergedInv
  <2>3. it.current_record \in Record \cup {NULL}
    BY <1>1, <2>2 DEF Iterator
  <2> QED
    BY <2>1, <2>3 DEF MergedPost
<1> QED
  BY <1>2, <1>3

\* A new iterator has copied nothing.
LEMMA MergedNew ==
    ASSUME NEW f \in Seq(Record), NEW rl \in Nat \ {0}, NEW bs \in Nat \ {0},
           NEW i \in Nat \ {0}
    PROVE  LET it == new_RunIterator(Start(rl, i), rl, bs)
           IN  /\ MergedInv(f, rl, bs, bs \div RecordSize, i, it)
               /\ CopiedOf(rl, i, it) = 0
<1> DEFINE it == new_RunIterator(Start(rl, i), rl, bs)
           B == bs \div RecordSize
<1>1. Start(rl, i) \in Nat /\ B \in Nat
  BY StartLemma, BufRecordsLemma
<1>2. IterInv(f, rl, bs, B, Start(rl, i), it, 0)
  BY <1>1, NewLemma
<1>3. it.records_left = rl /\ it.current_record = Garbage
  BY DEF new_RunIterator
<1> HIDE DEF it, B
<1>4. Returned(rl, i, it) = 0
  BY <1>1, <1>2, ReturnedLemma
<1>5. CopiedOf(rl, i, it) = 0
  BY <1>3, <1>4, RecordAssumption DEF CopiedOf
<1> QED
  BY <1>2, <1>3, <1>4, <1>5 DEF MergedInv, it, B

-----------------------------------------------------------------------------
\* An iterator stays in its run, unless the file overreads and the run is the
\* last full one.
LEMMA StayLemma ==
    ASSUME NEW f \in Seq(Record), NEW rl \in Nat \ {0}, NEW bs \in Nat \ {0},
           NEW B \in Nat, NEW i \in Nat \ {0}, NEW it, MergedInv(f, rl, bs, B, i, it),
           ~Overreads(Len(f), rl, B) \/ rl * (i + 1) =< Len(f),
           NEW p \in 1 .. Len(f), p =< Start(rl, i) + Returned(rl, i, it)
    PROVE  p =< rl * i
<1> DEFINE n == Returned(rl, i, it)
           start == Start(rl, i)
           size == Whole(rl, B)
           len == Len(f)
<1>1. /\ n \in Nat /\ start \in Nat /\ len \in Nat
      /\ IterInv(f, rl, bs, B, start, it, n)
  BY StartLemma DEF MergedInv
<1>2. rl * i = start + rl
  BY DEF Start
<1>3. it.records_left \in Nat
  BY <1>1 DEF IterInv, Iterator
<1>4. CASE NotShort(rl, size, it, n)
  <2>1. n =< rl
    BY <1>1, <1>3, <1>4 DEF NotShort
  <2> HIDE DEF n, start
  <2> QED
    BY <1>1, <1>2, <2>1 DEF n, start
<1>5. CASE Short(f, rl, size, start, it, n)
  <2> SUFFICES ASSUME start + rl < len PROVE FALSE
    <3> HIDE DEF start, len
    <3> QED
      BY <1>1, <1>2 DEF len
  <2>1. PICK m \in Nat : m * size < rl /\ len < start + m * size + size
    BY <1>5 DEF Short
  <2>2. PICK w \in Nat : w = m * size
    <3>1. size \in Nat
      BY DEF Whole
    <3> QED
      BY <3>1
  <2>3. w < rl /\ len < start + w + size
    BY <2>1, <2>2
  <2>9. ~Overreads(len, rl, B)
    <3>1. size =< rl /\ size \in Nat
      BY DEF Whole
    <3>2. rl * (i + 1) = start + rl + rl
      BY <1>2
    <3> HIDE DEF size, start, len
    <3> QED
      BY <1>1, <2>3, <3>1, <3>2 DEF len
  <2> HIDE DEF n, start, len
  <2>4. CASE B < rl
    <3>1. size = B
      BY <2>4 DEF Whole
    <3>2. B \in Nat \ {0} /\ w < rl /\ rl < w + B
      BY <1>1, <2>3, <3>1
    <3>3. rl = m * B + (rl - w) /\ rl - w \in 0 .. B - 1
      BY <2>2, <3>1, <3>2
    <3>4. rl % B = rl - w
      BY <3>2, <3>3, ModLemma, Zenon
    <3> DEFINE d == len - (start + rl)
    <3>5. d \in 0 .. rl - 1 /\ d > 0
      BY <1>1, <2>3, <2>4, <3>1, <3>2
    <3>6. len = i * rl + d
      BY <1>1, <1>2
    <3>7. len % rl = d
      BY <1>1, <3>5, <3>6, ModLemma, Zenon
    <3>8. (rl - w) + d < B /\ rl - w > 0 /\ rl < len
      BY <1>1, <2>3, <3>1, <3>2
    <3> QED
      BY <2>9, <2>4, <3>2, <3>4, <3>5, <3>7, <3>8 DEF Overreads
  <2>5. CASE ~(B < rl)
    <3>1. size = rl
      BY <2>5 DEF Whole
    <3>2. m = 0
      BY <2>1, <3>1
    <3>3. w = 0
      BY <2>2, <3>1, <3>2
    <3> QED
      BY <1>1, <2>3, <3>1, <3>3
  <2> QED
    BY <2>4, <2>5
<1> QED
  BY <1>1, <1>4, <1>5 DEF IterInv, CountInv

\* When the file overreads, the iterator of the last full run goes on to the end
\* of the file.
LEMMA OverreadLemma ==
    ASSUME NEW f \in Seq(Record), NEW rl \in Nat \ {0}, NEW bs \in Nat \ {0},
           NEW B \in Nat, NEW i \in Nat \ {0}, NEW it, MergedInv(f, rl, bs, B, i, it),
           Overreads(Len(f), rl, B),
           rl * i < Len(f), Len(f) =< rl * (i + 1),
           it.current_record = NULL
    PROVE  Len(f) =< Start(rl, i) + Returned(rl, i, it)
<1> DEFINE n == Returned(rl, i, it)
           start == Start(rl, i)
           len == Len(f)
<1>1. /\ n \in Nat /\ start \in Nat /\ len \in Nat
      /\ IterInv(f, rl, bs, B, start, it, n)
  BY StartLemma DEF MergedInv
<1>2. rl * i = start + rl /\ rl * (i + 1) = rl * i + rl
  BY DEF Start
<1>3. B \in Nat \ {0} /\ B < rl
  BY DEF Overreads
<1>4. PICK l \in Nat, q \in Nat, p \in Nat, blen \in Nat :
         /\ l = it.left_in_buf /\ q = it.file_pos
         /\ p = it.buffer_pointer /\ blen = Len(it.buffer)
  <2>1. it \in Iterator
    BY <1>1 DEF IterInv
  <2> QED
    BY <2>1 DEF Iterator
<1>5. it.records_left = 0
  BY <1>1, <1>3 DEF IterInv, CurrentInv
<1>6. q = start + n + l /\ p >= 1 /\ blen + 1 = p + l
  BY <1>1, <1>4 DEF IterInv, BufferInv
<1>7. CASE Short(f, rl, B, start, it, n)
  <2>1. l = 0 /\ len =< q
    BY <1>4, <1>5, <1>7 DEF Short
  <2> QED
    BY <1>1, <1>6, <2>1
<1>8. CASE NotShort(rl, B, it, n)
  <2>1. n = rl
    BY <1>1, <1>5, <1>8 DEF NotShort
  <2>2. PICK m \in Nat : rl + l = m * B
    BY <1>4, <1>8, <2>1, Zenon DEF NotShort
  <2>3. l > 0 => start + rl + l =< len
    <3> SUFFICES ASSUME l > 0 PROVE start + rl + l =< len
      OBVIOUS
    <3>1. blen \in 1 .. blen
      BY <1>6
    <3>2. q - blen + blen =< len
      BY <1>1, <1>4, <3>1, Zenon DEF IterInv, BufferInv
    <3> HIDE DEF n, start, len
    <3> QED
      BY <1>1, <1>6, <2>1, <3>2
  <2> DEFINE d == len - rl * i
             r == rl % B
             c == rl \div B
  <2>4. d = len % rl /\ 0 < d
    <3>1. d \in Nat /\ d > 0 /\ d =< rl /\ len = i * rl + d
      BY <1>1, <1>2
    <3> HIDE DEF d, len
    <3>2. CASE d < rl
      <4>1. d \in 0 .. rl - 1
        BY <3>1, <3>2
      <4> QED
        BY <1>1, <3>1, <4>1, ModLemma, Zenon
    <3>3. CASE d = rl
      <4>1. len = (i + 1) * rl + 0
        BY <3>1, <3>3
      <4>2. 0 \in 0 .. rl - 1 /\ i + 1 \in Nat
        OBVIOUS
      <4>3. len % rl = 0
        BY <1>1, <4>1, <4>2, ModLemma, Zenon
      <4> QED
        BY <4>3 DEF Overreads, len
    <3> QED
      BY <3>1, <3>2, <3>3
  <2>5. c \in Nat /\ r \in 0 .. B - 1 /\ rl = c * B + r /\ 0 < r /\ r + d < B
    <3>1. 0 < r /\ r + d < B
      BY <2>4 DEF Overreads
    <3> QED
      BY <1>3, <3>1, DivLemma, Zenon
  <2>6. d = len - (start + rl)
    BY <1>2
  <2>7. d \in Nat
    BY <1>1, <2>4, <2>6
  <2> HIDE DEF n, start, len, d, r, c
  <2>8. r + l = (m - c) * B
    BY <1>3, <2>2, <2>5
  <2>9. r + l >= B
    <3>1. m - c \in Int
      BY <2>5
    <3>2. m - c >= 1
      BY <1>3, <2>5, <2>8, <3>1
    <3>3. (m - c) * B >= B
      BY <1>3, <3>1, <3>2
    <3> QED
      BY <2>8, <3>3
  <2>10. l =< d
    BY <1>1, <2>3, <2>6, <2>7
  <2> QED
    BY <1>3, <2>5, <2>7, <2>9, <2>10
<1> QED
  BY <1>1, <1>3, <1>7, <1>8 DEF IterInv, CountInv, Whole

-----------------------------------------------------------------------------
\* A position of the runs is in one of them, and only in one.
LEMMA RunOfLemma ==
    ASSUME NEW rl \in Nat \ {0}, NEW n \in Nat \ {0}, NEW p \in Nat \ {0}, p =< rl * n
    PROVE  \E i \in 1 .. n : Start(rl, i) < p /\ p =< rl * i
<1> DEFINE c == (p - 1) \div rl
           r == (p - 1) % rl
<1>1. p - 1 \in Nat
  OBVIOUS
<1>2. c \in Nat /\ r \in 0 .. rl - 1 /\ p - 1 = c * rl + r
  BY <1>1, DivLemma, Zenon
<1> HIDE DEF c, r
<1>3. c < n
  <2> SUFFICES ASSUME c >= n PROVE FALSE
    BY <1>2
  <2>1. rl * c >= rl * n
    BY <1>2
  <2> QED
    BY <1>2, <2>1
<1>4. c + 1 \in 1 .. n
  BY <1>2, <1>3
<1>5. Start(rl, c + 1) < p /\ p =< rl * (c + 1)
  BY <1>2 DEF Start
<1> QED
  BY <1>4, <1>5

\* A position that is past the start of run i and not past the end of run j is in
\* no run before i.
LEMMA OneRunLemma ==
    ASSUME NEW rl \in Nat \ {0}, NEW i \in Nat \ {0}, NEW j \in Nat \ {0}, NEW p \in Nat,
           Start(rl, i) < p, p =< rl * j
    PROVE  i =< j
<1> SUFFICES ASSUME j =< i - 1 PROVE FALSE
  OBVIOUS
<1>1. rl * j =< rl * (i - 1)
  OBVIOUS
<1>2. rl * j \in Nat /\ rl * (i - 1) \in Nat
  OBVIOUS
<1> QED
  BY <1>1, <1>2 DEF Start

\* Set S has grown by the new element t to set V.
GrowsBy(S, t, V) == t \notin S /\ V = S \cup {t}

\* A position of the file that iterator i has copied is one of the pairs.
LEMMA PairLemma ==
    ASSUME NEW f, NEW rl, NEW n, NEW c, NEW i \in 1 .. n, NEW p \in 1 .. Len(f),
           Start(rl, i) < p, p =< Start(rl, i) + c[i]
    PROVE  <<i, p>> \in Pairs(f, rl, n, c)
BY DEF Pairs

\* Iterator m has copied one record more.
LEMMA PairsStep ==
    ASSUME NEW f \in Seq(Record), NEW rl \in Nat \ {0}, NEW n \in Nat \ {0},
           NEW c, NEW d, NEW m \in 1 .. n, NEW p \in 1 .. Len(f),
           c[m] \in Nat, p = Start(rl, m) + c[m] + 1,
           d[m] = c[m] + 1, \A i \in 1 .. n : i # m => d[i] = c[i]
    PROVE  GrowsBy(Pairs(f, rl, n, c), <<m, p>>, Pairs(f, rl, n, d))
<1>1. Start(rl, m) \in Nat /\ c[m] \in Nat
  <2>1. m \in Nat \ {0}
    OBVIOUS
  <2> QED
    BY <2>1, StartLemma
<1>2. <<m, p>> \notin Pairs(f, rl, n, c)
  BY <1>1 DEF Pairs
<1>4. ASSUME NEW i \in 1 .. n, NEW q \in 1 .. Len(f)
      PROVE  <<i, q>> \in Pairs(f, rl, n, d)
                <=> <<i, q>> \in Pairs(f, rl, n, c) \/ (i = m /\ q = p)
  <2>1. <<i, q>> \in Pairs(f, rl, n, d) <=> Start(rl, i) < q /\ q =< Start(rl, i) + d[i]
    BY DEF Pairs
  <2>2. <<i, q>> \in Pairs(f, rl, n, c) <=> Start(rl, i) < q /\ q =< Start(rl, i) + c[i]
    BY DEF Pairs
  <2>3. CASE i = m
    BY <1>1, <2>1, <2>2, <2>3, SMTT(30)
  <2>4. CASE i # m
    BY <2>1, <2>2, <2>4
  <2> QED
    BY <2>3, <2>4
<1>5. Pairs(f, rl, n, d) = Pairs(f, rl, n, c) \cup {<<m, p>>}
  <2>1. ASSUME NEW t \in Pairs(f, rl, n, d) PROVE t \in Pairs(f, rl, n, c) \cup {<<m, p>>}
    <3>1. PICK i \in 1 .. n, q \in 1 .. Len(f) : t = <<i, q>>
      BY <2>1 DEF Pairs
    <3> QED
      BY <1>4, <2>1, <3>1
  <2>2. ASSUME NEW t \in Pairs(f, rl, n, c) \cup {<<m, p>>} PROVE t \in Pairs(f, rl, n, d)
    <3>1. PICK i \in 1 .. n, q \in 1 .. Len(f) : t = <<i, q>>
      BY <2>2 DEF Pairs
    <3> QED
      BY <1>4, <2>2, <3>1
  <2> QED
    BY <2>1, <2>2
<1> QED
  BY <1>2, <1>5 DEF GrowsBy

\* The parameters of the merge, and what the invariant says of iterator i.
LEMMA MergeLemma ==
    ASSUME TypeOK, IteratorsInv
    PROVE  /\ runs \in Seq(Record) /\ run_length \in Nat \ {0} /\ buf_size \in Nat \ {0}
           /\ num_runs \in Nat \ {0} /\ max_number_of_records_in_buffer \in Nat
           /\ Len(runs) \in Nat /\ fp \in Nat
           /\ Copied \in [Iters -> Nat]
           /\ \A i \in Iters :
                 /\ i \in Nat \ {0}
                 /\ MergedInv(runs, run_length, buf_size, max_number_of_records_in_buffer,
                              i, iters[i])
                 /\ Copied[i] = CopiedOf(run_length, i, iters[i])
<1>1. /\ runs \in Seq(Record) /\ run_length \in Nat \ {0} /\ buf_size \in Nat \ {0}
      /\ num_runs \in Nat \ {0} /\ Len(runs) \in Nat /\ fp \in Nat
  BY DEF TypeOK
<1>2. max_number_of_records_in_buffer \in Nat
  BY <1>1, BufRecordsLemma DEF max_number_of_records_in_buffer
<1>3. ASSUME NEW i \in Iters
      PROVE  /\ i \in Nat \ {0}
             /\ MergedInv(runs, run_length, buf_size, max_number_of_records_in_buffer, i, iters[i])
             /\ CopiedOf(run_length, i, iters[i]) \in Nat
  <2>1. i \in Nat \ {0}
    BY <1>1 DEF Iters
  <2> QED
    BY <1>1, <1>2, <2>1, MergedLemma DEF IteratorsInv, MergedFacts
<1> QED
  BY <1>1, <1>2, <1>3 DEF Copied

\* An iterator that has reported its end has copied its run.
LEMMA EndedLemma ==
    ASSUME TypeOK, IteratorsInv, max_number_of_records_in_buffer > 0, NEW i \in Iters,
           iters[i].current_record = NULL, NEW p \in 1 .. Len(runs), p =< run_length * i
    PROVE  p =< Start(run_length, i) + Copied[i]
<1> DEFINE B == max_number_of_records_in_buffer
           it == iters[i]
           start == Start(run_length, i)
<1>1. /\ runs \in Seq(Record) /\ run_length \in Nat \ {0} /\ buf_size \in Nat \ {0}
      /\ B \in Nat /\ i \in Nat \ {0} /\ Len(runs) \in Nat
      /\ MergedInv(runs, run_length, buf_size, B, i, it)
      /\ Copied[i] = CopiedOf(run_length, i, it)
  BY MergeLemma
<1>2. start \in Nat /\ run_length * i = start + run_length
  BY <1>1, StartLemma DEF Start
<1>3. PICK n \in Nat : /\ n = Returned(run_length, i, it)
                       /\ IterInv(runs, run_length, buf_size, B, start, it, n)
  BY <1>1 DEF MergedInv
<1>4. Copied[i] = n
  BY <1>1, <1>3, RecordAssumption DEF CopiedOf
<1> HIDE DEF it, start, B
<1>5. StartPos(it) = start /\ it.run_length = run_length /\ BufRecords(it) = B
  BY <1>1, <1>2, <1>3, GeometryLemma
<1>6. n >= run_length \/ start + n >= Len(runs)
  <2>1. BufRecords(it) >= 1 /\ it.current_record = NULL
    BY <1>1, <1>5 DEF B, it
  <2> QED
    BY <1>1, <1>2, <1>3, <1>5, <2>1, CompleteLemma, Zenon
<1> QED
  BY <1>1, <1>2, <1>4, <1>6 DEF start

\* While the iterators stay in their runs, the smallest current record is the
\* least, in stable order, of the records that are left.
LEMMA LeastLemma ==
    ASSUME TypeOK, IteratorsInv, max_number_of_records_in_buffer > 0,
           RunsSorted, ~OverreadsLastRun,
           min # 0, Smallest(iters, min, num_runs + 1),
           NEW p, p = Start(run_length, min) + Copied[min] + 1,
           NEW C, C = {t[2] : t \in Pairs(runs, run_length, num_runs, Copied)}
    PROVE  /\ p \in RunsUnion \ C
           /\ \A q \in RunsUnion \ C : q # p => Before(runs, p, q)
<1> DEFINE B == max_number_of_records_in_buffer
           rl == run_length
           len == Len(runs)
<1>1. /\ runs \in Seq(Record) /\ rl \in Nat \ {0} /\ buf_size \in Nat \ {0}
      /\ B \in Nat /\ num_runs \in Nat \ {0} /\ len \in Nat
      /\ \A i \in Iters : Copied[i] \in Nat
  BY MergeLemma, Zenon
<1>2. ASSUME NEW i \in Iters
      PROVE  /\ i \in Nat \ {0} /\ Start(rl, i) \in Nat
             /\ MergedInv(runs, rl, buf_size, B, i, iters[i])
             /\ Copied[i] = CopiedOf(rl, i, iters[i])
             /\ iters[i].current_record \in Record =>
                  /\ Returned(rl, i, iters[i]) = Copied[i] + 1
                  /\ Start(rl, i) + Copied[i] + 1 =< len
                  /\ iters[i].current_record = runs[Start(rl, i) + Copied[i] + 1]
             /\ iters[i].current_record \notin Record => Copied[i] = Returned(rl, i, iters[i])
  <2>1. /\ i \in Nat \ {0}
        /\ MergedInv(runs, rl, buf_size, B, i, iters[i])
        /\ Copied[i] = CopiedOf(rl, i, iters[i])
    BY MergeLemma, Zenon
  <2>2. MergedFacts(runs, rl, i, iters[i])
    BY <1>1, <2>1, MergedLemma, Zenon
  <2> QED
    BY <2>1, <2>2, Zenon DEF MergedFacts
<1>3. ASSUME NEW i \in Iters, NEW q \in 1 .. len, q =< Start(rl, i) + Returned(rl, i, iters[i])
      PROVE  q =< rl * i
  <2>1. ~Overreads(Len(runs), rl, B)
    BY SMTT(30) DEF OverreadsLastRun
  <2> QED
    BY <1>1, <1>2, <1>3, <2>1, StayLemma, Zenon
<1>4. min \in Iters /\ iters[min].current_record \in Record
  BY DEF Smallest, TypeOK, Iters
<1>5. /\ p \in 1 .. len /\ Start(rl, min) < p /\ p =< rl * min
      /\ iters[min].current_record = runs[p]
  <2>1. /\ Start(rl, min) \in Nat /\ Copied[min] \in Nat
        /\ Returned(rl, min, iters[min]) = Copied[min] + 1
        /\ p =< len /\ iters[min].current_record = runs[p]
    BY <1>1, <1>2, <1>4, Zenon
  <2>2. p \in 1 .. len /\ Start(rl, min) < p
    BY <1>1, <2>1
  <2>3. p =< Start(rl, min) + Returned(rl, min, iters[min])
    BY <2>1
  <2> QED
    BY <1>3, <1>4, <2>1, <2>2, <2>3, Zenon
<1>6. p \in RunsUnion
  <2>1. min \in Nat /\ min =< num_runs
    BY <1>1, <1>4 DEF Iters
  <2>2. rl * min =< rl * num_runs
    BY <1>1, <2>1
  <2>3. rl * min \in Nat /\ rl * num_runs \in Nat
    BY <1>1, <2>1
  <2> HIDE DEF rl
  <2> QED
    BY <1>1, <1>5, <2>2, <2>3 DEF RunsUnion, rl
<1>7. p \notin C
  <2> SUFFICES ASSUME p \in C PROVE FALSE
    OBVIOUS
  <2>1. PICK t \in Pairs(runs, rl, num_runs, Copied) : t[2] = p
    OBVIOUS
  <2>2. PICK i \in Iters : t[1] = i
    BY <2>1 DEF Pairs, Iters
  <2>3. Start(rl, i) < p /\ p =< Start(rl, i) + Copied[i]
    BY <2>1, <2>2, ZenonT(60) DEF Pairs
  <2>4. p =< Start(rl, i) + Returned(rl, i, iters[i])
    BY <1>1, <1>2, <1>5, <2>2, <2>3, SMTT(30)
  <2>5. p =< rl * i
    BY <1>3, <1>5, <2>2, <2>4, SMTT(30)
  <2>6. i =< min /\ min =< i
    <3>1. i \in Nat \ {0} /\ min \in Nat \ {0} /\ p \in Nat
      BY <1>2, <1>4, <1>5, <2>2
    <3> HIDE DEF rl
    <3> QED
      BY <1>1, <1>5, <2>3, <2>5, <3>1, OneRunLemma, ZenonT(30)
  <2>7. i = min
    BY <1>2, <1>4, <2>2, <2>6, SMTT(30)
  <2> QED
    BY <1>1, <1>2, <1>4, <1>5, <2>3, <2>7
<1>8. ASSUME NEW q \in RunsUnion \ C, q # p
      PROVE  Before(runs, p, q)
  <2>1. q \in 1 .. len /\ q =< rl * num_runs
    BY DEF RunsUnion
  <2>2. PICK i \in Iters : Start(rl, i) < q /\ q =< rl * i
    <3>1. q \in Nat \ {0}
      BY <2>1
    <3> HIDE DEF rl, len
    <3> QED
      BY <1>1, <2>1, <3>1, RunOfLemma DEF Iters
  <2>3. ~(q =< Start(rl, i) + Copied[i])
    <3> SUFFICES ASSUME q =< Start(rl, i) + Copied[i] PROVE FALSE
      OBVIOUS
    <3>1. <<i, q>> \in Pairs(runs, rl, num_runs, Copied)
      BY <2>1, <2>2, PairLemma, Zenon DEF Iters
    <3>2. <<i, q>>[2] = q
      OBVIOUS
    <3> QED
      BY <1>8, <3>1, <3>2
  <2>4. iters[i].current_record # NULL
    BY <2>1, <2>2, <2>3, EndedLemma, Zenon
  <2>5. iters[i].current_record \in Record
    <3>1. iters[i].current_record # Garbage
      BY <1>1, <2>2 DEF Smallest, Iters
    <3>2. iters[i] \in Iterator
      BY <2>2, Zenon DEF TypeOK
    <3> QED
      BY <2>4, <3>1, <3>2 DEF Iterator
  <2> DEFINE h == Start(rl, i) + Copied[i] + 1
  <2>6. /\ h \in 1 .. len /\ h =< q /\ h =< rl * i /\ Start(rl, i) < h
        /\ iters[i].current_record = runs[h]
    <3>1. /\ Start(rl, i) \in Nat /\ Copied[i] \in Nat
          /\ Returned(rl, i, iters[i]) = Copied[i] + 1
          /\ h =< len /\ iters[i].current_record = runs[h]
      BY <1>1, <1>2, <2>2, <2>5, Zenon
    <3>2. h \in 1 .. len /\ h =< q /\ Start(rl, i) < h
      BY <1>1, <2>1, <2>3, <3>1, SMTT(30)
    <3>3. h =< Start(rl, i) + Returned(rl, i, iters[i])
      BY <3>1
    <3> QED
      BY <1>3, <2>2, <3>1, <3>2, <3>3, Zenon
  <2> HIDE DEF h
  <2>7. Key[runs[p]] \in Int /\ Key[runs[h]] \in Int /\ Key[runs[q]] \in Int
    <3>1. runs[p] \in Record /\ runs[h] \in Record /\ runs[q] \in Record
      BY <1>1, <1>5, <2>1, <2>6
    <3> QED
      BY <3>1, RecordAssumption
  <2>8. Key[runs[h]] =< Key[runs[q]]
    <3>1. CASE h = q
      BY <2>7, <3>1
    <3>2. CASE h # q
      <4>1. h \in RunPositions(i) /\ q \in RunPositions(i)
        BY <2>1, <2>2, <2>6 DEF RunPositions, Start
      <4>2. h < q
        BY <1>1, <2>1, <2>6, <3>2
      <4>3. record_object_comparator(runs[h], runs[q]) =< 0
        BY <2>2, <4>1, <4>2, Zenon DEF RunsSorted
      <4> QED
        BY <2>7, <4>3 DEF record_object_comparator
    <3> QED
      BY <3>1, <3>2
  <2>9. /\ Key[runs[p]] =< Key[runs[h]]
        /\ i < min => Key[runs[p]] < Key[runs[h]]
    <3>1. i \in 1 .. (num_runs + 1) - 1
      BY <1>1, <2>2 DEF Iters
    <3> QED
      BY <1>5, <2>4, <2>6, <3>1 DEF Smallest
  <2>10. i \in Nat /\ min \in Nat /\ min # 0
    BY <1>2, <1>4, <2>2, Zenon
  <2>11. CASE i < min
    <3>1. Key[runs[p]] < Key[runs[q]]
      BY <2>7, <2>8, <2>9, <2>11
    <3> QED
      BY <1>1, <1>5, <2>1, <3>1, BeforeLemma, Zenon
  <2>12. CASE i >= min
    <3>1. p < q
      <4>1. CASE i = min
        <5>1. h = p
          BY <4>1 DEF h
        <5> QED
          BY <1>1, <1>5, <1>8, <2>1, <2>6, <5>1
      <4>2. CASE i # min
        <5>1. ~(q =< p)
          <6> SUFFICES ASSUME q =< p PROVE FALSE
            BY ZenonT(60)
          <6>1. Start(rl, i) < p
            BY <1>1, <1>2, <1>5, <2>1, <2>2
          <6>2. i =< min
            <7>1. i \in Nat \ {0} /\ min \in Nat \ {0} /\ p \in Nat
              BY <1>2, <1>4, <1>5, <2>2, SMTT(30)
            <7> HIDE DEF rl
            <7> QED
              BY <1>1, <1>5, <6>1, <7>1, OneRunLemma, ZenonT(60)
          <6> QED
            BY <2>10, <2>12, <4>2, <6>2
        <5> QED
          BY <1>1, <1>5, <2>1, <5>1
      <4> QED
        BY <4>1, <4>2, Zenon
    <3>2. Key[runs[p]] =< Key[runs[q]]
      BY <2>7, <2>8, <2>9
    <3> QED
      BY <1>1, <1>5, <2>1, <3>1, <3>2, BeforeLemma
  <2> QED
    BY <2>10, <2>11, <2>12
<1> QED
  BY <1>6, <1>7, <1>8

-----------------------------------------------------------------------------
\* The parameters of a merge do not change, and what is read of them either.
LEMMA ParamsLemma ==
    ASSUME UNCHANGED params
    PROVE  /\ runs' = runs /\ run_length' = run_length /\ buf_size' = buf_size
           /\ num_runs' = num_runs
           /\ Iters' = Iters
           /\ max_number_of_records_in_buffer' = max_number_of_records_in_buffer
           /\ RunsUnion' = RunsUnion /\ (RunsSorted' <=> RunsSorted)
           /\ (OverreadsLastRun' <=> OverreadsLastRun)
<1>1. runs' = runs /\ run_length' = run_length /\ buf_size' = buf_size /\ num_runs' = num_runs
  BY DEF params
<1>2. Iters' = Iters /\ max_number_of_records_in_buffer' = max_number_of_records_in_buffer
  BY <1>1 DEF Iters, max_number_of_records_in_buffer
<1>3. RunsUnion' = RunsUnion
  BY <1>1 DEF RunsUnion
<1>4. RunsSorted' <=> RunsSorted
  BY <1>1, <1>2 DEF RunsSorted, RunPositions
<1>5. OverreadsLastRun' <=> OverreadsLastRun
  BY <1>1, <1>2, Zenon DEF OverreadsLastRun
<1> QED
  BY <1>1, <1>2, <1>3, <1>4, <1>5

\* A call of a method of iterator i that meets its promise keeps the invariant of
\* the iterators, and leaves the others as they are.
LEMMA CallLemma ==
    ASSUME TypeOK, IteratorsInv, UNCHANGED params, NEW i \in Iters, NEW s,
           MergedPost(runs, run_length, buf_size, max_number_of_records_in_buffer, i, s),
           Return(i, s)
    PROVE  /\ fp' \in Nat /\ iters' \in [Iters' -> Iterator]
           /\ IteratorsInv'
           /\ iters'[i] = s.it /\ iters'[i].current_record = s.ret
           /\ s.ret \in Record \cup {NULL}
           /\ \A j \in Iters : j # i => iters'[j] = iters[j]
           /\ Copied' = [Copied EXCEPT ![i] = CopiedOf(run_length, i, s.it)]
<1>1. /\ runs' = runs /\ run_length' = run_length /\ buf_size' = buf_size
      /\ num_runs' = num_runs /\ Iters' = Iters
      /\ max_number_of_records_in_buffer' = max_number_of_records_in_buffer
  BY ParamsLemma
<1>2. /\ runs \in Seq(Record) /\ run_length \in Nat \ {0} /\ buf_size \in Nat \ {0}
      /\ max_number_of_records_in_buffer \in Nat /\ i \in Nat \ {0}
  BY MergeLemma, SMTT(30)
<1>3. /\ s.fp \in Nat /\ s.it.current_record = s.ret /\ s.ret \in Record \cup {NULL}
      /\ MergedInv(runs, run_length, buf_size, max_number_of_records_in_buffer, i, s.it)
  BY DEF MergedPost
<1>4. s.it \in Iterator
  BY <1>2, <1>3, MergedLemma DEF MergedFacts
<1>5. /\ iters \in [Iters -> Iterator] /\ iters' = [iters EXCEPT ![i] = s.it] /\ fp' = s.fp
  BY DEF TypeOK, Return
<1>6. /\ iters' \in [Iters' -> Iterator]
      /\ iters'[i] = s.it
      /\ \A j \in Iters : j # i => iters'[j] = iters[j]
  BY <1>1, <1>4, <1>5
<1>7. IteratorsInv'
  <2> SUFFICES ASSUME NEW j \in Iters
               PROVE  MergedInv(runs, run_length, buf_size, max_number_of_records_in_buffer,
                                j, iters'[j])
    BY <1>1, Zenon DEF IteratorsInv
  <2>1. CASE j = i
    BY <1>3, <1>6, <2>1, ZenonT(60)
  <2>2. CASE j # i
    BY <1>6, <2>2, SMTT(30) DEF IteratorsInv
  <2> QED
    BY <2>1, <2>2, Zenon
<1>8. Copied' = [Copied EXCEPT ![i] = CopiedOf(run_length, i, s.it)]
  <2>1. Copied' = [j \in Iters |-> CopiedOf(run_length, j, iters'[j])]
    BY <1>1, Zenon DEF Copied
  <2>2. ASSUME NEW j \in Iters
        PROVE  CopiedOf(run_length, j, iters'[j])
                 = [Copied EXCEPT ![i] = CopiedOf(run_length, i, s.it)][j]
    <3>1. CASE j = i
      BY <1>6, <3>1, ZenonT(60) DEF Copied
    <3>2. CASE j # i
      BY <1>6, <3>2 DEF Copied
    <3> QED
      BY <3>1, <3>2, Zenon
  <2> QED
    BY <2>1, <2>2, ZenonT(30) DEF Copied
<1> QED
  BY <1>3, <1>5, <1>6, <1>7, <1>8, ZenonT(60)

\* get_current_record keeps the invariant, and copies nothing.
LEMMA CurrentCallLemma ==
    ASSUME TypeOK, IteratorsInv, UNCHANGED params, NEW i \in Iters,
           NEW s, s = get_current_record(runs, fp, iters[i]), Return(i, s)
    PROVE  /\ fp' \in Nat /\ iters' \in [Iters' -> Iterator]
           /\ IteratorsInv'
           /\ iters'[i] = s.it /\ iters'[i].current_record = s.ret
           /\ s.ret \in Record \cup {NULL}
           /\ \A j \in Iters : j # i => iters'[j] = iters[j]
           /\ Copied' = Copied
<1>1. /\ runs \in Seq(Record) /\ run_length \in Nat \ {0} /\ buf_size \in Nat \ {0}
      /\ max_number_of_records_in_buffer \in Nat /\ i \in Nat \ {0} /\ fp \in Nat
      /\ MergedInv(runs, run_length, buf_size, max_number_of_records_in_buffer, i, iters[i])
      /\ Copied[i] = CopiedOf(run_length, i, iters[i])
      /\ Copied \in [Iters -> Nat]
  BY MergeLemma, ZenonT(60)
<1>2. /\ MergedPost(runs, run_length, buf_size, max_number_of_records_in_buffer, i, s)
      /\ CopiedOf(run_length, i, s.it) = Copied[i]
  BY <1>1, MergedCurrent
<1>3. [Copied EXCEPT ![i] = Copied[i]] = Copied
  BY <1>1, SMTT(30)
<1> QED
  BY <1>2, <1>3, CallLemma

\* next keeps the invariant; the record that was current, the one that follows
\* those iterator i has copied, counts as copied now.
LEMMA NextCallLemma ==
    ASSUME TypeOK, IteratorsInv, UNCHANGED params, NEW i \in Iters,
           iters[i].current_record \in Record, Return(i, next(runs, fp, iters[i]))
    PROVE  LET p == Start(run_length, i) + Copied[i] + 1
               T == Pairs(runs, run_length, num_runs, Copied)
           IN  /\ fp' \in Nat /\ iters' \in [Iters' -> Iterator]
               /\ IteratorsInv'
               /\ Copied' = [Copied EXCEPT ![i] = Copied[i] + 1]
               /\ p \in 1 .. Len(runs) /\ iters[i].current_record = runs[p]
               /\ <<i, p>> \notin T
               /\ Pairs(runs, run_length, num_runs, Copied') = T \cup {<<i, p>>}
<1> DEFINE B == max_number_of_records_in_buffer
           s == next(runs, fp, iters[i])
           p == Start(run_length, i) + Copied[i] + 1
           T == Pairs(runs, run_length, num_runs, Copied)
<1>1. /\ runs \in Seq(Record) /\ run_length \in Nat \ {0} /\ buf_size \in Nat \ {0}
      /\ B \in Nat /\ i \in Nat \ {0} /\ fp \in Nat /\ num_runs \in Nat \ {0}
      /\ Len(runs) \in Nat /\ Copied[i] \in Nat
      /\ MergedInv(runs, run_length, buf_size, B, i, iters[i])
      /\ Copied[i] = CopiedOf(run_length, i, iters[i])
      /\ Copied \in [Iters -> Nat]
  BY MergeLemma, Zenon
<1>2. /\ Start(run_length, i) \in Nat
      /\ Returned(run_length, i, iters[i]) = Copied[i] + 1
      /\ p =< Len(runs) /\ iters[i].current_record = runs[p]
  <2>1. MergedFacts(runs, run_length, i, iters[i])
    BY <1>1, MergedLemma, Zenon
  <2> QED
    BY <1>1, <2>1, Zenon DEF MergedFacts
<1>3. p \in 1 .. Len(runs)
  <2>1. PICK m \in Nat, c \in Nat, l \in Nat :
           m = Start(run_length, i) /\ c = Copied[i] /\ l = Len(runs) /\ m + c + 1 =< l
    BY <1>1, <1>2, ZenonT(60)
  <2>2. m + c + 1 \in 1 .. l
    BY <2>1
  <2> QED
    BY <2>1, <2>2, Zenon
<1>4. /\ MergedPost(runs, run_length, buf_size, B, i, s)
      /\ CopiedOf(run_length, i, s.it) = Copied[i] + 1
  <2>1. /\ MergedPost(runs, run_length, buf_size, B, i, s)
        /\ CopiedOf(run_length, i, s.it) = Returned(run_length, i, iters[i])
    <3>1. /\ runs \in Seq(Record) /\ run_length \in Nat \ {0} /\ buf_size \in Nat \ {0}
          /\ B \in Nat /\ i \in Nat \ {0} /\ fp \in Nat
          /\ MergedInv(runs, run_length, buf_size, B, i, iters[i])
      BY <1>1, Zenon
    <3> HIDE DEF B
    <3> QED
      BY <3>1, MergedNext
  <2> QED
    BY <1>2, <2>1, Zenon
<1> HIDE DEF s
<1>5. /\ fp' \in Nat /\ iters' \in [Iters' -> Iterator]
      /\ IteratorsInv'
      /\ Copied' = [Copied EXCEPT ![i] = Copied[i] + 1]
  <2>1. Return(i, s)
    BY Zenon DEF s
  <2>2. /\ fp' \in Nat /\ iters' \in [Iters' -> Iterator]
        /\ IteratorsInv'
        /\ Copied' = [Copied EXCEPT ![i] = CopiedOf(run_length, i, s.it)]
    BY <1>4, <2>1, CallLemma, Zenon
  <2> QED
    BY <1>4, <2>2, Zenon
<1>6. /\ <<i, p>> \notin T
      /\ Pairs(runs, run_length, num_runs, Copied') = T \cup {<<i, p>>}
  <2>1. Copied \in [1 .. num_runs -> Nat] /\ i \in 1 .. num_runs
    BY <1>1 DEF Iters
  <2>2. Copied'[i] = Copied[i] + 1 /\ \A j \in 1 .. num_runs : j # i => Copied'[j] = Copied[j]
    BY <1>5, <2>1
  <2>3. p = Start(run_length, i) + Copied[i] + 1
    BY ZenonT(30)
  <2> DEFINE c == Copied
             d == Copied'
  <2> HIDE DEF p, c, d, B, s
  <2>4. /\ runs \in Seq(Record) /\ run_length \in Nat \ {0} /\ num_runs \in Nat \ {0}
        /\ c[i] \in Nat /\ i \in 1 .. num_runs /\ p \in 1 .. Len(runs)
        /\ p = Start(run_length, i) + c[i] + 1
        /\ d[i] = c[i] + 1 /\ \A j \in 1 .. num_runs : j # i => d[j] = c[j]
    BY <1>1, <1>3, <2>1, <2>2, <2>3 DEF c, d
  <2>5. GrowsBy(Pairs(runs, run_length, num_runs, c), <<i, p>>,
                Pairs(runs, run_length, num_runs, d))
    BY <2>4, PairsStep, Zenon
  <2> QED
    BY <2>5 DEF c, d, GrowsBy
<1> QED
  BY <1>2, <1>3, <1>5, <1>6, Zenon

\* While nothing is copied, the output holds what it held.
LEMMA OutputFrame ==
    ASSUME OutputInv, UNCHANGED params, Copied' = Copied, (out \o outbuf)' = out \o outbuf
    PROVE  OutputInv'
<1>1. /\ runs' = runs /\ run_length' = run_length /\ num_runs' = num_runs
      /\ RunsUnion' = RunsUnion /\ (RunsSorted' <=> RunsSorted)
      /\ (OverreadsLastRun' <=> OverreadsLastRun)
  BY ParamsLemma
<1> DEFINE T == Pairs(runs, run_length, num_runs, Copied)
           C == {t[2] : t \in T}
<1>2. T' = T /\ C' = C
  BY <1>1
<1>3. HoldsPairs(runs, T, out \o outbuf)
  BY DEF OutputInv
<1>4. RunsSorted /\ ~OverreadsLastRun => SortedPrefix(runs, RunsUnion, C, out \o outbuf)
  BY DEF OutputInv
<1> HIDE DEF T, C
<1>5. HoldsPairs(runs', T', (out \o outbuf)')
  BY <1>1, <1>2, <1>3
<1>6. RunsSorted' /\ ~OverreadsLastRun' => SortedPrefix(runs', RunsUnion', C', (out \o outbuf)')
  BY <1>1, <1>2, <1>4
<1> QED
  BY <1>5, <1>6, Zenon DEF OutputInv, T, C

-----------------------------------------------------------------------------
\* A merge starts with the invariant.
LEMMA StartedLemma == Started => MergeInv
<1> SUFFICES ASSUME Started PROVE MergeInv
  OBVIOUS
<1>1. /\ runs \in Seq(Record) /\ run_length \in Nat \ {0} /\ buf_size \in Nat \ {0}
      /\ num_runs \in Nat \ {0}
  BY DEF Started
<1>2. max_number_of_records_in_buffer \in Nat
  BY <1>1, BufRecordsLemma, Zenon DEF max_number_of_records_in_buffer
<1>3. ASSUME NEW i \in Iters
      PROVE  /\ i \in Nat \ {0}
             /\ MergedInv(runs, run_length, buf_size, max_number_of_records_in_buffer, i, iters[i])
             /\ CopiedOf(run_length, i, iters[i]) = 0
             /\ iters[i] \in Iterator
  <2>1. i \in Nat \ {0}
    BY <1>1 DEF Iters
  <2>2. iters[i] = new_RunIterator(Start(run_length, i), run_length, buf_size)
    BY DEF Started, NewIterators, Iters, Start
  <2>3. /\ MergedInv(runs, run_length, buf_size, max_number_of_records_in_buffer, i, iters[i])
        /\ CopiedOf(run_length, i, iters[i]) = 0
    BY <1>1, <2>1, <2>2, MergedNew DEF max_number_of_records_in_buffer
  <2> QED
    BY <1>1, <1>2, <2>1, <2>3, MergedLemma DEF MergedFacts
<1>4. IteratorsInv
  BY <1>3 DEF IteratorsInv
<1>5. TypeOK
  <2>1. iters \in [Iters -> Iterator]
    <3>1. iters = [i \in Iters |-> iters[i]]
      BY DEF Started, NewIterators, Iters
    <3> QED
      BY <1>3, <3>1
  <2>2. fp \in Nat
    <3>1. num_runs - 1 \in Nat
      BY <1>1
    <3> QED
      BY <1>1, <3>1 DEF Started
  <2> QED
    BY <1>1, <2>1, <2>2 DEF Started, TypeOK
<1>6. ControlInv
  BY <1>1, <1>2 DEF Started, ControlInv
<1>7. OutputInv
  <2> DEFINE T == Pairs(runs, run_length, num_runs, Copied)
             C == {t[2] : t \in T}
             o == out \o outbuf
  <2>1. T = {}
    <3> SUFFICES ASSUME NEW t \in T PROVE FALSE
      OBVIOUS
    <3>1. /\ t[1] \in Iters /\ t[2] \in Nat
          /\ Start(run_length, t[1]) < t[2] /\ t[2] =< Start(run_length, t[1]) + Copied[t[1]]
      BY DEF Pairs, Iters
    <3>2. Copied[t[1]] = 0 /\ Start(run_length, t[1]) \in Nat
      BY <1>1, <1>3, <3>1, StartLemma, Zenon DEF Copied
    <3> QED
      BY <3>1, <3>2
  <2>2. C = {}
    BY <2>1
  <2>3. o = << >> /\ Len(o) = 0 /\ 1 .. Len(o) = {}
    BY DEF Started
  <2> HIDE DEF T, C, o
  <2>4. HoldsPairs(runs, T, o)
    <3>1. << >> \in [1 .. Len(o) -> T]
      BY <2>3
    <3> QED
      BY <2>1, <2>3, <3>1, Zenon DEF HoldsPairs
  <2>5. SortedPrefix(runs, RunsUnion, C, o)
    <3>1. Cardinality(C) = 0
      BY <2>2, FS_EmptySet
    <3>2. Sorted(o)
      BY <2>3 DEF Sorted
    <3> QED
      BY <2>2, <2>3, <3>1, <3>2 DEF SortedPrefix
  <2> QED
    BY <2>4, <2>5 DEF OutputInv, T, C, o
<1> QED
  BY <1>4, <1>5, <1>6, <1>7 DEF MergeInv

\* So does every call of merge_runs.
LEMMA MergeInit ==
    ASSUME MergesAssumption, Init
    PROVE  MergeInv
<1>1. Started
  BY DEF Started, MergesAssumption, Init
<1> QED
  BY <1>1, StartedLemma

\* iterators_have_records looks at one iterator more.
LEMMA IteratorsHaveRecordsStep ==
    ASSUME MergeInv, IteratorsHaveRecords
    PROVE  MergeInv'
<1> DEFINE s == get_current_record(runs, fp, iters[idx])
<1>1. /\ TypeOK /\ IteratorsInv /\ ControlInv /\ OutputInv
      /\ UNCHANGED params /\ idx \in Iters /\ Return(idx, s)
      /\ pc = "have" /\ min' = min /\ outbuf' = outbuf /\ out' = out
      /\ IF s.ret # NULL THEN pc' = FillOrFlush(0) /\ idx' = 1
                         ELSE pc' = pc /\ idx' = idx + 1
  BY DEF MergeInv, IteratorsHaveRecords
<1>2. /\ runs' = runs /\ run_length' = run_length /\ buf_size' = buf_size
      /\ num_runs' = num_runs /\ Iters' = Iters
      /\ max_number_of_records_in_buffer' = max_number_of_records_in_buffer
  BY <1>1, ParamsLemma, ZenonT(60)
<1>3. /\ fp' \in Nat /\ iters' \in [Iters' -> Iterator]
      /\ IteratorsInv'
      /\ iters'[idx].current_record = s.ret
      /\ \A j \in Iters : j # idx => iters'[j] = iters[j]
      /\ Copied' = Copied
  BY <1>1, CurrentCallLemma
<1>4. num_runs \in Nat \ {0} /\ max_number_of_records_in_buffer \in Nat /\ idx \in 1 .. num_runs
  BY <1>1, MergeLemma DEF Iters
<1> HIDE DEF s
<1>5. pc' \in {"have", "scan", "flush"} /\ idx' \in 1 .. num_runs' + 1
  BY <1>1, <1>2, <1>4 DEF FillOrFlush
<1>6. TypeOK'
  BY <1>1, <1>2, <1>3, <1>5 DEF TypeOK
<1>7. ControlInv'
  <2>1. outbuf = << >> /\ Len(outbuf) = 0 /\ min = 0
    BY <1>1, Zenon DEF ControlInv
  <2>2. CASE s.ret # NULL
    <3>1. pc' = (IF 0 < max_number_of_records_in_buffer THEN "scan" ELSE "flush") /\ idx' = 1
      BY <1>1, <2>2 DEF FillOrFlush
    <3>2. Smallest(iters', 0, 1)
      BY DEF Smallest
    <3> QED
      BY <1>1, <1>2, <1>4, <2>1, <3>1, <3>2 DEF ControlInv
  <2>3. CASE s.ret = NULL
    <3>1. pc' = "have" /\ idx' = idx + 1
      BY <1>1, <2>3, Zenon
    <3>2. ASSUME NEW i \in 1 .. idx' - 1 PROVE iters'[i].current_record = NULL
      <4>1. i \in Iters /\ (i = idx \/ i \in 1 .. idx - 1)
        BY <1>4, <3>1 DEF Iters
      <4> QED
        BY <1>1, <1>3, <2>3, <4>1 DEF ControlInv
    <3> QED
      BY <1>1, <1>2, <1>4, <2>1, <3>1, <3>2 DEF ControlInv
  <2> QED
    BY <2>2, <2>3
<1>8. OutputInv'
  BY <1>1, <1>3, OutputFrame
<1> QED
  BY <1>3, <1>6, <1>7, <1>8 DEF MergeInv

\* get_iterator_with_smallest_value looks at one iterator more.
LEMMA GetSmallestStep ==
    ASSUME MergeInv, GetSmallest
    PROVE  MergeInv'
<1> DEFINE s == get_current_record(runs, fp, iters[idx])
<1>1. /\ TypeOK /\ IteratorsInv /\ ControlInv /\ OutputInv
      /\ UNCHANGED params /\ idx \in Iters /\ Return(idx, s)
      /\ pc = "scan" /\ min' = SmallerOf(min, idx, s.ret) /\ outbuf' = outbuf /\ out' = out
      /\ pc' = pc /\ idx' = idx + 1
  BY DEF MergeInv, GetSmallest
<1>2. /\ runs' = runs /\ run_length' = run_length /\ buf_size' = buf_size
      /\ num_runs' = num_runs /\ Iters' = Iters
      /\ max_number_of_records_in_buffer' = max_number_of_records_in_buffer
  BY <1>1, ParamsLemma, ZenonT(60)
<1>3. /\ fp' \in Nat /\ iters' \in [Iters' -> Iterator]
      /\ IteratorsInv'
      /\ iters'[idx].current_record = s.ret
      /\ s.ret \in Record \cup {NULL}
      /\ \A j \in Iters : j # idx => iters'[j] = iters[j]
      /\ Copied' = Copied
  BY <1>1, CurrentCallLemma
<1>4. num_runs \in Nat \ {0} /\ max_number_of_records_in_buffer \in Nat /\ idx \in 1 .. num_runs
  BY <1>1, MergeLemma, Zenon DEF Iters
<1>5. min \in 0 .. num_runs /\ Smallest(iters, min, idx)
  BY <1>1, ZenonT(60) DEF TypeOK, ControlInv
<1> HIDE DEF s
<1>6. /\ min' \in 0 .. num_runs
      /\ min' = IF /\ s.ret # NULL
                   /\ min # 0 => Key[iters[min].current_record] > Key[s.ret]
                THEN idx ELSE min
  <2>1. s.ret # NULL /\ min # 0 =>
          /\ Key[iters[min].current_record] \in Int /\ Key[s.ret] \in Int
    BY <1>3, <1>5, RecordAssumption DEF Smallest
  <2>2. min' = idx \/ min' = min
    BY <1>1, Zenon DEF SmallerOf
  <2> QED
    BY <1>1, <1>4, <1>5, <2>1, <2>2 DEF SmallerOf, record_object_comparator
<1>7. TypeOK'
  <2>1. \A n \in Nat \ {0} : \A x \in 1 .. n : x + 1 \in 1 .. n + 1
    OBVIOUS
  <2>2. idx' \in 1 .. num_runs + 1
    BY <1>1, <1>4, <2>1, Zenon
  <2> QED
    BY <1>1, <1>2, <1>3, <1>6, <2>2, Zenon DEF TypeOK
<1>8. Smallest(iters', min', idx')
  <2>1. ASSUME NEW i \in 1 .. idx' - 1
        PROVE  /\ i \in Iters /\ (i = idx \/ i \in 1 .. idx - 1)
               /\ i # idx => iters'[i] = iters[i]
    BY <1>1, <1>3, <1>4 DEF Iters
  <2>2. ASSUME NEW i \in 1 .. idx' - 1
        PROVE  iters'[i].current_record \in Record \cup {NULL}
    <3>1. CASE i = idx
      BY <1>3, <3>1
    <3>2. CASE i # idx
      <4>1. iters'[i] = iters[i] /\ iters[i].current_record # Garbage /\ iters[i] \in Iterator
        BY <1>1, <1>5, <2>1, <3>2 DEF Smallest, TypeOK
      <4> QED
        BY <4>1, Zenon DEF Iterator
    <3> QED
      BY <3>1, <3>2
  <2>3. \A i \in 1 .. idx' - 1 : iters'[i].current_record # Garbage
    BY <2>2, RecordAssumption
  <2>4. ASSUME NEW i \in 1 .. idx' - 1, iters'[i].current_record # NULL
        PROVE  Key[iters'[i].current_record] \in Int
    BY <2>2, <2>4, RecordAssumption
  <2>5. min # 0 => min \in 1 .. idx - 1 /\ min # idx /\ iters'[min] = iters[min]
                   /\ min \in 1 .. idx' - 1
    <3> SUFFICES ASSUME min # 0 PROVE min \in 1 .. idx - 1 /\ min # idx /\ iters'[min] = iters[min]
                                      /\ min \in 1 .. idx' - 1
      OBVIOUS
    <3>1. min < idx
      BY <1>5 DEF Smallest
    <3>2. min \in 1 .. idx - 1 /\ min # idx /\ min \in 1 .. idx' - 1 /\ min \in Iters
      BY <1>1, <1>4, <1>5, <3>1 DEF Iters
    <3> QED
      BY <1>3, <3>2
  <2>6. idx \in 1 .. idx' - 1 /\ idx < idx'
    BY <1>1, <1>4
  <2>7. CASE min' = 0
    <3>1. min = 0 /\ s.ret = NULL
      BY <1>4, <1>6, <2>7
    <3>2. ASSUME NEW i \in 1 .. idx' - 1 PROVE iters'[i].current_record = NULL
      <4>1. CASE i = idx
        BY <1>3, <3>1, <4>1
      <4>2. CASE i # idx
        BY <1>5, <2>1, <3>1, <4>2, ZenonT(60) DEF Smallest
      <4> QED
        BY <4>1, <4>2
    <3> QED
      BY <2>3, <2>7, <3>2 DEF Smallest
  <2>8. CASE min' # 0 /\ min' = idx /\ s.ret # NULL
             /\ (min # 0 => Key[iters[min].current_record] > Key[s.ret])
    <3>1. iters'[min'].current_record \in Record /\ iters'[min'].current_record = s.ret
          /\ min' < idx'
      BY <1>3, <2>6, <2>8
    <3>2. ASSUME NEW i \in 1 .. idx' - 1, iters'[i].current_record # NULL
          PROVE  /\ Key[s.ret] =< Key[iters'[i].current_record]
                 /\ i < idx => Key[s.ret] < Key[iters'[i].current_record]
      <4>1. Key[s.ret] \in Int
        BY <2>4, <2>6, <2>8, <1>3
      <4>2. CASE i = idx
        BY <1>3, <1>4, <4>1, <4>2
      <4>3. CASE i # idx
        <5>1. i \in 1 .. idx - 1 /\ iters'[i] = iters[i]
          BY <2>1, <4>3, Zenon
        <5>2. min # 0
          BY <1>5, <3>2, <5>1, Zenon DEF Smallest
        <5>3. Key[iters[min].current_record] =< Key[iters[i].current_record]
          BY <1>5, <3>2, <5>1, <5>2 DEF Smallest
        <5>4. Key[iters[min].current_record] \in Int
          <6>1. iters[min].current_record \in Record
            BY <1>5, <5>2 DEF Smallest
          <6> QED
            BY <6>1, RecordAssumption, Zenon
        <5>5. Key[iters'[i].current_record] \in Int
          BY <2>4, <3>2, Zenon
        <5> QED
          BY <2>8, <4>1, <5>1, <5>2, <5>3, <5>4, <5>5
      <4> QED
        BY <4>2, <4>3
    <3> QED
      BY <2>3, <2>8, <3>1, <3>2 DEF Smallest
  <2>9. CASE /\ min' # 0 /\ min' = min
             /\ s.ret # NULL => ~(Key[iters[min].current_record] > Key[s.ret])
    <3>1. /\ iters'[min] = iters[min] /\ iters'[min].current_record \in Record /\ min < idx'
          /\ Key[iters[min].current_record] \in Int
      <4>1. iters[min].current_record \in Record /\ min < idx
        BY <1>5, <2>9, Zenon DEF Smallest
      <4> QED
        BY <1>1, <1>4, <1>5, <2>5, <2>9, <4>1, RecordAssumption
    <3>2. ASSUME NEW i \in 1 .. idx' - 1, iters'[i].current_record # NULL
          PROVE  /\ Key[iters[min].current_record] =< Key[iters'[i].current_record]
                 /\ i < min => Key[iters[min].current_record] < Key[iters'[i].current_record]
      <4>1. CASE i = idx
        <5>1. ~(i < min)
          <6>1. \A n \in Nat : \A x \in 1 .. n : \A y \in 1 .. x - 1 : ~(x < y)
            OBVIOUS
          <6> QED
            BY <1>4, <2>5, <2>9, <4>1, <6>1, Zenon
        <5>2. Key[iters'[i].current_record] \in Int
          BY <2>4, <3>2
        <5> QED
          BY <1>3, <2>9, <3>1, <3>2, <4>1, <5>1, <5>2
      <4>2. CASE i # idx
        <5>1. i \in 1 .. idx - 1 /\ iters'[i] = iters[i]
          BY <2>1, <4>2
        <5> QED
          BY <1>5, <2>9, <3>2, <5>1, Zenon DEF Smallest
      <4> QED
        BY <4>1, <4>2, Zenon
    <3> QED
      BY <2>3, <2>9, <3>1, <3>2, Zenon DEF Smallest
  <2> QED
    BY <1>6, <2>7, <2>8, <2>9, Zenon
<1>9. ControlInv'
  <2>1. Len(outbuf) < max_number_of_records_in_buffer
    BY <1>1 DEF ControlInv
  <2>2. Len(outbuf) \in Nat
    BY <1>1 DEF TypeOK
  <2> QED
    BY <1>1, <1>2, <1>4, <1>8, <2>1, <2>2 DEF ControlInv
<1>10. OutputInv'
  BY <1>1, <1>3, OutputFrame
<1> QED
  BY <1>3, <1>7, <1>9, <1>10 DEF MergeInv

\* A loop over the iterators ends: the iterators and the output stay.
LEMMA LoopEndStep ==
    ASSUME MergeInv, NoMoreRecords \/ GotSmallest
    PROVE  MergeInv'
<1>1. /\ TypeOK /\ IteratorsInv /\ ControlInv /\ OutputInv
      /\ UNCHANGED params /\ idx > num_runs /\ iters' = iters /\ fp' = fp /\ idx' = idx
      /\ min' = min /\ outbuf' = outbuf /\ out' = out
      /\ \/ pc = "have" /\ pc' = "done"
         \/ pc = "scan" /\ pc' = IF min = 0 THEN "flush" ELSE "copy"
  BY DEF MergeInv, NoMoreRecords, GotSmallest
<1>2. /\ runs' = runs /\ run_length' = run_length /\ buf_size' = buf_size
      /\ num_runs' = num_runs /\ Iters' = Iters
      /\ max_number_of_records_in_buffer' = max_number_of_records_in_buffer
  BY <1>1, ParamsLemma, Zenon
<1>3. /\ num_runs \in Nat \ {0} /\ max_number_of_records_in_buffer \in Nat
      /\ Len(outbuf) \in Nat
  BY <1>1, MergeLemma DEF TypeOK
<1>4. TypeOK'
  BY <1>1, <1>2 DEF TypeOK
<1>5. idx = num_runs + 1
  BY <1>1, <1>3 DEF TypeOK
<1>6. IteratorsInv' /\ Copied' = Copied
  BY <1>1, <1>2 DEF IteratorsInv, Copied
<1>7. ControlInv'
  <2>1. CASE pc = "have" /\ pc' = "done"
    BY <1>1, <1>2, <1>5, <2>1 DEF ControlInv
  <2>2. CASE pc = "scan" /\ pc' = IF min = 0 THEN "flush" ELSE "copy"
    BY <1>1, <1>2, <1>3, <1>5, <2>2 DEF ControlInv
  <2> QED
    BY <1>1, <2>1, <2>2
<1>8. OutputInv'
  BY <1>1, <1>6, OutputFrame
<1> QED
  BY <1>4, <1>6, <1>7, <1>8 DEF MergeInv

\* Writing the buffer out leaves the output as a whole as it is.
LEMMA FlushStep ==
    ASSUME MergeInv, Flush
    PROVE  MergeInv'
<1>1. /\ TypeOK /\ IteratorsInv /\ ControlInv /\ OutputInv
      /\ UNCHANGED params /\ iters' = iters /\ fp' = fp /\ idx' = 1
      /\ min' = 0 /\ outbuf' = << >> /\ out' = out \o outbuf
      /\ pc' = "have"
  BY DEF MergeInv, Flush
<1>2. /\ runs' = runs /\ run_length' = run_length /\ buf_size' = buf_size
      /\ num_runs' = num_runs /\ Iters' = Iters
      /\ max_number_of_records_in_buffer' = max_number_of_records_in_buffer
  BY <1>1, ParamsLemma
<1>3. num_runs \in Nat \ {0} /\ max_number_of_records_in_buffer \in Nat
  BY <1>1, MergeLemma
<1>4. outbuf \in Seq(Record) /\ out \in Seq(Record) /\ out \o outbuf \in Seq(Record)
  BY <1>1, ConcatFacts, Zenon DEF TypeOK
<1>5. TypeOK'
  BY <1>1, <1>2, <1>3, <1>4 DEF TypeOK
<1>6. IteratorsInv' /\ Copied' = Copied
  BY <1>1, <1>2 DEF IteratorsInv, Copied
<1>7. ControlInv'
  BY <1>1, <1>2, <1>3 DEF ControlInv
<1>8. (out \o outbuf)' = out \o outbuf
  BY <1>1, <1>4, ConcatEmpty
<1>9. OutputInv'
  BY <1>1, <1>6, <1>8, OutputFrame
<1> QED
  BY <1>5, <1>6, <1>7, <1>9 DEF MergeInv

\* The record copied is the next of its iterator, and the least that is left.
LEMMA CopyRecordStep ==
    ASSUME MergeInv, CopyRecord
    PROVE  MergeInv'
<1> DEFINE B == max_number_of_records_in_buffer
           s == next(runs, fp, iters[min])
           r == iters[min].current_record
           p == Start(run_length, min) + Copied[min] + 1
<1>1. /\ TypeOK /\ IteratorsInv /\ ControlInv /\ OutputInv
      /\ UNCHANGED params /\ Return(min, s)
      /\ pc = "copy" /\ min' = 0 /\ idx' = 1
      /\ outbuf' = Append(outbuf, r) /\ out' = out
      /\ pc' = FillOrFlush(Len(outbuf) + 1)
  BY DEF MergeInv, CopyRecord
<1>2. /\ runs' = runs /\ run_length' = run_length /\ buf_size' = buf_size
      /\ num_runs' = num_runs /\ Iters' = Iters /\ B' = B
      /\ RunsUnion' = RunsUnion /\ (RunsSorted' <=> RunsSorted)
      /\ (OverreadsLastRun' <=> OverreadsLastRun)
  BY <1>1, ParamsLemma, Zenon
<1>3. /\ num_runs \in Nat \ {0} /\ B \in Nat /\ Len(outbuf) \in Nat
      /\ runs \in Seq(Record) /\ run_length \in Nat \ {0} /\ buf_size \in Nat \ {0}
      /\ fp \in Nat /\ Copied \in [Iters -> Nat]
      /\ outbuf \in Seq(Record) /\ out \in Seq(Record)
  BY <1>1, MergeLemma DEF TypeOK
<1>4. /\ min # 0 /\ idx = num_runs + 1 /\ Smallest(iters, min, num_runs + 1)
      /\ Len(outbuf) < B
  BY <1>1, SMTT(30) DEF ControlInv
<1>5. min \in Iters /\ r \in Record
  <2>1. min \in 0 .. num_runs /\ iters \in [Iters -> Iterator]
    BY <1>1 DEF TypeOK
  <2>2. min \in Iters
    BY <1>3, <1>4, <2>1 DEF Iters
  <2>3. iters[min].current_record \in Record
    BY <1>4, Zenon DEF Smallest
  <2> QED
    BY <2>2, <2>3, Zenon
<1>6. p \in 1 .. Len(runs) /\ r = runs[p]
  BY <1>1, <1>5, NextCallLemma, ZenonT(30)
<1>7. /\ fp' \in Nat /\ iters' \in [Iters' -> Iterator]
      /\ IteratorsInv'
      /\ Copied' = [Copied EXCEPT ![min] = Copied[min] + 1]
  BY <1>1, <1>5, NextCallLemma, Zenon
<1>8. /\ p \in 1 .. Len(runs)
      /\ <<min, p>> \notin Pairs(runs, run_length, num_runs, Copied)
      /\ Pairs(runs, run_length, num_runs, Copied')
           = Pairs(runs, run_length, num_runs, Copied) \cup {<<min, p>>}
  BY <1>1, <1>5, NextCallLemma, Zenon
<1> HIDE DEF s, p, r, B
<1>9. /\ outbuf' \in Seq(Record) /\ Len(outbuf') = Len(outbuf) + 1
      /\ (out \o outbuf)' = Append(out \o outbuf, r)
      /\ out \o outbuf \in Seq(Record)
  <2>1. outbuf' \in Seq(Record) /\ Len(outbuf') = Len(outbuf) + 1
    BY <1>1, <1>3, <1>5, AppendFacts, Zenon
  <2>2. out \o outbuf \in Seq(Record)
    BY <1>3, ConcatFacts
  <2>3. out \o Append(outbuf, r) = Append(out \o outbuf, r)
    BY <1>3, <1>5, SMTT(30)
  <2> QED
    BY <1>1, <2>1, <2>2, <2>3
<1>10. TypeOK'
  <2>1. pc' \in {"scan", "flush"}
    BY <1>1, Zenon DEF FillOrFlush
  <2> QED
    BY <1>1, <1>2, <1>3, <1>7, <1>9, <2>1 DEF TypeOK
<1>11. ControlInv'
  <2>1. pc' = IF Len(outbuf) + 1 < B THEN "scan" ELSE "flush"
    BY <1>1 DEF FillOrFlush, B
  <2>2. Smallest(iters', 0, 1)
    BY DEF Smallest
  <2> QED
    BY <1>1, <1>2, <1>3, <1>4, <1>9, <2>1, <2>2 DEF ControlInv, B
<1>12. OutputInv'
  <2> DEFINE T == Pairs(runs, run_length, num_runs, Copied)
             C == {t[2] : t \in T}
             U == RunsUnion
             o == out \o outbuf
             t0 == <<min, p>>
             D == {t[2] : t \in T \cup {t0}}
  <2>1. /\ HoldsPairs(runs, T, o)
        /\ RunsSorted /\ ~OverreadsLastRun => SortedPrefix(runs, U, C, o)
    BY <1>1, ZenonT(60) DEF OutputInv
  <2>2. t0[2] = p
    OBVIOUS
  <2>3. t0 \notin T /\ Pairs(runs, run_length, num_runs, Copied') = T \cup {t0}
    BY <1>8
  <2>4. D = C \cup {p}
    BY <2>2, Zenon
  <2>5. HoldsPairs(runs, T \cup {t0}, Append(o, r))
    <3>1. runs[t0[2]] = r /\ runs[t0[2]] \in Record
      BY <1>5, <1>6, <2>2
    <3> HIDE DEF T, t0, o
    <3> QED
      BY <1>3, <1>9, <2>1, <2>3, <3>1, HoldsPairsStep, Zenon DEF o
  <2>6. ASSUME RunsSorted, ~OverreadsLastRun
        PROVE  SortedPrefix(runs, U, D, Append(o, r))
    <3>1. /\ p \in U \ C
          /\ \A q \in U \ C : q # p => Before(runs, p, q)
      <4>1. B > 0
        BY <1>3, <1>4
      <4> QED
        BY <1>1, <1>4, <2>6, <4>1, LeastLemma, ZenonT(30) DEF B, p
    <3>2. U \in SUBSET (1 .. Len(runs))
      BY ZenonT(60) DEF RunsUnion
    <3>3. ASSUME NEW j \in 1 .. Len(o) PROVE \E q \in C : o[j] = runs[q]
      <4>1. PICK b \in [1 .. Len(o) -> T] : \A k \in 1 .. Len(o) : o[k] = runs[b[k][2]]
        BY <2>1, Zenon DEF HoldsPairs
      <4>2. b[j] \in T
        BY <4>1, ZenonT(30)
      <4>3. b[j][2] \in C
        BY <4>2
      <4> QED
        BY <4>1, <4>3
    <3> HIDE DEF C, D, U, o
    <3> QED
      BY <1>3, <1>6, <1>9, <2>1, <2>4, <2>6, <3>1, <3>2, <3>3, SortedPrefixStep, Zenon DEF o
  <2> DEFINE V == Pairs(runs', run_length', num_runs', Copied')
  <2>7. V = T \cup {t0} /\ {t[2] : t \in V} = D
    BY <1>2, <2>3, Zenon
  <2> HIDE DEF V, D, T, U, t0, o
  <2>8. HoldsPairs(runs', V, (out \o outbuf)')
    BY <1>2, <1>9, <2>5, <2>7, Zenon DEF o
  <2>9. RunsSorted' /\ ~OverreadsLastRun' =>
          SortedPrefix(runs', RunsUnion', {t[2] : t \in V}, (out \o outbuf)')
    BY <1>2, <1>9, <2>6, <2>7, Zenon DEF o, U
  <2> QED
    BY <2>8, <2>9, ZenonT(30) DEF OutputInv, V
<1> QED
  BY <1>7, <1>10, <1>11, <1>12 DEF MergeInv

\* Every step of merge_runs keeps the invariant.
LEMMA MergeStep == MergeInv /\ [Next]_vars => MergeInv'
<1> SUFFICES ASSUME MergeInv, [Next]_vars PROVE MergeInv'
  OBVIOUS
<1>1. CASE IteratorsHaveRecords
  BY <1>1, IteratorsHaveRecordsStep
<1>2. CASE NoMoreRecords \/ GotSmallest
  BY <1>2, LoopEndStep
<1>3. CASE GetSmallest
  BY <1>3, GetSmallestStep
<1>4. CASE CopyRecord
  BY <1>4, CopyRecordStep
<1>5. CASE Flush
  BY <1>5, FlushStep
<1>6. CASE UNCHANGED vars
  <2>1. /\ TypeOK /\ IteratorsInv /\ ControlInv /\ OutputInv
        /\ UNCHANGED params /\ iters' = iters /\ fp' = fp /\ idx' = idx
        /\ min' = min /\ outbuf' = outbuf /\ out' = out /\ pc' = pc
    BY <1>6 DEF MergeInv, vars
  <2>2. /\ runs' = runs /\ run_length' = run_length /\ buf_size' = buf_size
        /\ num_runs' = num_runs /\ Iters' = Iters
        /\ max_number_of_records_in_buffer' = max_number_of_records_in_buffer
    BY <2>1, ParamsLemma, ZenonT(60)
  <2>3. TypeOK' /\ ControlInv' /\ IteratorsInv' /\ Copied' = Copied
    BY <2>1, <2>2 DEF TypeOK, ControlInv, IteratorsInv, Copied
  <2> QED
    BY <2>1, <2>3, OutputFrame DEF MergeInv
<1> QED
  BY <1>1, <1>2, <1>3, <1>4, <1>5, <1>6 DEF Next

\* merge_runs keeps the invariant, for every file of runs.
THEOREM MergeInvariance ==
    ASSUME MergesAssumption
    PROVE  Spec => []MergeInv
<1>1. Init => MergeInv
  BY MergeInit
<1> QED
  BY <1>1, MergeStep, PTL DEF Spec

-----------------------------------------------------------------------------
\* Iterators that have reported their end have copied every position of the runs.
LEMMA AllCopied ==
    ASSUME TypeOK, IteratorsInv, max_number_of_records_in_buffer > 0, RunsCover,
           \A i \in Iters : iters[i].current_record = NULL,
           NEW p \in 1 .. Len(runs)
    PROVE  \E i \in Iters : /\ Start(run_length, i) < p /\ p =< run_length * i
                            /\ <<i, p>> \in Pairs(runs, run_length, num_runs, Copied)
<1>1. /\ run_length \in Nat \ {0} /\ num_runs \in Nat \ {0} /\ Len(runs) \in Nat
  BY MergeLemma
<1>2. p =< run_length * num_runs /\ p \in Nat \ {0}
  <2>1. run_length * num_runs \in Nat
    BY <1>1
  <2> QED
    BY <1>1, <2>1 DEF RunsCover
<1>3. PICK i \in Iters : Start(run_length, i) < p /\ p =< run_length * i
  BY <1>1, <1>2, RunOfLemma DEF Iters
<1>4. p =< Start(run_length, i) + Copied[i]
  BY <1>3, EndedLemma, ZenonT(60)
<1> QED
  BY <1>3, <1>4 DEF Pairs, Iters

\* What holds when merge_runs has returned.
LEMMA DoneLemma ==
    ASSUME MergeInv, pc = "done"
    PROVE  /\ TypeOK /\ IteratorsInv
           /\ \A i \in Iters : iters[i].current_record = NULL
           /\ out \in Seq(Record) /\ out \o outbuf = out
           /\ HoldsPairs(runs, Pairs(runs, run_length, num_runs, Copied), out)
           /\ RunsSorted /\ ~OverreadsLastRun =>
                 SortedPrefix(runs, RunsUnion,
                              {t[2] : t \in Pairs(runs, run_length, num_runs, Copied)}, out)
<1>1. /\ TypeOK /\ IteratorsInv /\ ControlInv /\ num_runs \in Nat \ {0}
      /\ out \in Seq(Record)
  BY DEF MergeInv, TypeOK
<1>2. outbuf = << >> /\ idx = num_runs + 1 /\ \A i \in 1 .. idx - 1 : iters[i].current_record = NULL
  BY <1>1 DEF ControlInv
<1>3. 1 .. idx - 1 = Iters
  BY <1>1, <1>2 DEF Iters
<1>4. out \o outbuf = out
  BY <1>1, <1>2, ConcatEmpty, ZenonT(60)
<1>5. /\ HoldsPairs(runs, Pairs(runs, run_length, num_runs, Copied), out)
      /\ RunsSorted /\ ~OverreadsLastRun =>
            SortedPrefix(runs, RunsUnion,
                         {t[2] : t \in Pairs(runs, run_length, num_runs, Copied)}, out)
  BY <1>4 DEF MergeInv, OutputInv
<1> QED
  BY <1>1, <1>2, <1>3, <1>4, <1>5

\* The invariant gives the stable sort.
LEMMA StableSortLemma == MergeInv => MergeIsStableSort
<1> SUFFICES ASSUME MergeInv, pc = "done", RunsSorted, RunsCover, ~OverreadsLastRun,
                    max_number_of_records_in_buffer > 0
             PROVE  /\ Len(out) = Len(runs)
                    /\ \A p \in 1 .. Len(runs) :
                          out[StableRank(runs, 1 .. Len(runs), p)] = runs[p]
  BY Zenon DEF MergeIsStableSort
<1> DEFINE T == Pairs(runs, run_length, num_runs, Copied)
           C == {t[2] : t \in T}
<1>1. /\ TypeOK /\ IteratorsInv
      /\ \A i \in Iters : iters[i].current_record = NULL
      /\ out \in Seq(Record) /\ out \o outbuf = out
  BY DoneLemma, ZenonT(60)
<1>2. SortedPrefix(runs, RunsUnion, C, out)
  BY DoneLemma
<1>3. C = 1 .. Len(runs)
  <2>1. ASSUME NEW p \in 1 .. Len(runs) PROVE p \in C
    <3>1. PICK i \in Iters : <<i, p>> \in T
      BY <1>1, AllCopied
    <3>2. <<i, p>>[2] = p
      OBVIOUS
    <3> QED
      BY <3>1, <3>2
  <2>2. C \subseteq 1 .. Len(runs)
    BY DEF Pairs
  <2> HIDE DEF C
  <2> QED
    BY <2>1, <2>2, ZenonT(30)
<1>4. RunsUnion = 1 .. Len(runs)
  <2> HIDE DEF C
  <2>1. C \subseteq RunsUnion
    BY <1>2 DEF SortedPrefix
  <2> QED
    BY <1>3, <2>1, Zenon DEF RunsUnion
<1>5. Cardinality(1 .. Len(runs)) = Len(runs)
  <2>1. PICK n \in Nat : n = Len(runs)
    BY <1>1 DEF TypeOK
  <2>2. 1 \in Int /\ n \in Int
    OBVIOUS
  <2>3. Cardinality(1 .. n) = IF 1 > n THEN 0 ELSE n - 1 + 1
    BY <2>2, FS_Interval, Zenon
  <2> QED
    BY <2>1, <2>3
<1> HIDE DEF C
<1> QED
  BY <1>2, <1>3, <1>4, <1>5 DEF SortedPrefix

\* With iterators that stay in their runs, every record is in the output as often as
\* in the file.
LEMMA CopiesLemma ==
    ASSUME MergeInv, pc = "done", RunsCover, ~OverreadsLastRun,
           max_number_of_records_in_buffer > 0, NEW r \in Record
    PROVE  Copies(out, 1 .. Len(out), r) = Copies(runs, 1 .. Len(runs), r)
<1> DEFINE rl == run_length
           len == Len(runs)
           B == max_number_of_records_in_buffer
           T == Pairs(runs, rl, num_runs, Copied)
           J == {j \in 1 .. Len(out) : out[j] = r}
           P == {p \in 1 .. len : runs[p] = r}
<1>1. /\ TypeOK /\ IteratorsInv
      /\ \A i \in Iters : iters[i].current_record = NULL
      /\ out \in Seq(Record) /\ out \o outbuf = out
  BY DoneLemma
<1>2. /\ runs \in Seq(Record) /\ rl \in Nat \ {0} /\ buf_size \in Nat \ {0}
      /\ B \in Nat /\ len \in Nat
      /\ \A i \in Iters :
            /\ i \in Nat \ {0}
            /\ MergedInv(runs, rl, buf_size, B, i, iters[i])
            /\ Copied[i] = CopiedOf(rl, i, iters[i])
  BY <1>1, MergeLemma
<1>3. ~Overreads(len, rl, B)
  BY DEF OverreadsLastRun
<1>4. ASSUME NEW i \in Iters PROVE Copied[i] = Returned(rl, i, iters[i])
  <2>1. iters[i].current_record \notin Record
    BY <1>1, RecordAssumption
  <2> QED
    BY <1>2, <2>1 DEF CopiedOf
<1>5. ASSUME NEW p \in 1 .. len PROVE \E t \in T : t[2] = p
  <2>1. PICK i \in Iters : <<i, p>> \in T
    BY <1>1, AllCopied
  <2>2. <<i, p>>[2] = p
    OBVIOUS
  <2> HIDE DEF T
  <2> QED
    BY <2>1, <2>2
<1> HIDE DEF rl, len, B
<1>6. ASSUME NEW t \in T
      PROVE  /\ t[1] \in Iters /\ t[2] \in 1 .. len /\ t = <<t[1], t[2]>>
             /\ Start(rl, t[1]) < t[2] /\ t[2] =< rl * t[1]
  <2>1. /\ t[1] \in Iters /\ t[2] \in 1 .. len /\ t = <<t[1], t[2]>>
        /\ Start(rl, t[1]) < t[2] /\ t[2] =< Start(rl, t[1]) + Copied[t[1]]
    BY DEF Pairs, Iters, len
  <2>2. PICK i \in Iters, p \in 1 .. len : i = t[1] /\ p = t[2]
    BY <2>1
  <2>3. p =< Start(rl, i) + Returned(rl, i, iters[i])
    BY <1>4, <2>1, <2>2, Zenon
  <2>4. p =< rl * i
    BY <1>2, <1>3, <2>3, StayLemma DEF len
  <2> QED
    BY <2>1, <2>2, <2>4
<1> HIDE DEF T
<1>7. ASSUME NEW t \in T, NEW u \in T, t[2] = u[2] PROVE t = u
  <2>1. PICK i \in Iters, j \in Iters, p \in 1 .. len :
           i = t[1] /\ j = u[1] /\ p = t[2] /\ t = <<i, p>> /\ u = <<j, p>>
    BY <1>6, <1>7
  <2>2. Start(rl, i) < p /\ p =< rl * i /\ Start(rl, j) < p /\ p =< rl * j
    BY <1>6, <1>7, <2>1
  <2>3. i \in Nat \ {0} /\ j \in Nat \ {0} /\ p \in Nat
    BY <1>2
  <2>4. i =< j /\ j =< i
    BY <1>2, <2>2, <2>3, OneRunLemma, SMTT(30)
  <2> QED
    BY <2>1, <2>3, <2>4
<1>8. PICK b \in [1 .. Len(out) -> T] :
         /\ \A j \in 1 .. Len(out) : out[j] = runs[b[j][2]]
         /\ \A j, k \in 1 .. Len(out) : b[j] = b[k] => j = k
         /\ \A t \in T : \E j \in 1 .. Len(out) : b[j] = t
  <2>1. HoldsPairs(runs, T, out)
    BY DoneLemma, Zenon DEF T, rl
  <2> QED
    BY <2>1, Zenon DEF HoldsPairs
<1> DEFINE g == [j \in J |-> b[j][2]]
<1>9. IsFiniteSet(J)
  <2>1. Len(out) \in Nat
    BY <1>1
  <2>2. IsFiniteSet(1 .. Len(out))
    BY <2>1, FS_Interval
  <2>3. J \in SUBSET (1 .. Len(out))
    BY Zenon
  <2> HIDE DEF J
  <2> QED
    BY <2>2, <2>3, FS_Subset, Zenon
<1>10. g \in [J -> P]
  BY <1>6, <1>8, Zenon
<1>11. ASSUME NEW x \in J, NEW y \in J, g[x] = g[y] PROVE x = y
  <2>1. x \in 1 .. Len(out) /\ y \in 1 .. Len(out) /\ b[x] \in T /\ b[y] \in T
    BY <1>8, Zenon
  <2>2. b[x][2] = b[y][2]
    BY <1>11, Zenon
  <2> QED
    BY <1>7, <1>8, <2>1, <2>2, Zenon
<1>12. ASSUME NEW p \in P PROVE \E x \in J : g[x] = p
  <2>1. PICK t \in T : t[2] = p
    BY <1>5
  <2>2. PICK j \in 1 .. Len(out) : b[j] = t
    BY <1>8
  <2>3. j \in J
    BY <1>8, <2>1, <2>2
  <2> QED
    BY <2>1, <2>2, <2>3
<1> HIDE DEF g, J, P
<1>13. Cardinality(P) = Cardinality(J)
  BY <1>9, <1>10, <1>11, <1>12, SameSize, ZenonT(30)
<1> QED
  BY <1>13, ZenonT(60) DEF Copies, J, P, len

\* What a merge of sorted runs has written when it returns.
LEMMA MergeResultLemma ==
    ASSUME MergeInv, pc = "done", RunsSorted, RunsCover, ~OverreadsLastRun,
           max_number_of_records_in_buffer > 0
    PROVE  /\ Sorted(out) /\ Len(out) = Len(runs)
           /\ \A r \in Record : Copies(out, 1 .. Len(out), r) = Copies(runs, 1 .. Len(runs), r)
<1>1. SortedPrefix(runs, RunsUnion,
                   {t[2] : t \in Pairs(runs, run_length, num_runs, Copied)}, out)
  BY DoneLemma
<1>2. Sorted(out)
  BY <1>1, ZenonT(30) DEF SortedPrefix
<1>3. Len(out) = Len(runs)
  BY StableSortLemma DEF MergeIsStableSort
<1> QED
  BY <1>2, <1>3, CopiesLemma, ZenonT(60)

\* Buffers that do not hold a record stay empty, and nothing is written.
LEMMA NothingFitsStep == MergeInv /\ NothingFits /\ [Next]_vars => NothingFits'
<1> SUFFICES ASSUME MergeInv, NothingFits, [Next]_vars,
                    max_number_of_records_in_buffer = 0
             PROVE  outbuf' = << >> /\ out' = << >>
  <2>1. UNCHANGED params => max_number_of_records_in_buffer' = max_number_of_records_in_buffer
    BY ParamsLemma, ZenonT(60)
  <2>2. [Next]_vars => UNCHANGED params
    BY DEF Next, IteratorsHaveRecords, NoMoreRecords, GetSmallest, GotSmallest, CopyRecord, Flush, vars
  <2> QED
    BY <2>1, <2>2 DEF NothingFits
<1>1. outbuf = << >> /\ out = << >>
  BY DEF NothingFits
<1>2. ~CopyRecord
  <2>1. pc # "copy"
    <3> SUFFICES ASSUME pc = "copy" PROVE FALSE
      OBVIOUS
    <3>1. Len(outbuf) < 0 /\ Len(outbuf) = 0
      BY <1>1 DEF MergeInv, ControlInv
    <3> QED
      BY <3>1
  <2> QED
    BY <2>1 DEF CopyRecord
<1>3. CASE Flush
  BY <1>1, <1>3, SMTT(30) DEF Flush
<1>4. CASE IteratorsHaveRecords \/ NoMoreRecords \/ GetSmallest \/ GotSmallest \/ UNCHANGED vars
  BY <1>1, <1>4, Zenon DEF IteratorsHaveRecords, NoMoreRecords, GetSmallest, GotSmallest, vars
<1> QED
  BY <1>2, <1>3, <1>4 DEF Next

\* The invariant gives the copies of the last run.
LEMMA OverreadCopiesLemma == MergeInv => OverreadDuplicatesLastRun
<1> SUFFICES ASSUME MergeInv, pc = "done", RunsCover,
                    run_length * (num_runs - 1) < Len(runs), OverreadsLastRun,
                    NEW r \in Record
             PROVE  Copies(out, 1 .. Len(out), r)
                       = Copies(runs, 1 .. Len(runs), r) + Copies(runs, RunPositions(num_runs), r)
  BY ZenonT(30) DEF OverreadDuplicatesLastRun
<1> DEFINE rl == run_length
           n == num_runs
           len == Len(runs)
           B == max_number_of_records_in_buffer
           Last == RunPositions(n)
           T == Pairs(runs, rl, n, Copied)
           All == {t \in T : runs[t[2]] = r}
           Twice == {t \in All : t[1] = n - 1 /\ t[2] \in Last}
           Once == All \ Twice
           J == {j \in 1 .. Len(out) : out[j] = r}
           P == {p \in 1 .. len : runs[p] = r}
           L == {p \in Last : runs[p] = r}
<1>1. /\ TypeOK /\ IteratorsInv
      /\ \A i \in Iters : iters[i].current_record = NULL
      /\ out \in Seq(Record) /\ out \o outbuf = out
  BY DoneLemma, Zenon
<1>2. /\ runs \in Seq(Record) /\ rl \in Nat \ {0} /\ buf_size \in Nat \ {0}
      /\ n \in Nat \ {0} /\ B \in Nat /\ len \in Nat
      /\ \A i \in Iters :
            /\ i \in Nat \ {0}
            /\ MergedInv(runs, rl, buf_size, B, i, iters[i])
            /\ Copied[i] = CopiedOf(rl, i, iters[i])
  BY <1>1, MergeLemma
<1>3. Overreads(len, rl, B)
  BY DEF OverreadsLastRun
<1>4. B > 0 /\ rl < len
  BY <1>3 DEF Overreads
<1>5. /\ n - 1 \in Nat \ {0} /\ n - 1 \in Iters
      /\ rl * (n - 1) < len /\ len =< rl * n /\ rl * n \in Nat /\ rl * (n - 1) \in Nat
  <2>1. rl * (n - 1) < len /\ len =< rl * n
    BY DEF RunsCover
  <2>2. n # 1
    BY <1>2, <1>4, <2>1
  <2> QED
    BY <1>2, <2>1, <2>2 DEF Iters
<1>6. ASSUME NEW i \in Iters PROVE Copied[i] = Returned(rl, i, iters[i])
  <2>1. iters[i].current_record \notin Record
    BY <1>1, RecordAssumption, Zenon
  <2> QED
    BY <1>2, <2>1 DEF CopiedOf
<1> HIDE DEF rl, n, len, B
<1>7. Last = {p \in 1 .. len : rl * (n - 1) < p}
  <2>1. PICK m \in Nat : m = rl * n /\ len =< m
    BY <1>5, Zenon
  <2>2. \A p \in 1 .. len : p =< m
    BY <1>2, <2>1
  <2>3. \A p \in 1 .. len : p =< rl * n
    BY <2>1, <2>2, Zenon
  <2>4. Last = {p \in 1 .. len : rl * (n - 1) < p /\ p =< rl * n}
    BY Zenon DEF RunPositions, rl, n, len
  <2> HIDE DEF Last
  <2> QED
    BY <2>3, <2>4, Zenon
<1> HIDE DEF Last
<1>8. ASSUME NEW t \in T
      PROVE  /\ t[1] \in Iters /\ t[2] \in 1 .. len /\ t = <<t[1], t[2]>>
             /\ Start(rl, t[1]) < t[2]
             /\ t[2] =< rl * t[1] \/ (t[1] = n - 1 /\ t[2] \in Last)
  <2>1. /\ t[1] \in Iters /\ t[2] \in 1 .. len /\ t = <<t[1], t[2]>>
        /\ Start(rl, t[1]) < t[2] /\ t[2] =< Start(rl, t[1]) + Copied[t[1]]
    BY DEF Pairs, Iters, n, len
  <2>2. PICK i \in Iters, p \in 1 .. len : i = t[1] /\ p = t[2]
    BY <2>1
  <2>3. i \in 1 .. n
    BY <2>2 DEF Iters, n
  <2>4. p =< Start(rl, i) + Returned(rl, i, iters[i])
    BY <1>6, <2>1, <2>2, Zenon
  <2>5. CASE i = n
    <3>1. PICK m \in Nat : m = rl * n /\ len =< m
      BY <1>5, Zenon
    <3>2. p =< m
      BY <1>2, <3>1
    <3> QED
      BY <2>1, <2>2, <2>5, <3>1, <3>2, Zenon
  <2>6. CASE i = n - 1
    BY <1>2, <1>5, <1>7, <2>1, <2>2, <2>6
  <2>7. CASE i < n - 1
    <3>1. rl * (i + 1) =< rl * (n - 1) /\ rl * (i + 1) \in Nat
      BY <1>2, <2>3, <2>7
    <3>2. rl * (i + 1) =< len
      BY <1>2, <1>5, <3>1
    <3>3. p =< rl * i
      BY <1>2, <2>4, <3>2, StayLemma, Zenon DEF len
    <3> QED
      BY <2>1, <2>2, <3>3, Zenon
  <2> QED
    BY <1>2, <2>3, <2>5, <2>6, <2>7
<1>9. ASSUME NEW p \in 1 .. len
      PROVE  \E t \in T : /\ t[2] = p /\ p =< rl * t[1] /\ Start(rl, t[1]) < p
                          /\ ~(t[1] = n - 1 /\ p \in Last)
  <2>1. PICK i \in Iters : Start(rl, i) < p /\ p =< rl * i /\ <<i, p>> \in T
    BY <1>1, <1>4, AllCopied, Zenon DEF rl, n, len, B
  <2>2. ~(i = n - 1 /\ p \in Last)
    BY <1>2, <1>5, <1>7, <2>1
  <2>3. <<i, p>>[1] = i /\ <<i, p>>[2] = p
    BY Zenon
  <2> HIDE DEF T
  <2> QED
    BY <2>1, <2>2, <2>3, Zenon
<1>10. ASSUME NEW p \in Last PROVE <<n - 1, p>> \in T
  <2>1. p \in 1 .. len /\ rl * (n - 1) < p
    BY <1>7
  <2>2. PICK i \in Iters : i = n - 1
    BY <1>5, Zenon
  <2>3. rl * i < len /\ len =< rl * (i + 1)
    <3>1. i + 1 = n
      BY <1>2, <2>2
    <3> QED
      BY <1>5, <2>2, <3>1, Zenon
  <2>4. len =< Start(rl, i) + Returned(rl, i, iters[i])
    BY <1>1, <1>2, <1>3, <2>3, OverreadLemma, Zenon DEF len
  <2>5. Start(rl, i) \in Nat /\ Start(rl, i) =< rl * i /\ rl * i \in Nat
    BY <1>2, StartLemma DEF Start
  <2>6. Copied[i] = Returned(rl, i, iters[i]) /\ Returned(rl, i, iters[i]) \in Nat
    BY <1>2, <1>6, ZenonT(30) DEF MergedInv
  <2>7. Start(rl, i) < p /\ p =< Start(rl, i) + Copied[i]
    BY <1>2, <2>1, <2>2, <2>4, <2>5, <2>6
  <2> QED
    BY <2>1, <2>2, <2>7, PairLemma, Zenon DEF Iters, n, len
<1> HIDE DEF T
<1>11. ASSUME NEW t \in T, NEW u \in T, t[2] = u[2], t[2] =< rl * t[1], u[2] =< rl * u[1]
       PROVE  t = u
  <2>1. PICK i \in Iters, j \in Iters, p \in 1 .. len :
           i = t[1] /\ j = u[1] /\ p = t[2] /\ t = <<i, p>> /\ u = <<j, p>>
    BY <1>8, <1>11, Zenon
  <2>2. Start(rl, i) < p /\ p =< rl * i /\ Start(rl, j) < p /\ p =< rl * j
    BY <1>8, <1>11, <2>1, Zenon
  <2>3. i \in Nat \ {0} /\ j \in Nat \ {0} /\ p \in Nat
    BY <1>2
  <2>4. i =< j /\ j =< i
    BY <1>2, <2>2, <2>3, OneRunLemma, Zenon
  <2> QED
    BY <2>1, <2>3, <2>4
\* The places of r in the output are the pairs that hold r.
<1>12. IsFiniteSet(All) /\ Cardinality(All) = Cardinality(J)
  <2>1. PICK b \in [1 .. Len(out) -> T] :
           /\ \A j \in 1 .. Len(out) : out[j] = runs[b[j][2]]
           /\ \A j, k \in 1 .. Len(out) : b[j] = b[k] => j = k
           /\ \A t \in T : \E j \in 1 .. Len(out) : b[j] = t
    <3>1. HoldsPairs(runs, T, out)
      BY DoneLemma DEF T, rl, n
    <3> QED
      BY <3>1, ZenonT(60) DEF HoldsPairs
  <2> DEFINE g == [j \in J |-> b[j]]
  <2>2. IsFiniteSet(J)
    <3>1. Len(out) \in Nat
      BY <1>1
    <3>2. IsFiniteSet(1 .. Len(out))
      BY <3>1, FS_Interval
    <3>3. J \in SUBSET (1 .. Len(out))
      BY Zenon
    <3> HIDE DEF J
    <3> QED
      BY <3>2, <3>3, FS_Subset, Zenon
  <2>3. g \in [J -> All]
    BY <2>1, Zenon
  <2>4. \A x, y \in J : g[x] = g[y] => x = y
    BY <2>1, Zenon
  <2>5. ASSUME NEW t \in All PROVE \E x \in J : g[x] = t
    <3>1. PICK j \in 1 .. Len(out) : b[j] = t
      BY <2>1, Zenon
    <3>2. j \in J
      BY <2>1, <3>1, Zenon
    <3> QED
      BY <3>1, <3>2, Zenon
  <2> HIDE DEF g, J, All
  <2> QED
    BY <2>2, <2>3, <2>4, <2>5, SameSize, Zenon
<1>13. IsFiniteSet(Once) /\ IsFiniteSet(Twice)
  <2>1. Once \in SUBSET All /\ Twice \in SUBSET All
    OBVIOUS
  <2> HIDE DEF All, Once, Twice
  <2> QED
    BY <1>12, <2>1, FS_Subset, Zenon
<1>14. Cardinality(P) = Cardinality(Once)
  <2> DEFINE g == [t \in Once |-> t[2]]
  <2>1. g \in [Once -> P]
    BY <1>8, Zenon
  <2>2. ASSUME NEW t \in Once PROVE t \in T /\ t[2] =< rl * t[1]
    BY <1>8, Zenon
  <2>3. \A x, y \in Once : g[x] = g[y] => x = y
    BY <1>11, <2>2, Zenon
  <2>4. ASSUME NEW p \in P PROVE \E x \in Once : g[x] = p
    <3>1. PICK t \in T : t[2] = p /\ ~(t[1] = n - 1 /\ p \in Last)
      BY <1>9, Zenon
    <3>2. t \in Once
      BY <3>1
    <3> QED
      BY <3>1, <3>2, Zenon
  <2> HIDE DEF g, P, Once
  <2> QED
    BY <1>13, <2>1, <2>3, <2>4, SameSize, ZenonT(30)
<1>15. Cardinality(L) = Cardinality(Twice)
  <2> DEFINE g == [t \in Twice |-> t[2]]
  <2>1. g \in [Twice -> L]
    BY Zenon
  <2>2. \A x, y \in Twice : g[x] = g[y] => x = y
    BY <1>8, Zenon
  <2>3. ASSUME NEW p \in L PROVE \E x \in Twice : g[x] = p
    <3>1. <<n - 1, p>> \in T
      BY <1>10
    <3>2. <<n - 1, p>>[1] = n - 1 /\ <<n - 1, p>>[2] = p
      BY Zenon
    <3>3. <<n - 1, p>> \in Twice
      BY <3>1, <3>2, Zenon
    <3> QED
      BY <3>2, <3>3
  <2> HIDE DEF g, L, Twice
  <2> QED
    BY <1>13, <2>1, <2>2, <2>3, SameSize, ZenonT(30)
<1>16. Cardinality(All) = Cardinality(Once) + Cardinality(Twice)
  <2>1. All = Once \cup Twice /\ Once \cap Twice = {}
    BY Zenon
  <2> HIDE DEF All, Once, Twice
  <2>2. Cardinality(Once) \in Nat /\ Cardinality(Twice) \in Nat
    BY <1>13, FS_CardinalityType
  <2> QED
    <3>1. Cardinality(Once \cup Twice)
            = Cardinality(Once) + Cardinality(Twice) - Cardinality(Once \cap Twice)
      BY <1>13, FS_Union
    <3>2. Cardinality(Once \cap Twice) = 0
      BY <2>1, FS_EmptySet, Zenon
    <3> QED
      BY <2>1, <2>2, <3>1, <3>2
<1> HIDE DEF All, Once, Twice, J, P, L
<1>17. Cardinality(J) = Cardinality(P) + Cardinality(L)
  BY <1>12, <1>14, <1>15, <1>16
<1> QED
  BY <1>17 DEF Copies, J, P, L, Last, n, len

\* What merge_runs promises follows from its invariant.
LEMMA MergeInvImplies == MergeInv => MergeSorts
<1> SUFFICES ASSUME MergeInv PROVE MergeSorts
  OBVIOUS
<1>1. TypeOK /\ IteratorsInv /\ ControlInv /\ OutputInv
  BY SMTT(30) DEF MergeInv
<1>2. MergeIsSorted
  BY <1>1, Zenon DEF OutputInv, SortedPrefix, MergeIsSorted
<1>3. OutputBufferFits
  <2>1. buf_size \in Nat /\ Len(outbuf) \in Nat /\ RecordSize \in Nat \ {0}
    BY <1>1, RecordSizeAssumption DEF TypeOK
  <2>2. PICK q \in Nat : q = buf_size \div RecordSize /\ Len(outbuf) =< q
    BY <1>1, <2>1, DivLemma DEF ControlInv, max_number_of_records_in_buffer
  <2>3. q * RecordSize =< buf_size
    BY <2>1, <2>2, DivLemma
  <2>4. RecordSize * Len(outbuf) =< q * RecordSize
    BY <2>1, <2>2
  <2>5. RecordSize * Len(outbuf) \in Nat /\ q * RecordSize \in Nat
    <3>1. \A a, b \in Nat : a * b \in Nat
      OBVIOUS
    <3> QED
      BY <2>1, <3>1, Zenon
  <2> QED
    BY <2>1, <2>3, <2>4, <2>5 DEF OutputBufferFits
<1>4. ComparesInitialisedData
  <2>1. min # 0 => pc \in {"scan", "copy"}
    BY <1>1 DEF ControlInv, TypeOK
  <2> QED
    BY <1>1, <2>1, Zenon DEF ControlInv, Smallest, ComparesInitialisedData
<1> QED
  BY <1>1, <1>2, <1>3, <1>4, StableSortLemma, OverreadCopiesLemma DEF MergeSorts

\* merge_runs, for every file of runs, run length, buffer size and number of runs:
\* sorted runs that cover the file merge into the stable sort of the file, the
\* output is sorted at every moment, the records of the last run are written
\* twice exactly when a short refill takes an iterator into it, the output
\* buffer is not overrun and no uninitialised record is compared.
THEOREM MergeSortsTheorem ==
    ASSUME MergesAssumption
    PROVE  Spec => []MergeSorts
BY MergeInvariance, MergeInvImplies, PTL

=============================================================================
