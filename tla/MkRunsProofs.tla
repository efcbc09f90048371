---------------------------- MODULE MkRunsProofs ----------------------------
(***************************************************************************)
(* Proofs about module MkRuns, for every input and run length.             *)
(*                                                                         *)
(* The records of the input, with an unterminated one at the end if there  *)
(* is one, are the source.  The chunk in memory is the stretch of the      *)
(* source that starts at base, a multiple of run_length.  Every record of  *)
(* the output comes from a position of the source in the same run, and no  *)
(* two come from the same; the records of the chunk that are not written   *)
(* yet are not smaller than those of the chunk that are.                   *)
(***************************************************************************)
EXTENDS MkRuns, FiniteSetTheorems, TLAPS

Source(f, t) == IF t = NULL THEN f ELSE Append(f, t)

Multiple(n, rl) == \E q \in Nat : n = q * rl

CopiesUpTo(s, n, r) == Cardinality({j \in 1 .. n : s[j] = r})

\* b is a one-to-one map of 1 .. n into itself, and record j of o is record b[j]
\* of t.
Permutes(b, n, o, t) ==
    /\ \A j \in 1 .. n : b[j] \in 1 .. n /\ o[j] = t[b[j]]
    /\ \A j, k \in 1 .. n : b[j] = b[k] => j = k

\* The chunk ch, of which pos - base complete records have been read from f, is
\* the stretch of the source that starts at base.
ChunkInv(f, t, rl, pos, ch, base) ==
    LET src == Source(f, t)
    IN  /\ Multiple(base, rl)
        /\ Len(ch) =< rl
        /\ base + Len(ch) =< Len(src)
        /\ \A i \in 1 .. Len(ch) : ch[i] = src[base + i]
        /\ \/ pos = base + Len(ch)
           \/ pos = Len(f) /\ base < pos /\ base + Len(ch) = Len(f) + 1
        /\ \/ ch = << >> /\ base = 0
           \/ Len(ch) = rl /\ base < pos
           \/ base < pos /\ pos = Len(f) /\ base + Len(ch) = Len(src)

SameRun(rl, p, q) == (p - 1) \div rl = (q - 1) \div rl

\* The records of the output o are those of different positions of the source,
\* each in its run, and of none of the indices unw of the chunk at base.
TakenInv(src, rl, unw, base, e, o) ==
    \E b \in [1 .. Len(o) -> 1 .. e] :
        /\ \A j \in 1 .. Len(o) : o[j] = src[b[j]] /\ SameRun(rl, b[j], j)
        /\ \A j, k \in 1 .. Len(o) : b[j] = b[k] => j = k
        /\ \A j \in 1 .. Len(o) : b[j] - base \notin unw

\* Every run of the output is sorted, the one that is being written too, and the
\* records of the chunk ch that are not written are not smaller than those.
OrderInv(rl, ch, unw, base, o) ==
    /\ \A p, q \in 1 .. Len(o) : p < q /\ SameRun(rl, p, q) => Key[o[p]] =< Key[o[q]]
    /\ \A j \in 1 .. Len(o), i \in unw : base < j => Key[o[j]] =< Key[ch[i]]

\* What holds for a chunk that starts at base.
RunsInv(base) ==
    /\ ChunkInv(input, tail, mk_run_length, in_pos, chunk, base)
    /\ Len(mk_out) + Cardinality(unwritten) = base + Len(chunk)
    /\ TakenInv(Source(input, tail), mk_run_length, unwritten, base, base + Len(chunk), mk_out)
    /\ OrderInv(mk_run_length, chunk, unwritten, base, mk_out)
    /\ reading /\ unwritten = {} => Len(chunk) = mk_run_length \/ chunk = << >>
    /\ ~reading => unwritten = {} /\ TailKeptUnlessAlone

\* A call of mk_runs that starts.
Started ==
    /\ input \in Seq(Record) /\ tail \in Record \cup {NULL} /\ mk_run_length \in Nat \ {0}
    /\ in_pos = 0 /\ reading = TRUE /\ chunk = << >> /\ unwritten = {} /\ mk_out = << >>

\* The records that mk_runs keeps of an input f with an unterminated record t.
KeptOf(f, t, rl) == IF t # NULL /\ Len(f) % rl # 0 THEN Append(f, t) ELSE f

\* What mk_runs has written when it returns.
Result ==
    /\ mk_out \in Seq(Record)
    /\ RunsAreSorted
    /\ Len(mk_out) = Len(KeptOf(input, tail, mk_run_length))
    /\ \A r \in Record : MkCopies(mk_out, r) = MkCopies(KeptOf(input, tail, mk_run_length), r)

\* The inductive invariant.
MkInv == MkTypeOK /\ \E base \in Nat : RunsInv(base)

\* Quotient and remainder.
LEMMA DivLemma ==
    ASSUME NEW a \in Nat, NEW b \in Nat \ {0}
    PROVE  /\ a \div b \in Nat
           /\ a % b \in 0 .. b - 1
           /\ a = (a \div b) * b + (a % b)
OBVIOUS

\* They are the only ones.
LEMMA ModLemma ==
    ASSUME NEW a \in Nat, NEW b \in Nat \ {0}, NEW q \in Nat, NEW r \in 0 .. b - 1, a = q * b + r
    PROVE  a % b = r /\ a \div b = q
OBVIOUS

\* Appending a record, as fwrite does.
LEMMA AppendFacts ==
    ASSUME NEW S, NEW q \in Seq(S), NEW e \in S
    PROVE  /\ Append(q, e) \in Seq(S)
           /\ Append(q, e) # << >>
           /\ Len(Append(q, e)) = Len(q) + 1
           /\ \A i \in 1 .. Len(q) : Append(q, e)[i] = q[i]
           /\ Append(q, e)[Len(q) + 1] = e
<1>1. /\ Append(q, e) \in Seq(S)
      /\ Len(Append(q, e)) = Len(q) + 1
      /\ \A i \in 1 .. Len(q) : Append(q, e)[i] = q[i]
      /\ Append(q, e)[Len(q) + 1] = e
  OBVIOUS
<1>2. Append(q, e) # << >>
  BY <1>1
<1> QED
  BY <1>1, <1>2

\* Writing one stretch of records after another.
LEMMA ConcatFacts ==
    ASSUME NEW S, NEW q \in Seq(S), NEW u \in Seq(S)
    PROVE  /\ q \o u \in Seq(S)
           /\ Len(q \o u) = Len(q) + Len(u)
           /\ \A i \in 1 .. Len(q) + Len(u) :
                 (q \o u)[i] = IF i =< Len(q) THEN q[i] ELSE u[i - Len(q)]
OBVIOUS

\* Writing nothing.
LEMMA ConcatEmpty ==
    ASSUME NEW S, NEW q \in Seq(S)
    PROVE  q \o << >> = q /\ << >> \o q = q
OBVIOUS

\* An empty file.
LEMMA EmptyFacts ==
    ASSUME NEW S
    PROVE  /\ << >> \in Seq(S)
           /\ Len(<< >>) = 0
           /\ \A q \in Seq(S) : q # << >> => Len(q) \in Nat \ {0}
<1>1. ASSUME NEW q \in Seq(S), Len(q) = 0 PROVE q = << >>
  BY <1>1
<1> QED
  BY <1>1

\* A stretch of a file.
LEMMA SubSeqFacts ==
    ASSUME NEW S, NEW s, NEW m \in Int, NEW n \in Int, \A i \in m .. n : s[i] \in S
    PROVE  /\ SubSeq(s, m, n) \in Seq(S)
           /\ Len(SubSeq(s, m, n)) = IF m <= n THEN n - m + 1 ELSE 0
           /\ \A i \in 1 .. n - m + 1 : SubSeq(s, m, n)[i] = s[m + i - 1]
OBVIOUS

\* The records that a read of got records at position pos returns.
LEMMA StretchLemma ==
    ASSUME NEW f \in Seq(Record), NEW pos \in Nat, NEW got \in Nat,
           got > 0 => pos + got =< Len(f)
    PROVE  /\ SubSeq(f, pos + 1, pos + got) \in Seq(Record)
           /\ Len(SubSeq(f, pos + 1, pos + got)) = got
           /\ \A j \in 1 .. got : SubSeq(f, pos + 1, pos + got)[j] = f[pos + j]
<1> Len(f) \in Nat
  OBVIOUS
<1>1. CASE got = 0
  BY <1>1
<1>2. CASE got > 0
  <2>1. pos + 1 \in Int /\ pos + got \in Int /\ pos + 1 =< pos + got /\ pos + got =< Len(f)
    BY <1>2
  <2>2. \A i \in pos + 1 .. pos + got : f[i] \in Record
    BY <2>1
  <2>3. /\ SubSeq(f, pos + 1, pos + got) \in Seq(Record)
        /\ Len(SubSeq(f, pos + 1, pos + got)) = (pos + got) - (pos + 1) + 1
        /\ \A i \in 1 .. (pos + got) - (pos + 1) + 1 :
              SubSeq(f, pos + 1, pos + got)[i] = f[(pos + 1) + i - 1]
    BY <2>1, <2>2, SubSeqFacts
  <2>4. /\ (pos + got) - (pos + 1) + 1 = got
        /\ \A i \in 1 .. got : (pos + 1) + i - 1 = pos + i
    OBVIOUS
  <2> QED
    BY <2>3, <2>4, Zenon
<1>3. got = 0 \/ got > 0
  OBVIOUS
<1> QED
  BY <1>1, <1>2, <1>3, Zenon

\* A one-to-one correspondence keeps the number of elements.
LEMMA SameSize ==
    ASSUME NEW S, NEW T, IsFiniteSet(S), NEW g \in [S -> T],
           \A x, y \in S : g[x] = g[y] => x = y,
           \A t \in T : \E x \in S : g[x] = t
    PROVE  IsFiniteSet(T) /\ Cardinality(T) = Cardinality(S)
<1>1. g \in Bijection(S, T)
  BY DEF Bijection, Injection, Surjection, IsInjective
<1>2. ExistsBijection(S, T)
  BY <1>1 DEF ExistsBijection
<1> QED
  BY <1>2, FS_Bijection

-----------------------------------------------------------------------------
\* The source is the input and, behind it, the unterminated record.
LEMMA SourceLemma ==
    ASSUME NEW f \in Seq(Record), NEW t \in Record \cup {NULL}
    PROVE  LET src == Source(f, t)
           IN  /\ src \in Seq(Record)
               /\ Len(src) = IF t = NULL THEN Len(f) ELSE Len(f) + 1
               /\ Len(f) \in Nat /\ Len(src) \in Nat
               /\ \A p \in 1 .. Len(f) : src[p] = f[p]
               /\ t # NULL => src[Len(f) + 1] = t
<1>1. CASE t = NULL
  BY <1>1 DEF Source
<1>2. CASE t # NULL
  BY <1>2, AppendFacts DEF Source
<1> QED
  BY <1>1, <1>2

\* The positions of a run have the same quotient.
LEMMA InRunLemma ==
    ASSUME NEW rl \in Nat \ {0}, NEW base \in Nat, Multiple(base, rl),
           NEW p \in base + 1 .. base + rl, NEW q \in base + 1 .. base + rl
    PROVE  SameRun(rl, p, q)
<1>1. PICK c \in Nat : base = c * rl
  BY DEF Multiple
<1>2. ASSUME NEW n \in base + 1 .. base + rl
      PROVE  (n - 1) \div rl = c
  <2>1. n - 1 \in Nat /\ n - 1 - base \in 0 .. rl - 1 /\ n - 1 = c * rl + (n - 1 - base)
    BY <1>1
  <2> QED
    BY <2>1, ModLemma
<1> QED
  BY <1>2 DEF SameRun

\* A position in the run of one that follows the start of a run follows it too.
LEMMA LaterRunLemma ==
    ASSUME NEW rl \in Nat \ {0}, NEW base \in Nat, Multiple(base, rl),
           NEW p \in Nat \ {0}, NEW r \in Nat \ {0}, SameRun(rl, p, r), base < r
    PROVE  base < p
<1> DEFINE a == (p - 1) \div rl
           c == (r - 1) \div rl
<1>1. p - 1 \in Nat /\ r - 1 \in Nat
  OBVIOUS
<1>2. /\ a \in Nat /\ c \in Nat
      /\ (p - 1) % rl \in 0 .. rl - 1 /\ (r - 1) % rl \in 0 .. rl - 1
      /\ p - 1 = a * rl + ((p - 1) % rl) /\ r - 1 = c * rl + ((r - 1) % rl)
  BY <1>1, DivLemma
<1>3. a = c
  BY DEF SameRun
<1> HIDE DEF a, c
<1>4. PICK q \in Nat : base = q * rl
  BY DEF Multiple
<1>5. q =< c
  <2> SUFFICES ASSUME c + 1 =< q PROVE FALSE
    BY <1>2
  <2>1. (c + 1) * rl =< q * rl
    BY <1>2
  <2>2. (c + 1) * rl = c * rl + rl /\ c * rl \in Nat
    BY <1>2
  <2> QED
    BY <1>2, <1>4, <2>1, <2>2
<1>6. q * rl =< a * rl /\ a * rl \in Nat
  BY <1>2, <1>3, <1>5
<1> QED
  BY <1>2, <1>4, <1>6

\* What a number has over a multiple.
LEMMA RestLemma ==
    ASSUME NEW rl \in Nat \ {0}, NEW base \in Nat, Multiple(base, rl), NEW d \in 0 .. rl - 1
    PROVE  (base + d) % rl = d
<1>1. PICK q \in Nat : base = q * rl
  BY DEF Multiple
<1>2. base + d \in Nat /\ base + d = q * rl + d
  BY <1>1
<1> QED
  BY <1>2, ModLemma

\* The end of a run is the start of the next.
LEMMA MultipleLemma ==
    ASSUME NEW rl \in Nat \ {0}
    PROVE  /\ Multiple(0, rl)
           /\ \A base \in Nat : Multiple(base, rl) => Multiple(base + rl, rl)
<1>1. 0 = 0 * rl
  OBVIOUS
<1>2. ASSUME NEW base \in Nat, NEW q \in Nat, base = q * rl
      PROVE  q + 1 \in Nat /\ base + rl = (q + 1) * rl
  BY <1>2
<1> QED
  BY <1>1, <1>2 DEF Multiple

\* mk_runs starts with the invariant.
LEMMA StartedLemma == Started => MkInv
<1> SUFFICES ASSUME Started PROVE MkInv
  OBVIOUS
<1>1. /\ input \in Seq(Record) /\ tail \in Record \cup {NULL} /\ mk_run_length \in Nat \ {0}
      /\ in_pos = 0 /\ reading = TRUE /\ chunk = << >> /\ unwritten = {} /\ mk_out = << >>
  BY DEF Started
<1>2. MkTypeOK
  BY <1>1 DEF MkTypeOK
<1> DEFINE src == Source(input, tail)
<1>3. Len(src) \in Nat /\ Len(input) \in Nat
  BY <1>1, SourceLemma
<1> HIDE DEF src
<1>4. ChunkInv(input, tail, mk_run_length, in_pos, chunk, 0)
  <2>1. Multiple(0, mk_run_length)
    BY <1>1, MultipleLemma
  <2> QED
    BY <1>1, <1>3, <2>1 DEF ChunkInv, src
<1>5. Len(mk_out) = 0 /\ Len(chunk) = 0 /\ Cardinality(unwritten) = 0 /\ 1 .. Len(mk_out) = {}
  BY <1>1, FS_EmptySet
<1>6. TakenInv(src, mk_run_length, unwritten, 0, 0 + Len(chunk), mk_out)
  <2>1. << >> \in [1 .. Len(mk_out) -> 1 .. 0 + Len(chunk)]
    BY <1>5
  <2> QED
    BY <1>5, <2>1 DEF TakenInv
<1>7. OrderInv(mk_run_length, chunk, unwritten, 0, mk_out)
  BY <1>5 DEF OrderInv
<1>8. RunsInv(0)
  BY <1>1, <1>4, <1>5, <1>6, <1>7 DEF RunsInv, src
<1> QED
  BY <1>2, <1>8 DEF MkInv

\* So does every call.
LEMMA MkStarts ==
    ASSUME MkCallsAssumption, MkInit
    PROVE  MkInv
<1>1. Started
  BY DEF Started, MkCallsAssumption, MkInit
<1> QED
  BY <1>1, StartedLemma

\* The last chunk: the source ends with the chunk, and what is left of the input
\* over whole runs is the complete records of the chunk.
LEMMA LastChunkLemma ==
    ASSUME MkTypeOK, NEW base \in Nat, ChunkInv(input, tail, mk_run_length, in_pos, chunk, base),
           in_pos = Len(input),
           Len(chunk) = mk_run_length \/ chunk = << >> \/ base + Len(chunk) = Len(Source(input, tail))
    PROVE  base + Len(chunk) = Len(input) + (IF tail # NULL /\ Len(input) % mk_run_length # 0 THEN 1 ELSE 0)
<1> DEFINE src == Source(input, tail)
<1>1. /\ Len(src) \in Nat /\ Len(input) \in Nat /\ Len(chunk) \in Nat /\ mk_run_length \in Nat \ {0}
      /\ Len(src) = IF tail = NULL THEN Len(input) ELSE Len(input) + 1
      /\ chunk = << >> <=> Len(chunk) = 0
  BY SourceLemma, EmptyFacts DEF MkTypeOK
<1> HIDE DEF src
<1>2. Multiple(base, mk_run_length)
  BY DEF ChunkInv
<1>3. /\ Len(chunk) =< mk_run_length
      /\ base + Len(chunk) =< Len(src)
      /\ \/ in_pos = base + Len(chunk)
         \/ base < in_pos /\ base + Len(chunk) = Len(input) + 1
      /\ \/ Len(chunk) = 0 /\ base = 0
         \/ Len(chunk) = mk_run_length /\ base < in_pos
         \/ base < in_pos /\ base + Len(chunk) = Len(src)
      /\ Len(chunk) = mk_run_length \/ Len(chunk) = 0 \/ base + Len(chunk) = Len(src)
  BY <1>1 DEF ChunkInv, src
<1>4. CASE base + Len(chunk) = Len(input) + 1 /\ base < Len(input)
  <2>1. tail # NULL
    BY <1>1, <1>3, <1>4
  <2>2. PICK n \in Nat, m \in Nat : n = Len(chunk) /\ m = Len(input)
    BY <1>1
  <2>3. PICK d \in 0 .. mk_run_length - 1 : d # 0 /\ Len(input) = base + d
    <3>1. n =< mk_run_length /\ base + n = m + 1 /\ base < m
      BY <1>3, <1>4, <2>2
    <3>2. n - 1 \in 0 .. mk_run_length - 1 /\ n - 1 # 0 /\ m = base + (n - 1)
      BY <1>1, <3>1
    <3> QED
      BY <2>2, <3>2
  <2>4. Len(input) % mk_run_length # 0
    BY <1>1, <1>2, <2>3, RestLemma
  <2> QED
    BY <1>1, <1>4, <2>1, <2>4
<1>5. CASE Len(input) = base + Len(chunk)
  <2>1. CASE tail = NULL
    BY <1>1, <1>5, <2>1
  <2>2. CASE tail # NULL
    <3>1. Len(chunk) = mk_run_length \/ (Len(chunk) = 0 /\ base = 0)
      BY <1>1, <1>3, <1>5, <2>2
    <3>2. Multiple(Len(input), mk_run_length)
      <4>1. \/ Len(input) = base + mk_run_length
            \/ Len(input) = 0
        BY <1>1, <1>5, <3>1
      <4>2. Multiple(base + mk_run_length, mk_run_length) /\ Multiple(0, mk_run_length)
        BY <1>1, <1>2, MultipleLemma
      <4> QED
        BY <4>1, <4>2
    <3>3. Len(input) % mk_run_length = 0
      <4>1. 0 \in 0 .. mk_run_length - 1 /\ Len(input) = Len(input) + 0
        BY <1>1
      <4> QED
        BY <1>1, <3>2, <4>1, RestLemma
    <3> QED
      BY <1>1, <1>5, <3>3
  <2> QED
    BY <2>1, <2>2
<1> QED
  BY <1>1, <1>3, <1>4, <1>5

\* What a read that delivers records puts into the buffer: the next stretch of the
\* source, which starts where the last chunk ended, and the unterminated record only
\* behind the last complete one.
LEMMA ReadLemma ==
    ASSUME MkTypeOK, NEW base \in Nat, ChunkInv(input, tail, mk_run_length, in_pos, chunk, base),
           Len(chunk) = mk_run_length \/ chunk = << >>, RecordsRead # 0
    PROVE  /\ in_pos = base + Len(chunk)
           /\ BufferedRecords \in Seq(Record)
           /\ Len(BufferedRecords) \in Nat \ {0}
           /\ AfterRead \in 0 .. Len(input)
           /\ ChunkInv(input, tail, mk_run_length, AfterRead, BufferedRecords, in_pos)
<1> DEFINE src == Source(input, tail)
           n == RecordsRead
           s == SubSeq(input, in_pos + 1, in_pos + n)
           ch == BufferedRecords
<1>1. /\ Len(input) \in Nat /\ Len(chunk) \in Nat /\ mk_run_length \in Nat \ {0}
      /\ chunk = << >> <=> Len(chunk) = 0
      /\ in_pos \in Nat /\ input \in Seq(Record) /\ tail \in Record \cup {NULL}
  BY EmptyFacts DEF MkTypeOK
<1>2. /\ Len(src) \in Nat
      /\ Len(src) = IF tail = NULL THEN Len(input) ELSE Len(input) + 1
      /\ \A p \in 1 .. Len(input) : src[p] = input[p]
      /\ tail # NULL => src[Len(input) + 1] = tail
  BY <1>1, SourceLemma, Zenon
<1>3. /\ n \in Nat \ {0} /\ n =< mk_run_length /\ in_pos + n =< Len(input)
      /\ n < mk_run_length => in_pos + n = Len(input)
      /\ AfterRead = in_pos + n
  BY <1>1 DEF RecordsRead, FreadCount, AfterRead
<1>4. /\ s \in Seq(Record) /\ Len(s) = n
      /\ \A i \in 1 .. n : s[i] = input[in_pos + i]
  <2>1. input \in Seq(Record) /\ in_pos \in Nat /\ n \in Nat /\ in_pos + n =< Len(input)
    BY <1>1, <1>3
  <2> HIDE DEF n
  <2> QED
    BY <2>1, StretchLemma, Zenon
<1>5. in_pos = base + Len(chunk)
  BY <1>1, <1>2, <1>3 DEF ChunkInv
<1>6. Multiple(in_pos, mk_run_length)
  <2>1. Multiple(base, mk_run_length)
    BY DEF ChunkInv
  <2>2. Multiple(base + mk_run_length, mk_run_length)
    BY <1>1, <2>1, MultipleLemma
  <2>3. in_pos = base + mk_run_length \/ in_pos = base
    BY <1>1, <1>5
  <2> QED
    BY <2>1, <2>2, <2>3
<1> HIDE DEF n, s, src
<1>7. CASE n < mk_run_length /\ tail # NULL
  <2>1. ch = s \o <<tail>>
    BY <1>7 DEF BufferedRecords, s, n
  <2>2. tail \in Record
    BY <1>7 DEF MkTypeOK
  <2>3. /\ ch \in Seq(Record) /\ Len(ch) = n + 1
        /\ \A i \in 1 .. n : ch[i] = s[i]
        /\ ch[n + 1] = tail
    <3>1. <<tail>> \in Seq(Record) /\ Len(<<tail>>) = 1 /\ <<tail>>[1] = tail
      BY <2>2
    <3> QED
      BY <1>3, <1>4, <2>1, <3>1, ConcatFacts
  <2> HIDE DEF ch
  <2>4. in_pos + n = Len(input) /\ in_pos + n + 1 = Len(src)
    BY <1>1, <1>2, <1>3, <1>7
  <2>5. \A i \in 1 .. Len(ch) : ch[i] = src[in_pos + i]
    <3> TAKE i \in 1 .. Len(ch)
    <3>1. CASE i \in 1 .. n
      <4>1. in_pos + i \in 1 .. Len(input)
        BY <1>1, <1>2, <1>3, <3>1
      <4> QED
        BY <1>1, <1>2, <1>4, <2>3, <3>1, <4>1
    <3>2. CASE i = n + 1
      BY <1>1, <1>2, <1>3, <1>7, <2>3, <2>4, <3>2
    <3> QED
      BY <1>3, <2>3, <3>1, <3>2
  <2>6. ChunkInv(input, tail, mk_run_length, AfterRead, ch, in_pos)
    BY <1>1, <1>2, <1>3, <1>6, <1>7, <2>3, <2>4, <2>5 DEF ChunkInv, src
  <2> QED
    BY <1>1, <1>2, <1>3, <1>5, <2>3, <2>6 DEF ch
<1>8. CASE ~ (n < mk_run_length /\ tail # NULL)
  <2>1. ch = s
    <3>1. ch = s \o << >>
      BY <1>8, Zenon DEF BufferedRecords, s, n
    <3> QED
      BY <1>4, <3>1, ConcatEmpty
  <2> HIDE DEF ch
  <2>2. \A i \in 1 .. Len(ch) : ch[i] = src[in_pos + i]
    <3> TAKE i \in 1 .. Len(ch)
    <3>1. in_pos + i \in 1 .. Len(input) /\ i \in 1 .. n
      BY <1>1, <1>2, <1>3, <1>4, <2>1
    <3> QED
      BY <1>1, <1>2, <1>4, <2>1, <3>1
  <2>3. \/ Len(ch) = mk_run_length
        \/ in_pos + n = Len(input) /\ in_pos + Len(ch) = Len(src)
    BY <1>1, <1>2, <1>3, <1>4, <1>8, <2>1
  <2>4. /\ Len(ch) =< mk_run_length
        /\ in_pos + Len(ch) =< Len(src)
        /\ AfterRead = in_pos + Len(ch)
        /\ in_pos < AfterRead
    <3>1. Len(ch) = n
      BY <1>4, <2>1
    <3>2. Len(input) =< Len(src)
      BY <1>1, <1>2
    <3> QED
      BY <1>1, <1>3, <1>2, <3>1, <3>2
  <2>5. ChunkInv(input, tail, mk_run_length, AfterRead, ch, in_pos)
    BY <1>3, <1>6, <2>2, <2>3, <2>4 DEF ChunkInv, src
  <2> QED
    BY <1>1, <1>2, <1>3, <1>4, <1>5, <2>1, <2>5 DEF ch
<1> QED
  BY <1>7, <1>8

\* The read of the next chunk.
LEMMA ReadChunkStep ==
    ASSUME MkInv, ReadChunk
    PROVE  MkInv'
<1> USE DEF MkInv
<1>1. PICK base \in Nat : RunsInv(base)
  OBVIOUS
<1> DEFINE src == Source(input, tail)
<1>2. /\ ChunkInv(input, tail, mk_run_length, in_pos, chunk, base)
      /\ Len(mk_out) = base + Len(chunk)
      /\ TakenInv(src, mk_run_length, {}, base, base + Len(chunk), mk_out)
      /\ OrderInv(mk_run_length, chunk, {}, base, mk_out)
      /\ Len(chunk) = mk_run_length \/ chunk = << >>
      /\ unwritten = {} /\ reading
  <2>1. Len(mk_out) \in Nat /\ Len(chunk) \in Nat /\ Cardinality({}) = 0
    BY FS_EmptySet DEF MkTypeOK
  <2> QED
    BY <1>1, <2>1 DEF RunsInv, ReadChunk
<1>3. /\ UNCHANGED <<input, tail, mk_run_length, mk_out>>
      /\ Len(mk_out) \in Nat /\ Len(chunk) \in Nat /\ Len(input) \in Nat
  BY DEF ReadChunk, mkParams, MkTypeOK
<1>4. CASE RecordsRead = 0
  <2>1. UNCHANGED <<in_pos, chunk, unwritten>> /\ reading' = FALSE
    BY <1>4 DEF ReadChunk
  <2>2. in_pos = Len(input)
    BY <1>4 DEF RecordsRead, FreadCount, MkTypeOK
  <2>3. Len(mk_out) = Len(input) + (IF tail # NULL /\ Len(input) % mk_run_length # 0 THEN 1 ELSE 0)
    BY <1>2, <2>2, LastChunkLemma
  <2>4. TailKeptUnlessAlone'
    BY <1>3, <2>1, <2>2, <2>3 DEF TailKeptUnlessAlone
  <2>5. MkTypeOK'
    BY <1>3, <2>1 DEF MkTypeOK
  <2>6. RunsInv(base)'
    BY <1>1, <1>2, <1>3, <2>1, <2>4 DEF RunsInv
  <2> QED
    BY <2>5, <2>6
<1>5. CASE RecordsRead # 0
  <2> DEFINE ch == BufferedRecords
  <2>1. chunk' = ch /\ unwritten' = 1 .. Len(ch) /\ in_pos' = AfterRead /\ reading' = reading
    BY <1>5 DEF ReadChunk
  <2>2. /\ in_pos = base + Len(chunk) /\ ch \in Seq(Record) /\ Len(ch) \in Nat \ {0}
        /\ AfterRead \in 0 .. Len(input)
        /\ ChunkInv(input, tail, mk_run_length, AfterRead, ch, in_pos)
    BY <1>2, <1>5, ReadLemma
  <2> HIDE DEF ch, src
  <2>3. MkTypeOK'
    BY <1>3, <2>1, <2>2 DEF MkTypeOK
  <2>4. Cardinality(1 .. Len(ch)) = Len(ch) /\ 1 \in 1 .. Len(ch)
    <3>1. 1 \in Int /\ Len(ch) \in Int /\ 1 \in 1 .. Len(ch) /\ Len(ch) - 1 + 1 = Len(ch) /\ 1 =< Len(ch)
      BY <2>2
    <3>2. Cardinality(1 .. Len(ch)) = IF 1 > Len(ch) THEN 0 ELSE Len(ch) - 1 + 1
      BY <3>1, FS_Interval
    <3> QED
      BY <3>1, <3>2
  <2>5. TakenInv(src, mk_run_length, 1 .. Len(ch), in_pos, in_pos + Len(ch), mk_out)
    <3>1. PICK b \in [1 .. Len(mk_out) -> 1 .. base + Len(chunk)] :
             /\ \A j \in 1 .. Len(mk_out) : mk_out[j] = src[b[j]] /\ SameRun(mk_run_length, b[j], j)
             /\ \A j, k \in 1 .. Len(mk_out) : b[j] = b[k] => j = k
      BY <1>2 DEF TakenInv
    <3>2. \A j \in 1 .. Len(mk_out) : b[j] \in 1 .. in_pos
      BY <2>2, <3>1
    <3>3. \A j \in 1 .. Len(mk_out) : b[j] \in 1 .. in_pos + Len(ch) /\ b[j] - in_pos \notin 1 .. Len(ch)
      BY <1>3, <2>2, <3>2
    <3>4. b \in [1 .. Len(mk_out) -> 1 .. in_pos + Len(ch)]
      BY <3>3
    <3> QED
      BY <3>1, <3>3, <3>4 DEF TakenInv
  <2>6. OrderInv(mk_run_length, ch, 1 .. Len(ch), in_pos, mk_out)
    <3>1. \A j \in 1 .. Len(mk_out) : ~ (in_pos < j)
      BY <1>2, <1>3, <2>2
    <3> QED
      BY <1>2, <3>1 DEF OrderInv
  <2>7. PICK n \in Nat : n = in_pos
    BY DEF MkTypeOK
  <2>8. Len(mk_out) + Cardinality(1 .. Len(ch)) = in_pos + Len(ch)
    BY <1>2, <1>3, <2>2, <2>4
  <2>9. RunsInv(n)'
    BY <1>2, <1>3, <2>1, <2>2, <2>4, <2>5, <2>6, <2>7, <2>8 DEF RunsInv, src
  <2> QED
    BY <2>3, <2>9
<1> QED
  BY <1>4, <1>5

\* A record of the chunk that is written comes from a position of its own.
LEMMA TakenStep ==
    ASSUME NEW src, NEW rl \in Nat \ {0}, NEW n \in Nat, NEW unw \in SUBSET (1 .. n),
           NEW base \in Nat, NEW o \in Seq(Record), NEW i \in unw, NEW r \in Record,
           r = src[base + i], SameRun(rl, base + i, Len(o) + 1),
           TakenInv(src, rl, unw, base, base + n, o)
    PROVE  TakenInv(src, rl, unw \ {i}, base, base + n, Append(o, r))
<1>1. PICK b \in [1 .. Len(o) -> 1 .. base + n] :
         /\ \A j \in 1 .. Len(o) : o[j] = src[b[j]] /\ SameRun(rl, b[j], j)
         /\ \A j, k \in 1 .. Len(o) : b[j] = b[k] => j = k
         /\ \A j \in 1 .. Len(o) : b[j] - base \notin unw
  BY DEF TakenInv
<1>2. /\ Len(o) \in Nat /\ Len(Append(o, r)) = Len(o) + 1
      /\ \A j \in 1 .. Len(o) : Append(o, r)[j] = o[j]
      /\ Append(o, r)[Len(o) + 1] = r
      /\ 1 .. Len(o) + 1 = 1 .. Len(o) \cup {Len(o) + 1}
  BY AppendFacts
<1>3. i \in 1 .. n /\ base + i \in 1 .. base + n /\ base + i - base = i
  OBVIOUS
<1> DEFINE c == [j \in 1 .. Len(o) + 1 |-> IF j = Len(o) + 1 THEN base + i ELSE b[j]]
<1>4. /\ c \in [1 .. Len(o) + 1 -> 1 .. base + n]
      /\ c[Len(o) + 1] = base + i
      /\ \A j \in 1 .. Len(o) : c[j] = b[j] /\ j # Len(o) + 1
  BY <1>2, <1>3
<1> HIDE DEF c
<1>5. \A j \in 1 .. Len(o) : b[j] # base + i
  BY <1>1, <1>3
<1>6. \A j \in 1 .. Len(o) + 1 : Append(o, r)[j] = src[c[j]] /\ SameRun(rl, c[j], j)
  BY <1>1, <1>2, <1>4
<1>7. ASSUME NEW j \in 1 .. Len(o) + 1, NEW k \in 1 .. Len(o) + 1, c[j] = c[k] PROVE j = k
  <2>1. \A m \in 1 .. Len(o) + 1 : m = Len(o) + 1 \/ m \in 1 .. Len(o)
    BY <1>2
  <2>2. CASE j = Len(o) + 1 \/ k = Len(o) + 1
    BY <1>4, <1>5, <1>7, <2>1, <2>2, Zenon
  <2>3. CASE j \in 1 .. Len(o) /\ k \in 1 .. Len(o)
    BY <1>1, <1>4, <1>7, <2>3, Zenon
  <2> QED
    BY <2>1, <2>2, <2>3
<1>8. \A j \in 1 .. Len(o) + 1 : c[j] - base \notin unw \ {i}
  BY <1>1, <1>2, <1>3, <1>4
<1> DEFINE o2 == Append(o, r)
           u2 == unw \ {i}
<1>9. /\ c \in [1 .. Len(o2) -> 1 .. base + n]
      /\ \A j \in 1 .. Len(o2) : o2[j] = src[c[j]] /\ SameRun(rl, c[j], j)
      /\ \A j, k \in 1 .. Len(o2) : c[j] = c[k] => j = k
      /\ \A j \in 1 .. Len(o2) : c[j] - base \notin u2
  BY <1>2, <1>4, <1>6, <1>7, <1>8
<1> HIDE DEF o2, u2
<1>10. TakenInv(src, rl, u2, base, base + n, o2)
  BY <1>9, Zenon DEF TakenInv
<1> QED
  BY <1>10 DEF o2, u2

\* A first record of those that are not written follows the others of its run.
LEMMA OrderStep ==
    ASSUME NEW rl \in Nat \ {0}, NEW ch \in Seq(Record), NEW unw \in SUBSET (1 .. Len(ch)),
           NEW base \in Nat, Multiple(base, rl), NEW o \in Seq(Record), base =< Len(o),
           NEW i \in unw, \A j \in unw : Key[ch[i]] =< Key[ch[j]],
           OrderInv(rl, ch, unw, base, o)
    PROVE  OrderInv(rl, ch, unw \ {i}, base, Append(o, ch[i]))
<1>1. ch[i] \in Record
  OBVIOUS
<1>2. /\ Len(o) \in Nat /\ Len(Append(o, ch[i])) = Len(o) + 1
      /\ \A j \in 1 .. Len(o) : Append(o, ch[i])[j] = o[j]
      /\ Append(o, ch[i])[Len(o) + 1] = ch[i]
  BY <1>1, AppendFacts
<1> DEFINE o2 == Append(o, ch[i])
<1> HIDE DEF o2
<1>3. ASSUME NEW p \in 1 .. Len(o) + 1, NEW q \in 1 .. Len(o) + 1, p < q, SameRun(rl, p, q)
      PROVE  Key[o2[p]] =< Key[o2[q]]
  <2>1. p \in 1 .. Len(o) /\ o2[p] = o[p]
    BY <1>2, <1>3 DEF o2
  <2>2. CASE q \in 1 .. Len(o)
    BY <1>2, <1>3, <2>1, <2>2 DEF o2, OrderInv
  <2>3. CASE q = Len(o) + 1
    <3>1. base < q /\ p \in Nat \ {0} /\ q \in Nat \ {0}
      BY <1>2, <2>3
    <3>2. base < p
      BY <1>3, <3>1, LaterRunLemma
    <3> QED
      BY <1>2, <2>1, <2>3, <3>2 DEF o2, OrderInv
  <2> QED
    BY <1>2, <2>2, <2>3, SMTT(30)
<1>4. ASSUME NEW j \in 1 .. Len(o) + 1, NEW k \in unw, base < j
      PROVE  Key[o2[j]] =< Key[ch[k]]
  <2>1. CASE j \in 1 .. Len(o)
    BY <1>2, <1>4, <2>1 DEF o2, OrderInv
  <2>2. CASE j = Len(o) + 1
    BY <1>2, <2>2 DEF o2
  <2> QED
    BY <1>2, <2>1, <2>2
<1> QED
  BY <1>2, <1>3, <1>4 DEF o2, OrderInv

\* A turn of the loop that writes the sorted chunk.
LEMMA WriteRecordStep ==
    ASSUME MkInv, WriteRecord
    PROVE  MkInv'
<1> USE DEF MkInv
<1>1. PICK base \in Nat : RunsInv(base)
  OBVIOUS
<1>2. PICK i \in unwritten : /\ IsFirst(i)
                             /\ mk_out' = Append(mk_out, chunk[i])
                             /\ unwritten' = unwritten \ {i}
  BY DEF WriteRecord
<1>3. /\ reading' = (unwritten' # {} \/ Len(chunk) = mk_run_length)
      /\ UNCHANGED <<input, tail, mk_run_length, in_pos, chunk>>
  BY DEF WriteRecord, mkParams
<1> DEFINE src == Source(input, tail)
           c == Cardinality(unwritten)
<1>4. /\ ChunkInv(input, tail, mk_run_length, in_pos, chunk, base)
      /\ Len(mk_out) + c = base + Len(chunk)
      /\ TakenInv(src, mk_run_length, unwritten, base, base + Len(chunk), mk_out)
      /\ OrderInv(mk_run_length, chunk, unwritten, base, mk_out)
  BY <1>1 DEF RunsInv
<1>5. /\ input \in Seq(Record) /\ tail \in Record \cup {NULL} /\ mk_run_length \in Nat \ {0}
      /\ chunk \in Seq(Record) /\ mk_out \in Seq(Record) /\ Len(chunk) \in Nat /\ Len(mk_out) \in Nat
      /\ unwritten \in SUBSET (1 .. Len(chunk)) /\ i \in 1 .. Len(chunk) /\ chunk[i] \in Record
  BY <1>2 DEF MkTypeOK
<1>6. /\ c \in 1 .. Len(chunk)
      /\ Cardinality(unwritten \ {i}) = c - 1
  <2>1. IsFiniteSet(1 .. Len(chunk)) /\ Cardinality(1 .. Len(chunk)) = Len(chunk)
    <3>1. 1 \in Int /\ Len(chunk) \in Int /\ 1 =< Len(chunk)
      BY <1>5
    <3>2. /\ IsFiniteSet(1 .. Len(chunk))
          /\ Cardinality(1 .. Len(chunk)) = IF 1 > Len(chunk) THEN 0 ELSE Len(chunk) - 1 + 1
      BY <3>1, FS_Interval
    <3> QED
      BY <3>1, <3>2
  <2>2. IsFiniteSet(unwritten) /\ c =< Len(chunk)
    BY <1>5, <2>1, FS_Subset
  <2>3. c \in Nat
    BY <2>2, FS_CardinalityType
  <2>4. c # 0
    BY <1>2, <2>2, FS_EmptySet
  <2>5. Cardinality(unwritten \ {i}) = c - 1
    BY <1>2, <2>2, FS_RemoveElement
  <2> QED
    BY <1>5, <2>2, <2>3, <2>4, <2>5
<1> HIDE DEF c, src
<1>7. MkTypeOK'
  <2>1. mk_out' \in Seq(Record)
    BY <1>2, <1>5
  <2>2. unwritten' \subseteq 1 .. Len(chunk)
    BY <1>2, <1>5
  <2>3. reading' \in BOOLEAN
    BY <1>3
  <2> QED
    BY <1>3, <2>1, <2>2, <2>3 DEF MkTypeOK
<1>8. /\ Len(mk_out') = Len(mk_out) + 1
      /\ Len(mk_out') + Cardinality(unwritten') = base + Len(chunk)
  <2>1. Len(mk_out') = Len(mk_out) + 1
    BY <1>2, <1>5
  <2>2. Cardinality(unwritten') = c - 1
    BY <1>2, <1>6
  <2>3. PICK n \in Nat, d \in Nat : n = Len(mk_out) /\ d = c
    BY <1>5, <1>6
  <2>4. n + d = base + Len(chunk)
    BY <1>4, <2>3
  <2>5. (n + 1) + (d - 1) = base + Len(chunk)
    BY <2>4
  <2> QED
    BY <2>1, <2>2, <2>3, <2>5
<1>9. Multiple(base, mk_run_length) /\ Len(chunk) =< mk_run_length
  BY <1>4 DEF ChunkInv
<1>10. TakenInv(src, mk_run_length, unwritten', base, base + Len(chunk), mk_out')
  <2>1. chunk[i] = src[base + i]
    BY <1>4, <1>5 DEF ChunkInv, src
  <2>2. base + i \in base + 1 .. base + mk_run_length /\ Len(mk_out) + 1 \in base + 1 .. base + mk_run_length
    BY <1>4, <1>5, <1>6, <1>9
  <2>3. SameRun(mk_run_length, base + i, Len(mk_out) + 1)
    BY <1>5, <1>9, <2>2, InRunLemma
  <2> QED
    BY <1>2, <1>4, <1>5, <2>1, <2>3, TakenStep
<1>11. OrderInv(mk_run_length, chunk, unwritten', base, mk_out')
  <2>1. \A j \in unwritten : Key[chunk[i]] =< Key[chunk[j]]
    <3> TAKE j \in unwritten
    <3>1. chunk[j] \in Record
      BY <1>5
    <3>2. Key[chunk[i]] \in Int /\ Key[chunk[j]] \in Int
      BY <1>5, <3>1, RecordAssumption
    <3> QED
      BY <1>2, <3>2 DEF IsFirst, record_object_comparator
  <2>2. base =< Len(mk_out)
    BY <1>4, <1>5, <1>6
  <2> QED
    BY <1>2, <1>4, <1>5, <1>9, <2>1, <2>2, OrderStep
<1>12. ASSUME ~reading'
       PROVE  unwritten' = {} /\ TailKeptUnlessAlone'
  <2>1. unwritten' = {} /\ Len(chunk) # mk_run_length
    BY <1>3, <1>12
  <2>2. Len(mk_out') = base + Len(chunk)
    <3>1. Cardinality(unwritten') = 0
      BY <2>1, FS_EmptySet
    <3> QED
      BY <1>5, <1>8, <3>1
  <2>3. chunk # << >>
    BY <1>5
  <2>4. in_pos = Len(input) /\ base + Len(chunk) = Len(Source(input, tail))
    BY <1>4, <2>1, <2>3 DEF ChunkInv
  <2>5. Len(mk_out') = Len(input) + (IF tail # NULL /\ Len(input) % mk_run_length # 0 THEN 1 ELSE 0)
    BY <1>4, <2>2, <2>4, LastChunkLemma
  <2> QED
    BY <1>3, <2>1, <2>4, <2>5 DEF TailKeptUnlessAlone
<1>13. RunsInv(base)'
  BY <1>3, <1>4, <1>8, <1>10, <1>11, <1>12 DEF RunsInv, src
<1> QED
  BY <1>7, <1>13

\* Every step of mk_runs keeps the invariant.
LEMMA MkStep == MkInv /\ [MkNext]_mkVars => MkInv'
<1> SUFFICES ASSUME MkInv, [MkNext]_mkVars PROVE MkInv'
  OBVIOUS
<1>1. CASE ReadChunk
  BY <1>1, ReadChunkStep
<1>2. CASE WriteRecord
  BY <1>2, WriteRecordStep
<1>3. CASE UNCHANGED mkVars
  BY <1>3 DEF MkInv, MkTypeOK, RunsInv, TailKeptUnlessAlone, mkVars, mkParams
<1> QED
  BY <1>1, <1>2, <1>3 DEF MkNext

\* The invariant holds throughout every call of mk_runs.
THEOREM MkInvariance ==
    ASSUME MkCallsAssumption
    PROVE  MkSpec => []MkInv
<1>1. MkInit => MkInv
  BY MkStarts
<1>2. MkInv /\ [MkNext]_mkVars => MkInv'
  BY MkStep
<1> QED
  BY <1>1, <1>2, PTL DEF MkSpec

-----------------------------------------------------------------------------
\* A one-to-one map of 1 .. n into itself keeps the number of copies of a record.
LEMMA PermutedCopies ==
    ASSUME NEW n \in Nat, NEW b, NEW o, NEW t, NEW r, Permutes(b, n, o, t)
    PROVE  CopiesUpTo(o, n, r) = CopiesUpTo(t, n, r)
<1> DEFINE N == 1 .. n
           S == {j \in N : o[j] = r}
           T == {j \in N : t[j] = r}
           g == [j \in N |-> b[j]]
           h == [j \in S |-> b[j]]
<1> USE DEF Permutes
<1>1. IsFiniteSet(N)
  <2>1. 1 \in Int /\ n \in Int
    OBVIOUS
  <2> QED
    BY <2>1, FS_Interval
<1>2. g \in Injection(N, N)
  BY DEF Injection, IsInjective
<1>3. g \in Surjection(N, N)
  BY <1>1, <1>2, FS_Injection
<1>4. \A q \in N : \E j \in N : b[j] = q
  BY <1>3 DEF Surjection
<1>5. IsFiniteSet(S)
  <2>1. S \subseteq N
    OBVIOUS
  <2> QED
    BY <1>1, <2>1, FS_Subset
<1>6. \A j \in N : b[j] \in N /\ o[j] = t[b[j]]
  OBVIOUS
<1>7. \A j, k \in N : b[j] = b[k] => j = k
  OBVIOUS
<1> HIDE DEF N
<1>8. /\ h \in [S -> T]
      /\ \A x, y \in S : h[x] = h[y] => x = y
      /\ \A q \in T : \E x \in S : h[x] = q
  BY <1>4, <1>6, <1>7
<1> HIDE DEF h, S, T
<1>9. Cardinality(T) = Cardinality(S)
  BY <1>5, <1>8, SameSize
<1> QED
  BY <1>9 DEF S, T, N, CopiesUpTo

\* The invariant gives the order within the runs.
LEMMA SortedLemma == MkInv => RunsAreSorted
<1> SUFFICES ASSUME MkInv, NEW p \in 1 .. Len(mk_out), NEW q \in 1 .. Len(mk_out), p < q,
                    (p - 1) \div mk_run_length = (q - 1) \div mk_run_length
             PROVE  record_object_comparator(mk_out[p], mk_out[q]) =< 0
  BY DEF RunsAreSorted
<1>1. PICK base \in Nat : OrderInv(mk_run_length, chunk, unwritten, base, mk_out)
  BY DEF MkInv, RunsInv
<1>2. Key[mk_out[p]] =< Key[mk_out[q]]
  BY <1>1 DEF OrderInv, SameRun
<1>3. mk_out[p] \in Record /\ mk_out[q] \in Record
  BY DEF MkInv, MkTypeOK
<1>4. Key[mk_out[p]] \in Int /\ Key[mk_out[q]] \in Int
  BY <1>3, RecordAssumption
<1> QED
  BY <1>2, <1>4 DEF record_object_comparator

\* The invariant gives the records of every run.
LEMMA KeepLemma == MkInv => RunsKeepRecords
<1> SUFFICES ASSUME MkInv, unwritten = {} PROVE RunsKeepRecords
  BY DEF RunsKeepRecords
<1>1. PICK base \in Nat : RunsInv(base)
  BY DEF MkInv
<1> DEFINE src == Source(input, tail)
           more == IF Len(mk_out) > in_pos THEN <<tail>> ELSE << >>
           taken == SubSeq(input, 1, in_pos) \o more
           L == Len(mk_out)
<1>2. /\ input \in Seq(Record) /\ tail \in Record \cup {NULL} /\ mk_run_length \in Nat \ {0}
      /\ mk_out \in Seq(Record) /\ L \in Nat /\ Len(chunk) \in Nat
      /\ in_pos \in Nat /\ in_pos =< Len(input) /\ Len(input) \in Nat
  BY DEF MkInv, MkTypeOK
<1>3. /\ ChunkInv(input, tail, mk_run_length, in_pos, chunk, base)
      /\ L = base + Len(chunk)
      /\ TakenInv(src, mk_run_length, {}, base, base + Len(chunk), mk_out)
  <2>1. Cardinality({}) = 0
    BY FS_EmptySet
  <2> QED
    BY <1>1, <1>2, <2>1 DEF RunsInv
<1>4. /\ Len(src) = IF tail = NULL THEN Len(input) ELSE Len(input) + 1
      /\ \A p \in 1 .. Len(input) : src[p] = input[p]
      /\ tail # NULL => src[Len(input) + 1] = tail
  BY <1>2, SourceLemma
<1>5. /\ in_pos = L \/ (in_pos = Len(input) /\ L = Len(input) + 1)
      /\ L =< Len(src)
  BY <1>3 DEF ChunkInv
<1>6. /\ SubSeq(input, 1, in_pos) \in Seq(Record) /\ Len(SubSeq(input, 1, in_pos)) = in_pos
      /\ \A p \in 1 .. in_pos : SubSeq(input, 1, in_pos)[p] = input[p]
  BY <1>2
<1> HIDE DEF L, src
<1>7. taken \in Seq(Record) /\ Len(taken) = L /\ \A p \in 1 .. L : taken[p] = src[p]
  <2>1. CASE in_pos = L
    <3>1. taken = SubSeq(input, 1, in_pos)
      <4>1. more = << >>
        BY <1>2, <2>1 DEF L
      <4> QED
        BY <1>6, <4>1, ConcatEmpty
    <3>2. \A p \in 1 .. L : p \in 1 .. Len(input)
      BY <1>2, <2>1
    <3> QED
      BY <1>4, <1>6, <2>1, <3>1, <3>2
  <2>2. CASE in_pos = Len(input) /\ L = Len(input) + 1
    <3>1. tail # NULL
      BY <1>2, <1>4, <1>5, <2>2
    <3>2. more = <<tail>> /\ more \in Seq(Record) /\ Len(more) = 1 /\ more[1] = tail
      BY <1>2, <2>2, <3>1 DEF L
    <3> HIDE DEF more
    <3>3. /\ taken \in Seq(Record) /\ Len(taken) = in_pos + 1
          /\ \A p \in 1 .. in_pos : taken[p] = input[p]
          /\ taken[in_pos + 1] = tail
      BY <1>2, <1>6, <3>2, ConcatFacts
    <3> HIDE DEF taken
    <3>4. \A p \in 1 .. L : p \in 1 .. Len(input) \/ p = Len(input) + 1
      BY <1>2, <2>2
    <3> QED
      BY <1>2, <1>4, <2>2, <3>1, <3>3, <3>4
  <2> QED
    BY <1>5, <2>1, <2>2
<1> HIDE DEF taken
<1>8. PICK b \in [1 .. L -> 1 .. L] :
         /\ \A j \in 1 .. L : mk_out[j] = src[b[j]] /\ SameRun(mk_run_length, b[j], j)
         /\ \A j, k \in 1 .. L : b[j] = b[k] => j = k
  BY <1>3 DEF TakenInv, L
<1>9. ASSUME NEW n \in 1 .. L, n % mk_run_length = 0 \/ n = L, NEW r
      PROVE  MkCopies(SubSeq(mk_out, 1, n), r) = MkCopies(SubSeq(taken, 1, n), r)
  <2>1. n \in Nat /\ n =< L
    BY <1>2
  <2>2. \A j \in 1 .. n : b[j] \in 1 .. n
    <3> SUFFICES ASSUME NEW j \in 1 .. n PROVE b[j] \in 1 .. n
      OBVIOUS
    <3>1. j \in 1 .. L /\ b[j] \in 1 .. L
      BY <1>2, <1>8, <2>1
    <3>2. CASE n = L
      BY <3>1, <3>2
    <3>3. CASE n % mk_run_length = 0
      <4>1. Multiple(n, mk_run_length)
        <5>1. n \div mk_run_length \in Nat /\ n = (n \div mk_run_length) * mk_run_length + (n % mk_run_length)
          BY <1>2, <2>1, DivLemma
        <5>2. PICK c \in Nat : c = n \div mk_run_length
          BY <5>1
        <5>3. n = c * mk_run_length
          BY <1>2, <2>1, <3>3, <5>1, <5>2
        <5> QED
          BY <5>3 DEF Multiple
      <4>2. PICK p \in Nat \ {0} : p = b[j]
        BY <1>2, <3>1
      <4>3. SameRun(mk_run_length, j, p) /\ j \in Nat \ {0}
        BY <1>8, <2>1, <3>1, <4>2 DEF SameRun
      <4>4. ~ (n < p)
        <5> SUFFICES ASSUME n < p PROVE FALSE
          OBVIOUS
        <5>1. n < j
          BY <1>2, <2>1, <4>1, <4>3, LaterRunLemma
        <5> QED
          BY <2>1, <5>1
      <4> QED
        BY <2>1, <4>2, <4>4
    <3> QED
      BY <1>9, <3>2, <3>3
  <2>3. \A j \in 1 .. n : j \in 1 .. L
    BY <1>2, <2>1
  <2>4. \A j \in 1 .. n : b[j] \in 1 .. n /\ mk_out[j] = taken[b[j]]
    BY <1>7, <1>8, <2>2, <2>3
  <2>5. \A j, k \in 1 .. n : b[j] = b[k] => j = k
    BY <1>8, <2>3
  <2>6. CopiesUpTo(mk_out, n, r) = CopiesUpTo(taken, n, r)
    <3>1. Permutes(b, n, mk_out, taken)
      BY <2>4, <2>5 DEF Permutes
    <3> QED
      BY <2>1, <3>1, PermutedCopies
  <2>7. ASSUME NEW s \in Seq(Record), Len(s) = L
        PROVE  MkCopies(SubSeq(s, 1, n), r) = CopiesUpTo(s, n, r)
    <3>1. Len(SubSeq(s, 1, n)) = n /\ \A j \in 1 .. n : SubSeq(s, 1, n)[j] = s[j]
      BY <1>2, <2>1, <2>7
    <3>2. {j \in 1 .. Len(SubSeq(s, 1, n)) : SubSeq(s, 1, n)[j] = r} = {j \in 1 .. n : s[j] = r}
      BY <3>1
    <3> QED
      BY <3>2 DEF MkCopies, CopiesUpTo
  <2>8. mk_out \in Seq(Record) /\ Len(mk_out) = L /\ taken \in Seq(Record) /\ Len(taken) = L
    BY <1>2, <1>7 DEF L
  <2> QED
    BY <2>6, <2>7, <2>8
<1> QED
  BY <1>7, <1>9, Zenon DEF RunsKeepRecords, taken, more, L

\* When mk_runs has returned, its output is the records it keeps, in sorted runs.
LEMMA ResultLemma == MkInv /\ ~reading => Result
<1> SUFFICES ASSUME MkInv, ~reading PROVE Result
  OBVIOUS
<1> DEFINE src == Source(input, tail)
           kept == KeptOf(input, tail, mk_run_length)
<1>1. PICK base \in Nat : RunsInv(base)
  BY DEF MkInv
<1>2. /\ input \in Seq(Record) /\ tail \in Record \cup {NULL} /\ mk_run_length \in Nat \ {0}
      /\ mk_out \in Seq(Record) /\ Len(mk_out) \in Nat /\ Len(chunk) \in Nat /\ Len(input) \in Nat
  BY DEF MkInv, MkTypeOK
<1>3. /\ Len(mk_out) = base + Len(chunk)
      /\ TakenInv(src, mk_run_length, {}, base, base + Len(chunk), mk_out)
      /\ Len(mk_out) = Len(input) + (IF tail # NULL /\ Len(input) % mk_run_length # 0 THEN 1 ELSE 0)
  <2>1. Cardinality({}) = 0
    BY FS_EmptySet
  <2>2. unwritten = {} /\ TailKeptUnlessAlone
    BY <1>1 DEF RunsInv
  <2>3. Len(mk_out) + Cardinality({}) = base + Len(chunk)
    BY <1>1, <2>2 DEF RunsInv
  <2>4. TakenInv(src, mk_run_length, {}, base, base + Len(chunk), mk_out)
    BY <1>1, <2>2 DEF RunsInv
  <2> QED
    BY <1>2, <2>1, <2>2, <2>3, <2>4 DEF TailKeptUnlessAlone
<1>4. /\ \A p \in 1 .. Len(input) : src[p] = input[p]
      /\ tail # NULL => src = Append(input, tail)
  BY <1>2, SourceLemma DEF Source
<1>5. Len(kept) = Len(mk_out) /\ \A p \in 1 .. Len(mk_out) : kept[p] = src[p]
  <2>1. CASE tail # NULL /\ Len(input) % mk_run_length # 0
    <3>1. kept = Append(input, tail) /\ tail \in Record
      BY <1>2, <2>1 DEF KeptOf
    <3>2. Len(kept) = Len(input) + 1
      BY <1>2, <3>1, AppendFacts
    <3>3. kept = src
      BY <1>4, <2>1, <3>1
    <3> QED
      BY <1>3, <2>1, <3>2, <3>3
  <2>2. CASE ~ (tail # NULL /\ Len(input) % mk_run_length # 0)
    <3>1. kept = input
      BY <2>2 DEF KeptOf
    <3>2. Len(mk_out) = Len(input)
      BY <1>2, <1>3, <2>2
    <3> QED
      BY <1>4, <3>1, <3>2
  <2> QED
    BY <2>1, <2>2
<1> HIDE DEF src, kept
<1>6. PICK b \in [1 .. Len(mk_out) -> 1 .. Len(mk_out)] :
         /\ \A j \in 1 .. Len(mk_out) : mk_out[j] = src[b[j]]
         /\ \A j, k \in 1 .. Len(mk_out) : b[j] = b[k] => j = k
  BY <1>3 DEF TakenInv
<1>7. Permutes(b, Len(mk_out), mk_out, kept)
  BY <1>5, <1>6 DEF Permutes
<1>8. ASSUME NEW r \in Record PROVE MkCopies(mk_out, r) = MkCopies(kept, r)
  <2>1. CopiesUpTo(mk_out, Len(mk_out), r) = CopiesUpTo(kept, Len(mk_out), r)
    BY <1>2, <1>7, PermutedCopies
  <2> QED
    BY <1>5, <2>1 DEF MkCopies, CopiesUpTo
<1> QED
  BY <1>2, <1>5, <1>8, SortedLemma DEF Result, kept

\* mk_runs makes sorted runs of the records it reads: every run of its output is
\* sorted and holds the records of the corresponding stretch of the input, and an
\* unterminated record is kept unless it is alone in its chunk.
THEOREM MakesSortedRunsTheorem ==
    ASSUME MkCallsAssumption
    PROVE  MkSpec => []MakesSortedRuns
<1>1. MkInv => MakesSortedRuns
  <2> SUFFICES ASSUME MkInv PROVE MakesSortedRuns
    OBVIOUS
  <2>1. MkTypeOK
    BY DEF MkInv
  <2>2. TailKeptUnlessAlone
    BY DEF MkInv, RunsInv, TailKeptUnlessAlone
  <2> QED
    BY <2>1, <2>2, SortedLemma, KeepLemma DEF MakesSortedRuns
<1> QED
  BY <1>1, MkInvariance, PTL

=============================================================================
