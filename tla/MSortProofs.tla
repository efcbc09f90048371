---------------------------- MODULE MSortProofs -----------------------------
(***************************************************************************)
(* Proofs about module MSort, for every set of invocations: what the       *)
(* output is when msort exits, and what its passes read and write.         *)
(*                                                                         *)
(* First what the steps of main keep, given what mk_runs and merge_runs    *)
(* leave when they return.  The run lengths of the passes are powers of k  *)
(* times the first one; of two of them one is at least k times the other.  *)
(* Hence the facts about the boundary cases of main's "ugly logic": which  *)
(* pass writes the output, whether it is the last one, and whether the     *)
(* runs have room for an unterminated record.  The invariant follows main  *)
(* from the start of an invocation to its exit.                            *)
(*                                                                         *)
(* In mk_runs and merge_runs the invariants proved in MkRunsProofs and     *)
(* MergeRunsProofs join it; both modules are instantiated here, after the  *)
(* proofs about main, for the calls that main makes.                       *)
(***************************************************************************)
EXTENDS MSort, WellFoundedInduction, TLAPS

Multiple(n, d) == \E q \in Nat : n = q * d

-----------------------------------------------------------------------------
\* Quotient and remainder.
LEMMA DivLemma ==
    ASSUME NEW a \in Nat, NEW b \in Nat \ {0}
    PROVE  /\ a \div b \in Nat
           /\ a % b \in 0 .. b - 1
           /\ a = (a \div b) * b + (a % b)
OBVIOUS

\* They are the only ones.
LEMMA ModLemma ==
    ASSUME NEW a \in Nat, NEW b \in Nat \ {0}, NEW q \in Nat, NEW r \in 0 .. b - 1, a = q * b + r
    PROVE  a % b = r /\ a \div b = q
OBVIOUS

\* Induction over the naturals, for a set of them.
LEMMA NatSetInduction ==
    ASSUME NEW S, 0 \in S, \A n \in Nat : n \in S => n + 1 \in S
    PROVE  \A n \in Nat : n \in S
<1> DEFINE T == {n \in Nat : n \notin S}
           R == OpToRel(<, Nat)
<1> SUFFICES ASSUME T # {} PROVE FALSE
  OBVIOUS
<1>1. IsWellFoundedOn(R, Nat)
  BY NatLessThanWellFounded, Zenon
<1>2. T \subseteq Nat
  OBVIOUS
<1> HIDE DEF T, R
<1>3. PICK x \in T : \A y \in T : ~ (<<y, x>> \in R)
  BY <1>1, <1>2, WFMin, Zenon
<1>4. \A y \in T : ~ (y < x)
  BY <1>2, <1>3, Zenon DEF OpToRel, R
<1>5. x \in Nat /\ x \notin S /\ x # 0
  BY DEF T
<1>6. x - 1 \in Nat /\ x - 1 < x
  BY <1>5
<1>7. x - 1 \in S
  BY <1>4, <1>6 DEF T
<1> QED
  BY <1>5, <1>6, <1>7

\* What the lengths of the passes are, as a sequence that is multiplied by k.
Multiplies(l, first, k) ==
    /\ l \in [Nat -> Nat]
    /\ l[0] = first
    /\ \A i \in Nat : l[i + 1] = k * l[i]

\* The first n + 1 lengths.
Prefix(g, n, first, k) ==
    /\ g \in [0 .. n -> Nat]
    /\ g[0] = first
    /\ \A i \in 0 .. n - 1 : g[i + 1] = k * g[i]

\* There are first lengths for every n.
LEMMA PrefixExists ==
    ASSUME NEW first \in Nat, NEW k \in Nat
    PROVE  \A n \in Nat : \E g : Prefix(g, n, first, k)
<1> DEFINE S == {n \in Nat : \E g : Prefix(g, n, first, k)}
<1>1. 0 \in S
  <2> DEFINE g == [i \in 0 .. 0 |-> first]
  <2>1. Prefix(g, 0, first, k)
    BY DEF Prefix
  <2> QED
    BY <2>1
<1>2. ASSUME NEW n \in Nat, n \in S PROVE n + 1 \in S
  <2>1. PICK g : Prefix(g, n, first, k)
    BY <1>2
  <2> DEFINE h == [i \in 0 .. n + 1 |-> IF i = n + 1 THEN k * g[n] ELSE g[i]]
  <2>2. g \in [0 .. n -> Nat] /\ g[0] = first /\ \A i \in 0 .. n - 1 : g[i + 1] = k * g[i]
    BY <2>1 DEF Prefix
  <2>3. h \in [0 .. n + 1 -> Nat]
    <3>1. g[n] \in Nat /\ k * g[n] \in Nat
      BY <2>2
    <3>2. \A i \in 0 .. n + 1 : i # n + 1 => i \in 0 .. n
      OBVIOUS
    <3> QED
      BY <2>2, <3>1, <3>2
  <2>4. h[n + 1] = k * g[n] /\ \A i \in 0 .. n : h[i] = g[i]
    OBVIOUS
  <2> HIDE DEF h
  <2>5. \A i \in 0 .. (n + 1) - 1 : h[i + 1] = k * h[i]
    <3> TAKE i \in 0 .. (n + 1) - 1
    <3>1. CASE i = n
      BY <2>4, <3>1
    <3>2. CASE i # n
      <4>1. i \in 0 .. n - 1 /\ i \in 0 .. n /\ i + 1 \in 0 .. n
        BY <3>2
      <4> QED
        BY <2>2, <2>4, <4>1
    <3> QED
      BY <3>1, <3>2
  <2>6. h[0] = first
    BY <2>2, <2>4
  <2>7. Prefix(h, n + 1, first, k)
    BY <2>3, <2>5, <2>6 DEF Prefix
  <2> QED
    BY <2>7
<1> HIDE DEF S
<1>3. \A n \in Nat : n \in S
  BY <1>1, <1>2, NatSetInduction
<1> QED
  BY <1>3 DEF S

\* They agree.
LEMMA PrefixUnique ==
    ASSUME NEW first \in Nat, NEW k \in Nat, NEW m \in Nat, NEW n \in Nat, NEW g, NEW h,
           Prefix(g, m, first, k), Prefix(h, n, first, k)
    PROVE  \A i \in Nat : i =< m /\ i =< n => g[i] = h[i]
<1> DEFINE S == {i \in Nat : i =< m /\ i =< n => g[i] = h[i]}
<1>1. 0 \in S
  BY DEF Prefix
<1>2. ASSUME NEW i \in Nat, i \in S PROVE i + 1 \in S
  <2> SUFFICES ASSUME i + 1 =< m, i + 1 =< n PROVE g[i + 1] = h[i + 1]
    OBVIOUS
  <2>1. i \in 0 .. m - 1 /\ i \in 0 .. n - 1 /\ g[i] = h[i]
    BY <1>2
  <2> QED
    BY <2>1 DEF Prefix
<1> HIDE DEF S
<1>3. \A i \in Nat : i \in S
  BY <1>1, <1>2, NatSetInduction
<1> QED
  BY <1>3 DEF S

\* The recursive definition of the lengths has a solution: the n-th value of the
\* first n + 1 lengths.
LEMMA LengthsDefined ==
    ASSUME NEW first \in Nat, NEW k \in Nat
    PROVE  Multiplies(Lengths(first, k), first, k)
<1> DEFINE G(n) == CHOOSE g : Prefix(g, n, first, k)
           f == [n \in Nat |-> G(n)[n]]
           Def(l) == l = [i \in Nat |-> IF i = 0 THEN first ELSE k * l[i - 1]]
<1>1. ASSUME NEW n \in Nat PROVE Prefix(G(n), n, first, k)
  BY PrefixExists
<1> HIDE DEF G
<1>2. ASSUME NEW n \in Nat PROVE G(n)[n] \in Nat
  BY <1>1 DEF Prefix
<1>3. f[0] = first
  <2>1. Prefix(G(0), 0, first, k)
    BY <1>1
  <2> QED
    BY <2>1 DEF Prefix
<1>4. ASSUME NEW n \in Nat PROVE f[n + 1] = k * f[n]
  <2>1. n + 1 \in Nat /\ Prefix(G(n), n, first, k) /\ Prefix(G(n + 1), n + 1, first, k)
    BY <1>1
  <2>2. n =< n /\ n =< n + 1
    OBVIOUS
  <2>3. G(n)[n] = G(n + 1)[n]
    BY <2>1, <2>2, PrefixUnique
  <2>4. n \in 0 .. (n + 1) - 1
    OBVIOUS
  <2>5. G(n + 1)[n + 1] = k * G(n + 1)[n]
    BY <2>1, <2>4 DEF Prefix
  <2> QED
    BY <2>1, <2>3, <2>5
<1>5. Def(f)
  <2>1. ASSUME NEW i \in Nat PROVE f[i] = IF i = 0 THEN first ELSE k * f[i - 1]
    <3>1. CASE i = 0
      BY <1>3, <3>1
    <3>2. CASE i # 0
      <4>1. i - 1 \in Nat /\ (i - 1) + 1 = i
        BY <3>2
      <4>2. f[(i - 1) + 1] = k * f[i - 1]
        BY <1>4, <4>1, Zenon
      <4> HIDE DEF f
      <4> QED
        BY <3>2, <4>1, <4>2
    <3> QED
      BY <3>1, <3>2
  <2> QED
    BY <2>1
<1>6. Lengths(first, k) = CHOOSE l : Def(l)
  BY DEF Lengths
<1> HIDE DEF f, Def
<1>7. Def(Lengths(first, k))
  BY <1>5, <1>6
<1> DEFINE L == Lengths(first, k)
<1>8. L = [i \in Nat |-> IF i = 0 THEN first ELSE k * L[i - 1]]
  BY <1>7 DEF Def
<1> HIDE DEF L
<1>9. L[0] = first /\ \A i \in Nat : L[i + 1] = k * L[i]
  <2>1. \A i \in Nat : L[i] = IF i = 0 THEN first ELSE k * L[i - 1]
    BY <1>8
  <2>2. ASSUME NEW i \in Nat PROVE L[i + 1] = k * L[i]
    <3>1. i + 1 \in Nat /\ i + 1 # 0 /\ (i + 1) - 1 = i
      OBVIOUS
    <3> QED
      BY <2>1, <3>1
  <2> QED
    BY <2>1, <2>2
<1>10. \A i \in Nat : L[i] \in Nat
  <2> DEFINE S == {i \in Nat : L[i] \in Nat}
  <2>1. 0 \in S
    BY <1>9
  <2>2. ASSUME NEW i \in Nat, i \in S PROVE i + 1 \in S
    BY <1>9, <2>2
  <2> HIDE DEF S
  <2>3. \A i \in Nat : i \in S
    BY <2>1, <2>2, NatSetInduction
  <2> QED
    BY <2>3 DEF S
<1>11. L \in [Nat -> Nat]
  BY <1>8, <1>10
<1> QED
  BY <1>9, <1>11 DEF Multiplies, L

-----------------------------------------------------------------------------
\* l is a run length that the while loop may reach.
IsLength(first, k, l) == \E i \in Nat : l = Lengths(first, k)[i]

\* ceil(n / l), the runs of a file of n records.
Ceil(n, l) == (n + l - 1) \div l

\* A pass over runs of length l writes the output file.
WritesOutput(n, k, l) == Ceil(n, l) < k \/ Ceil(n, l) * l = n

\* The lengths grow by more than the first one from each to the next, and are
\* multiples of the first.
LEMMA GrowthLemma ==
    ASSUME NEW first \in Nat \ {0}, NEW k \in Nat \ {0, 1}, NEW i \in Nat
    PROVE  LET L == Lengths(first, k)
           IN  /\ L[i] \in Nat \ {0} /\ first * (i + 1) =< L[i] /\ Multiple(L[i], first)
               /\ \A j \in Nat : j < i => L[j] * k =< L[i]
<1> DEFINE L == Lengths(first, k)
           S == {x \in Nat : /\ L[x] \in Nat \ {0} /\ first * (x + 1) =< L[x] /\ Multiple(L[x], first)
                             /\ \A j \in Nat : j < x => L[j] * k =< L[x]}
<1>1. L \in [Nat -> Nat] /\ L[0] = first /\ \A x \in Nat : L[x + 1] = k * L[x]
  BY LengthsDefined DEF Multiplies
<1> HIDE DEF L
<1>2. 0 \in S
  <2>1. first * (0 + 1) = first /\ Multiple(first, first)
    <3>1. first = 1 * first
      OBVIOUS
    <3> QED
      BY <3>1 DEF Multiple
  <2> QED
    BY <1>1, <2>1
<1>3. ASSUME NEW x \in Nat, x \in S PROVE x + 1 \in S
  <2>1. /\ L[x] \in Nat \ {0} /\ first * (x + 1) =< L[x] /\ Multiple(L[x], first)
        /\ \A j \in Nat : j < x => L[j] * k =< L[x]
    BY <1>3
  <2>2. PICK l \in Nat \ {0}, m \in Nat : l = L[x] /\ m = L[x + 1] /\ m = k * l
    BY <1>1, <2>1
  <2>3. l + l =< m
    BY <2>2
  <2>4. first =< l
    <3>1. first =< first * (x + 1) /\ first * (x + 1) \in Nat
      OBVIOUS
    <3> QED
      BY <2>1, <2>2, <3>1
  <2>5. first * ((x + 1) + 1) = first * (x + 1) + first /\ first * (x + 1) \in Nat
    OBVIOUS
  <2>6. first * ((x + 1) + 1) =< m
    BY <2>1, <2>2, <2>3, <2>4, <2>5
  <2>7. Multiple(m, first)
    <3>1. PICK q \in Nat : l = q * first
      BY <2>1, <2>2 DEF Multiple
    <3>2. k * q \in Nat /\ k * (q * first) = (k * q) * first
      OBVIOUS
    <3> QED
      BY <2>2, <3>1, <3>2 DEF Multiple
  <2>8. ASSUME NEW j \in Nat, j < x + 1 PROVE L[j] * k =< m
    <3>1. CASE j = x
      BY <2>2, <3>1
    <3>2. CASE j < x
      <4>1. L[j] * k =< l /\ L[j] * k \in Nat
        BY <1>1, <2>1, <2>2, <3>2
      <4> QED
        BY <2>2, <2>3, <4>1
    <3> QED
      BY <2>8, <3>1, <3>2
  <2>9. m \in Nat \ {0}
    BY <2>2, <2>3
  <2>10. PICK y \in Nat : y = x + 1
    OBVIOUS
  <2>11. /\ L[y] \in Nat \ {0} /\ first * (y + 1) =< L[y] /\ Multiple(L[y], first)
         /\ \A j \in Nat : j < y => L[j] * k =< L[y]
    BY <2>2, <2>6, <2>7, <2>8, <2>9, <2>10, Zenon
  <2>12. y \in S
    BY <2>11
  <2> QED
    BY <2>10, <2>12
<1> HIDE DEF S
<1>4. \A x \in Nat : x \in S
  BY <1>2, <1>3, NatSetInduction
<1> QED
  BY <1>4 DEF S, L

\* A length and the next.
LEMMA LengthLemma ==
    ASSUME NEW first \in Nat \ {0}, NEW k \in Nat \ {0, 1}
    PROVE  /\ IsLength(first, k, first)
           /\ \A l : IsLength(first, k, l) =>
                 /\ l \in Nat \ {0} /\ first =< l /\ Multiple(l, first)
                 /\ IsLength(first, k, l * k) /\ l < l * k /\ l * k \in Nat \ {0}
<1> DEFINE L == Lengths(first, k)
<1>1. L \in [Nat -> Nat] /\ L[0] = first /\ \A x \in Nat : L[x + 1] = k * L[x]
  BY LengthsDefined DEF Multiplies
<1>2. IsLength(first, k, first)
  BY <1>1 DEF IsLength
<1>3. ASSUME NEW l, IsLength(first, k, l)
      PROVE  /\ l \in Nat \ {0} /\ first =< l /\ Multiple(l, first)
             /\ IsLength(first, k, l * k) /\ l < l * k /\ l * k \in Nat \ {0}
  <2>1. PICK i \in Nat : l = L[i]
    BY <1>3 DEF IsLength
  <2> HIDE DEF L
  <2>2. l \in Nat \ {0} /\ first * (i + 1) =< l /\ Multiple(l, first)
    BY <2>1, GrowthLemma DEF L
  <2>3. first =< l
    <3>1. first =< first * (i + 1) /\ first * (i + 1) \in Nat
      OBVIOUS
    <3> QED
      BY <2>2, <3>1
  <2>4. l < l * k /\ l * k \in Nat \ {0} /\ l * k = k * l
    BY <2>2
  <2>5. IsLength(first, k, l * k)
    <3>1. i + 1 \in Nat /\ L[i + 1] = l * k
      BY <1>1, <2>1, <2>4
    <3> QED
      BY <3>1 DEF IsLength, L
  <2> QED
    BY <2>2, <2>3, <2>4, <2>5
<1> QED
  BY <1>2, <1>3

\* Of two lengths one is k times the other or more, unless they are the same.
LEMMA LengthsOrdered ==
    ASSUME NEW first \in Nat \ {0}, NEW k \in Nat \ {0, 1}, NEW l, NEW m,
           IsLength(first, k, l), IsLength(first, k, m)
    PROVE  l = m \/ l * k =< m \/ m * k =< l
<1> DEFINE L == Lengths(first, k)
<1>1. PICK i \in Nat, j \in Nat : l = L[i] /\ m = L[j]
  BY DEF IsLength
<1> HIDE DEF L
<1>2. (j < i => L[j] * k =< L[i]) /\ (i < j => L[i] * k =< L[j])
  BY GrowthLemma DEF L
<1> QED
  BY <1>1, <1>2

-----------------------------------------------------------------------------
\* ceil(n / l) runs of length l cover n records, and the last one is not empty.
LEMMA CeilLemma ==
    ASSUME NEW n \in Nat, NEW l \in Nat \ {0}
    PROVE  /\ Ceil(n, l) \in Nat
           /\ n =< Ceil(n, l) * l /\ Ceil(n, l) * l < n + l
           /\ n # 0 => Ceil(n, l) # 0
<1>1. n + l - 1 \in Nat
  OBVIOUS
<1>2. PICK c \in Nat, r \in 0 .. l - 1 : c = Ceil(n, l) /\ n + l - 1 = c * l + r
  BY <1>1, DivLemma DEF Ceil
<1>3. PICK m \in Nat : m = c * l
  OBVIOUS
<1>4. n =< m /\ m < n + l
  BY <1>2, <1>3
<1>5. c = 0 => m = 0
  BY <1>3
<1> QED
  BY <1>2, <1>3, <1>4, <1>5

\* After a pass over fewer than k runs the while loop ends.
LEMMA FewRunsLemma ==
    ASSUME NEW n \in Nat, NEW l \in Nat \ {0}, NEW k \in Nat \ {0, 1}, Ceil(n, l) < k
    PROVE  n =< l * k
<1>1. PICK c \in Nat : c = Ceil(n, l) /\ n =< c * l
  BY CeilLemma
<1>2. c * l =< l * k /\ c * l \in Nat /\ l * k \in Nat
  BY <1>1
<1> QED
  BY <1>1, <1>2

\* If the runs of a pass are full, so were the first ones.
LEMMA FullRunsLemma ==
    ASSUME NEW n \in Nat, NEW first \in Nat \ {0}, NEW l \in Nat \ {0}, Multiple(l, first),
           Ceil(n, l) * l = n
    PROVE  n % first = 0
<1>1. PICK c \in Nat : c = Ceil(n, l) /\ n = c * l
  BY CeilLemma
<1>2. PICK q \in Nat : l = q * first
  BY DEF Multiple
<1>3. c * q \in Nat /\ c * (q * first) = (c * q) * first + 0 /\ 0 \in 0 .. first - 1
  OBVIOUS
<1>4. n = (c * q) * first + 0
  BY <1>1, <1>2, <1>3
<1> QED
  BY <1>3, <1>4, ModLemma

\* A number of records that the first length divides makes full runs.
LEMMA FirstFullLemma ==
    ASSUME NEW n \in Nat, NEW first \in Nat \ {0}, n % first = 0
    PROVE  Ceil(n, first) * first = n
<1>1. PICK q \in Nat : n = q * first
  <2>1. n \div first \in Nat /\ n = (n \div first) * first + (n % first)
    BY DivLemma
  <2>2. PICK q \in Nat : q = n \div first
    BY <2>1
  <2>3. n = q * first
    BY <2>1, <2>2
  <2> QED
    BY <2>3
<1>2. n + first - 1 \in Nat /\ first - 1 \in 0 .. first - 1 /\ n + first - 1 = q * first + (first - 1)
  BY <1>1
<1>3. Ceil(n, first) = q
  BY <1>2, ModLemma DEF Ceil
<1> QED
  BY <1>1, <1>3

\* If the first runs are not all full, the runs of a pass have room for a record
\* more.
LEMMA RoomLemma ==
    ASSUME NEW n \in Nat, NEW first \in Nat \ {0}, NEW l \in Nat \ {0}, Multiple(l, first),
           n % first # 0
    PROVE  n + 1 =< Ceil(n, l) * l
<1>1. PICK c \in Nat : c = Ceil(n, l) /\ n =< c * l
  BY CeilLemma, Zenon
<1>2. c * l # n
  BY <1>1, FullRunsLemma
<1>3. c * l \in Nat
  BY <1>1
<1> QED
  BY <1>1, <1>2, <1>3

-----------------------------------------------------------------------------
\* What is known of an invocation that is accepted.
LEMMA AcceptedLemma ==
    ASSUME inv \in Invocations, Accepted
    PROVE  /\ inv.input \in Seq(Record) /\ inv.tail \in Record \cup {NULL}
           /\ inv.k \in Nat \ {0, 1} /\ inv.mem \in Nat /\ num_records \in Nat
           /\ FirstLength \in Nat \ {0}
           /\ inv.mem \div (inv.k + 1) \in Nat \ {0} /\ BufferRecords \in Nat
<1>1. /\ inv.input \in Seq(Record) \cup {NULL} /\ inv.tail \in Record \cup {NULL}
      /\ inv.k \in Nat \ {0, 1} /\ inv.mem \in Nat
      /\ RecordSize =< inv.mem => inv.k < inv.mem
  BY InvocationsAssumption
<1>2. inv.input # NULL /\ ~(RecordSize > inv.mem)
  BY DEF Accepted, ArgumentError
<1>3. RecordSize \in Nat \ {0} /\ RecordSize =< inv.mem
  BY <1>1, <1>2, RecordSizeAssumption
<1>4. ASSUME NEW m \in Nat, NEW d \in Nat \ {0}, d =< m PROVE m \div d \in Nat \ {0}
  <2>1. PICK q \in Nat, r \in 0 .. d - 1 : q = m \div d /\ m = q * d + r
    BY DivLemma
  <2>2. q # 0
    BY <1>4, <2>1
  <2> QED
    BY <2>1, <2>2
<1>5. FirstLength \in Nat \ {0}
  BY <1>1, <1>3, <1>4 DEF FirstLength
<1>6. inv.k + 1 \in Nat \ {0} /\ inv.k + 1 =< inv.mem
  BY <1>1, <1>3
<1>7. inv.mem \div (inv.k + 1) \in Nat \ {0}
  BY <1>1, <1>4, <1>6
<1>8. BufferRecords \in Nat
  BY <1>3, <1>7, DivLemma DEF BufferRecords
<1>9. inv.input \in Seq(Record) /\ num_records \in Nat
  BY <1>1, <1>2 DEF num_records
<1> QED
  BY <1>1, <1>5, <1>7, <1>8, <1>9

\* The passes are those with a length below the number of records.
LEMMA PassLengthsLemma ==
    ASSUME inv \in Invocations, Accepted, NEW l
    PROVE  l \in PassLengths <=> IsLength(FirstLength, inv.k, l) /\ l < num_records
<1> DEFINE first == FirstLength
           n == num_records
           L == Lengths(first, inv.k)
<1>1. first \in Nat \ {0} /\ inv.k \in Nat \ {0, 1} /\ n \in Nat
  BY AcceptedLemma
<1>2. PICK q \in Nat, r \in 0 .. first - 1 : q = n \div first /\ n = q * first + r
  BY <1>1, DivLemma, Zenon
<1>3. ASSUME l \in PassLengths PROVE IsLength(first, inv.k, l) /\ l < n
  <2>1. PICK i \in 0 .. n \div first : l = L[i]
    BY <1>3 DEF PassLengths
  <2>2. i \in Nat
    BY <1>2
  <2> QED
    BY <1>3, <2>1, <2>2 DEF PassLengths, IsLength
<1>4. ASSUME IsLength(first, inv.k, l), l < n PROVE l \in PassLengths
  <2>1. PICK i \in Nat : l = L[i]
    BY <1>4 DEF IsLength
  <2>2. l \in Nat /\ first * (i + 1) =< l
    BY <1>1, <2>1, GrowthLemma, Zenon
  <2> HIDE DEF first, n, L
  <2>3. i =< q
    <3> SUFFICES ASSUME q + 1 =< i PROVE FALSE
      OBVIOUS
    <3>1. first * (q + 1) =< first * (i + 1) /\ first * (q + 1) = q * first + first
      BY <1>1
    <3>2. first * (q + 1) \in Nat /\ first * (i + 1) \in Nat
      BY <1>1
    <3> QED
      BY <1>1, <1>2, <1>4, <2>2, <3>1, <3>2
  <2>4. i \in 0 .. n \div first
    BY <1>2, <2>3
  <2> QED
    BY <1>4, <2>1, <2>4 DEF PassLengths, first, n, L
<1> QED
  BY <1>3, <1>4

\* A pass writes the output file only if the output is written at all.
LEMMA NeverWrittenLemma ==
    ASSUME inv \in Invocations, Accepted, NeverWritten,
           NEW l, IsLength(FirstLength, inv.k, l), l < num_records
    PROVE  ~WritesOutput(num_records, inv.k, l)
<1>1. FirstLength \in Nat \ {0} /\ inv.k \in Nat \ {0, 1} /\ num_records \in Nat
  BY AcceptedLemma
<1>2. l \in PassLengths
  BY PassLengthsLemma
<1>3. num_records % FirstLength # 0 /\ RunsOf(l) >= inv.k
  BY <1>2 DEF NeverWritten
<1>4. l \in Nat \ {0} /\ Multiple(l, FirstLength)
  BY <1>1, LengthLemma
<1>5. RunsOf(l) = Ceil(num_records, l) /\ Ceil(num_records, l) \in Nat
  BY <1>1, <1>4, CeilLemma, Zenon DEF RunsOf, Ceil
<1>6. Ceil(num_records, l) * l # num_records
  BY <1>1, <1>3, <1>4, FullRunsLemma
<1> QED
  BY <1>1, <1>3, <1>5, <1>6 DEF WritesOutput

\* If it is, and the passes read only what this invocation wrote, the last pass
\* writes it.
LEMMA LastPassLemma ==
    ASSUME inv \in Invocations, Accepted, ~NeverWritten, ~ReadsLeftover,
           NEW l, IsLength(FirstLength, inv.k, l), l < num_records, num_records =< l * inv.k
    PROVE  WritesOutput(num_records, inv.k, l)
<1> DEFINE first == FirstLength
           n == num_records
           k == inv.k
<1>1. first \in Nat \ {0} /\ k \in Nat \ {0, 1} /\ n \in Nat
  BY AcceptedLemma
<1>2. l \in Nat \ {0} /\ first =< l /\ l < l * k /\ l * k \in Nat /\ IsLength(first, k, first)
  BY <1>1, LengthLemma
<1>3. CASE n % first = 0
  <2>1. ~(first * k < n) /\ first * k \in Nat
    BY <1>1, <1>2, <1>3 DEF ReadsLeftover
  <2>2. l = first \/ first * k =< l \/ l * k =< first
    BY <1>1, <1>2, LengthsOrdered
  <2>3. l = first
    BY <1>1, <1>2, <2>1, <2>2
  <2> QED
    BY <1>1, <1>3, <2>3, FirstFullLemma DEF WritesOutput
<1>4. CASE n % first # 0
  <2>1. l \in PassLengths
    BY PassLengthsLemma
  <2>2. PICK m \in PassLengths : ~(RunsOf(m) >= k)
    BY <1>4, <2>1 DEF NeverWritten
  <2>3. IsLength(first, k, m) /\ m < n
    BY <2>2, PassLengthsLemma
  <2>4. m \in Nat \ {0} /\ m * k \in Nat
    BY <1>1, <2>3, LengthLemma
  <2>5. Ceil(n, m) < k
    <3>1. RunsOf(m) = Ceil(n, m) /\ Ceil(n, m) \in Nat
      BY <1>1, <2>4, CeilLemma DEF RunsOf, Ceil
    <3> QED
      BY <1>1, <2>2, <3>1
  <2>6. n =< m * k
    BY <1>1, <2>4, <2>5, FewRunsLemma
  <2>7. l = m \/ l * k =< m \/ m * k =< l
    BY <1>1, <2>3, LengthsOrdered
  <2>8. l = m
    BY <1>1, <1>2, <2>3, <2>4, <2>6, <2>7
  <2> QED
    BY <2>5, <2>8 DEF WritesOutput
<1> QED
  BY <1>3, <1>4

\* Then no earlier pass does.
LEMMA EarlierPassLemma ==
    ASSUME inv \in Invocations, Accepted, ~ReadsLeftover,
           NEW l, IsLength(FirstLength, inv.k, l), l * inv.k < num_records
    PROVE  ~WritesOutput(num_records, inv.k, l)
<1> DEFINE first == FirstLength
           n == num_records
           k == inv.k
<1>1. first \in Nat \ {0} /\ k \in Nat \ {0, 1} /\ n \in Nat
  BY AcceptedLemma
<1>2. l \in Nat \ {0} /\ first =< l /\ l < l * k /\ l * k \in Nat /\ Multiple(l, first)
  BY <1>1, LengthLemma
<1>3. ~(Ceil(n, l) < k)
  <2> SUFFICES ASSUME Ceil(n, l) < k PROVE FALSE
    OBVIOUS
  <2>1. n =< l * k
    BY <1>1, <1>2, FewRunsLemma
  <2> QED
    BY <1>1, <1>2, <2>1
<1>4. Ceil(n, l) * l # n
  <2> SUFFICES ASSUME Ceil(n, l) * l = n PROVE FALSE
    OBVIOUS
  <2>1. n % first = 0
    BY <1>1, <1>2, FullRunsLemma
  <2>2. first * k =< l * k /\ first * k \in Nat
    BY <1>1, <1>2
  <2>3. first < n /\ first * k < n
    BY <1>1, <1>2, <2>2
  <2> QED
    BY <2>1, <2>3 DEF ReadsLeftover
<1> QED
  BY <1>3, <1>4 DEF WritesOutput

-----------------------------------------------------------------------------
\* The sequences s and t hold the same records.
SameRecords(s, t) == Len(s) = Len(t) /\ \A r \in Record : MK!MkCopies(s, r) = MK!MkCopies(t, r)

\* The runs of length first of s are sorted.
RunsIn(first, s) ==
    \A p, q \in 1 .. Len(s) :
        p < q /\ (p - 1) \div first = (q - 1) \div first => record_object_comparator(s[p], s[q]) =< 0

\* What a pass makes of the records kept, with buffers of B records.
Merged(B, kept, s) == IF B > 0 THEN Sorted(s) /\ SameRecords(s, kept) ELSE s = << >>

\* mk_runs starts.
MkStarted ==
    /\ input \in Seq(Record) /\ tail \in Record \cup {NULL} /\ run_length \in Nat \ {0}
    /\ in_pos = 0 /\ reading = TRUE /\ chunk = << >> /\ unwritten = {} /\ out = << >>

\* What mk_runs has written when it returns.
MkReturns ==
    ~reading =>
        /\ RunsIn(run_length, out)
        /\ SameRecords(out, IF tail # NULL /\ Len(input) % run_length # 0 THEN Append(input, tail)
                            ELSE input)

\* merge_runs starts.
MergeStarted ==
    /\ runs \in Seq(Record) /\ run_length \in Nat \ {0} /\ buf_size \in Nat \ {0}
    /\ num_runs \in Nat \ {0}
    /\ fp = run_length * (num_runs - 1)
    /\ iters = MR!NewIterators(num_runs, run_length, buf_size)
    /\ pc = "have" /\ idx = 1 /\ min = 0 /\ outbuf = << >> /\ out = << >>

\* What merge_runs has written when it returns: the records of a file of sorted
\* runs, sorted, or nothing when no record fits in a buffer.
MergeReturns ==
    LET B == buf_size \div RecordSize
    IN  pc = "done" =>
        /\ /\ MR!RunsSorted /\ MR!RunsCover /\ ~MR!OverreadsLastRun
           /\ B > 0
           => Sorted(out) /\ SameRecords(out, runs)
        /\ B = 0 => out = << >>

TypeInv == /\ inv \in Invocations
           /\ count \in 1 .. MaxInvocations
           /\ fs \in [FileNames -> Seq(Record) \cup {NULL}]
           /\ before \in Seq(Record) \cup {NULL}
           /\ main \in {"start", "mk_runs", "loop", "merge"} \cup Exits
           /\ flip \in BOOLEAN
           /\ write_filename \in FileNames
           /\ heap \in Nat

\* An output that is never written is what the invocation found.
Untouched == NeverWritten => fs["output"] = before

StartInv == before = fs["output"] /\ flip = FALSE

MakeInv == /\ Accepted
           /\ input = inv.input /\ tail = inv.tail /\ run_length = FirstLength
           /\ fs["tmp_file"] = out /\ fs["output"] = before /\ flip = FALSE

\* At the head of the while loop either there was no pass yet and tmp_file has the
\* runs of mk_runs, or the last pass, over runs of length l, left its result in
\* the file it wrote, the one to be read next unless it is the output.
LoopInv ==
    /\ Accepted /\ fs["tmp_file"] \in Seq(Record) /\ Untouched
    /\ \/ /\ run_length = FirstLength /\ flip = FALSE
          /\ RunsIn(FirstLength, fs["tmp_file"]) /\ SameRecords(fs["tmp_file"], Kept)
       \/ \E l \in Nat :
             /\ IsLength(FirstLength, inv.k, l) /\ l < num_records /\ run_length = l * inv.k
             /\ write_filename = IF WritesOutput(num_records, inv.k, l) THEN "output" ELSE ReadFilename
             /\ fs[write_filename] \in Seq(Record)
             /\ ~ReadsLeftover /\ NoOverread => Merged(BufferRecords, Kept, fs[write_filename])

\* During a pass the file that is read is as it was, either the runs of mk_runs or
\* the result of the pass before, and the file that is written has what was
\* flushed.
PassInv ==
    /\ Accepted /\ fs["tmp_file"] \in Seq(Record) /\ Untouched
    /\ IsLength(FirstLength, inv.k, run_length) /\ run_length < num_records
    /\ num_runs = Ceil(num_records, run_length)
    /\ buf_size = inv.mem \div (inv.k + 1)
    /\ write_filename = WriteFilename
    /\ runs = fs[ReadFilename] /\ fs[write_filename] = out
    /\ \/ /\ run_length = FirstLength
          /\ RunsIn(FirstLength, runs) /\ SameRecords(runs, Kept)
       \/ ~ReadsLeftover /\ NoOverread => Merged(BufferRecords, Kept, runs)

ExitInv ==
    /\ Accepted /\ Untouched
    /\ ~NeverWritten /\ ~ReadsLeftover /\ NoOverread => Merged(BufferRecords, Kept, fs["output"])

\* The part of the invariant that is about main.
MainInv == /\ TypeInv
           /\ main = "start" => StartInv
           /\ main = "mk_runs" => MakeInv
           /\ main = "loop" => LoopInv
           /\ main = "merge" => PassInv
           /\ main = "exit0" => ExitInv
           /\ CrashesOnlyWithoutFile

\* What depends on the command line only does not change.
LEMMA InvFrame ==
    ASSUME inv' = inv
    PROVE  /\ Accepted' <=> Accepted
           /\ num_records' = num_records /\ FirstLength' = FirstLength
           /\ BufferRecords' = BufferRecords /\ Kept' = Kept /\ PassLengths' = PassLengths
           /\ NeverWritten' <=> NeverWritten
           /\ ReadsLeftover' <=> ReadsLeftover
           /\ NoOverread' <=> NoOverread
<1>1. /\ Accepted' <=> Accepted
      /\ num_records' = num_records /\ FirstLength' = FirstLength
      /\ BufferRecords' = BufferRecords
  BY DEF Accepted, ArgumentError, num_records, FirstLength, BufferRecords
<1>2. Kept' = Kept
  BY <1>1 DEF Kept
<1>3. PassLengths' = PassLengths
  BY <1>1 DEF PassLengths
<1>4. NeverWritten' <=> NeverWritten
  BY <1>1, <1>3 DEF NeverWritten, RunsOf
<1>5. ReadsLeftover' <=> ReadsLeftover
  BY <1>1 DEF ReadsLeftover
<1>6. NoOverread' <=> NoOverread
  BY <1>1, <1>2, <1>3 DEF NoOverread
<1> QED
  BY <1>1, <1>2, <1>3, <1>4, <1>5, <1>6

\* The file names that a pass reads and writes, in terms of its run length.
LEMMA FileNamesLemma ==
    ASSUME flip \in BOOLEAN
    PROVE  /\ NumRuns = Ceil(num_records, run_length)
           /\ WriteFilename = IF WritesOutput(num_records, inv.k, run_length) THEN "output"
                              ELSE IF flip THEN "tmp_file" ELSE "tmp_file2"
           /\ WriteFilename # ReadFilename
           /\ ReadFilename \in FileNames /\ WriteFilename \in FileNames
<1>1. NumRuns = Ceil(num_records, run_length)
  BY DEF NumRuns, Ceil
<1> QED
  BY <1>1 DEF WriteFilename, ReadFilename, WritesOutput, FileNames

\* Where main goes when the arguments are refused.
LEMMA RefuseStep == MainInv /\ Refuse => MainInv'
<1> SUFFICES ASSUME MainInv, Refuse PROVE MainInv'
  OBVIOUS
<1>1. main' \in {"exit1", "exit2", "exit3"}
  BY DEF Refuse, ArgumentError
<1>2. TypeInv'
  BY <1>1 DEF MainInv, TypeInv, Refuse, mainVars, Exits
<1> QED
  BY <1>1, <1>2 DEF MainInv, CrashesOnlyWithoutFile

\* The files are opened.
LEMMA OpenStep == MainInv /\ Open => MainInv'
<1> SUFFICES ASSUME MainInv, Open PROVE MainInv'
  OBVIOUS
<1>1. inv' = inv /\ main = "start" /\ ArgumentError = "ok" /\ main' \in {"segv", "mk_runs"}
  BY DEF Open
<1>2. fs \in [FileNames -> Seq(Record) \cup {NULL}] /\ fs' = [fs EXCEPT !["tmp_file"] = << >>]
  BY DEF MainInv, TypeInv, Open
<1>3. /\ fs' \in [FileNames -> Seq(Record) \cup {NULL}]
      /\ fs'["tmp_file"] = << >> /\ fs'["output"] = fs["output"]
  BY <1>2 DEF FileNames
<1>4. TypeInv'
  BY <1>1, <1>3 DEF MainInv, TypeInv, Open, mainVars, Exits
<1>5. CASE inv.input = NULL
  <2>1. main' = "segv"
    BY <1>5 DEF Open
  <2> QED
    BY <1>1, <1>3, <1>4, <1>5, <2>1 DEF MainInv, CrashesOnlyWithoutFile
<1>6. CASE inv.input # NULL
  <2>1. Accepted' /\ FirstLength' = FirstLength
    BY <1>1, <1>6, InvFrame DEF Accepted
  <2>2. /\ main' = "mk_runs" /\ input' = inv.input /\ tail' = inv.tail
        /\ run_length' = FirstLength /\ out' = << >>
    BY <1>6 DEF Open, FirstLength
  <2>3. before' = fs["output"] /\ flip' = FALSE
    BY <1>1 DEF MainInv, StartInv, Open, mainVars
  <2>4. MakeInv'
    BY <1>1, <1>3, <2>1, <2>2, <2>3 DEF MakeInv
  <2> QED
    BY <1>4, <2>2, <2>4 DEF MainInv, CrashesOnlyWithoutFile
<1> QED
  BY <1>5, <1>6

\* mk_runs starts in the state it expects.
LEMMA OpenStarts ==
    ASSUME MainInv, Open
    PROVE  main' # "merge" /\ (main' = "mk_runs" => MkStarted')
<1>1. inv \in Invocations /\ main' \in {"segv", "mk_runs"}
  BY DEF MainInv, TypeInv, Open
<1>2. ASSUME main' = "mk_runs" PROVE MkStarted'
  <2>1. /\ Accepted /\ input' = inv.input /\ tail' = inv.tail /\ run_length' = FirstLength
        /\ in_pos' = 0 /\ reading' = TRUE /\ chunk' = << >> /\ unwritten' = {} /\ out' = << >>
    BY <1>2 DEF Open, Accepted, FirstLength
  <2>2. input' \in Seq(Record) /\ tail' \in Record \cup {NULL} /\ run_length' \in Nat \ {0}
    BY <1>1, <2>1, AcceptedLemma
  <2> QED
    BY <2>1, <2>2 DEF MkStarted
<1> QED
  BY <1>1, <1>2

\* A step of mk_runs, given what mk_runs does.
LEMMA MakeRunsMainStep ==
    ASSUME MainInv, MakeRuns, out' \in Seq(Record),
           input' = input, tail' = tail, run_length' = run_length, MkReturns'
    PROVE  MainInv'
<1>1. /\ inv' = inv /\ main = "mk_runs" /\ before' = before /\ flip' = flip
      /\ main' = IF reading' THEN "mk_runs" ELSE "loop"
  BY DEF MakeRuns, mainVars
<1>2. fs \in [FileNames -> Seq(Record) \cup {NULL}] /\ fs' = [fs EXCEPT !["tmp_file"] = out']
  BY DEF MainInv, TypeInv, MakeRuns
<1>3. /\ fs' \in [FileNames -> Seq(Record) \cup {NULL}]
      /\ fs'["tmp_file"] = out' /\ fs'["output"] = fs["output"]
  BY <1>2 DEF FileNames
<1>4. TypeInv'
  BY <1>1, <1>3 DEF MainInv, TypeInv, MakeRuns, mainVars
<1>5. MakeInv
  BY <1>1 DEF MainInv
<1>6. /\ Accepted' /\ FirstLength' = FirstLength /\ Kept' = Kept
      /\ fs'["output"] = before'
  BY <1>1, <1>3, <1>5, InvFrame DEF MakeInv
<1>7. CASE reading'
  <2>1. MakeInv'
    BY <1>1, <1>3, <1>5, <1>6 DEF MakeInv
  <2> QED
    BY <1>1, <1>4, <1>7, <2>1 DEF MainInv, CrashesOnlyWithoutFile
<1>8. CASE ~reading'
  <2>1. run_length' = FirstLength' /\ flip' = FALSE
    BY <1>1, <1>5, <1>6 DEF MakeInv
  <2>2. RunsIn(FirstLength', fs'["tmp_file"]) /\ SameRecords(fs'["tmp_file"], Kept')
    <3>1. RunsIn(run_length', out')
          /\ SameRecords(out', IF tail' # NULL /\ Len(input') % run_length' # 0
                               THEN Append(input', tail') ELSE input')
      BY <1>8 DEF MkReturns
    <3>2. Kept' = IF tail' # NULL /\ Len(input') % run_length' # 0
                  THEN Append(input', tail') ELSE input'
      BY <1>1, <1>5, <2>1 DEF MakeInv, Kept, num_records
    <3> QED
      BY <1>3, <2>1, <3>1, <3>2
  <2>3. LoopInv'
    BY <1>3, <1>6, <2>1, <2>2 DEF LoopInv, Untouched
  <2> QED
    BY <1>1, <1>4, <1>8, <2>3 DEF MainInv, CrashesOnlyWithoutFile
<1> QED
  BY <1>7, <1>8

\* The last pass, if there was one, left its result in the file to be read.
LEMMA LoopLemma ==
    ASSUME TypeInv, LoopInv, run_length < num_records
    PROVE  /\ IsLength(FirstLength, inv.k, run_length)
           /\ fs[ReadFilename] = NULL => ReadsLeftover /\ ReadFilename = "tmp_file2"
           /\ \/ /\ run_length = FirstLength
                 /\ RunsIn(FirstLength, fs[ReadFilename]) /\ SameRecords(fs[ReadFilename], Kept)
              \/ ~ReadsLeftover /\ NoOverread => Merged(BufferRecords, Kept, fs[ReadFilename])
<1>1. inv \in Invocations /\ Accepted /\ fs["tmp_file"] \in Seq(Record) /\ fs["tmp_file"] # NULL
  BY FileAssumption DEF TypeInv, LoopInv
<1>2. FirstLength \in Nat \ {0} /\ inv.k \in Nat \ {0, 1} /\ num_records \in Nat
  BY <1>1, AcceptedLemma
<1>3. ReadFilename # "tmp_file2" => ReadFilename = "tmp_file"
  BY DEF ReadFilename
<1>4. CASE /\ run_length = FirstLength /\ flip = FALSE
           /\ RunsIn(FirstLength, fs["tmp_file"]) /\ SameRecords(fs["tmp_file"], Kept)
  <2>1. IsLength(FirstLength, inv.k, FirstLength) /\ ReadFilename = "tmp_file"
    BY <1>2, <1>4, LengthLemma DEF ReadFilename
  <2> QED
    BY <1>1, <1>4, <2>1
<1>5. ASSUME NEW l \in Nat, IsLength(FirstLength, inv.k, l), run_length = l * inv.k,
             write_filename = IF WritesOutput(num_records, inv.k, l) THEN "output" ELSE ReadFilename,
             fs[write_filename] \in Seq(Record),
             ~ReadsLeftover /\ NoOverread => Merged(BufferRecords, Kept, fs[write_filename])
      PROVE  /\ IsLength(FirstLength, inv.k, run_length)
             /\ ~ReadsLeftover => fs[ReadFilename] \in Seq(Record)
             /\ ~ReadsLeftover /\ NoOverread => Merged(BufferRecords, Kept, fs[ReadFilename])
  <2>1. IsLength(FirstLength, inv.k, l * inv.k)
    BY <1>2, <1>5, LengthLemma
  <2>2. ~ReadsLeftover => ~WritesOutput(num_records, inv.k, l)
    BY <1>1, <1>5, EarlierPassLemma
  <2>3. ~ReadsLeftover => write_filename = ReadFilename
    BY <1>5, <2>2
  <2> QED
    BY <1>5, <2>1, <2>3
<1>6. CASE ~(/\ run_length = FirstLength /\ flip = FALSE
             /\ RunsIn(FirstLength, fs["tmp_file"]) /\ SameRecords(fs["tmp_file"], Kept))
  <2>1. /\ IsLength(FirstLength, inv.k, run_length)
        /\ ~ReadsLeftover => fs[ReadFilename] \in Seq(Record)
        /\ ~ReadsLeftover /\ NoOverread => Merged(BufferRecords, Kept, fs[ReadFilename])
    BY <1>5, <1>6 DEF LoopInv
  <2> QED
    BY <1>1, <1>3, <2>1, FileAssumption
<1> QED
  BY <1>4, <1>6, ZenonT(30)

\* A pass starts.
LEMMA OpenPassStep == MainInv /\ OpenPass => MainInv'
<1> SUFFICES ASSUME MainInv, OpenPass PROVE MainInv'
  OBVIOUS
<1>1. /\ inv' = inv /\ main = "loop" /\ run_length < num_records /\ before' = before
      /\ flip' = flip /\ run_length' = run_length /\ main' \in {"segv", "merge"}
  BY DEF OpenPass
<1>2. TypeInv /\ LoopInv
  BY <1>1 DEF MainInv
<1>3. /\ IsLength(FirstLength, inv.k, run_length)
      /\ fs[ReadFilename] = NULL => ReadsLeftover /\ ReadFilename = "tmp_file2"
  BY <1>1, <1>2, LoopLemma
<1>4. inv \in Invocations /\ Accepted /\ Untouched /\ fs["tmp_file"] \in Seq(Record)
  BY <1>2 DEF TypeInv, LoopInv
<1>5. /\ FirstLength \in Nat \ {0} /\ inv.k \in Nat \ {0, 1} /\ num_records \in Nat
      /\ inv.mem \div (inv.k + 1) \in Nat
      /\ inv.input # NULL
  BY <1>4, AcceptedLemma DEF Accepted
<1>6. run_length \in Nat \ {0}
  BY <1>3, <1>5, LengthLemma, ZenonT(30)
<1>7. CASE fs[ReadFilename] = NULL
  <2>1. main' = "segv" /\ fs' = fs /\ write_filename' = write_filename /\ heap' = heap
    BY <1>7 DEF OpenPass
  <2>2. TypeInv'
    BY <1>1, <1>2, <2>1 DEF TypeInv, OpenPass, Exits
  <2>3. ReadsLeftover' /\ fs'["tmp_file2"] = NULL /\ inv'.input # NULL
    BY <1>1, <1>3, <1>5, <1>7, <2>1, InvFrame
  <2> QED
    BY <2>1, <2>2, <2>3 DEF MainInv, CrashesOnlyWithoutFile
<1>8. CASE fs[ReadFilename] # NULL
  <2>1. /\ main' = "merge" /\ runs' = fs[ReadFilename] /\ num_runs' = NumRuns
        /\ buf_size' = inv.mem \div (inv.k + 1)
        /\ out' = << >> /\ heap' = heap + NumRuns * (inv.mem \div (inv.k + 1))
        /\ write_filename' = WriteFilename /\ fs' = [fs EXCEPT ![WriteFilename] = << >>]
    BY <1>8 DEF OpenPass
  <2>2. /\ NumRuns = Ceil(num_records, run_length)
        /\ WriteFilename = IF WritesOutput(num_records, inv.k, run_length) THEN "output"
                           ELSE IF flip THEN "tmp_file" ELSE "tmp_file2"
        /\ WriteFilename # ReadFilename
        /\ ReadFilename \in FileNames /\ WriteFilename \in FileNames
    BY <1>2, FileNamesLemma DEF TypeInv
  <2>3. NumRuns \in Nat
    BY <1>5, <1>6, <2>2, CeilLemma
  <2>4. /\ fs' \in [FileNames -> Seq(Record) \cup {NULL}]
        /\ fs'[WriteFilename] = << >> /\ fs'[ReadFilename] = fs[ReadFilename]
        /\ fs'["tmp_file"] \in Seq(Record)
        /\ WriteFilename # "output" => fs'["output"] = fs["output"]
    <3>1. fs \in [FileNames -> Seq(Record) \cup {NULL}]
      BY <1>2 DEF TypeInv
    <3> QED
      BY <1>4, <2>1, <2>2, <3>1 DEF FileNames
  <2>5. heap' \in Nat
    BY <1>2, <1>5, <2>1, <2>3 DEF TypeInv
  <2>6. TypeInv'
    BY <1>1, <1>2, <2>1, <2>2, <2>4, <2>5 DEF TypeInv, OpenPass
  <2>7. NeverWritten => WriteFilename # "output"
    BY <1>1, <1>3, <1>4, <2>2, NeverWrittenLemma
  <2>8. Untouched'
    BY <1>1, <1>4, <2>4, <2>7, InvFrame DEF Untouched
  <2>9. ReadFilename' = ReadFilename /\ WriteFilename' = WriteFilename
    BY <1>1, InvFrame DEF ReadFilename, WriteFilename, NumRuns
  <2>10. \/ /\ run_length' = FirstLength'
            /\ RunsIn(FirstLength', runs') /\ SameRecords(runs', Kept')
         \/ ~ReadsLeftover' /\ NoOverread' => Merged(BufferRecords', Kept', runs')
    <3>1. \/ /\ run_length = FirstLength
             /\ RunsIn(FirstLength, fs[ReadFilename]) /\ SameRecords(fs[ReadFilename], Kept)
          \/ ~ReadsLeftover /\ NoOverread => Merged(BufferRecords, Kept, fs[ReadFilename])
      BY <1>1, <1>2, LoopLemma
    <3> QED
      BY <1>1, <2>1, <3>1, InvFrame
  <2>11. /\ Accepted' /\ IsLength(FirstLength', inv'.k, run_length') /\ run_length' < num_records'
         /\ num_runs' = Ceil(num_records', run_length')
         /\ buf_size' = inv'.mem \div (inv'.k + 1)
    BY <1>1, <1>3, <1>4, <2>1, <2>2, InvFrame
  <2>12. write_filename' = WriteFilename' /\ runs' = fs'[ReadFilename'] /\ fs'[write_filename'] = out'
    BY <2>1, <2>4, <2>9, Zenon
  <2>13. PassInv'
    BY <2>4, <2>8, <2>10, <2>11, <2>12 DEF PassInv
  <2> QED
    BY <2>1, <2>6, <2>13 DEF MainInv, CrashesOnlyWithoutFile
<1> QED
  BY <1>7, <1>8

\* merge_runs starts in the state it expects.
LEMMA OpenPassStarts ==
    ASSUME MainInv, OpenPass
    PROVE  main' # "mk_runs" /\ (main' = "merge" => MergeStarted')
<1>1. /\ main = "loop" /\ main' \in {"segv", "merge"} /\ run_length < num_records
      /\ run_length' = run_length
  BY DEF OpenPass
<1>2. ASSUME main' = "merge" PROVE MergeStarted'
  <2>1. /\ runs' = fs[ReadFilename] /\ num_runs' = NumRuns /\ runs' # NULL
        /\ buf_size' = inv.mem \div (inv.k + 1)
        /\ iters' = MR!NewIterators(NumRuns, run_length, buf_size')
        /\ fp' = run_length * (NumRuns - 1)
        /\ pc' = "have" /\ idx' = 1 /\ min' = 0
        /\ outbuf' = << >> /\ out' = << >>
    BY <1>2 DEF OpenPass
  <2>2. TypeInv /\ LoopInv /\ inv \in Invocations /\ Accepted
    BY <1>1 DEF MainInv, TypeInv, LoopInv
  <2>3. runs' \in Seq(Record)
    <3>1. ReadFilename \in FileNames /\ fs \in [FileNames -> Seq(Record) \cup {NULL}]
      BY <2>2, FileNamesLemma DEF TypeInv
    <3> QED
      BY <2>1, <3>1
  <2>4. /\ FirstLength \in Nat \ {0} /\ inv.k \in Nat \ {0, 1} /\ num_records \in Nat
        /\ buf_size' \in Nat \ {0}
    BY <2>1, <2>2, AcceptedLemma
  <2>5. IsLength(FirstLength, inv.k, run_length)
    BY <1>1, <2>2, LoopLemma
  <2>6. run_length \in Nat \ {0}
    BY <2>4, <2>5, LengthLemma, Zenon
  <2>7. NumRuns \in Nat \ {0}
    <3>1. NumRuns = Ceil(num_records, run_length)
      BY DEF NumRuns, Ceil
    <3> QED
      BY <1>1, <2>4, <2>6, <3>1, CeilLemma
  <2>8. iters' = MR!NewIterators(num_runs', run_length', buf_size')
        /\ fp' = run_length' * (num_runs' - 1)
    BY <1>1, <2>1
  <2> QED
    BY <1>1, <2>1, <2>3, <2>4, <2>6, <2>7, <2>8 DEF MergeStarted
<1> QED
  BY <1>1, <1>2

\* A step of merge_runs, given what merge_runs leaves alone.
LEMMA MergeMainStep ==
    ASSUME MainInv, Merge, out' \in Seq(Record), run_length' = run_length,
           runs' = runs, buf_size' = buf_size, num_runs' = num_runs
    PROVE  MainInv'
<1>1. /\ inv' = inv /\ main = "merge" /\ main' = "merge" /\ before' = before
      /\ flip' = flip /\ write_filename' = write_filename
      /\ fs' = [fs EXCEPT ![write_filename] = out']
  BY DEF Merge, mainVars
<1>2. TypeInv /\ PassInv
  BY <1>1 DEF MainInv
<1>3. /\ write_filename = WriteFilename
      /\ WriteFilename = IF WritesOutput(num_records, inv.k, run_length) THEN "output"
                         ELSE IF flip THEN "tmp_file" ELSE "tmp_file2"
      /\ WriteFilename # ReadFilename
      /\ ReadFilename \in FileNames /\ WriteFilename \in FileNames
  BY <1>2, FileNamesLemma DEF TypeInv, PassInv
<1>4. /\ inv \in Invocations /\ Accepted /\ Untouched /\ fs["tmp_file"] \in Seq(Record)
      /\ IsLength(FirstLength, inv.k, run_length) /\ run_length < num_records
      /\ fs \in [FileNames -> Seq(Record) \cup {NULL}]
  BY <1>2 DEF TypeInv, PassInv
<1>5. /\ fs' \in [FileNames -> Seq(Record) \cup {NULL}]
      /\ fs'[WriteFilename] = out' /\ fs'[ReadFilename] = fs[ReadFilename]
      /\ fs'["tmp_file"] \in Seq(Record)
      /\ WriteFilename # "output" => fs'["output"] = fs["output"]
  BY <1>1, <1>3, <1>4 DEF FileNames
<1>6. TypeInv'
  BY <1>1, <1>2, <1>5 DEF TypeInv, Merge, mainVars
<1>7. NeverWritten => WriteFilename # "output"
  BY <1>3, <1>4, NeverWrittenLemma
<1>8. Untouched'
  BY <1>1, <1>4, <1>5, <1>7, InvFrame DEF Untouched
<1>9. ReadFilename' = ReadFilename /\ WriteFilename' = WriteFilename
  BY <1>1, InvFrame DEF ReadFilename, WriteFilename, NumRuns
<1>10. write_filename' = WriteFilename' /\ runs' = fs'[ReadFilename'] /\ fs'[write_filename'] = out'
  BY <1>1, <1>2, <1>3, <1>5, <1>9, Zenon DEF PassInv
<1>11. /\ Accepted' /\ IsLength(FirstLength', inv'.k, run_length') /\ run_length' < num_records'
       /\ num_runs' = Ceil(num_records', run_length')
       /\ buf_size' = inv'.mem \div (inv'.k + 1)
  BY <1>1, <1>2, InvFrame, ZenonT(60) DEF PassInv
<1>12. \/ /\ run_length' = FirstLength'
          /\ RunsIn(FirstLength', runs') /\ SameRecords(runs', Kept')
       \/ ~ReadsLeftover' /\ NoOverread' => Merged(BufferRecords', Kept', runs')
  BY <1>1, <1>2, InvFrame DEF PassInv
<1>13. PassInv'
  BY <1>5, <1>8, <1>10, <1>11, <1>12 DEF PassInv
<1> QED
  BY <1>1, <1>6, <1>13 DEF MainInv, CrashesOnlyWithoutFile

\* The file that a pass reads has sorted runs, the iterators cover it and stay in
\* their runs, and it holds the records that mk_runs keeps.
LEMMA PassReadsLemma ==
    ASSUME TypeInv, PassInv, runs \in Seq(Record), ~ReadsLeftover, NoOverread, BufferRecords > 0
    PROVE  MR!RunsSorted /\ MR!RunsCover /\ ~MR!OverreadsLastRun /\ SameRecords(runs, Kept)
<1> DEFINE first == FirstLength
           n == num_records
<1>1. inv \in Invocations /\ Accepted /\ IsLength(first, inv.k, run_length) /\ run_length < n
  BY SMTT(30) DEF TypeInv, PassInv
<1>2. /\ first \in Nat \ {0} /\ inv.k \in Nat \ {0, 1} /\ n \in Nat
      /\ inv.input \in Seq(Record) /\ n = Len(inv.input)
  BY <1>1, AcceptedLemma DEF num_records
<1>3. run_length \in Nat \ {0} /\ Multiple(run_length, first)
  BY <1>1, <1>2, LengthLemma, ZenonT(30)
<1>4. \/ run_length = first /\ RunsIn(first, runs) /\ SameRecords(runs, Kept)
      \/ Sorted(runs) /\ SameRecords(runs, Kept)
  BY DEF PassInv, Merged
<1>5. SameRecords(runs, Kept)
  BY <1>4
<1>6. PICK len \in Nat : len = Len(runs) /\ len = Len(Kept)
  BY <1>5 DEF SameRecords
<1>7. ASSUME NEW i \in 1 .. num_runs, NEW p \in 1 .. Len(runs), NEW q \in 1 .. Len(runs),
             run_length * (i - 1) < p, p =< run_length * i,
             run_length * (i - 1) < q, q =< run_length * i,
             p < q
      PROVE  record_object_comparator(runs[p], runs[q]) =< 0
  <2>1. CASE Sorted(runs)
    BY <1>7, <2>1 DEF Sorted
  <2>2. CASE run_length = first /\ RunsIn(first, runs)
    <3>1. i - 1 \in Nat /\ p \in Nat \ {0} /\ q \in Nat \ {0}
      BY <1>6
    <3>2. PICK m \in Nat : m = run_length * (i - 1) /\ m = (i - 1) * run_length
      BY <1>3, <3>1
    <3>3. run_length * i = m + run_length
      BY <1>3, <3>1, <3>2
    <3>4. ASSUME NEW x \in Nat \ {0}, m < x, x =< m + run_length
          PROVE  (x - 1) \div run_length = i - 1
      <4>1. PICK j \in Nat, a \in Nat, r \in 0 .. run_length - 1 :
               j = i - 1 /\ a = x - 1 /\ a = m + r
        BY <1>3, <3>1, <3>4
      <4>2. a = j * run_length + r
        BY <3>2, <4>1, Zenon
      <4>3. a \div run_length = j
        BY <1>3, <4>2, ModLemma
      <4> QED
        BY <4>1, <4>3
    <3>5. (p - 1) \div run_length = i - 1 /\ (q - 1) \div run_length = i - 1
      BY <1>7, <3>1, <3>2, <3>3, <3>4, Zenon
    <3> QED
      BY <1>7, <2>2, <3>5 DEF RunsIn
  <2> QED
    BY <1>4, <2>1, <2>2
<1>8. MR!RunsSorted
  BY <1>7 DEF MR!RunsSorted, MR!RunPositions, MR!Iters, MR!record_object_comparator,
              record_object_comparator
<1>9. Len(runs) =< run_length * num_runs
  <2>1. PICK c \in Nat : c = num_runs /\ c = Ceil(n, run_length) /\ n =< c * run_length
    BY <1>2, <1>3, CeilLemma, Zenon DEF PassInv
  <2>2. n % first # 0 => n + 1 =< c * run_length
    BY <1>2, <1>3, <2>1, RoomLemma, Zenon
  <2>3. len = n \/ (n % first # 0 /\ len = n + 1)
    <3>1. inv.tail # NULL => Len(Append(inv.input, inv.tail)) = n + 1
      BY <1>1, <1>2, AcceptedLemma
    <3> QED
      BY <1>2, <1>6, <3>1, Zenon DEF Kept
  <2>4. c * run_length = run_length * num_runs
    BY <1>3, <2>1
  <2>5. c * run_length \in Nat
    BY <1>3
  <2> QED
    BY <1>2, <1>6, <2>1, <2>2, <2>3, <2>4, <2>5, ZenonT(30)
<1>10. ~MR!Overreads(Len(runs), run_length, buf_size \div RecordSize)
  <2>1. run_length \in PassLengths
    BY <1>1, PassLengthsLemma, SMTT(30)
  <2>2. buf_size \div RecordSize = BufferRecords
    BY SMTT(30) DEF PassInv, BufferRecords
  <2> QED
    BY <1>6, <2>1, <2>2 DEF NoOverread
<1> QED
  BY <1>5, <1>8, <1>9, <1>10
     DEF MR!RunsCover, MR!OverreadsLastRun, MR!max_number_of_records_in_buffer

\* The records of a file are those of a third one, if those of a second one are.
LEMMA SameRecordsLemma ==
    ASSUME NEW s, NEW t, NEW u, SameRecords(s, t), SameRecords(t, u)
    PROVE  SameRecords(s, u)
BY SMTT(30) DEF SameRecords

\* A pass ends, given what merge_runs has made.
LEMMA ClosePassMainStep ==
    ASSUME MainInv, ClosePass, out \in Seq(Record), runs \in Seq(Record), MergeReturns
    PROVE  MainInv'
<1>1. /\ inv' = inv /\ main = "merge" /\ main' = "loop" /\ before' = before /\ fs' = fs
      /\ flip' = ~flip /\ write_filename' = write_filename /\ run_length' = run_length * inv.k
  BY SMTT(30) DEF ClosePass
<1>2. TypeInv /\ PassInv
  BY <1>1, SMTT(30) DEF MainInv
<1>3. TypeInv'
  BY <1>1, <1>2, SMTT(30) DEF TypeInv, ClosePass
<1>4. write_filename = IF WritesOutput(num_records, inv.k, run_length) THEN "output"
                       ELSE IF flip THEN "tmp_file" ELSE "tmp_file2"
  BY <1>2, FileNamesLemma DEF TypeInv, PassInv
<1>5. ReadFilename' = IF flip THEN "tmp_file" ELSE "tmp_file2"
  BY <1>1, <1>2, Zenon DEF TypeInv, ReadFilename
<1>6. /\ Accepted' /\ Untouched' /\ fs'["tmp_file"] \in Seq(Record)
      /\ IsLength(FirstLength', inv'.k, run_length) /\ run_length < num_records'
      /\ run_length' = run_length * inv'.k
  BY <1>1, <1>2, InvFrame DEF PassInv, Untouched
<1>7. write_filename' = IF WritesOutput(num_records', inv'.k, run_length) THEN "output" ELSE ReadFilename'
  BY <1>1, <1>4, <1>5, InvFrame
<1>8. ~ReadsLeftover /\ NoOverread => Merged(BufferRecords, Kept, out)
  <2> SUFFICES ASSUME ~ReadsLeftover, NoOverread PROVE Merged(BufferRecords, Kept, out)
    BY Zenon
  <2>1. BufferRecords \in Nat /\ BufferRecords = buf_size \div RecordSize /\ pc = "done"
    BY <1>2, AcceptedLemma DEF TypeInv, PassInv, BufferRecords, ClosePass
  <2>2. CASE BufferRecords = 0
    <3>1. out = << >>
      BY <2>1, <2>2 DEF MergeReturns
    <3> QED
      BY <2>2, <3>1 DEF Merged
  <2>3. CASE BufferRecords > 0
    <3>1. MR!RunsSorted /\ MR!RunsCover /\ ~MR!OverreadsLastRun /\ SameRecords(runs, Kept)
      BY <1>2, <2>3, PassReadsLemma
    <3>2. Sorted(out) /\ SameRecords(out, runs)
      BY <2>1, <2>3, <3>1 DEF MergeReturns
    <3> QED
      BY <2>3, <3>1, <3>2, SameRecordsLemma DEF Merged
  <2> QED
    BY <2>1, <2>2, <2>3
<1>9. /\ fs'[write_filename'] \in Seq(Record)
      /\ ~ReadsLeftover' /\ NoOverread' => Merged(BufferRecords', Kept', fs'[write_filename'])
  BY <1>1, <1>2, <1>8, InvFrame DEF PassInv
<1>10. run_length \in Nat
  <2>1. FirstLength \in Nat \ {0} /\ inv.k \in Nat \ {0, 1}
    BY <1>2, AcceptedLemma DEF TypeInv, PassInv
  <2> QED
    BY <1>2, <2>1, LengthLemma, ZenonT(30) DEF PassInv
<1>11. LoopInv'
  BY <1>6, <1>7, <1>9, <1>10 DEF LoopInv
<1> QED
  BY <1>1, <1>3, <1>11 DEF MainInv, CrashesOnlyWithoutFile

\* The while loop ends.
LEMMA FinishStep == MainInv /\ Finish => MainInv'
<1> SUFFICES ASSUME MainInv, Finish PROVE MainInv'
  OBVIOUS
<1>1. /\ inv' = inv /\ main = "loop" /\ main' = "exit0" /\ before' = before
      /\ run_length >= num_records
      /\ fs' = [fs EXCEPT !["tmp_file"] = NULL, !["tmp_file2"] = NULL]
  BY DEF Finish
<1>2. TypeInv /\ LoopInv
  BY <1>1 DEF MainInv
<1>3. fs' \in [FileNames -> Seq(Record) \cup {NULL}] /\ fs'["output"] = fs["output"]
  BY <1>1, <1>2, Zenon DEF TypeInv, FileNames
<1>4. TypeInv'
  BY <1>1, <1>2, <1>3 DEF TypeInv, Finish, mainVars, Exits
<1>5. Untouched'
  BY <1>1, <1>2, <1>3, InvFrame DEF LoopInv, Untouched
<1>6. inv \in Invocations /\ Accepted
  BY <1>2 DEF TypeInv, LoopInv
<1>7. FirstLength \in Nat \ {0} /\ inv.k \in Nat \ {0, 1} /\ num_records \in Nat
  BY <1>6, AcceptedLemma
<1>8. ~NeverWritten /\ ~ReadsLeftover /\ NoOverread => Merged(BufferRecords, Kept, fs["output"])
  <2> SUFFICES ASSUME ~NeverWritten, ~ReadsLeftover, NoOverread
               PROVE  Merged(BufferRecords, Kept, fs["output"])
    OBVIOUS
  <2>1. ~(FirstLength >= num_records)
    <3> SUFFICES ASSUME FirstLength >= num_records PROVE FALSE
      OBVIOUS
    <3>1. ASSUME NEW l \in PassLengths PROVE FALSE
      <4>1. IsLength(FirstLength, inv.k, l) /\ l < num_records
        BY <1>6, <3>1, PassLengthsLemma
      <4>2. l \in Nat /\ FirstLength =< l
        BY <1>7, <4>1, LengthLemma
      <4> QED
        BY <1>7, <4>1, <4>2
    <3> QED
      BY <3>1 DEF NeverWritten
  <2>2. run_length # FirstLength
    BY <1>1, <2>1
  <2>3. PICK l \in Nat :
           /\ IsLength(FirstLength, inv.k, l) /\ l < num_records /\ run_length = l * inv.k
           /\ write_filename = IF WritesOutput(num_records, inv.k, l) THEN "output" ELSE ReadFilename
           /\ ~ReadsLeftover /\ NoOverread => Merged(BufferRecords, Kept, fs[write_filename])
    BY <1>2, <2>2 DEF LoopInv
  <2>4. num_records =< l * inv.k
    BY <1>1, <1>7, <2>3
  <2>5. WritesOutput(num_records, inv.k, l)
    BY <1>6, <2>3, <2>4, LastPassLemma
  <2> QED
    BY <2>3, <2>5
<1>9. ExitInv'
  BY <1>1, <1>3, <1>5, <1>6, <1>8, InvFrame DEF ExitInv
<1> QED
  BY <1>1, <1>4, <1>9 DEF MainInv, CrashesOnlyWithoutFile

\* The process is killed.
LEMMA KillStep == MainInv /\ Kill => MainInv'
<1> SUFFICES ASSUME MainInv, Kill PROVE MainInv'
  OBVIOUS
<1>1. main' = "killed"
  BY DEF Kill
<1>2. TypeInv'
  BY <1>1 DEF MainInv, TypeInv, Kill, mainVars, Exits
<1> QED
  BY <1>1, <1>2 DEF MainInv, CrashesOnlyWithoutFile

\* The program is invoked again.
LEMMA InvokeAgainStep == MainInv /\ InvokeAgain => MainInv'
<1> SUFFICES ASSUME MainInv, InvokeAgain PROVE MainInv'
  OBVIOUS
<1>1. /\ main' = "start" /\ before' = fs["output"] /\ flip' = FALSE /\ write_filename' = "output"
      /\ heap' = 0 /\ fs' = fs /\ inv' \in Invocations /\ count' = count + 1 /\ count < MaxInvocations
  BY RepeatedAssumption DEF InvokeAgain
<1>2. count' \in 1 .. MaxInvocations
  BY <1>1, MaxInvocationsAssumption DEF MainInv, TypeInv
<1>3. TypeInv'
  BY <1>1, <1>2, ZenonT(30) DEF MainInv, TypeInv, FileNames
<1>4. StartInv'
  BY <1>1 DEF StartInv
<1> QED
  BY <1>1, <1>3, <1>4 DEF MainInv, CrashesOnlyWithoutFile

\* Steps that change nothing.
LEMMA MainStutter == MainInv /\ UNCHANGED vars => MainInv'
<1> SUFFICES ASSUME MainInv, UNCHANGED vars PROVE MainInv'
  BY SMTT(30)
<1>1. /\ inv' = inv /\ count' = count /\ fs' = fs /\ before' = before /\ main' = main
      /\ flip' = flip /\ write_filename' = write_filename /\ heap' = heap
      /\ input' = input /\ tail' = tail /\ run_length' = run_length /\ out' = out
      /\ runs' = runs /\ buf_size' = buf_size /\ num_runs' = num_runs
  BY Zenon DEF vars, mainVars, mkVars, mergeVars
<1>2. /\ Untouched' <=> Untouched
      /\ ReadFilename' = ReadFilename /\ WriteFilename' = WriteFilename
  BY <1>1, InvFrame DEF Untouched, ReadFilename, WriteFilename, NumRuns
<1>3. TypeInv' /\ (main' = "start" => StartInv')
  BY <1>1 DEF MainInv, TypeInv, StartInv
<1>4. main' = "mk_runs" => MakeInv'
  BY <1>1, InvFrame, SMTT(30) DEF MainInv, MakeInv
<1>5. main' = "loop" => LoopInv'
  <2>1. LoopInv => LoopInv'
    BY <1>1, <1>2, InvFrame, ZenonT(30) DEF LoopInv
  <2> QED
    BY <1>1, <2>1, Zenon DEF MainInv
<1>6. main' = "merge" => PassInv'
  <2>1. PassInv => PassInv'
    BY <1>1, <1>2, InvFrame, ZenonT(30) DEF PassInv
  <2> QED
    BY <1>1, <2>1, Zenon DEF MainInv
<1>7. (main' = "exit0" => ExitInv') /\ CrashesOnlyWithoutFile'
  BY <1>1, <1>2, InvFrame DEF MainInv, ExitInv, CrashesOnlyWithoutFile
<1> QED
  BY <1>3, <1>4, <1>5, <1>6, <1>7 DEF MainInv

\* The initial states.
LEMMA MainInit == Init => MainInv
<1> SUFFICES ASSUME Init PROVE MainInv
  OBVIOUS
<1>1. /\ main = "start" /\ flip = FALSE /\ before = NULL /\ count = 1
      /\ fs = [f \in FileNames |-> NULL]
  BY Zenon DEF Init
<1>2. TypeInv
  <2>1. fs \in [FileNames -> Seq(Record) \cup {NULL}] /\ count \in 1 .. MaxInvocations
    BY <1>1, MaxInvocationsAssumption
  <2> QED
    BY <1>1, <2>1, Zenon DEF Init, TypeInv, FileNames
<1>3. StartInv
  BY <1>1 DEF StartInv, FileNames
<1> QED
  BY <1>1, <1>2, <1>3 DEF MainInv, CrashesOnlyWithoutFile

-----------------------------------------------------------------------------
\* A file with the records of another one, sorted, is a sort of it.
LEMMA SortOfLemma ==
    ASSUME NEW s, NEW t \in Seq(Record), Sorted(s), SameRecords(s, t)
    PROVE  SortOf(s, t)
<1>1. \A j \in 1 .. Len(t) : t[j] \in Record
  OBVIOUS
<1> QED
  BY <1>1 DEF SortOf, SameRecords

\* mk_runs keeps a sequence of records.
LEMMA KeptLemma ==
    ASSUME inv \in Invocations, Accepted
    PROVE  Kept \in Seq(Record)
BY AcceptedLemma DEF Kept

\* The invariant implies the properties of main.
LEMMA MainProperties ==
    ASSUME MainInv
    PROVE  SortsItsInput /\ LeavesOutput /\ ReadsWhatItDoesNotWrite /\ FirstPassSorts
<1>1. SortsItsInput
  <2> SUFFICES ASSUME main = "exit0", ~NeverWritten, ~ReadsLeftover, NoOverread
               PROVE  IF BufferRecords > 0 THEN SortOf(fs["output"], Kept) ELSE fs["output"] = << >>
    BY DEF SortsItsInput
  <2>1. Merged(BufferRecords, Kept, fs["output"])
    BY DEF MainInv, ExitInv
  <2>2. Kept \in Seq(Record)
    BY KeptLemma, Zenon DEF MainInv, TypeInv, ExitInv
  <2>3. BufferRecords > 0 => SortOf(fs["output"], Kept)
    BY <2>1, <2>2, SortOfLemma DEF Merged
  <2> QED
    BY <2>1, <2>3 DEF Merged
<1>2. LeavesOutput
  BY Zenon DEF MainInv, ExitInv, Untouched, LeavesOutput
<1>3. ReadsWhatItDoesNotWrite
  BY FileNamesLemma, Zenon DEF MainInv, TypeInv, PassInv, ReadsWhatItDoesNotWrite
<1>4. FirstPassSorts
  <2> SUFFICES ASSUME main = "loop", FirstLength < run_length, ~ReadsLeftover,
                      BufferRecords > 0, NoOverread
               PROVE  SortOf(fs[write_filename], Kept)
    BY Zenon DEF FirstPassSorts
  <2>1. inv \in Invocations /\ Accepted /\ LoopInv
    BY DEF MainInv, TypeInv, LoopInv
  <2>2. run_length # FirstLength
    BY <2>1, AcceptedLemma, SMTT(30)
  <2>3. Merged(BufferRecords, Kept, fs[write_filename])
    BY <2>1, <2>2, Zenon DEF LoopInv
  <2> QED
    BY <2>1, <2>3, KeptLemma, SortOfLemma DEF Merged
<1> QED
  BY <1>1, <1>2, <1>3, <1>4, Zenon

\* A run has a length from the time the runs are made.
LEMMA RunLengthLemma ==
    ASSUME MainInv, main \in {"mk_runs", "loop", "merge"}
    PROVE  run_length \in Nat \ {0}
<1>1. inv \in Invocations /\ Accepted
  BY DEF MainInv, TypeInv, MakeInv, LoopInv, PassInv
<1>2. FirstLength \in Nat \ {0} /\ inv.k \in Nat \ {0, 1}
  BY <1>1, AcceptedLemma
<1>3. CASE run_length = FirstLength
  BY <1>2, <1>3
<1>4. CASE IsLength(FirstLength, inv.k, run_length)
  BY <1>2, <1>4, LengthLemma, Zenon
<1>5. CASE \E l \in Nat : IsLength(FirstLength, inv.k, l) /\ run_length = l * inv.k
  <2>1. PICK l \in Nat : IsLength(FirstLength, inv.k, l) /\ run_length = l * inv.k
    BY <1>5
  <2>2. l \in Nat \ {0}
    BY <1>2, <2>1, LengthLemma
  <2> QED
    BY <1>2, <2>1, <2>2
<1> QED
  BY <1>3, <1>4, <1>5, Zenon DEF MainInv, MakeInv, LoopInv, PassInv

-----------------------------------------------------------------------------
(***************************************************************************)
(* What is proved of mk_runs, for the call of main.                        *)
(***************************************************************************)
MKP == INSTANCE MkRunsProofs WITH MkCalls <- {}, mk_run_length <- run_length, mk_out <- out

\* A call of mk_runs satisfies the invariant of mk_runs from its start, and when
\* it returns the runs are made.
LEMMA MkCall ==
    /\ MkStarted => MKP!MkInv
    /\ MKP!MkInv => MK!MkTypeOK /\ MkReturns
<1>1. MkStarted => MKP!MkInv
  BY MKP!StartedLemma, RecordAssumption, RecordSizeAssumption DEF MkStarted, MKP!Started
<1>2. MKP!MkInv => MK!MkTypeOK
  BY SMTT(30) DEF MKP!MkInv, MKP!MkTypeOK, MK!MkTypeOK
<1>3. ASSUME MKP!MkInv, ~reading PROVE MKP!Result
  BY <1>3, MKP!ResultLemma, RecordAssumption, RecordSizeAssumption
<1>4. ASSUME NEW s, NEW r PROVE MK!MkCopies(s, r) = MKP!MkCopies(s, r)
  BY ZenonT(60) DEF MK!MkCopies, MKP!MkCopies, MK!Cardinality, MKP!Cardinality
<1>5. MKP!Result => RunsIn(run_length, out)
  BY DEF MKP!Result, MKP!RunsAreSorted, RunsIn, record_object_comparator, MKP!record_object_comparator
<1>6. MKP!Result => SameRecords(out, MKP!KeptOf(input, tail, run_length))
  BY <1>4 DEF MKP!Result, SameRecords
<1> QED
  BY <1>1, <1>2, <1>3, <1>5, <1>6 DEF MkReturns, MKP!KeptOf

\* The same in the next state.
LEMMA MkCallNext ==
    /\ MkStarted' => MKP!MkInv'
    /\ MKP!MkInv' => MK!MkTypeOK' /\ MkReturns'
BY MkCall, PTL

\* The steps of mk_runs keep its invariant.
LEMMA MkCallStep ==
    ASSUME MKP!MkInv, MK!MkNext \/ UNCHANGED MK!mkVars
    PROVE  MKP!MkInv' /\ input' = input /\ tail' = tail /\ run_length' = run_length
<1>1. MK!MkNext => MKP!MkNext /\ UNCHANGED MK!mkParams
  BY ZenonT(30) DEF MK!MkNext, MK!ReadChunk, MK!WriteRecord, MK!IsFirst, MK!RecordsRead, MK!AfterRead,
         MK!BufferedRecords, MK!mkParams, MK!record_object_comparator, MK!FreadCount,
         MKP!MkNext, MKP!ReadChunk, MKP!WriteRecord, MKP!IsFirst, MKP!RecordsRead, MKP!AfterRead,
         MKP!BufferedRecords, MKP!mkParams, MKP!record_object_comparator, MKP!FreadCount
<1>2. UNCHANGED MK!mkVars => UNCHANGED MKP!mkVars /\ UNCHANGED MK!mkParams
  BY SMTT(30) DEF MK!mkVars, MKP!mkVars, MK!mkParams, MKP!mkParams
<1> QED
  BY <1>1, <1>2, MKP!MkStep, RecordAssumption, RecordSizeAssumption DEF MK!mkParams

-----------------------------------------------------------------------------
(***************************************************************************)
(* What is proved of merge_runs, for the calls of main.                    *)
(***************************************************************************)
MRP == INSTANCE MergeRunsProofs WITH Merges <- {}

\* The invariant of merge_runs, for buffers of any size.
MergeCallInv == MRP!MergeInv /\ MRP!NothingFits

\* A call of merge_runs satisfies the invariant from its start, and when it
\* returns the output is written.
LEMMA MergeCall ==
    /\ MergeStarted => MergeCallInv
    /\ MergeCallInv => MR!TypeOK /\ MergeReturns
<1>1. MergeStarted => MRP!Started
  BY SMTT(30) DEF MergeStarted, MRP!Started, MR!NewIterators, MRP!NewIterators,
         MR!new_RunIterator, MRP!new_RunIterator
<1>2. MergeStarted => MergeCallInv
  BY <1>1, MRP!StartedLemma, RecordAssumption, RecordSizeAssumption
     DEF MergeStarted, MergeCallInv, MRP!NothingFits
<1>3. MergeCallInv => MR!TypeOK
  BY ZenonT(60) DEF MergeCallInv, MRP!MergeInv, MRP!TypeOK, MR!TypeOK, MRP!Iters, MR!Iters,
         MRP!Iterator, MR!Iterator
<1>4. /\ MR!RunsSorted => MRP!RunsSorted
      /\ MR!RunsCover => MRP!RunsCover
      /\ ~MR!OverreadsLastRun => ~MRP!OverreadsLastRun
  BY DEF MR!RunsSorted, MRP!RunsSorted, MR!RunPositions, MRP!RunPositions, MR!Iters, MRP!Iters,
         MR!record_object_comparator, MRP!record_object_comparator,
         MR!RunsCover, MRP!RunsCover,
         MR!OverreadsLastRun, MRP!OverreadsLastRun, MR!Overreads, MRP!Overreads,
         MR!max_number_of_records_in_buffer, MRP!max_number_of_records_in_buffer
<1>5. MRP!max_number_of_records_in_buffer = buf_size \div RecordSize
  BY SMTT(30) DEF MRP!max_number_of_records_in_buffer
<1>6. ASSUME MergeCallInv, pc = "done", MRP!RunsSorted, MRP!RunsCover, ~MRP!OverreadsLastRun,
             buf_size \div RecordSize > 0
      PROVE  /\ MRP!Sorted(out) /\ Len(out) = Len(runs)
             /\ \A r \in Record : MRP!Copies(out, 1 .. Len(out), r) = MRP!Copies(runs, 1 .. Len(runs), r)
  BY <1>5, <1>6, MRP!MergeResultLemma, RecordAssumption, RecordSizeAssumption DEF MergeCallInv
<1>7. ASSUME NEW s, NEW r PROVE MK!MkCopies(s, r) = MRP!Copies(s, 1 .. Len(s), r)
  BY SMTT(30) DEF MK!MkCopies, MRP!Copies, MK!Cardinality, MRP!Cardinality
<1>8. MRP!Sorted(out) => Sorted(out)
  BY SMTT(30) DEF Sorted, MRP!Sorted, record_object_comparator, MRP!record_object_comparator
<1>9. MergeCallInv => (buf_size \div RecordSize = 0 => out = << >>)
  BY <1>5, SMTT(30) DEF MergeCallInv, MRP!NothingFits
<1>10. MergeCallInv => MergeReturns
  BY <1>4, <1>6, <1>7, <1>8, <1>9 DEF MergeReturns, SameRecords
<1> QED
  BY <1>2, <1>3, <1>10

\* The same in the next state.
LEMMA MergeCallNext ==
    /\ MergeStarted' => MergeCallInv'
    /\ MergeCallInv' => MR!TypeOK' /\ MergeReturns'
BY MergeCall, PTL

\* The methods of the iterators that merge_runs calls.
LEMMA IteratorLink ==
    ASSUME NEW f, NEW p, NEW it
    PROVE  /\ MR!get_current_record(f, p, it) = MRP!get_current_record(f, p, it)
           /\ MR!next(f, p, it) = MRP!next(f, p, it)
<1>1. ASSUME NEW g, NEW o, NEW i PROVE MR!has_next(g, o, i) = MRP!has_next(g, o, i)
  BY SMTT(30) DEF MR!has_next, MRP!has_next, MR!HasRecord, MRP!HasRecord,
         MR!read_into_buffer, MRP!read_into_buffer, MR!RecordsLeftAfter, MRP!RecordsLeftAfter,
         MR!SeekPos, MRP!SeekPos, MR!RefillSize, MRP!RefillSize, MR!BufRecords, MRP!BufRecords,
         MR!FreadCount, MRP!FreadCount
<1>2. ASSUME NEW g, NEW o, NEW i PROVE MR!next(g, o, i) = MRP!next(g, o, i)
  BY <1>1, ZenonT(30) DEF MR!next, MRP!next, MR!RecordAtPointer, MRP!RecordAtPointer
<1> QED
  BY <1>2, SMTT(30) DEF MR!get_current_record, MRP!get_current_record

\* The steps of merge_runs keep its invariant.
LEMMA MergeCallStep ==
    ASSUME MergeCallInv, MR!Next \/ UNCHANGED MR!vars
    PROVE  /\ MergeCallInv'
           /\ runs' = runs /\ run_length' = run_length /\ buf_size' = buf_size /\ num_runs' = num_runs
<1> USE DEF MR!params, MRP!params
<1>1. MR!IteratorsHaveRecords => MRP!IteratorsHaveRecords
  BY IteratorLink, ZenonT(60)
     DEF MR!IteratorsHaveRecords, MRP!IteratorsHaveRecords, MR!Iters, MRP!Iters,
         MR!Return, MRP!Return, MR!FillOrFlush, MRP!FillOrFlush,
         MR!max_number_of_records_in_buffer, MRP!max_number_of_records_in_buffer
<1>2. MR!GetSmallest => MRP!GetSmallest
  BY IteratorLink, ZenonT(60)
     DEF MR!GetSmallest, MRP!GetSmallest, MR!Iters, MRP!Iters, MR!Return, MRP!Return,
         MR!SmallerOf, MRP!SmallerOf, MR!record_object_comparator, MRP!record_object_comparator
<1>3. MR!NoMoreRecords \/ MR!GotSmallest \/ MR!Flush => MRP!NoMoreRecords \/ MRP!GotSmallest \/ MRP!Flush
  BY ZenonT(60) DEF MR!NoMoreRecords, MRP!NoMoreRecords, MR!GotSmallest, MRP!GotSmallest, MR!Flush, MRP!Flush
<1>4. MR!CopyRecord => MRP!CopyRecord
  BY IteratorLink, ZenonT(30)
     DEF MR!CopyRecord, MRP!CopyRecord, MR!Return, MRP!Return, MR!FillOrFlush, MRP!FillOrFlush,
         MR!max_number_of_records_in_buffer, MRP!max_number_of_records_in_buffer
<1>5. UNCHANGED MR!vars => UNCHANGED MRP!vars
  BY ZenonT(60) DEF MR!vars, MRP!vars
<1>6. MRP!Next \/ UNCHANGED MRP!vars
  BY <1>1, <1>2, <1>3, <1>4, <1>5, ZenonT(60) DEF MR!Next, MRP!Next
<1>7. UNCHANGED MR!params
  BY ZenonT(60) DEF MR!Next, MR!IteratorsHaveRecords, MR!NoMoreRecords, MR!GetSmallest, MR!GotSmallest,
         MR!CopyRecord, MR!Flush, MR!vars
<1>8. MergeCallInv'
  BY <1>6, MRP!MergeStep, MRP!NothingFitsStep, RecordAssumption, RecordSizeAssumption DEF MergeCallInv
<1> QED
  BY <1>7, <1>8

-----------------------------------------------------------------------------
\* The inductive invariant: main's part and, inside a call, that of the function
\* called.
MSortInv == /\ MainInv
            /\ main = "mk_runs" => MKP!MkInv
            /\ main = "merge" => MergeCallInv

\* Every step of msort keeps the invariant.
LEMMA MSortStep == MSortInv /\ [Next]_vars => MSortInv'
<1> SUFFICES ASSUME MSortInv, [Next]_vars PROVE MSortInv'
  BY SMTT(30)
<1>1. CASE Refuse \/ Finish \/ Kill \/ InvokeAgain
  <2>1. main' \notin {"mk_runs", "merge"}
    BY <1>1 DEF Refuse, ArgumentError, Finish, Kill, InvokeAgain
  <2> QED
    BY <1>1, <2>1, RefuseStep, FinishStep, KillStep, InvokeAgainStep DEF MSortInv
<1>2. CASE Open
  BY <1>2, OpenStep, OpenStarts, MkCallNext DEF MSortInv
<1>3. CASE MakeRuns
  <2>1. main = "mk_runs" /\ main' # "merge" /\ MK!MkNext
    BY <1>3 DEF MakeRuns
  <2>2. MKP!MkInv' /\ input' = input /\ tail' = tail /\ run_length' = run_length
    BY <2>1, MkCallStep DEF MSortInv
  <2>3. out' \in Seq(Record) /\ MkReturns'
    BY <2>2, MkCallNext DEF MK!MkTypeOK
  <2> QED
    BY <1>3, <2>1, <2>2, <2>3, MakeRunsMainStep DEF MSortInv
<1>4. CASE OpenPass
  BY <1>4, OpenPassStep, OpenPassStarts, MergeCallNext DEF MSortInv
<1>5. CASE Merge
  <2>1. main = "merge" /\ main' = "merge" /\ MR!Next
    BY <1>5 DEF Merge
  <2>2. /\ MergeCallInv'
        /\ runs' = runs /\ run_length' = run_length /\ buf_size' = buf_size /\ num_runs' = num_runs
    BY <2>1, MergeCallStep DEF MSortInv
  <2>3. out' \in Seq(Record)
    BY <2>2, MergeCallNext DEF MR!TypeOK
  <2> QED
    BY <1>5, <2>1, <2>2, <2>3, MergeMainStep DEF MSortInv
<1>6. CASE ClosePass
  <2>1. main = "merge" /\ main' = "loop"
    BY <1>6 DEF ClosePass
  <2>2. out \in Seq(Record) /\ runs \in Seq(Record) /\ MergeReturns
    BY <2>1, MergeCall DEF MSortInv, MR!TypeOK
  <2> QED
    BY <1>6, <2>1, <2>2, ClosePassMainStep DEF MSortInv
<1>7. CASE UNCHANGED vars
  <2>1. main' = main /\ UNCHANGED MK!mkVars /\ UNCHANGED MR!vars
    BY <1>7 DEF vars, mkVars, mergeVars, MK!mkVars, MK!mkParams, MR!vars, MR!params
  <2> QED
    BY <1>7, <2>1, MainStutter, MkCallStep, MergeCallStep DEF MSortInv
<1> QED
  BY <1>1, <1>2, <1>3, <1>4, <1>5, <1>6, <1>7 DEF Next, Step

\* The invariant holds in every state, over any number of invocations and however
\* they are killed.
THEOREM MSortInvariance == Spec => []MSortInv
<1>1. Init => MSortInv
  BY MainInit DEF Init, MSortInv
<1> QED
  BY <1>1, MSortStep, PTL DEF Spec

\* When msort exits and has written its output, from its own data and with
\* iterators that stay in their runs, the output is the input, sorted.
THEOREM SortsItsInputTheorem == Spec => []SortsItsInput
<1>1. MSortInv => SortsItsInput
  BY MainProperties DEF MSortInv
<1> QED
  BY <1>1, MSortInvariance, PTL

\* When no pass writes the output, msort leaves it as it was.
THEOREM LeavesOutputTheorem == Spec => []LeavesOutput
<1>1. MSortInv => LeavesOutput
  BY MainProperties DEF MSortInv
<1> QED
  BY <1>1, MSortInvariance, PTL

\* A pass reads a file that exists and that it does not write, and the first pass
\* leaves everything sorted.
THEOREM PassesAreSoundTheorem == Spec => []PassesAreSound
<1>1. ASSUME MSortInv PROVE TypeOK
  <2>1. main \in {"mk_runs", "loop", "merge"} => run_length \in Nat \ {0}
    BY <1>1, RunLengthLemma DEF MSortInv
  <2> QED
    BY <1>1, <2>1, MkCall, MergeCall DEF MSortInv, MainInv, TypeInv, TypeOK
<1>2. MSortInv => PassesAreSound
  BY <1>1, MainProperties DEF MSortInv, MainInv, PassesAreSound
<1> QED
  BY <1>2, MSortInvariance, PTL

=============================================================================
