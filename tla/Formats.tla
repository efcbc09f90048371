------------------------------ MODULE Formats -------------------------------
(***************************************************************************)
(* Write batches and version edits as their users build them, block        *)
(* handles and file names of every number: what is written is read back.   *)
(* Varints as a file may have them, also such as nobody writes.            *)
(***************************************************************************)
EXTENDS Codecs

CONSTANTS Slice,       \* the keys, values and names used
          Number,      \* the numbers used
          MaxOps,      \* operations in all batches; entries of an edit
          MaxDigits,   \* digits of a file name
          Byte         \* the bytes of what is read as a varint

VARIABLES what,   \* what this behaviour is about: "batch", "edit", "footer", "name", "varint"
          rep,    \* two WriteBatches
          put,    \* what was put into each
          edit, added,       \* a VersionEdit, and the number of calls made on it
          metaindex, index,  \* block handles
          digits             \* the digits of a file name, or the bytes of a varint

vars == <<what, rep, put, edit, added, metaindex, index, digits>>

Init ==
  /\ what \in {"batch", "edit", "footer", "name", "varint"}
  /\ rep = [b \in 1 .. 2 |-> NewBatch] /\ put = [b \in 1 .. 2 |-> <<>>]
  /\ edit = NewEdit /\ added = 0
  /\ metaindex = <<0, 0>> /\ index = <<0, 0>> /\ digits = <<>>

Room == Len(put[1]) + Len(put[2]) < MaxOps

Put(b) ==
  /\ what = "batch" /\ Room
  /\ \E op \in ({kTypeValue} \X Slice \X Slice) \cup ({kTypeDeletion} \X Slice) :
       rep' = [rep EXCEPT ![b] = Added(@, op)] /\ put' = [put EXCEPT ![b] = Append(@, op)]
  /\ UNCHANGED <<what, edit, added, metaindex, index, digits>>

(* BuildBatchGroup appends a batch to another; both stay. *)
AppendTo(b) ==
  /\ what = "batch" /\ Len(put[1]) + Len(put[2]) + Len(put[3 - b]) <= MaxOps
  /\ rep' = [rep EXCEPT ![b] = AppendBatch(@, rep[3 - b])]
  /\ put' = [put EXCEPT ![b] = @ \o put[3 - b]]
  /\ UNCHANGED <<what, edit, added, metaindex, index, digits>>

ClearBatch(b) ==
  /\ what = "batch"
  /\ rep' = [rep EXCEPT ![b] = NewBatch] /\ put' = [put EXCEPT ![b] = <<>>]
  /\ UNCHANGED <<what, edit, added, metaindex, index, digits>>

(* DBImpl::Write numbers the batch before it is logged. *)
SetSequence_(b) ==
  /\ what = "batch"
  /\ \E n \in Number : rep' = [rep EXCEPT ![b] = SetSequence(@, n)]
  /\ UNCHANGED <<what, put, edit, added, metaindex, index, digits>>

AddEntry(tag) ==
  /\ what = "edit" /\ added < MaxOps
  /\ \E xs \in CASE tag = kComparator     -> {<<s>> : s \in Slice}
                 [] tag = kCompactPointer -> (0 .. kNumLevels - 1) \X Slice
                 [] tag = kDeletedFile    -> (0 .. kNumLevels - 1) \X Number
                 [] tag = kNewFile        -> {<<kNumLevels - 1, n, n, s, t>> : n \in Number, s \in Slice, t \in Slice}
                 [] OTHER                 -> {<<n>> : n \in Number} :
       edit' = WithEntry(edit, tag, xs)
  /\ added' = added + 1
  /\ UNCHANGED <<what, rep, put, metaindex, index, digits>>

(* EncodeTo asserts that an offset and a size are not ~0. *)
HandleNumber == (Number \cup {Word64 - 2}) \ {Word64 - 1}

SetHandles ==
  /\ what = "footer"
  /\ metaindex' \in HandleNumber \X HandleNumber /\ index' \in HandleNumber \X HandleNumber
  /\ UNCHANGED <<what, rep, put, edit, added, digits>>

AddDigit ==
  /\ what = "name" /\ Len(digits) < MaxDigits
  /\ \E d \in 0 .. 9 : digits' = Append(digits, d)
  /\ UNCHANGED <<what, rep, put, edit, added, metaindex, index>>

(* One byte more than the longest varint. *)
AddByte ==
  /\ what = "varint" /\ Len(digits) <= Varint64Max
  /\ \E d \in Byte : digits' = Append(digits, d)
  /\ UNCHANGED <<what, rep, put, edit, added, metaindex, index>>

Next ==
  \/ \E b \in 1 .. 2 : Put(b) \/ AppendTo(b) \/ ClearBatch(b) \/ SetSequence_(b)
  \/ \E tag \in (1 .. 7) \cup {9} : AddEntry(tag)
  \/ SetHandles \/ AddDigit \/ AddByte

Spec == Init /\ [][Next]_vars

-----------------------------------------------------------------------------
\* A batch, also one that others were appended to, hands on exactly what was put
\* into it, in order, and every entry of the memtable has its own number.  A batch
\* cut short anywhere (a log read without checksums) is refused, and what was
\* handed on before that is the start of what was put into it.
BatchesReplay ==
  what = "batch" =>
  \A b \in 1 .. 2 :
    /\ Iterate(rep[b]) = [ok |-> TRUE, ops |-> put[b]]
    /\ InsertInto(rep[b]) = [i \in DOMAIN put[b] |-> [seq |-> Sequence(rep[b]) + i - 1, op |-> put[b][i]]]
    /\ \A n \in 0 .. Len(rep[b]) - 1 :
         \A r \in {Iterate(SubSeq(rep[b], 1, n))} : ~r.ok /\ IsPrefix(r.ops, put[b])

\* A version edit is read back as it was, whatever calls built it; one cut short is
\* refused or is the edit of the first few entries: no number is misread.
EditsReadBack ==
  what = "edit" =>
  LET src == EncodeTo(edit)
  IN  /\ DecodeFrom(NewEdit, src) = [ok |-> TRUE, edit |-> edit]
      /\ \A n \in 0 .. Len(src) - 1 :
           LET r == DecodeFrom(NewEdit, SubSeq(src, 1, n)) IN r.ok => IsPrefix(Entries(r.edit), Entries(edit))

\* The footer of every table has the same length and gives the handles back; a file
\* name gives its type and number back however many digits it has, and a number that
\* does not fit 64 bits is refused, not wrapped to the number of another file.
NumbersReadBack ==
  /\ what = "footer" =>
       /\ Len(EncodeFooter(metaindex, index)) = kEncodedLength
       /\ DecodeFooter(EncodeFooter(metaindex, index)) = [ok |-> TRUE, val |-> metaindex \o index, rest |-> <<>>]
  /\ what = "name" =>
       LET n == FromDigits(Reverse(digits), 10)
       IN  /\ \A t \in Types : t[1] \in {"", "MANIFEST-"} =>
                ParseFileName([head |-> t[1], digits |-> digits, tail |-> t[2]])
                  = IF digits # <<>> /\ n < Word64 THEN <<t[3], n>> ELSE <<"none", 0>>
           /\ n < Word64 => ParseFileName(MakeFileName(n, ".ldb")) = <<"table", n>> /\ ParseFileName(DescriptorFileName(n)) = <<"descriptor", n>>

\* Whatever the bytes, GetVarint64 and GetVarint32 read as many as a varint may have and
\* no more: a number that ends with the input or is a byte too long is refused.  What is
\* read fits the width, is read the same from the rest of a longer input, and is read back
\* when it is written again, in no more bytes.  The two agree on how much they read, and
\* GetVarint32 loses only the bits beyond its width.
VarintsAreRead ==
  what = "varint" =>
  LET r32 == GetVarint(digits, Varint32Max, Word32)
      r64 == GetVarint(digits, Varint64Max, Word64)
      Sound(r, longest, word) ==
        LET used == Len(digits) - Len(r.rest)
            cut  == {n \in 0 .. Len(digits) : GetVarint(SubSeq(digits, 1, n), longest, word).ok}
        IN  IF r.ok THEN /\ r.val \in 0 .. word - 1 /\ used <= longest /\ cut = used .. Len(digits)
                         /\ Len(Varint(r.val)) <= used
                         /\ GetVarint(Varint(r.val) \o r.rest, longest, word) = r
            ELSE cut = {} /\ \A n \in 1 .. Len(digits) : n <= longest => digits[n] >= B
  IN  /\ Sound(r32, Varint32Max, Word32) /\ Sound(r64, Varint64Max, Word64)
      /\ r32.ok <=> r64.ok /\ Len(digits) - Len(r64.rest) <= Varint32Max
      /\ r32.ok => r32.rest = r64.rest /\ r32.val = r64.val % Word32
=============================================================================
