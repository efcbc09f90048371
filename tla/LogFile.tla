------------------------------- MODULE LogFile -------------------------------
(***************************************************************************)
(* leveldb db/log_writer.cc and db/log_reader.cc: records cut into         *)
(* fragments that do not cross blocks.  A file is a sequence of bytes; a   *)
(* header is its checksum (one cell, which holds what was summed), its     *)
(* length and its type.  Between writing and reading the file is cut off   *)
(* anywhere (a crash) or one of its bytes changes (a damaged disk), or a   *)
(* read fails.                                                             *)
(***************************************************************************)
EXTENDS Integers, Sequences, SequencesExt

CONSTANTS kBlockSize,
          Records,         \* the sequences of records that may be written
          Bytes,           \* what a damaged byte may become
          InitialOffsets,  \* the readers' initial_offset_
          Damages          \* which of "none", "cut", "flip", "error" happen

kHeaderSize == 3
kZeroType == 0
kFullType == 1
kFirstType == 2
kMiddleType == 3
kLastType == 4
kEof == 5
kBadRecord == 6

VARIABLES records,  \* the records to write
          wr,       \* Writer: next record, bytes of it left, begin, block_offset_
          file,
          extent,   \* history: where every record starts and ends in the file
          damage,   \* what happened to the file and where
          rd        \* Reader, with the records returned and the drops reported

vars == <<records, wr, file, extent, damage, rd>>

-----------------------------------------------------------------------------
(* Bytes.  Only a checksum cell has a non-empty "crc". *)
Byte(b) == [b |-> b, crc |-> << >>]
Values(cells) == [i \in DOMAIN cells |-> cells[i].b]
Zeros(n) == [i \in 1..n |-> Byte(0)]

(* crc32c::Value of a type and a payload *)
Crc(type, payload) == <<type>> \o payload

Header(type, payload) ==
    <<[b |-> 0, crc |-> Crc(type, payload)], Byte(Len(payload)), Byte(type)>>

-----------------------------------------------------------------------------
(* Writer *)
Payload == records[wr.next]
Leftover == kBlockSize - wr.block_offset

(* The zeros that fill a block too short for a header. *)
Trailer == IF Leftover < kHeaderSize THEN Zeros(Leftover) ELSE << >>

FragmentOffset == IF Leftover < kHeaderSize THEN 0 ELSE wr.block_offset
Avail == kBlockSize - FragmentOffset - kHeaderSize

(* Whether a fragment of n bytes is the last of its record. *)
End(n) == wr.left = n

FragmentType(n) ==
    IF wr.begin THEN IF End(n) THEN kFullType ELSE kFirstType
    ELSE IF End(n) THEN kLastType ELSE kMiddleType

(* One turn of AddRecord's loop: EmitPhysicalRecord of the next fragment. *)
AddFragment ==
    /\ rd.pc = "writing" /\ wr.next <= Len(records)
    /\ LET n == IF wr.left < Avail THEN wr.left ELSE Avail
           payload == SubSeq(Payload, Len(Payload) - wr.left + 1, Len(Payload) - wr.left + n)
           more == n < wr.left
       IN /\ file' = file \o Trailer \o Header(FragmentType(n), payload)
                          \o [i \in 1..n |-> Byte(payload[i])]
          /\ extent' = LET from == Len(file) + Len(Trailer)
                           old == IF wr.begin THEN Append(extent, [from |-> from, to |-> 0]) ELSE extent
                       IN [old EXCEPT ![Len(old)].to = from + kHeaderSize + n]
          /\ wr' = [next |-> IF more THEN wr.next ELSE wr.next + 1,
                    left |-> IF more THEN wr.left - n
                             ELSE IF wr.next < Len(records) THEN Len(records[wr.next + 1]) ELSE 0,
                    begin |-> ~ more,
                    block_offset |-> FragmentOffset + kHeaderSize + n]
    /\ UNCHANGED <<records, damage, rd>>

-----------------------------------------------------------------------------
(* What happens to the file. *)
NoReader == [pc |-> "writing", pos |-> 0, buffer |-> << >>, eof |-> FALSE,
             end_of_buffer |-> 0, last_record |-> 0, initial |-> 0, checksum |-> TRUE,
             physical |-> 0, in_fragmented |-> FALSE, scratch |-> << >>, prospective |-> 0,
             out |-> << >>, drops |-> 0]

(* The Reader's constructor, once writing is over.  DBImpl and VersionSet  *)
(* check the checksums, Repairer does not.                                 *)
Open(initial) ==
    \E c \in BOOLEAN :
       rd' = [NoReader EXCEPT !.pc = "call", !.initial = initial, !.checksum = c]

OpenWhole ==
    /\ rd.pc = "writing" /\ wr.next > Len(records) /\ "none" \in Damages
    /\ \E i \in InitialOffsets : i <= Len(file) /\ Open(i)
    /\ UNCHANGED <<records, wr, file, extent, damage>>

(* The process or the machine stops in the middle of a write. *)
OpenCut ==
    /\ rd.pc = "writing" /\ "cut" \in Damages
    /\ \E n \in 0..Len(file) - 1 :
         file' = SubSeq(file, 1, n) /\ damage' = [kind |-> "cut", at |-> n]
    /\ Open(0)
    /\ UNCHANGED <<records, wr, extent>>

OpenFlipped ==
    /\ rd.pc = "writing" /\ wr.next > Len(records) /\ "flip" \in Damages
    /\ \E i \in DOMAIN file, b \in Bytes :
         /\ Byte(b) # file[i]
         /\ file' = [file EXCEPT ![i] = Byte(b)]
         /\ damage' = [kind |-> "flip", at |-> i - 1]
    /\ Open(0)
    /\ UNCHANGED <<records, wr, extent>>

-----------------------------------------------------------------------------
(* Reader *)
(* ReportDrop: an unsigned difference, so underflow counts as large. *)
Reports(r, bytes) ==
    LET at == r.end_of_buffer - Len(r.buffer) - bytes
    IN IF at < 0 \/ at >= r.initial THEN 1 ELSE 0
Drop(r, bytes) == [r EXCEPT !.drops = @ + Reports(r, bytes)]

(* SkipToInitialBlock: the block to start with (6 is kHeaderSize - 1). *)
InitialBlock(initial) ==
    LET offset == initial % kBlockSize
        start == initial - offset
    IN IF offset > kBlockSize - (kHeaderSize - 1) THEN start + kBlockSize ELSE start

(* A turn of ReadRecord's loop starts by noting where the buffer begins,   *)
(* which may be a trailer.                                                 *)
NextTurn(r) == [r EXCEPT !.physical = r.end_of_buffer - Len(r.buffer)]

(* ReadRecord is called. *)
ReadRecord ==
    /\ rd.pc = "call"
    /\ LET r == [rd EXCEPT !.pc = "read", !.in_fragmented = FALSE, !.scratch = << >>,
                           !.prospective = 0]
           block == InitialBlock(rd.initial)
       IN rd' = NextTurn(IF rd.last_record < rd.initial
                         THEN [r EXCEPT !.end_of_buffer = block, !.pos = @ + block] ELSE r)
    /\ UNCHANGED <<records, wr, file, extent, damage>>

(* ReadPhysicalRecord's loop: the next block, while the buffer is too      *)
(* short for a header.                                                     *)
NeedsBlock == rd.pc = "read" /\ Len(rd.buffer) < kHeaderSize /\ ~ rd.eof

ShortIsEof(n) == n < kBlockSize

ReadBlock ==
    /\ NeedsBlock
    /\ LET n == IF Len(file) - rd.pos < kBlockSize THEN Len(file) - rd.pos ELSE kBlockSize
           m == IF n < 0 THEN 0 ELSE n
       IN rd' = [rd EXCEPT !.buffer = SubSeq(file, rd.pos + 1, rd.pos + m),
                           !.pos = @ + m, !.end_of_buffer = @ + m,
                           !.eof = ShortIsEof(m)]
    /\ UNCHANGED <<records, wr, file, extent, damage>>

(* The header in the buffer and its record: a record of this length and    *)
(* checksum, zeros, or bad.                                                *)
Verdict(buffer, checksum) ==
    LET length == buffer[2].b
        type == buffer[3].b
    IN IF kHeaderSize + length > Len(buffer) THEN "bad"
       ELSE IF type = kZeroType /\ length = 0 THEN "zero"
       ELSE IF checksum /\ buffer[1].crc #
                 Crc(type, Values(SubSeq(buffer, kHeaderSize + 1, kHeaderSize + length)))
            THEN "bad"
       ELSE "good"

(* ReadPhysicalRecord: the reader after it, the type and the fragment. *)
Physical(r) ==
    LET empty == [r EXCEPT !.buffer = << >>]
        dropped == Drop(empty, Len(r.buffer))
        length == r.buffer[2].b
        rest == SubSeq(r.buffer, kHeaderSize + length + 1, Len(r.buffer))
    IN IF Len(r.buffer) = 0 THEN [r |-> r, type |-> kEof, fragment |-> << >>]
       ELSE IF Len(r.buffer) < kHeaderSize
            THEN [r |-> dropped, type |-> kEof, fragment |-> << >>]
       ELSE CASE Verdict(r.buffer, r.checksum) = "bad" ->
                   [r |-> dropped, type |-> kBadRecord, fragment |-> << >>]
              [] Verdict(r.buffer, r.checksum) = "zero" ->
                   [r |-> empty, type |-> kBadRecord, fragment |-> << >>]
              [] OTHER ->
                   LET early == r.end_of_buffer - Len(r.buffer) < r.initial
                   IN [r |-> [r EXCEPT !.buffer = rest],
                       type |-> IF early THEN kBadRecord ELSE r.buffer[3].b,
                       fragment |-> IF early THEN << >>
                                    ELSE Values(SubSeq(r.buffer, kHeaderSize + 1,
                                                       kHeaderSize + length))]

Return(r, record, offset) ==
    [r EXCEPT !.pc = "call", !.last_record = offset, !.out = Append(@, [data |-> record, offset |-> offset])]

(* A deviation: an error in the middle of a record does not forget it. *)
DevKeepsScratch(r) == r

Forget(r) == [r EXCEPT !.in_fragmented = FALSE, !.scratch = << >>]

(* A deviation: the end of the file ends the record. *)
DevPartialAtEof(r) ==
    IF r.in_fragmented
    THEN [r EXCEPT !.pc = "eof", !.out = Append(@, [data |-> r.scratch, offset |-> r.prospective])]
    ELSE [r EXCEPT !.pc = "eof"]

(* The end of the file: what was collected of a record is dropped. *)
AtEof(r) ==
    [IF r.in_fragmented THEN Forget(Drop(r, Len(r.scratch))) ELSE r EXCEPT !.pc = "eof"]

(* A partial record before a FULL or FIRST fragment: reported unless empty *)
(* (an earlier Writer could leave an empty FIRST fragment).                *)
WithoutEnd(r) ==
    IF r.in_fragmented /\ r.scratch # << >> THEN Drop(r, Len(r.scratch)) ELSE r

(* One turn of ReadRecord's loop. *)
Turn(p) ==
    LET r == p.r
        n == Len(p.fragment)
        whole == r.scratch \o p.fragment
    IN CASE p.type = kFullType -> Return(WithoutEnd(r), p.fragment, r.physical)
         [] p.type = kFirstType ->
              [WithoutEnd(r) EXCEPT !.prospective = r.physical, !.scratch = p.fragment,
                                    !.in_fragmented = TRUE]
         [] p.type \in {kMiddleType, kLastType} /\ ~ r.in_fragmented -> Drop(r, n)
         [] p.type = kMiddleType -> [r EXCEPT !.scratch = whole]
         [] p.type = kLastType -> Return(r, whole, r.prospective)
         [] p.type = kEof -> AtEof(r)
         [] p.type = kBadRecord ->
              IF r.in_fragmented THEN Forget(Drop(r, Len(r.scratch))) ELSE r
         [] OTHER -> Forget(Drop(r, n + Len(r.scratch)))

ReadFragment ==
    /\ rd.pc = "read" /\ ~ NeedsBlock
    /\ rd' = NextTurn(Turn(Physical(rd)))
    /\ UNCHANGED <<records, wr, file, extent, damage>>

(* The read fails: the rest of the file counts as dropped. *)
ReadFails ==
    /\ NeedsBlock /\ "error" \in Damages /\ damage.kind = "none"
    /\ damage' = [kind |-> "error", at |-> rd.pos]
    /\ rd' = Turn([r |-> Drop([rd EXCEPT !.buffer = << >>, !.eof = TRUE], kBlockSize),
                   type |-> kEof, fragment |-> << >>])
    /\ UNCHANGED <<records, wr, file, extent>>

-----------------------------------------------------------------------------
Init ==
    /\ records \in Records
    /\ wr = [next |-> 1, left |-> IF records = << >> THEN 0 ELSE Len(records[1]),
             begin |-> TRUE, block_offset |-> 0]
    /\ file = << >> /\ extent = << >>
    /\ damage = [kind |-> "none", at |-> 0]
    /\ rd = NoReader

Next == AddFragment \/ OpenWhole \/ OpenCut \/ OpenFlipped
        \/ ReadRecord \/ ReadBlock \/ ReadFragment \/ ReadFails

Spec == Init /\ [][Next]_vars /\ WF_vars(ReadRecord \/ ReadBlock \/ ReadFragment)

-----------------------------------------------------------------------------
TypeOK ==
    /\ wr.next \in 1..Len(records) + 1 /\ wr.block_offset \in 0..kBlockSize
    /\ wr.next <= Len(records) => wr.left \in 0..Len(Payload)
    /\ rd.pc \in {"writing", "call", "read", "eof"}
    /\ Len(rd.buffer) <= kBlockSize /\ rd.end_of_buffer >= Len(rd.buffer)
    /\ rd.drops \in Nat

Done == rd.pc = "eof"
(* The records i \in S, in order, are what was returned. *)
Returned(S) == [i \in DOMAIN rd.out |-> rd.out[i].data] =
                 LET in(i) == i \in S
                     idx == SelectSeq([i \in DOMAIN extent |-> i], in)
                 IN [j \in DOMAIN idx |-> records[idx[j]]]

(* A file read from an offset gives exactly the records that start at the  *)
(* offset or later (log_reader.h:41), and whole files raise no alarm.      *)
ReadsFromOffset ==
    Done /\ damage.kind = "none" =>
       /\ Returned({i \in DOMAIN extent : extent[i].from >= rd.initial})
       /\ rd.initial = 0 => rd.drops = 0

(* A crash while writing loses only what was not completely written: the   *)
(* records whose last byte is in the file come back, and nothing else.     *)
CutLosesOnlyTail ==
    Done /\ damage.kind = "cut" =>
       Returned({i \in DOMAIN extent : extent[i].to <= damage.at
                                        /\ (i = wr.next => wr.begin)})

(* With checksums, a damaged byte costs at most the records that have a    *)
(* byte after it in its block; the others come back, in order, and nothing *)
(* is returned that was not written (log_reader.cc:233).                   *)
BlockEnd(p) == (p \div kBlockSize + 1) * kBlockSize
DamageIsContained ==
    Done /\ damage.kind = "flip" /\ rd.checksum =>
       \E S \in SUBSET DOMAIN extent :
          /\ Returned(S)
          /\ \A i \in DOMAIN extent :
               extent[i].to <= damage.at \/ extent[i].from >= BlockEnd(damage.at) => i \in S

(* With checksums, no record that the file holds, if only in part, is lost *)
(* in silence, when no record is empty (a write batch and a version edit   *)
(* never are): an empty record whose type byte is zeroed passes for a      *)
(* preallocated region (log_reader.cc:220) and takes its block with it.    *)
LossIsReported ==
    Done /\ rd.checksum /\ rd.initial = 0 /\ rd.drops = 0 /\ << >> \notin Range(records) =>
       \A i \in DOMAIN extent :
          extent[i].from < Len(file) => \E o \in Range(rd.out) : o.data = records[i]

(* LastRecordOffset is where the record starts, or where the trailer in    *)
(* front of it starts.                                                     *)
OffsetsAreClose ==
    damage.kind = "none" =>
       \A o \in Range(rd.out) : \E i \in DOMAIN extent :
          /\ o.data = records[i] /\ o.offset <= extent[i].from
          /\ o.offset = extent[i].from \/ extent[i].from - o.offset < kHeaderSize

=============================================================================
