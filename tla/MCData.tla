------------------------------- MODULE MCData -------------------------------
(***************************************************************************)
(* What is read and written as bytes or text, and bsort, one in each       *)
(* behaviour: bsort (BSort), the schema and the comparison of records      *)
(* (Schema), jsoncpp (Json), LevelDB's encodings (Formats).  The variables *)
(* of the others stay as they are.                                         *)
(***************************************************************************)
EXTENDS BSort

VARIABLES data,  \* the part: "bsort", "schema", "json" or "formats"
          root, wanted, attrs, record_size, sort_attrs, s_pc, s_i, r1, r2, fields, return_val,
          script, doc, typed, val,
          what, rep, put, edit, added, metaindex, index, digits

-----------------------------------------------------------------------------
(* bsort.  A record has two attributes, a and b; the input may hold a      *)
(* record twice.                                                           *)
MCRecord == [a : 0 .. 1, b : 0 .. 1]
MCKey == [r \in MCRecord |-> r.a]
MCRanks == {MCKey, [r \in MCRecord |-> r.b]}

R(x, y) == [a |-> x, b |-> y]

Invocation(r, inp, t) ==
    [args |-> TRUE, schema |-> TRUE, rank |-> r, input |-> inp, tail |-> t,
     output |-> TRUE, tree |-> TRUE]

\* Twelve records, so that record numbers have one digit and two.
Twelve == [p \in 1 .. 12 |-> R((p \div 2) % 2, (p \div 3) % 2)]

Sound == { Invocation(r, inp, NULL) : r \in MCRanks,
             inp \in {<<R(1, 0), R(0, 1)>>, <<R(0, 1), R(0, 1), R(1, 1)>>} }
         \cup {Invocation(MCKey, Twelve, R(0, 0)), Invocation(MCKey, << >>, R(1, 1))}

\* Command lines that fail, before the output is truncated, after it, or by
\* going on without the sort attribute.
Failing == { [Invocation(MCKey, Twelve, NULL) EXCEPT !.args = FALSE],
             [Invocation(MCKey, Twelve, NULL) EXCEPT !.schema = FALSE],
             Invocation(MCKey, NULL, NULL),
             [Invocation(MCKey, Twelve, NULL) EXCEPT !.output = FALSE],
             [Invocation(MCKey, Twelve, NULL) EXCEPT !.tree = FALSE],
             Invocation(NULL, <<R(0, 1), R(1, 0), R(0, 0)>>, NULL) }

MCInvocations == Sound \cup Failing

-----------------------------------------------------------------------------
(* The schema: up to three attributes, of up to two bytes each, some       *)
(* without a length, and two attributes with one name.  The record numbers *)
(* are 0, 1, 10 and 110, with digits that are also letters of fields.      *)
A(n, l) == [name |-> n, length |-> l]

MCDecls == { <<A("a", 1)>>,
             <<A("a", 1), A("b", 2)>>,
             <<A("b", 2), A("a", 2)>>,
             <<A("a", 1), A("b", NULL), A("b", 1)>>,
             <<A("b", 1), A("c", 1), A("a", 1)>>,
             << >>, NULL }

SC == INSTANCE Schema WITH pc <- s_pc, i <- s_i, Name <- {"a", "b", "c"}, Letters <- {2, 3},
        Decls <- MCDecls, Wanted <- BoundedSeq({"a", "b", "c"}, 2) \ {<< >>},
        Numbers <- {<<2>>, <<3>>, <<3, 2>>, <<3, 3, 2>>}

-----------------------------------------------------------------------------
(* jsoncpp: Int has 4 bits and the largest types 7 and 8. *)
MCFeatures == [comments |-> TRUE, strictRoot |-> FALSE, droppedNulls |-> FALSE, numericKeys |-> FALSE]

JR == INSTANCE JsonReader WITH MaxInt <- 7, MaxUInt <- 15, MaxLargestInt <- 63, MaxLargestUInt <- 127,
        Features <- MCFeatures, RightMargin <- 12, IndentSize <- 1

Script(o, p, m) == [opening |-> o, pieces |-> p, max |-> m]

Member == <<JR!Quote, 97, JR!Quote, JR!Colon>>

Syntax == {<<JR!LBracket>>, <<JR!RBracket>>, <<JR!LBrace>>, <<JR!RBrace>>, <<JR!Comma>>, Member, <<49>>,
           <<JR!Slash, JR!Star, JR!Star, JR!Slash>>, <<JR!Slash, JR!Slash, JR!NewLine>>, <<JR!NewLine>>}

Figures == {<<48>>, <<49>>, <<50>>, <<51>>, <<54>>, <<55>>, <<JR!Minus>>, <<JR!Point>>}

Characters == {<<JR!Quote>>, <<JR!Backslash>>, <<97>>, <<110>>, <<117>>, <<1>>,
               <<117, 48, 48, 52, 49>>, <<117, 48, 48, 48, 48>>, <<117, 68, 56, 51, 68>>}

MCScripts ==
    { Script(<<>>, {}, 0), Script(<<>>, Syntax, 4), Script(<<>>, Figures, 4), Script(<<JR!Quote>>, Characters, 4),
      Script(<<JR!LBrace>> \o Member \o <<JR!LBracket, 49, JR!RBracket, JR!Comma>> \o Member, Syntax, 3),
      Script(<<JR!LBracket, 49, JR!Comma>>, Syntax, 3) }

MCScalars == { JR!Null, JR!Number("int", -80), JR!Number("uint", 150), JR!Number("uint", 1270),
               JR!Number("int", 70), JR!Number("real", -85), JR!Number("real", 75), JR!Number("real", 70),
               JR!Number("real", 640), JR!Text(<<>>), JR!Text(<<97>>), JR!Number("boolean", 1) }

JS == INSTANCE Json WITH MaxInt <- 7, MaxUInt <- 15, MaxLargestInt <- 63, MaxLargestUInt <- 127,
        Features <- MCFeatures, RightMargin <- 12, IndentSize <- 1, Scripts <- MCScripts,
        Scalars <- MCScalars, MaxSize <- 3,
        Elements <- {JR!Null, JR!Number("uint", 150), JR!Number("real", 75), JR!Text(<<97>>)}

-----------------------------------------------------------------------------
(* LevelDB's encodings, with bytes of three bits. *)
FO == INSTANCE Formats WITH B <- 4, Word32 <- 32, Word64 <- 128, Varint32Max <- 3, Varint64Max <- 4,
        Fixed32Len <- 2, Fixed64Len <- 3, kNumLevels <- 2, kTableMagicNumber <- 91, Padding <- 2,
        Slice <- {<<>>, <<0, 7, 1, 4, 5>>}, Number <- {0, 3, 4, 127}, MaxOps <- 3, MaxDigits <- 4, Byte <- {0, 1, 3, 4, 7}

-----------------------------------------------------------------------------
schemaVars == <<root, wanted, attrs, record_size, sort_attrs, s_pc, s_i, r1, r2, fields, return_val>>
jsonVars == <<script, doc, typed, val>>
formatVars == <<what, rep, put, edit, added, metaindex, index, digits>>
dataVars == <<data, vars, schemaVars, jsonVars, formatVars>>

NoBSort == Init /\ inv = Invocation(MCKey, NULL, NULL)
NoSchema == /\ root = NULL /\ wanted = NULL /\ attrs = NULL /\ record_size = NULL /\ sort_attrs = NULL
            /\ s_pc = NULL /\ s_i = NULL /\ r1 = NULL /\ r2 = NULL /\ fields = NULL /\ return_val = NULL
NoJson == script = NULL /\ doc = NULL /\ typed = NULL /\ val = NULL
NoFormats == /\ what = NULL /\ rep = NULL /\ put = NULL /\ edit = NULL /\ added = NULL
             /\ metaindex = NULL /\ index = NULL /\ digits = NULL

DataInit ==
    \/ data = "bsort" /\ Init /\ NoSchema /\ NoJson /\ NoFormats
    \/ data = "schema" /\ NoBSort /\ SC!Init /\ NoJson /\ NoFormats
    \/ data = "json" /\ NoBSort /\ NoSchema /\ JS!Init /\ NoFormats
    \/ data = "formats" /\ NoBSort /\ NoSchema /\ NoJson /\ FO!Init

BSortNext == data = "bsort" /\ Next /\ UNCHANGED <<data, schemaVars, jsonVars, formatVars>>
SchemaNext == data = "schema" /\ SC!Next /\ UNCHANGED <<data, vars, jsonVars, formatVars>>
JsonNext == data = "json" /\ JS!Next /\ UNCHANGED <<data, vars, schemaVars, formatVars>>
FormatsNext == data = "formats" /\ FO!Next /\ UNCHANGED <<data, vars, schemaVars, jsonVars>>

DataNext == BSortNext \/ SchemaNext \/ JsonNext \/ FormatsNext

\* bsort is sequential code that nothing blocks.
BSortGoesOn == data = "bsort" /\ Step /\ UNCHANGED <<data, schemaVars, jsonVars, formatVars>>

DataSpec == DataInit /\ [][DataNext]_dataVars /\ WF_dataVars(BSortGoesOn)

-----------------------------------------------------------------------------
\* bsort writes in key order, loses no record, and a sort that was killed is repaired
\* by running it again (see WritesInOrder, KeepsEveryRecord and RerunRepairs).
BSortIsSound == TypeOK /\ WritesInOrder /\ KeepsEveryRecord /\ RerunRepairs

\* Every invocation of bsort that is not killed ends.
BSortEnds == (data = "bsort" /\ main = "start") ~> main \in Exits

\* msort's comparator and bsort's keys order records as numbers, and find the fields
\* where the file has them (see FieldsAreFound, ComparatorFollowsRank and
\* KeysFollowComparator).
OrdersAgree ==
    data = "schema" => SC!TypeOK /\ SC!FieldsAreFound /\ SC!ComparatorFollowsRank /\ SC!KeysFollowComparator

\* The JSON text of a schema, as FastWriter prints it, and its value.
Code == [a |-> 97, b |-> 98, c |-> 99]
AttributeValue(d) ==
    LET named == JR!SetEntry(JR!Value("object"), "object", JR!NameKey, JR!Text(<<Code[d.name]>>))
    IN  IF d.length = NULL THEN named ELSE JR!SetEntry(named, "object", JR!LengthKey, JR!Number("int", 10 * d.length))
SchemaText == JR!Fast(FoldLeft(LAMBDA array, d : JR!Append_(array, AttributeValue(d)), JR!Value("array"), root))

\* read_schema gets from jsoncpp the attributes that the file declares, a missing length
\* as 0, and refuses a file that was cut short.
SchemaIsRead ==
    data = "schema" /\ root # NULL /\ s_pc = "schema" /\ s_i = 1 =>
        /\ JR!ReadSchema(SchemaText) =
             [j \in DOMAIN root |-> [name |-> <<Code[root[j].name]>>,
                                     length |-> IF root[j].length = NULL THEN 0 ELSE root[j].length]]
        /\ \A n \in 0 .. Len(SchemaText) - 2 : JR!ReadSchema(SubSeq(SchemaText, 1, n)) = JR!Unreadable

\* What jsoncpp prints is read back as the same value (see PrintedIsReadBack).
JsonPrintsBack == data = "json" => JS!PrintedIsReadBack

\* Parse fails exactly if it reports an error, numbers are read exactly up to and over
\* every limit, and a value converts, compares, resizes and resolves as its queries say
\* (see FailuresAreReported, NumbersAreExact and ValuesAgree).
JsonFailsOpenly == data = "json" => JS!FailuresAreReported /\ JS!NumbersAreExact /\ JS!ValuesAgree

\* Write batches, also joined and cut short, are replayed right (see BatchesReplay).
BatchesAreReplayed == data = "formats" => FO!BatchesReplay

\* Version edits, footers and file names are read back, and what is cut short or does
\* not fit is refused; varints of any bytes are read as far as they go (see EditsReadBack,
\* NumbersReadBack and VarintsAreRead).
EncodingsReadBack == data = "formats" => FO!EditsReadBack /\ FO!NumbersReadBack /\ FO!VarintsAreRead
=============================================================================
