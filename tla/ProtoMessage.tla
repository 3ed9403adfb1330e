---------------------------- MODULE ProtoMessage ----------------------------
(***************************************************************************)
(* Objects of one generated proto2 message class (RpcMessage.pb, and the   *)
(* classes of MyService.pb, generated from the same template): the         *)
(* accessors, Clear, MergeFrom, CopyFrom, Swap, the serialiser, its byte   *)
(* size, and the parser.                                                   *)
(*                                                                         *)
(* A class is the sequence of its fields, in field-number order, and for   *)
(* each generated method the fields it goes through: CodeOf.  The          *)
(* definitions below are the methods of the template, and leave out, as    *)
(* the code would, what a method does not go through.  An                  *)
(* object keeps the has-bits, one value per field (whatever the has-bit    *)
(* says) and the fields it did not know.  Its serialisation is a sequence  *)
(* of records [n, kind, v], each a one-byte tag and a value; the parser    *)
(* sees a prefix of its bytes, because a frame that spans IOBufs reaches   *)
(* it cut (FrameCodec).  Integers, floats and enum values are TLA+         *)
(* integers, a string or bytes field a sequence.                           *)
(***************************************************************************)
EXTENDS Integers, Sequences, SequencesExt, FiniteSets

CONSTANTS
    Class,       \* names of message classes
    FieldsOf,    \* FieldsOf[cls]: its sequence of [kind, required, default, valid]
    CodeOf,      \* CodeOf[cls]: what its methods go through, see Complete
    SetValue,    \* SetValue[cls][i]: the values the program sets field i to
    Built,       \* Built[cls]: the values of the messages the program builds,
                 \* each a function from field numbers
    Foreign,     \* records that only a peer with a later .proto writes
    Object,      \* objects of the class in the program
    MaxOps       \* MaxOps[cls]: bound on the operations of a behaviour

VARIABLES
    cls,         \* the class
    obj,         \* obj[o]: the state of object o
    ops          \* operations done so far

vars == <<cls, obj, ops>>

Number(c)   == 1 .. Len(FieldsOf[c])
Required(c) == {i \in Number(c) : FieldsOf[c][i].required}
IsBytes(c, i) == FieldsOf[c][i].kind = "bytes"

\* A value of a kind of field, and of a field: an enum field holds its own.
IsValue(kind, v)  == IF kind = "bytes" THEN v \in Seq(Nat) ELSE v \in Int
Holds(c, i, v) ==
    /\ IsValue(FieldsOf[c][i].kind, v)
    /\ FieldsOf[c][i].kind = "enum" => v \in FieldsOf[c][i].valid

\* The default and the values the program uses are values of their field,
\* and the default of a string is the empty one.
ASSUME ClassAssumption ==
    \A c \in Class :
        /\ Len(FieldsOf[c]) \in Nat /\ MaxOps[c] \in Nat
        /\ \A i \in Number(c) :
             /\ Holds(c, i, FieldsOf[c][i].default)
             /\ IsBytes(c, i) => FieldsOf[c][i].default = <<>>
             /\ \A v \in SetValue[c][i] : Holds(c, i, v)
        /\ \A b \in Built[c] :
             DOMAIN b \subseteq Number(c) /\ \A i \in DOMAIN b : Holds(c, i, b[i])

\* A later version writes records of the same format.
ASSUME ForeignAssumption == \A r \in Foreign : IsValue(r.kind, r.v)

-----------------------------------------------------------------------------
(* Wire format.                                                            *)

VarintSize(v) ==
    CASE v < 0 -> 10 [] v \in 0 .. 127 -> 1 [] v \in 128 .. 16383 -> 2 [] OTHER -> 3

\* Bytes of a value of a field, without its tag.
ValueSize(kind, v) ==
    CASE kind = "bytes" -> VarintSize(Len(v)) + Len(v)
      [] kind = "float" -> 4
      [] OTHER -> VarintSize(v)

WireType(kind) == CASE kind = "bytes" -> 2 [] kind = "float" -> 5 [] OTHER -> 0

\* Every method of c goes through all its fields: the parser has a case for
\* each, of its wire type, and the serialiser, MergeFrom, the copy constructor
\* and InternalSwap name each.  Clear resets a string if it is present, and
\* the scalars whatever their has-bits or if one of them is.  ByteSizeLong
\* adds up the fields of "together" at once when all are present, one by one
\* as the fallback does otherwise, and those of "each" that are present.
Complete(c) ==
    LET code == CodeOf[c]
        strings == {i \in Number(c) : IsBytes(c, i)} IN
    /\ code.parses = [i \in Number(c) |-> WireType(FieldsOf[c][i].kind)]
    /\ code.writes = Number(c)
    /\ code.merges = Number(c)
    /\ code.copies = Number(c)
    /\ code.swaps = Number(c)
    /\ code.clears.present = strings
    /\ code.clears.together \cup code.clears.always = Number(c) \ strings
    /\ code.sizes.together \cup code.sizes.each = Number(c)
    /\ code.sizes.together \cap code.sizes.each = {}
    /\ code.sizes.fallback = code.sizes.together

RecordSize(r) == 1 + ValueSize(r.kind, r.v)

\* Totals(f, n)[k]: the sum of f[1] .. f[k].
Totals(f, n) ==
    LET total[k \in 0 .. n] == IF k = 0 THEN 0 ELSE total[k - 1] + f[k]
    IN  total

\* SizesOf(w)[n]: the bytes of the first n records of w.
SizesOf(w) == Totals([k \in 1 .. Len(w) |-> RecordSize(w[k])], Len(w))

WireSize(w) == SizesOf(w)[Len(w)]

\* The first k bytes of w: whole records, then what there is of one more.
Cut(w, k) ==
    LET size == SizesOf(w)
        n == CHOOSE m \in 0 .. Len(w) :
               size[m] <= k /\ (m = Len(w) \/ size[m + 1] > k)
        rest == k - size[n]
    IN  [records |-> SubSeq(w, 1, n),
         partial |-> IF rest = 0 THEN <<>> ELSE <<[r |-> w[n + 1], got |-> rest]>>]

-----------------------------------------------------------------------------
(* Accessors, construction, Clear.                                         *)

\* An object the constructor made.
Fresh(c) == [has |-> {}, val |-> [i \in Number(c) |-> FieldsOf[c][i].default],
             unknown |-> <<>>]

\* A new object on which the setters of b were called.
BuiltFrom(c, b) ==
    [has |-> DOMAIN b, unknown |-> <<>>,
     val |-> [i \in Number(c) |->
                IF i \in DOMAIN b THEN b[i] ELSE FieldsOf[c][i].default]]

SetField(m, i, v) == [m EXCEPT !.has = @ \cup {i}, !.val[i] = v]

ClearField(c, m, i) ==
    [m EXCEPT !.has = @ \ {i}, !.val[i] = FieldsOf[c][i].default]

Clear(c, m) ==
    LET clears == CodeOf[c].clears
        reset == clears.always \cup (clears.present \cap m.has)
                 \cup (IF clears.together \cap m.has = {} THEN {} ELSE clears.together)
    IN  [has |-> {}, unknown |-> <<>>,
         val |-> [i \in Number(c) |->
                    IF i \in reset THEN FieldsOf[c][i].default ELSE m.val[i]]]

\* The has-bits are taken over in one go, the values one by one.
MergeFrom(c, m, from) ==
    [has |-> m.has \cup from.has, unknown |-> m.unknown \o from.unknown,
     val |-> [i \in Number(c) |->
                IF i \in from.has \cap CodeOf[c].merges THEN from.val[i] ELSE m.val[i]]]

CopyFrom(c, m, from) == MergeFrom(c, Clear(c, m), from)

\* The copy constructor: has-bits and scalars as they are, strings if present.
CopyConstruct(c, from) ==
    [from EXCEPT !.val = [i \in Number(c) |->
        IF i \notin CodeOf[c].copies \/ (IsBytes(c, i) /\ i \notin from.has)
        THEN FieldsOf[c][i].default ELSE from.val[i]]]

\* What object m is after InternalSwap with p.
Swapped(c, m, p) ==
    [p EXCEPT !.val = [i \in Number(c) |->
        IF i \in CodeOf[c].swaps THEN p.val[i] ELSE m.val[i]]]

IsInitialized(c, m) == Required(c) \subseteq m.has

-----------------------------------------------------------------------------
(* Serialiser and byte size.                                               *)

Record(c, m, i) == [n |-> i, kind |-> FieldsOf[c][i].kind, v |-> m.val[i]]

\* The records of the fields in S, by number.
FieldRecords(c, m, S) ==
    LET written[i \in 0 .. Len(FieldsOf[c])] ==
          IF i = 0 THEN <<>>
          ELSE IF i \in S THEN Append(written[i - 1], Record(c, m, i))
          ELSE written[i - 1]
    IN  written[Len(FieldsOf[c])]

\* Mutant: default values are left out, as in proto3.
SerializeNonDefault(c, m) ==
    FieldRecords(c, m, {i \in m.has : m.val[i] # FieldsOf[c][i].default}) \o m.unknown

\* The fields with a has-bit, then the unknown ones.
SerializeWithCachedSizes(c, m) ==
    FieldRecords(c, m, m.has \cap CodeOf[c].writes) \o m.unknown

FieldSize(c, m, i) == RecordSize(Record(c, m, i))

\* The bytes of the fields in S.
FieldsSize(c, m, S) ==
    LET size == [i \in Number(c) |-> IF i \in S THEN FieldSize(c, m, i) ELSE 0]
    IN  Totals(size, Len(FieldsOf[c]))[Len(FieldsOf[c])]

\* Mutant: the fallback counts every required field.
AllRequiredSize(c, m) == FieldsSize(c, m, CodeOf[c].sizes.fallback)

RequiredFieldsByteSizeFallback(c, m) ==
    FieldsSize(c, m, CodeOf[c].sizes.fallback \cap m.has)

\* The required fields at once when all are there, one by one otherwise.
ByteSizeLong(c, m) ==
    LET sizes == CodeOf[c].sizes IN
    WireSize(m.unknown)
    + (IF sizes.together \subseteq m.has
       THEN FieldsSize(c, m, sizes.together)
       ELSE RequiredFieldsByteSizeFallback(c, m))
    + FieldsSize(c, m, sizes.each \cap m.has)

-----------------------------------------------------------------------------
(* Parser.                                                                 *)

\* There is a case for the number, and the tag is the one it tests for.
Known(c, r) ==
    r.n \in DOMAIN CodeOf[c].parses /\ CodeOf[c].parses[r.n] = WireType(r.kind)

Understood(c, r) ==
    /\ Known(c, r)
    /\ FieldsOf[c][r.n].kind = "enum" => r.v \in FieldsOf[c][r.n].valid

\* A whole record.  An enum value the class does not know is kept with the
\* unknown fields, like a field it does not know.
ReadRecord(c, m, r) ==
    IF Understood(c, r)
    THEN SetField(m, r.n, r.v)
    ELSE [m EXCEPT !.unknown = Append(@, r)]

\* The records of w in turn.
ReadRecords(c, m, w) ==
    LET read[k \in 0 .. Len(w)] ==
          IF k = 0 THEN m ELSE ReadRecord(c, read[k - 1], w[k])
    IN  read[Len(w)]

\* A record cut after p.got bytes: the read fails.  The has-bit of a scalar
\* is set before its value is read, mutable_request() sets that of a string,
\* and the string keeps the bytes that came; an enum is set after the read.
ReadPartial(c, m, p) ==
    LET i == p.r.n
        header == 1 + VarintSize(Len(p.r.v)) IN
    IF ~Known(c, p.r) \/ FieldsOf[c][i].kind = "enum" THEN m
    ELSE IF IsBytes(c, i) /\ p.got >= header
         THEN SetField(m, i, SubSeq(p.r.v, 1, p.got - header))
    ELSE [m EXCEPT !.has = @ \cup {i}]

ReadInput(c, m, input) ==
    LET whole == ReadRecords(c, m, input.records)
    IN  IF input.partial = <<>> THEN whole ELSE ReadPartial(c, whole, input.partial[1])

\* Mutant: the result of a failed read is not looked at.
MergeIgnoringFailure(c, m, input) == [m |-> ReadInput(c, m, input), ok |-> TRUE]

MergePartialFromCodedStream(c, m, input) ==
    [m |-> ReadInput(c, m, input), ok |-> input.partial = <<>>]

\* ParseFromString, ParseFromArray: Clear, parse, check the required fields.
ParseFrom(c, m, input) ==
    LET r == MergePartialFromCodedStream(c, Clear(c, m), input)
    IN  [m |-> r.m, ok |-> r.ok /\ IsInitialized(c, r.m)]

-----------------------------------------------------------------------------
(* The program's operations on its objects.                                *)

Init ==
    /\ cls \in Class
    /\ obj = [o \in Object |-> Fresh(cls)]
    /\ ops = 0

Update(o, m) == obj' = [obj EXCEPT ![o] = m]
Step == ops < MaxOps[cls] /\ ops' = ops + 1 /\ UNCHANGED cls

Set(o) == /\ Step
          /\ \E i \in Number(cls) : \E v \in SetValue[cls][i] :
               Update(o, SetField(obj[o], i, v))

\* The setters called in a row on a new message: a request, a response.
Build(o) ==
    /\ Step
    /\ \E b \in Built[cls] : Update(o, BuiltFrom(cls, b))

Unset(o) == Step /\ \E i \in Number(cls) : Update(o, ClearField(cls, obj[o], i))
Reset(o) == Step /\ Update(o, Clear(cls, obj[o]))
Merge(o, p) == Step /\ o # p /\ Update(o, MergeFrom(cls, obj[o], obj[p]))
Assign(o, p) == Step /\ o # p /\ Update(o, CopyFrom(cls, obj[o], obj[p]))
Copy(o, p) == Step /\ o # p /\ Update(o, CopyConstruct(cls, obj[p]))

\* swap, and assignment from an rvalue, which swaps.
Swap(o, p) == /\ Step
              /\ obj' = [obj EXCEPT ![o] = Swapped(cls, obj[o], obj[p]),
                                    ![p] = Swapped(cls, obj[p], obj[o])]

\* Construction from an rvalue: a new object swapped with it.
Move(o, p) == /\ Step /\ o # p
              /\ obj' = [obj EXCEPT ![o] = Swapped(cls, Fresh(cls), obj[p]),
                                    ![p] = Swapped(cls, obj[p], Fresh(cls))]

\* o parses the first k bytes of what p serialises, after which a later
\* peer may have written a record of its own.
Parse(o, p) ==
    /\ Step
    /\ \E more \in {<<>>} \cup {<<r>> : r \in Foreign} :
         LET w == SerializeWithCachedSizes(cls, obj[p]) \o more IN
         \E k \in 0..WireSize(w) : Update(o, ParseFrom(cls, obj[o], Cut(w, k)).m)

Next == \/ \E o \in Object : Set(o) \/ Build(o) \/ Unset(o) \/ Reset(o)
        \/ \E o, p \in Object : \/ Merge(o, p) \/ Assign(o, p) \/ Copy(o, p)
                                \/ Swap(o, p) \/ Move(o, p) \/ Parse(o, p)

Spec == Init /\ [][Next]_vars

-----------------------------------------------------------------------------
(* Properties.                                                             *)

\* Every object holds the has-bits and one value per field of its class, an
\* enum field never a value outside the enum, whatever a peer sent.
TypeOK ==
    /\ cls \in Class
    /\ ops \in 0..MaxOps[cls]
    /\ \A o \in Object :
         /\ obj[o].has \subseteq Number(cls)
         /\ DOMAIN obj[o].val = Number(cls)
         /\ \A i \in Number(cls) : FieldsOf[cls][i].kind = "enum"
                                     => obj[o].val[i] \in FieldsOf[cls][i].valid

\* The two ways of adding up the required fields, and the optional ones, give
\* the number of bytes the serialiser writes into the buffer of that size.
SizeExact ==
    \A o \in Object : ByteSizeLong(cls, obj[o])
                        = WireSize(SerializeWithCachedSizes(cls, obj[o]))

\* What one side serialises the other parses back, has-bits, defaults and
\* unknown fields included, into whatever object: also one that is parsed into again
\* and again, of which Clear only resets what the has-bits point to.  The parser
\* reports success exactly when no required field is missing.
RoundTrip ==
    \A o, p \in Object :
        LET w == SerializeWithCachedSizes(cls, obj[o])
            r == ParseFrom(cls, obj[p], Cut(w, WireSize(w)))
        IN  r.m = obj[o] /\ (r.ok <=> IsInitialized(cls, obj[o]))

\* Parsing the bytes of p without Clear is MergeFrom(p), and constructing a
\* copy of p is merging it into a new object: the codes that combine messages,
\* field by field and record by record, agree, and none forgets a field.
ParseIsMerge ==
    \A o, p \in Object :
        LET w == SerializeWithCachedSizes(cls, obj[p])
        IN  /\ MergePartialFromCodedStream(cls, obj[o], Cut(w, WireSize(w))).m
                 = MergeFrom(cls, obj[o], obj[p])
            /\ CopyConstruct(cls, obj[p]) = MergeFrom(cls, Fresh(cls), obj[p])

\* A message cut anywhere gives fields of the sender, defaults, and at most a
\* prefix of one string, never a value nobody sent; and if the parser reports
\* success, every required field is the sender's: what is missing then is
\* optional, the response and the error code of an RpcMessage among it.  All
\* objects stay well-formed (TypeOK).
CutIsHonest ==
    /\ TypeOK
    /\ \A o \in Object :
        LET w == SerializeWithCachedSizes(cls, obj[o]) IN
        \A k \in 0..WireSize(w) :
            LET r == ParseFrom(cls, Fresh(cls), Cut(w, k)) IN
            /\ r.m.has \subseteq obj[o].has
            /\ \A i \in Number(cls) :
                 \/ r.m.val[i] \in {obj[o].val[i], FieldsOf[cls][i].default}
                 \/ IsBytes(cls, i) /\ IsPrefix(r.m.val[i], obj[o].val[i])
            /\ r.ok => \A i \in Required(cls) : r.m.val[i] = obj[o].val[i]
=============================================================================
