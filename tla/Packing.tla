------------------------------- MODULE Packing -------------------------------
(***************************************************************************)
(* Parts and what is packed into them: how numbers, strings and arrays     *)
(* become the bytes of a zmq::Part, alone or one after the other by        *)
(* zmq::PartMulti, and how they are read back.  A byte has ByteSize values *)
(* for 256, a sequence number has SeqNSize bytes for 8, the length of a    *)
(* string or container LengthSize bytes for 4 and a uuid UuidSize for 16.  *)
(* Parts are little endian, the default, and char is signed, as in the     *)
(* x86 builds.                                                             *)
(***************************************************************************)
EXTENDS Integers, Sequences
LOCAL INSTANCE SequencesExt
LOCAL INSTANCE Bitwise

CONSTANTS ByteSize, SeqNSize, LengthSize, UuidSize

ASSUME PackingAssumption ==
    /\ ByteSize \in Nat /\ ByteSize > 1 /\ ByteSize % 2 = 0
    /\ {SeqNSize, LengthSize, UuidSize} \subseteq Nat \ {0}

Word(w) == ByteSize ^ w
MaxLength == Word(LengthSize) - 1

\* Part(uint8_t) to Part(uint64_t), by memcpyWithEndian().
PartOf(n, w) == [i \in 1 .. w |-> (n \div Word(i - 1)) % ByteSize]

\* memcpyWithEndian<T>(source): the bytes as an unsigned number.
Number(p) == FoldLeftDomain(LAMBDA sum, i : sum + p[i] * Word(i - 1), 0, p)

\* static_cast<uintN_t>(d[i]) of a char: a negative one is sign extended.
Cast(b, w) == IF b < ByteSize \div 2 THEN b ELSE Word(w) - ByteSize + b

\* toUint8() to toUint64().
ToUint(p, w) ==
    IF Len(p) # w THEN 0
    ELSE FoldLeftDomain(LAMBDA r, i : r | ((Cast(p[i], w) * Word(i - 1)) % Word(w)), 0, p)

-----------------------------------------------------------------------------
\* The types a PartMulti takes.
Integral(w) == [kind |-> "integral", size |-> w]
CharArray(w) == [kind |-> "array", size |-> w]
String == [kind |-> "string", size |-> LengthSize]

\* What a call gives: a value, with which the caller goes on, or one of the two
\* ways not to, which the caller passes on.
Value(v) == [res |-> "value", val |-> v]
Throws == [res |-> "throws", val |-> <<>>]
Aborts == [res |-> "aborts", val |-> <<>>]
OnValue(r, GoOn(_)) == IF r.res = "value" THEN GoOn(r.val) ELSE r

TSize(t, v) ==
    CASE t.kind = "integral" -> t.size
      [] t.kind = "string"   -> LengthSize + Len(v)
      [] t.kind = "array"    -> Len(v)

\* Variant: the first byte past the end is taken for the last one.
AccessOutOfBoundary_OffByOne(pm, pos, sz) == pos + sz > Len(pm) + 1

\* Positions and sizes are size_t: no sum of a position and of a length, which
\* has half their bits, wraps.
AccessOutOfBoundary(pm, pos, sz) == ~(pos <= Len(pm) /\ pos + sz <= Len(pm))

\* What pack2() writes for one argument.
Stored(t, v) ==
    CASE t.kind = "integral" -> PartOf(v, t.size)
      [] t.kind = "string"   -> PartOf(Len(v), LengthSize) \o v
      [] t.kind = "array"    -> v

\* A Part being packed, up to pos, with some more bytes.
Written(s, bytes) ==
    [pos |-> s.pos + Len(bytes),
     pm  |-> [i \in DOMAIN s.pm |-> IF i - s.pos \in DOMAIN bytes THEN bytes[i - s.pos] ELSE s.pm[i]]]

\* pack2() of one argument at the position reached by the ones before.
Pack2(s, t, v) ==
    IF \/ AccessOutOfBoundary(s.pm, s.pos, TSize(t, v))
       \/ t.kind = "string" /\ Len(v) > MaxLength
    THEN Throws
    ELSE Value(Written(s, Stored(t, v)))

\* pack() of fixed arguments.  The bytes of a new Part are not initialized.
Unset == -1
TotalSize(types, vals) == FoldLeftDomain(LAMBDA sum, i : sum + TSize(types[i], vals[i]), 0, vals)
NewPart(size) == [pos |-> 0, pm |-> [i \in 1 .. size |-> Unset]]

Pack(types, vals) ==
    LET Step(r, i) == OnValue(r, LAMBDA s : Pack2(s, types[i], vals[i])) IN
    OnValue(FoldLeftDomain(Step, Value(NewPart(TotalSize(types, vals))), vals), LAMBDA s : Value(s.pm))

\* pack() of a container: its size in bytes and its count come first.
Header == <<Integral(LengthSize), Integral(LengthSize)>>
Repeat(t, n) == [i \in 1 .. n |-> t]

ContainerSize(t, items) == 2 * LengthSize + TotalSize(Repeat(t, Len(items)), items)

PackAll(t, items) ==
    IF items # <<>> /\ (ContainerSize(t, items) > MaxLength \/ Len(items) > MaxLength)
    THEN Throws
    ELSE Pack(Header \o Repeat(t, Len(items)), <<ContainerSize(t, items), Len(items)>> \o items)

\* n bytes of a buffer, which has nothing of its own past its end.
Bytes(pm, pos, n) == [i \in 1 .. n |-> IF pos + i <= Len(pm) THEN pm[pos + i] ELSE Unset]

\* psize(), the size of what is packed at a position.
PSize(pm, pos, t) ==
    LET Contents(len) == IF AccessOutOfBoundary(pm, pos + LengthSize, len) THEN Throws
                         ELSE Value(LengthSize + len)
    IN  IF AccessOutOfBoundary(pm, pos, t.size) THEN Throws
        ELSE IF t.kind = "string" THEN Contents(Number(Bytes(pm, pos, LengthSize)))
        ELSE Value(t.size)

Unpack1(pm, pos, t) ==
    OnValue(PSize(pm, pos, t), LAMBDA size : Value(
        CASE t.kind = "integral" -> Number(Bytes(pm, pos, size))
          [] t.kind = "string"   -> Bytes(pm, pos + LengthSize, size - LengthSize)
          [] t.kind = "array"    -> Bytes(pm, pos, size)))

\* unpack2(): each value from where the one before it ends.
Unpack2(pm, from, types) ==
    LET Next(s, t, v) == Value([vals |-> Append(s.vals, v), pos |-> s.pos + TSize(t, v)])
        Step(r, t) == OnValue(r, LAMBDA s : OnValue(Unpack1(pm, s.pos, t), LAMBDA v : Next(s, t, v)))
    IN  OnValue(FoldLeft(Step, Value([vals |-> <<>>, pos |-> from]), types), LAMBDA s : Value(s.vals))

Unpack(types, pm) == Unpack2(pm, 0, types)

\* unpack() of a container, which does not look at the size in its header.
UnpackAll(t, pm) ==
    OnValue(Unpack(Header, pm), LAMBDA head : Unpack2(pm, 2 * LengthSize, Repeat(t, head[2])))
=============================================================================
