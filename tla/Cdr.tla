-------------------------------- MODULE Cdr --------------------------------
(***************************************************************************)
(* The part of Fast-CDR (XCDRv1) the agent uses, over descriptions of the  *)
(* types.  A value is written at a position of a buffer: a number of n     *)
(* octets starts at a multiple of n, in either order of its octets; a      *)
(* string is its length, its characters and a NUL; a vector is its length  *)
(* and its elements; a flag precedes an optional value; an octet tells     *)
(* which branch of a union follows.                                        *)
(*                                                                         *)
(* Numbers of more than one octet are sequences of octets, the most        *)
(* significant first: nothing here computes with them.                     *)
(***************************************************************************)
LOCAL INSTANCE Integers
LOCAL INSTANCE Sequences
LOCAL INSTANCE SequencesExt

BIG_ENDIANNESS == 0
LITTLE_ENDIANNESS == 1
Endianness == {BIG_ENDIANNESS, LITTLE_ENDIANNESS}

-----------------------------------------------------------------------------
(* Descriptions of types.                                                  *)

Octet == [kind |-> "octet"]
UInt(n) == [kind |-> "uint", n |-> n]
Array(n) == [kind |-> "array", n |-> n]
String == [kind |-> "string"]
Vector(T) == [kind |-> "vector", of |-> T]
Optional(T) == [kind |-> "optional", of |-> T]

\* Octets without a length of their own: the reader has sized the vector before.
Sized == [kind |-> "sized"]

\* An optional value counted as if it were there: what the size of *m_x is when m_x is empty.
Held(T) == [kind |-> "held", of |-> T]

\* A vector counted without its length, and a value counted as if it were at position 0.
Elements(T) == [kind |-> "elements", of |-> T]
Apart(T) == [kind |-> "apart", of |-> T]

\* A class: its members, the order in which serialize and deserialize visit them, and what
\* getCdrSerializedSize counts, in its order.
Class(members, wire, size) == [kind |-> "class", members |-> members, wire |-> wire, size |-> size]

\* A class whose three functions visit the same members in the same order.
InOrder(members, wire) ==
  Class(members, wire, [i \in DOMAIN wire |-> <<wire[i], members[wire[i]]>>])

\* A class that visits the members of its base first.
Derived(base, members, wire) == InOrder(members, base.wire \o wire)

\* A union: its branches by discriminator.
Union(branches) == [kind |-> "union", branches |-> branches]

-----------------------------------------------------------------------------
(* Writing.                                                                *)

\* Cdr::alignment: the octets up to the next multiple of n.
Alignment(at, n) == (n - (at % n)) % n

Padding(at, n) == [i \in 1 .. Alignment(at, n) |-> 0]

\* A length as a number of four octets.
Length(n) == <<0, 0, n \div 256, n % 256>>

Ordered(octets, endianness) ==
  IF endianness = LITTLE_ENDIANNESS THEN Reverse(octets) ELSE octets

RECURSIVE Serialized(_, _, _, _), SerializedAll(_, _, _)

\* The octets, padding included, that writing value v of type T at position at appends.
Serialized(T, v, at, e) ==
  CASE T.kind = "octet" -> <<v>>
    [] T.kind = "uint" -> Padding(at, T.n) \o Ordered(v, e)
    [] T.kind \in {"array", "sized"} -> v
    [] T.kind = "string" -> Serialized(UInt(4), Length(Len(v) + 1), at, e) \o v \o <<0>>
    [] T.kind = "vector" ->
         SerializedAll(<<<<UInt(4), Length(Len(v))>>>> \o [i \in DOMAIN v |-> <<T.of, v[i]>>], at, e)
    [] T.kind = "optional" ->
         SerializedAll(<<<<Octet, Len(v)>>>> \o [i \in DOMAIN v |-> <<T.of, v[i]>>], at, e)
    [] T.kind = "class" ->
         SerializedAll([i \in DOMAIN T.wire |-> <<T.members[T.wire[i]], v[T.wire[i]]>>], at, e)
    [] T.kind = "union" ->
         <<v.d>> \o IF v.d \in DOMAIN T.branches
                    THEN Serialized(T.branches[v.d], v.value, at + 1, e)
                    ELSE <<>>

\* The same for a sequence of pairs of a type and a value.
SerializedAll(items, at, e) ==
  IF items = <<>> THEN <<>>
  ELSE LET first == Serialized(items[1][1], items[1][2], at, e)
       IN  first \o SerializedAll(Tail(items), at + Len(first), e)

-----------------------------------------------------------------------------
(* Counting.                                                               *)

\* What a default-constructed object of the type holds.
RECURSIVE Default(_)
Default(T) ==
  CASE T.kind = "octet" -> 0
    [] T.kind \in {"uint", "array"} -> [i \in 1 .. T.n |-> 0]
    [] T.kind \in {"string", "vector", "optional", "sized"} -> <<>>
    [] T.kind = "class" -> [m \in DOMAIN T.members |-> Default(T.members[m])]
    [] T.kind = "union" -> [d |-> 0, value |-> <<>>]

RECURSIVE SizeTo(_, _, _), SizeToAll(_, _)

\* current_alignment after getCdrSerializedSize(current_alignment) has counted v.
SizeTo(T, v, at) ==
  CASE T.kind = "octet" -> at + 1
    [] T.kind = "uint" -> at + Alignment(at, T.n) + T.n
    [] T.kind = "array" -> at + T.n
    [] T.kind = "sized" -> at + Len(v)
    [] T.kind = "string" -> at + Alignment(at, 4) + 4 + Len(v) + 1
    [] T.kind = "vector" -> SizeTo(Elements(T.of), v, SizeTo(UInt(4), <<>>, at))
    [] T.kind = "elements" -> SizeToAll([i \in DOMAIN v |-> <<T.of, v[i]>>], at)
    [] T.kind = "apart" -> at + SizeTo(T.of, v, 0)
    [] T.kind = "optional" -> SizeToAll([i \in DOMAIN v |-> <<T.of, v[i]>>], at + 1)
    [] T.kind = "held" -> SizeTo(T.of, IF v = <<>> THEN Default(T.of) ELSE v[1], at)
    [] T.kind = "class" -> SizeToAll([i \in DOMAIN T.size |-> <<T.size[i][2], v[T.size[i][1]]>>], at)
    [] T.kind = "union" ->
         IF v.d \in DOMAIN T.branches THEN SizeTo(T.branches[v.d], v.value, at + 1) ELSE at + 1

SizeToAll(items, at) ==
  IF items = <<>> THEN at ELSE SizeToAll(Tail(items), SizeTo(items[1][1], items[1][2], at))

getCdrSerializedSize(T, v) == SizeTo(T, v, 0)

-----------------------------------------------------------------------------
(* Reading.                                                                *)

Read(value, pos) == [ok |-> TRUE, value |-> value, pos |-> pos]

\* NotEnoughMemoryException: the buffer ends first.
TooShort(pos) == [ok |-> FALSE, value |-> <<>>, pos |-> pos]

Take(buf, pos, n) ==
  IF pos + n =< Len(buf) THEN Read(SubSeq(buf, pos + 1, pos + n), pos + n) ELSE TooShort(pos)

AsNumber(octets) == FoldLeft(LAMBDA n, o : n * 256 + o, 0, octets)

RECURSIVE Deserialized(_, _, _, _, _), DeserializedAll(_, _, _, _, _)

\* The value of type T read from position pos of the buffer; data is the size the reader has
\* given the vector of a "sized" type.
Deserialized(T, buf, pos, e, data) ==
  CASE T.kind = "octet" ->
         LET r == Take(buf, pos, 1) IN IF r.ok THEN Read(r.value[1], r.pos) ELSE r
    [] T.kind = "uint" ->
         LET r == Take(buf, pos + Alignment(pos, T.n), T.n) IN [r EXCEPT !.value = Ordered(@, e)]
    [] T.kind = "array" -> Take(buf, pos, T.n)
    [] T.kind = "sized" -> Take(buf, pos, data)
    [] T.kind = "string" ->
         LET n == Deserialized(UInt(4), buf, pos, e, data)
             s == Take(buf, n.pos, AsNumber(n.value))
         IN  IF ~ n.ok THEN n
             ELSE IF s.ok /\ s.value # <<>> /\ Last(s.value) = 0
                  THEN Read(Front(s.value), s.pos) ELSE s
    [] T.kind = "vector" ->
         LET n == Deserialized(UInt(4), buf, pos, e, data)
         IN  IF ~ n.ok THEN n
             ELSE DeserializedAll([i \in 1 .. AsNumber(n.value) |-> T.of], buf, n.pos, e, data)
    [] T.kind = "optional" ->
         LET flag == Take(buf, pos, 1)
         IN  IF ~ flag.ok THEN flag
             ELSE DeserializedAll([i \in 1 .. flag.value[1] |-> T.of], buf, flag.pos, e, data)
    [] T.kind = "class" ->
         LET r == DeserializedAll([i \in DOMAIN T.wire |-> T.members[T.wire[i]]], buf, pos, e, data)
         IN  IF ~ r.ok THEN r
             ELSE Read([m \in DOMAIN T.members |->
                          IF m \in Range(T.wire)
                          THEN r.value[CHOOSE i \in DOMAIN T.wire : T.wire[i] = m]
                          ELSE Default(T.members[m])], r.pos)
    [] T.kind = "union" ->
         LET d == Take(buf, pos, 1)
         IN  IF ~ d.ok \/ d.value[1] \notin DOMAIN T.branches
             THEN [d EXCEPT !.value = [d |-> IF d.ok THEN @[1] ELSE 0, value |-> <<>>]]
             ELSE LET r == Deserialized(T.branches[d.value[1]], buf, d.pos, e, data)
                  IN  [r EXCEPT !.value = [d |-> d.value[1], value |-> @]]

DeserializedAll(types, buf, pos, e, data) ==
  IF types = <<>> THEN Read(<<>>, pos)
  ELSE LET first == Deserialized(types[1], buf, pos, e, data)
           rest == DeserializedAll(Tail(types), buf, first.pos, e, data)
       IN  IF ~ first.ok THEN first
           ELSE IF ~ rest.ok THEN rest
           ELSE Read(<<first.value>> \o rest.value, rest.pos)
=============================================================================
