----------------------------- MODULE ByteStreams -----------------------------
(***************************************************************************)
(* How the contents of messages become bytes and are read back: the        *)
(* classes ByteOutputStream and ByteInputStream, and Serialize() and       *)
(* Deserialize() of class StackAssignment.                                 *)
(*                                                                         *)
(* A Put operator is the bytes that are appended.  A Next operator is what *)
(* is read from the start of a sequence of bytes, and the rest of it.      *)
(***************************************************************************)
EXTENDS Integers, SequencesExt

CONSTANTS Base,      \* values of a byte, 256 in the code
          IntSize,   \* bytes of an int32_t, 4 in the code
          LongSize   \* bytes of an uint64_t, 8 in the code

ASSUME SizeAssumption == Base \in Nat \ {0, 1} /\ IntSize \in Nat \ {0} /\ LongSize \in Nat \ {0}

Byte == 0 .. Base - 1
Int32 == -(Base ^ IntSize \div 2) .. Base ^ IntSize \div 2 - 1

-----------------------------------------------------------------------------
\* The lowest bytes of a number, the least significant one first.  Negative numbers
\* come out as their two's complement.
Raw(num, size) == [i \in 1 .. size |-> (num \div Base ^ (i - 1)) % Base]
Unsigned(raw) == FoldRight(LAMBDA byte, higher : higher * Base + byte, raw, 0)

PutInt(num) == Raw(num, IntSize)

PutIntArray(arr) == PutInt(Len(arr)) \o FlattenSeq([i \in DOMAIN arr |-> PutInt(arr[i])])

PutIntArrayArray(arr) ==
  PutInt(Len(arr)) \o FlattenSeq([i \in DOMAIN arr |-> PutIntArray(arr[i])])

PutString(str) == PutInt(Len(str)) \o str

-----------------------------------------------------------------------------
After(s, n) == SubSeq(s, n + 1, Len(s))

NextInt(s) ==
  LET u == Unsigned(SubSeq(s, 1, IntSize)) IN
  [value |-> IF u \in Int32 THEN u ELSE u - Base ^ IntSize, rest |-> After(s, IntSize)]

\* A loop that reads so many values.
NextMany(Read(_), count, s) ==
  LET after[i \in 0 .. count] ==
        IF i = 0 THEN [value |-> <<>>, rest |-> s]
        ELSE LET before == after[i - 1]
                 next == Read(before.rest)
             IN  [value |-> Append(before.value, next.value), rest |-> next.rest]
  IN  after[count]

NextIntArray(s) ==
  LET len == NextInt(s) IN NextMany(NextInt, len.value, len.rest)

NextIntArrayArray(s) ==
  LET len == NextInt(s) IN NextMany(NextIntArray, len.value, len.rest)

\* The std::string is made from a char*, and so ends at the first zero.
NextString(s) ==
  LET len == NextInt(s)
      zero == SelectInSeq(SubSeq(len.rest, 1, len.value), LAMBDA byte : byte = 0)
  IN  [value |-> SubSeq(len.rest, 1, IF zero = 0 THEN len.value ELSE zero - 1),
       rest |-> After(len.rest, len.value)]

-----------------------------------------------------------------------------
\* The table of a StackAssignment is a function from names to arrays of arrays.  It is
\* written in the order of its hash map, which may be any.
Serialize(table) ==
  LET names == SetToSeq(DOMAIN table) IN
  PutInt(Len(names)) \o
  FlattenSeq([i \in DOMAIN names |-> PutString(names[i]) \o PutIntArrayArray(table[names[i]])])

NextEntry(s) ==
  LET name == NextString(s)
      stack == NextIntArrayArray(name.rest)
  IN  [value |-> <<name.value, stack.value>>, rest |-> stack.rest]

\* Of two entries with the same name the later one stays.
Deserialize(s) ==
  LET count == NextInt(s)
      entries == NextMany(NextEntry, count.value, count.rest).value
      name(i) == entries[i][1]
      last(n) == SelectLastInSeq(entries, LAMBDA e : e[1] = n)
  IN  [n \in {name(i) : i \in DOMAIN entries} |-> entries[last(n)][2]]

=============================================================================
