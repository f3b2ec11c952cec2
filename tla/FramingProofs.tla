--------------------------- MODULE FramingProofs ---------------------------
(***************************************************************************)
(* Theorems about Framing, for all texts and files, for every capacity of  *)
(* the pipe and every length of the buffers: where sender and receiver     *)
(* stand on the wire, what the receiver returns, and that the bytes        *)
(* implement a channel of messages.                                        *)
(***************************************************************************)
EXTENDS Framing, SequenceTheorems, TLAPS

(***************************************************************************)
(* Sequences.                                                              *)
(***************************************************************************)

\* A byte that goes from the front of one buffer to the end of another.
LEMMA MoveByte ==
  ASSUME NEW S, NEW s \in Seq(S), NEW t \in Seq(S), t # << >>
  PROVE  /\ Head(t) \in S /\ Tail(t) \in Seq(S) /\ Len(Tail(t)) = Len(t) - 1
         /\ Append(s, Head(t)) \in Seq(S)
         /\ Append(s, Head(t)) \o Tail(t) = s \o t
<1>1. /\ Head(t) \in S /\ Tail(t) \in Seq(S) /\ Len(Tail(t)) = Len(t) - 1
      /\ \A i \in 1 .. Len(Tail(t)) : Tail(t)[i] = t[i + 1]
  BY HeadTailProperties
<1>2. /\ Append(s, Head(t)) \in Seq(S) /\ Len(Append(s, Head(t))) = Len(s) + 1
      /\ \A i \in 1 .. Len(s) : Append(s, Head(t))[i] = s[i]
      /\ Append(s, Head(t))[Len(s) + 1] = Head(t)
  BY <1>1, AppendProperties
<1> DEFINE a == Append(s, Head(t)) \o Tail(t)
           b == s \o t
<1>3. /\ a \in Seq(S) /\ Len(a) = Len(s) + 1 + Len(t) - 1
      /\ \A i \in 1 .. Len(s) + 1 + Len(t) - 1 :
           a[i] = IF i <= Len(s) + 1 THEN Append(s, Head(t))[i]
                  ELSE Tail(t)[i - (Len(s) + 1)]
  BY <1>1, <1>2, ConcatProperties
<1>4. /\ b \in Seq(S) /\ Len(b) = Len(s) + Len(t)
      /\ \A i \in 1 .. Len(s) + Len(t) : b[i] = IF i <= Len(s) THEN s[i] ELSE t[i - Len(s)]
  BY ConcatProperties
<1>5. Len(s) \in Nat /\ Len(t) \in Nat /\ Head(t) = t[1]
  BY LenProperties
<1>6. Len(a) = Len(b)
  BY <1>3, <1>4, <1>5
<1>7. ASSUME NEW i \in 1 .. Len(a)
      PROVE  a[i] = b[i]
  <2> HIDE DEF a, b
  <2>1. i \in 1 .. Len(s) + Len(t) /\ i \in 1 .. Len(s) + 1 + Len(t) - 1
    BY <1>3, <1>5
  <2>2. CASE i <= Len(s)
    BY <2>1, <2>2, <1>2, <1>3, <1>4, <1>5
  <2>3. CASE i = Len(s) + 1
    <3>1. i - Len(s) = 1 /\ ~(i <= Len(s)) /\ i <= Len(s) + 1
      BY <2>3, <1>5
    <3> QED BY <2>1, <2>3, <3>1, <1>2, <1>3, <1>4, <1>5
  <2>4. CASE i > Len(s) + 1
    <3>1. /\ i - (Len(s) + 1) \in 1 .. Len(t) - 1
          /\ i - (Len(s) + 1) + 1 = i - Len(s)
          /\ ~(i <= Len(s)) /\ ~(i <= Len(s) + 1)
      BY <2>1, <2>4, <1>5
    <3> QED BY <2>1, <3>1, <1>1, <1>3, <1>4
  <2> QED BY <2>1, <2>2, <2>3, <2>4, <1>5
<1>8. a = b
  <2> HIDE DEF a, b
  <2> QED BY <1>3, <1>4, <1>6, <1>7, SeqEqual
<1> QED BY <1>1, <1>2, <1>8

\* Pieces of a stream are put together in any order.
Joins(a, b, c) == (a \o b) \o c = a \o (b \o c)
Pieces(a, b, c, d) == a \o b \o c \o d = a \o (b \o (c \o d))

LEMMA JoinTypes == \A a, b \in Seq(Byte) : a \o b \in Seq(Byte)
  BY ConcatProperties

LEMMA JoinAny == \A a, b, c \in Seq(Byte) : Joins(a, b, c)
  BY ConcatAssociative DEF Joins

LEMMA PiecesAny == \A a, b, c, d \in Seq(Byte) : Pieces(a, b, c, d)
<1> TAKE a, b, c, d \in Seq(Byte)
<1> DEFINE g == a \o b
           h == c \o d
<1>1. g \in Seq(Byte) /\ h \in Seq(Byte)
  BY JoinTypes
<1> HIDE DEF g, h
<1>2. Joins(g, c, d) /\ Joins(a, b, h)
  BY <1>1, JoinAny, Zenon
<1> QED BY <1>2 DEF g, h, Joins, Pieces

\* One sequence at the end of another, position by position.
LEMMA SuffixMeans ==
  ASSUME NEW S, NEW s \in Seq(S), NEW t \in Seq(S)
  PROVE  IsSuffix(s, t) <=>
           /\ Len(s) <= Len(t)
           /\ \A i \in 1 .. Len(s) : s[i] = t[Len(t) - Len(s) + i]
<1> DEFINE rs == Reverse(s)
           rt == Reverse(t)
<1>1. Len(s) \in Nat /\ Len(t) \in Nat
  BY LenProperties
<1>2. /\ rs \in Seq(S) /\ Len(rs) = Len(s)
      /\ \A i \in 1 .. Len(s) : rs[i] = s[Len(s) - i + 1]
  BY <1>1 DEF Reverse
<1>3. /\ rt \in Seq(S) /\ Len(rt) = Len(t)
      /\ \A i \in 1 .. Len(t) : rt[i] = t[Len(t) - i + 1]
  BY <1>1 DEF Reverse
<1>4. IsSuffix(s, t) <=> Len(s) <= Len(t) /\ SubSeq(rs, 1, Len(s)) = SubSeq(rt, 1, Len(s))
  BY <1>2, <1>3 DEF IsSuffix, IsPrefix
<1> HIDE DEF rs, rt
<1>5. ASSUME Len(s) <= Len(t)
      PROVE  SubSeq(rs, 1, Len(s)) = SubSeq(rt, 1, Len(s)) <=>
               \A i \in 1 .. Len(s) : rs[i] = rt[i]
  <2> DEFINE u == SubSeq(rs, 1, Len(s))
             v == SubSeq(rt, 1, Len(s))
  <2>1. /\ u \in Seq(S) /\ Len(u) = Len(s)
        /\ \A i \in 1 .. Len(s) : u[i] = rs[i]
    BY <1>1, <1>2, <1>5
  <2>2. /\ v \in Seq(S) /\ Len(v) = Len(s)
        /\ \A i \in 1 .. Len(s) : v[i] = rt[i]
    BY <1>1, <1>3, <1>5
  <2> HIDE DEF u, v
  <2>3. ASSUME \A i \in 1 .. Len(s) : rs[i] = rt[i] PROVE u = v
    <3>1. u \in Seq(S) /\ v \in Seq(S) /\ Len(u) = Len(v)
      BY <2>1, <2>2
    <3>2. \A i \in 1 .. Len(u) : u[i] = v[i]
      BY <2>1, <2>2, <2>3
    <3> QED BY <3>1, <3>2, SeqEqual
  <2> QED BY <2>1, <2>2, <2>3 DEF u, v
<1>6. ASSUME Len(s) <= Len(t)
      PROVE  (\A i \in 1 .. Len(s) : rs[i] = rt[i]) <=>
               \A i \in 1 .. Len(s) : s[i] = t[Len(t) - Len(s) + i]
  <2>1. ASSUME \A i \in 1 .. Len(s) : rs[i] = rt[i], NEW i \in 1 .. Len(s)
        PROVE  s[i] = t[Len(t) - Len(s) + i]
    <3> DEFINE j == Len(s) - i + 1
    <3>1. /\ j \in 1 .. Len(s) /\ j \in 1 .. Len(t)
          /\ Len(s) - j + 1 = i /\ Len(t) - j + 1 = Len(t) - Len(s) + i
      BY <1>1, <1>6
    <3> HIDE DEF j
    <3> QED BY <3>1, <2>1, <1>2, <1>3
  <2>2. ASSUME \A i \in 1 .. Len(s) : s[i] = t[Len(t) - Len(s) + i], NEW i \in 1 .. Len(s)
        PROVE  rs[i] = rt[i]
    <3> DEFINE j == Len(s) - i + 1
    <3>1. /\ j \in 1 .. Len(s) /\ i \in 1 .. Len(t)
          /\ Len(t) - Len(s) + j = Len(t) - i + 1
      BY <1>1, <1>6
    <3> HIDE DEF j
    <3>2. rs[i] = s[j]
      BY <1>2 DEF j
    <3> QED BY <3>1, <3>2, <2>2, <1>3
  <2> QED BY <2>1, <2>2
<1> QED BY <1>4, <1>5, <1>6

(***************************************************************************)
(* Files as digits.                                                        *)
(***************************************************************************)

\* A byte is the sum of its three digits.
LEMMA DigitsOfByte ==
  ASSUME NEW b \in Byte
  PROVE  /\ b \div 100 \in 0 .. 2 /\ (b \div 10) % 10 \in 0 .. 9 /\ b % 10 \in 0 .. 9
         /\ (b \div 100) * 100 + ((b \div 10) % 10) * 10 + (b % 10) = b
  BY DEF Byte

LEMMA ThreeDigitsTypes ==
  ASSUME NEW b \in Byte
  PROVE  /\ \A j \in 1 .. 3 : ThreeDigits(b)[j] \in Digit
         /\ ((ThreeDigits(b)[1] - Zero) * 100 + (ThreeDigits(b)[2] - Zero) * 10
              + (ThreeDigits(b)[3] - Zero)) % 256 = b
<1> DEFINE x == b \div 100
           y == (b \div 10) % 10
           z == b % 10
<1>1. x \in 0 .. 2 /\ y \in 0 .. 9 /\ z \in 0 .. 9 /\ x * 100 + y * 10 + z = b
  BY DigitsOfByte
<1>2. /\ ThreeDigits(b)[1] = 48 + x /\ ThreeDigits(b)[2] = 48 + y
      /\ ThreeDigits(b)[3] = 48 + z
  BY DEF ThreeDigits, Zero
<1> HIDE DEF x, y, z
<1>3. \A j \in 1 .. 3 : ThreeDigits(b)[j] \in 48 .. 57
  BY <1>1, <1>2
<1>4. (ThreeDigits(b)[1] - 48) * 100 + (ThreeDigits(b)[2] - 48) * 10
        + (ThreeDigits(b)[3] - 48) = b
  <2>1. (48 + x) - 48 = x /\ (48 + y) - 48 = y /\ (48 + z) - 48 = z
    BY <1>1
  <2> QED BY <1>1, <1>2, <2>1
<1>5. b % 256 = b
  BY DEF Byte
<1>6. \A j \in 1 .. 3 : ThreeDigits(b)[j] \in Digit
  BY <1>3 DEF Digit
<1>7. ((ThreeDigits(b)[1] - Zero) * 100 + (ThreeDigits(b)[2] - Zero) * 10
        + (ThreeDigits(b)[3] - Zero)) % 256 = b
  BY <1>2, <1>4, <1>5 DEF Zero
<1> QED BY <1>6, <1>7

\* Digits of a file are digits, three for each byte.
LEMMA EncodedTypes ==
  ASSUME NEW data \in Seq(Byte)
  PROVE  /\ encode_raw_data(data) \in Seq(Digit)
         /\ Len(encode_raw_data(data)) = 3 * Len(data)
         /\ \A i \in 1 .. 3 * Len(data) :
              encode_raw_data(data)[i] = ThreeDigits(data[(i + 2) \div 3])[((i - 1) % 3) + 1]
<1>1. Len(data) \in Nat
  BY LenProperties
<1>2. ASSUME NEW i \in 1 .. 3 * Len(data)
      PROVE  ThreeDigits(data[(i + 2) \div 3])[((i - 1) % 3) + 1] \in Digit
  <2>1. (i + 2) \div 3 \in 1 .. Len(data) /\ ((i - 1) % 3) + 1 \in 1 .. 3
    BY <1>1
  <2>2. data[(i + 2) \div 3] \in Byte
    BY <2>1, ElementOfSeq
  <2> QED BY <2>1, <2>2, ThreeDigitsTypes
<1> QED BY <1>1, <1>2 DEF encode_raw_data

\* What is returned for digits consists of bytes.
LEMMA DecodedTypes ==
  ASSUME NEW s \in Seq(Byte)
  PROVE  /\ decode_to_raw_data(s) \in Seq(Byte)
         /\ Len(decode_to_raw_data(s)) = Len(s) \div 3
<1>1. Len(s) \in Nat /\ Len(s) \div 3 \in Nat
  BY LenProperties
<1>2. ASSUME NEW i \in 1 .. Len(s) \div 3
      PROVE  ((s[3 * i - 2] - Zero) * 100 + (s[3 * i - 1] - Zero) * 10
               + (s[3 * i] - Zero)) % 256 \in Byte
  <2>1. 3 * i - 2 \in 1 .. Len(s) /\ 3 * i - 1 \in 1 .. Len(s) /\ 3 * i \in 1 .. Len(s)
    BY <1>1
  <2>2. s[3 * i - 2] \in Byte /\ s[3 * i - 1] \in Byte /\ s[3 * i] \in Byte
    BY <2>1, ElementOfSeq
  <2>3. \A x, y, z \in Byte : (x - Zero) * 100 + (y - Zero) * 10 + (z - Zero) \in Int
    BY DEF Byte, Zero
  <2>4. \A n \in Int : n % 256 \in Byte
    BY DEF Byte
  <2> QED BY <2>2, <2>3, <2>4
<1> QED BY <1>1, <1>2 DEF decode_to_raw_data

\* Every file comes back from its digits (file_utils.c 79-124).
THEOREM FilesSurvive ==
  ASSUME NEW data \in Seq(Byte)
  PROVE  decode_to_raw_data(encode_raw_data(data)) = data
<1> DEFINE s == encode_raw_data(data)
<1>1. Len(data) \in Nat
  BY LenProperties
<1>2. /\ s \in Seq(Digit) /\ Len(s) = 3 * Len(data)
      /\ \A i \in 1 .. 3 * Len(data) : s[i] = ThreeDigits(data[(i + 2) \div 3])[((i - 1) % 3) + 1]
  BY EncodedTypes
<1> HIDE DEF s
<1>3. s \in Seq(Byte)
  BY <1>2, SeqMonotonic DEF Digit, Byte
<1>4. /\ decode_to_raw_data(s) \in Seq(Byte)
      /\ Len(decode_to_raw_data(s)) = Len(data)
      /\ \A i \in 1 .. Len(data) : decode_to_raw_data(s)[i] =
           ((s[3 * i - 2] - Zero) * 100 + (s[3 * i - 1] - Zero) * 10
             + (s[3 * i] - Zero)) % 256
  <2>1. Len(s) \div 3 = Len(data)
    BY <1>1, <1>2
  <2> QED BY <1>3, <2>1, DecodedTypes DEF decode_to_raw_data
<1>5. ASSUME NEW i \in 1 .. Len(data)
      PROVE  decode_to_raw_data(s)[i] = data[i]
  <2>1. /\ 3 * i - 2 \in 1 .. 3 * Len(data)
        /\ 3 * i - 1 \in 1 .. 3 * Len(data)
        /\ 3 * i \in 1 .. 3 * Len(data)
    BY <1>1
  <2>2. /\ ((3 * i - 2) + 2) \div 3 = i /\ (((3 * i - 2) - 1) % 3) + 1 = 1
        /\ ((3 * i - 1) + 2) \div 3 = i /\ (((3 * i - 1) - 1) % 3) + 1 = 2
        /\ ((3 * i) + 2) \div 3 = i /\ (((3 * i) - 1) % 3) + 1 = 3
    BY <1>1
  <2>3. /\ s[3 * i - 2] = ThreeDigits(data[i])[1]
        /\ s[3 * i - 1] = ThreeDigits(data[i])[2]
        /\ s[3 * i] = ThreeDigits(data[i])[3]
    BY <2>1, <2>2, <1>2
  <2>4. data[i] \in Byte
    BY ElementOfSeq
  <2> QED BY <2>3, <2>4, <1>4, ThreeDigitsTypes
<1> QED BY <1>1, <1>4, <1>5, SeqEqual DEF s

(***************************************************************************)
(* Frames.                                                                 *)
(***************************************************************************)

LEMMA MessageTypes ==
  ASSUME NEW m \in Messages
  PROVE  /\ m.kind \in DOMAIN Kinds /\ m.content \in Seq(Byte)
         /\ m = [kind |-> m.kind, content |-> m.content]
         /\ Kinds[m.kind] \in {115, 100, 102}
<1>1. ASSUME m \in [kind : {"text"}, content : Texts] \/ m \in [kind : {"data"}, content : Replies]
      PROVE  /\ m.kind \in {"text", "data"} /\ m.content \in Seq(Byte)
             /\ m = [kind |-> m.kind, content |-> m.content]
  <2>1. /\ m.content \in Texts \cup Replies /\ m.kind \in {"text", "data"}
        /\ m = [kind |-> m.kind, content |-> m.content]
    BY <1>1
  <2>2. m.content \in Seq(Byte \ {0})
    BY <2>1, FramingAssumption
  <2>3. m.content \in Seq(Byte)
    BY <2>2, SeqMonotonic
  <2> QED BY <2>1, <2>3
<1>2. CASE m \in [kind : {"file"}, content : Files]
  <2>1. m.content \in Files /\ m.kind = "file" /\ m = [kind |-> m.kind, content |-> m.content]
    BY <1>2
  <2> QED BY <2>1, FramingAssumption DEF Kinds
<1> QED BY <1>1, <1>2 DEF Messages, Kinds

\* What stands between the kind and the brace.
Inside(m) == IF m.kind = "file" THEN encode_raw_data(m.content) ELSE m.content

LEMMA SerializedTypes ==
  ASSUME NEW m \in Messages
  PROVE  LET s == Serialized(m)
             c == Inside(m)
         IN  /\ c \in Seq(Byte) /\ s \in Seq(Byte) /\ Len(s) = Len(c) + 2
             /\ s[1] = Kinds[m.kind] /\ s[Len(s)] = Brace
             /\ \A i \in 1 .. Len(c) : s[i + 1] = c[i]
             /\ SubSeq(s, 2, Len(s) - 1) = c
<1> DEFINE s == Serialized(m)
           c == Inside(m)
           k == Kinds[m.kind]
<1>1. m.content \in Seq(Byte) /\ k \in Byte
  BY MessageTypes DEF Byte
<1>2. c \in Seq(Byte)
  <2>1. encode_raw_data(m.content) \in Seq(Byte)
    BY <1>1, EncodedTypes, SeqMonotonic DEF Digit, Byte
  <2> QED BY <1>1, <2>1 DEF Inside
<1>3. s = <<k>> \o c \o <<Brace>>
  BY DEF Serialized, Inside
<1> HIDE DEF s, c, k
<1>4. <<k>> \in Seq(Byte) /\ <<Brace>> \in Seq(Byte) /\ Len(c) \in Nat
  BY <1>1, <1>2, LenProperties DEF Brace, Byte
<1>5. /\ <<k>> \o c \in Seq(Byte) /\ Len(<<k>> \o c) = 1 + Len(c)
      /\ \A i \in 1 .. 1 + Len(c) : (<<k>> \o c)[i] = IF i <= 1 THEN k ELSE c[i - 1]
  BY <1>2, <1>4
<1>6. /\ s \in Seq(Byte) /\ Len(s) = Len(c) + 2
      /\ \A i \in 1 .. Len(c) + 2 :
           s[i] = IF i <= 1 + Len(c) THEN (<<k>> \o c)[i] ELSE Brace
  BY <1>3, <1>4, <1>5
<1>7. s[1] = k /\ s[Len(s)] = Brace /\ \A i \in 1 .. Len(c) : s[i + 1] = c[i]
  BY <1>4, <1>5, <1>6
<1>8. SubSeq(s, 2, Len(s) - 1) = c
  <2> DEFINE u == SubSeq(s, 2, Len(s) - 1)
  <2>1. /\ u \in Seq(Byte) /\ Len(u) = Len(c)
        /\ \A i \in 1 .. Len(c) : u[i] = s[i + 1]
    BY <1>4, <1>6
  <2> HIDE DEF u
  <2>2. u = c
    BY <2>1, <1>2, <1>7, SeqEqual
  <2> QED BY <2>2 DEF u
<1> QED BY <1>2, <1>6, <1>7, <1>8 DEF s, c, k

LEMMA BoundaryTypes ==
  ASSUME NEW d \in Marks
  PROVE  LET b == gen_boundary(d)
         IN  /\ d \in Digit /\ b \in Seq(Byte) /\ Len(b) = 4
             /\ b[1] = Dash /\ b[2] = d /\ b[3] = Underscore /\ b[4] = Underscore
<1>1. d \in Digit
  BY FramingAssumption
<1> QED BY <1>1 DEF gen_boundary, Digit, Byte, Dash, Underscore

\* A frame is read as a boundary, its message and its end.
LEMMA FrameTypes ==
  ASSUME NEW m \in Messages, NEW d \in Marks
  PROVE  LET b == gen_boundary(d)
             s == Serialized(m)
         IN  /\ Frame(m, d) \in Seq(Byte)
             /\ Frame(m, d) = b \o (s \o b)
             /\ s \o b \in Seq(Byte) /\ Len(s \o b) = Len(s) + 4
             /\ \A i \in 1 .. Len(s) : (s \o b)[i] = s[i]
             /\ \A i \in 1 .. 4 : (s \o b)[Len(s) + i] = b[i]
<1> DEFINE b == gen_boundary(d)
           s == Serialized(m)
<1>1. b \in Seq(Byte) /\ Len(b) = 4 /\ s \in Seq(Byte) /\ Len(s) \in Nat
  BY BoundaryTypes, SerializedTypes, LenProperties
<1>2. Frame(m, d) = b \o s \o b
  BY DEF Frame
<1> HIDE DEF b, s
<1>3. b \o s \o b = b \o (s \o b) /\ s \o b \in Seq(Byte) /\ b \o s \o b \in Seq(Byte)
  BY <1>1, ConcatAssociative, ConcatProperties
<1>6. /\ Len(s \o b) = Len(s) + 4
      /\ \A i \in 1 .. Len(s) + 4 :
           (s \o b)[i] = IF i <= Len(s) THEN s[i] ELSE b[i - Len(s)]
  <2>1. /\ Len(s \o b) = Len(s) + Len(b)
        /\ \A i \in 1 .. Len(s) + Len(b) :
             (s \o b)[i] = IF i <= Len(s) THEN s[i] ELSE b[i - Len(s)]
    BY <1>1, ConcatProperties
  <2> QED BY <1>1, <2>1
<1>4. \A i \in 1 .. Len(s) : (s \o b)[i] = s[i]
  BY <1>1, <1>6
<1>5. \A i \in 1 .. 4 : (s \o b)[Len(s) + i] = b[i]
  <2> TAKE i \in 1 .. 4
  <2>1. Len(s) + i \in 1 .. Len(s) + 4 /\ ~(Len(s) + i <= Len(s)) /\ Len(s) + i - Len(s) = i
    BY <1>1
  <2> QED BY <1>6, <2>1
<1> QED BY <1>2, <1>3, <1>6, <1>4, <1>5 DEF b, s

\* No boundary starts with a byte of a file.
LEMMA NoDashInFile ==
  ASSUME NEW m \in Messages, m.kind = "file", NEW i \in 1 .. Len(Serialized(m))
  PROVE  Serialized(m)[i] # Dash
<1> DEFINE s == Serialized(m)
           c == Inside(m)
<1>1. /\ c \in Seq(Byte) /\ Len(s) = Len(c) + 2
      /\ s[1] = Kinds[m.kind] /\ s[Len(s)] = Brace
      /\ \A j \in 1 .. Len(c) : s[j + 1] = c[j]
  BY SerializedTypes
<1>2. c \in Seq(Digit) /\ Len(c) \in Nat
  BY MessageTypes, EncodedTypes, LenProperties DEF Inside
<1>3. s[1] = 102
  BY <1>1 DEF Kinds
<1> HIDE DEF s, c
<1>4. i \in 1 .. Len(s)
  BY DEF s
<1>5. CASE i = 1
  BY <1>5, <1>3 DEF Dash, s
<1>6. CASE i = Len(s)
  BY <1>6, <1>1 DEF Dash, Brace, s
<1>7. CASE i # 1 /\ i # Len(s)
  <2>1. i - 1 \in 1 .. Len(c) /\ (i - 1) + 1 = i
    BY <1>1, <1>2, <1>4, <1>7
  <2>2. c[i - 1] \in Digit
    BY <2>1, <1>2, ElementOfSeq
  <2>3. s[i] = c[i - 1]
    BY <1>1, <2>1
  <2>4. \A e \in Digit : e # Dash
    BY DEF Dash, Digit
  <2> QED BY <2>2, <2>3, <2>4 DEF s
<1> QED BY <1>5, <1>6, <1>7

\* A boundary inside the message is what Clashes looks for.
LEMMA NoneInside ==
  ASSUME NEW m \in Messages, NEW d \in Marks,
         ~Clashes(m, gen_boundary(d), Serialized(m)),
         NEW p \in Nat \ {0}, p + 3 <= Len(Serialized(m))
  PROVE  ~ \A i \in 1 .. 4 : Serialized(m)[p + i - 1] = gen_boundary(d)[i]
<1> DEFINE s == Serialized(m)
           b == gen_boundary(d)
<1>1. /\ s \in Seq(Byte) /\ Len(s) \in Nat /\ b \in Seq(Byte) /\ Len(b) = 4 /\ b[1] = Dash
  BY SerializedTypes, BoundaryTypes, LenProperties
<1>2. p + 3 <= Len(s) /\ p \in 1 .. Len(s)
  BY <1>1
<1>3. SUFFICES ASSUME \A i \in 1 .. 4 : s[p + i - 1] = b[i]
               PROVE  FALSE
  OBVIOUS
<1>4. CASE m.kind = "file"
  <2>1. s[p] # Dash
    BY <1>2, <1>4, NoDashInFile
  <2>2. s[p + 1 - 1] = b[1] /\ p + 1 - 1 = p
    BY <1>3
  <2> QED BY <2>1, <2>2, <1>1
<1>5. CASE m.kind # "file"
  <2>1. ~ \E i \in 1 .. Len(s) - Len(b) + 1 : SubSeq(s, i, i + Len(b) - 1) = b
    BY <1>5 DEF Clashes
  <2> DEFINE u == SubSeq(s, p, p + 4 - 1)
  <2> HIDE DEF s, b
  <2>2. /\ u \in Seq(Byte) /\ Len(u) = 4
        /\ \A i \in 1 .. 4 : u[i] = s[p + i - 1]
    BY <1>1, <1>2
  <2>3. u = b
    <3> HIDE DEF u
    <3> QED BY <2>2, <1>1, <1>3, SeqEqual
  <2>4. p \in 1 .. Len(s) - Len(b) + 1 /\ SubSeq(s, p, p + Len(b) - 1) = b
    BY <2>3, <1>1, <1>2
  <2> QED BY <2>1, <2>4
<1> QED BY <1>4, <1>5, MessageTypes

\* The bytes behind a frame's first boundary end with the boundary, for the
\* first time, at the end of the frame: the boundary is neither in the message
\* nor in part the end of the message, since it begins with the only Dash in it
\* and a digit (comm.read.fifo.c 219).
LEMMA OnlyAtEnd ==
  ASSUME NEW m \in Messages, NEW d \in Marks,
         ~Clashes(m, gen_boundary(d), Serialized(m)),
         NEW t \in Seq(Byte), Len(t) <= Len(Serialized(m)) + 4,
         \A i \in 1 .. Len(t) : t[i] = (Serialized(m) \o gen_boundary(d))[i]
  PROVE  /\ Completes(t, gen_boundary(d)) <=> Len(t) = Len(Serialized(m)) + 4
         /\ Len(t) = Len(Serialized(m)) + 4 => SubSeq(t, 1, Len(t) - 4) = Serialized(m)
<1> DEFINE s == Serialized(m)
           b == gen_boundary(d)
           n == Len(s)
           p == Len(t) - 3
<1>1. /\ s \in Seq(Byte) /\ n \in Nat /\ n >= 2 /\ b \in Seq(Byte) /\ Len(b) = 4
      /\ b[1] = Dash /\ b[2] = d /\ b[3] = Underscore /\ b[4] = Underscore /\ d \in Digit
      /\ Len(t) \in Nat
  <2>1. Len(s) = Len(Inside(m)) + 2 /\ Inside(m) \in Seq(Byte) /\ s \in Seq(Byte)
    BY SerializedTypes
  <2>2. Len(Inside(m)) \in Nat
    BY <2>1, LenProperties
  <2>3. Len(s) \in Nat /\ Len(s) >= 2
    BY <2>1, <2>2
  <2> QED BY <2>1, <2>3, BoundaryTypes, LenProperties
<1>2. /\ \A i \in 1 .. n : (s \o b)[i] = s[i]
      /\ \A i \in 1 .. 4 : (s \o b)[n + i] = b[i]
  BY FrameTypes
<1>3. Len(t) <= n + 4 /\ \A i \in 1 .. Len(t) : t[i] = (s \o b)[i]
  OBVIOUS
<1>4. Completes(t, b) <=> Len(t) > 4 /\ \A i \in 1 .. 4 : b[i] = t[Len(t) - 4 + i]
  <2>1. IsSuffix(b, t) <=> /\ Len(b) <= Len(t)
                           /\ \A i \in 1 .. Len(b) : b[i] = t[Len(t) - Len(b) + i]
    BY <1>1, SuffixMeans
  <2> HIDE DEF b
  <2> QED BY <2>1, <1>1 DEF Completes
<1>5. ~Clashes(m, b, s)
  OBVIOUS
<1>6. ASSUME NEW q \in Nat \ {0}, q + 3 <= n
      PROVE  ~ \A i \in 1 .. 4 : s[q + i - 1] = b[i]
  BY <1>5, <1>6, NoneInside
<1> HIDE DEF s, b
<1>7. ASSUME Len(t) = n + 4
      PROVE  Completes(t, b) /\ SubSeq(t, 1, Len(t) - 4) = s
  <2>1. ASSUME NEW i \in 1 .. 4
        PROVE  b[i] = t[Len(t) - 4 + i]
    <3>1. Len(t) - 4 + i = n + i /\ n + i \in 1 .. Len(t)
      BY <1>1, <1>7
    <3> QED BY <3>1, <1>2, <1>3
  <2>2. Len(t) > 4
    BY <1>1, <1>7
  <2> DEFINE u == SubSeq(t, 1, Len(t) - 4)
  <2>3. /\ u \in Seq(Byte) /\ Len(u) = n
        /\ \A i \in 1 .. n : u[i] = t[i] /\ i \in 1 .. Len(t)
    BY <1>1, <1>7
  <2>4. u = s
    <3> HIDE DEF u
    <3>1. \A i \in 1 .. n : u[i] = s[i]
      BY <2>3, <1>2, <1>3
    <3> QED BY <2>3, <3>1, <1>1, SeqEqual
  <2> QED BY <2>1, <2>2, <2>4, <1>4
<1>8. ASSUME Completes(t, b), Len(t) # n + 4
      PROVE  FALSE
  <2>0. Len(t) > 4
    BY <1>4, <1>8
  <2>1. p \in Nat \ {0} /\ p <= n /\ Len(t) = p + 3
    <3>1. n \in Nat /\ Len(t) \in Nat
      BY <1>1
    <3>2. Len(t) <= n + 4 /\ Len(t) # n + 4 /\ Len(t) > 4
      BY <1>3, <1>8, <2>0
    <3> HIDE DEF n
    <3> QED BY <3>1, <3>2
  <2> HIDE DEF p
  <2>2. /\ (s \o b)[p] = b[1] /\ (s \o b)[p + 1] = b[2]
        /\ (s \o b)[p + 2] = b[3] /\ (s \o b)[p + 3] = b[4]
    <3>1. /\ Len(t) - 4 + 1 = p /\ Len(t) - 4 + 2 = p + 1
          /\ Len(t) - 4 + 3 = p + 2 /\ Len(t) - 4 + 4 = p + 3
          /\ {p, p + 1, p + 2, p + 3} \subseteq 1 .. Len(t)
      BY <2>1
    <3>2. /\ b[1] = t[Len(t) - 4 + 1] /\ b[2] = t[Len(t) - 4 + 2]
          /\ b[3] = t[Len(t) - 4 + 3] /\ b[4] = t[Len(t) - 4 + 4]
      BY <1>4, <1>8
    <3> QED BY <3>1, <3>2, <1>3
  <2>7. (s \o b)[n + 1] = Dash
    <3>1. 1 \in 1 .. 4 /\ b[1] = Dash
      BY <1>1
    <3> QED BY <3>1, <1>2, Zenon
  <2>8. b[2] # Dash /\ b[3] # Dash /\ b[4] # Dash
    BY <1>1 DEF Dash, Digit, Underscore
  <2>3. CASE p + 3 <= n
    <3>1. {p, p + 1, p + 2, p + 3} \subseteq 1 .. n
      BY <2>1, <2>3, <1>1
    <3>2. s[p] = b[1] /\ s[p + 1] = b[2] /\ s[p + 2] = b[3] /\ s[p + 3] = b[4]
      BY <3>1, <2>2, <1>2
    <3>3. /\ p + 1 - 1 = p /\ p + 2 - 1 = p + 1 /\ p + 3 - 1 = p + 2 /\ p + 4 - 1 = p + 3
      BY <2>1
    <3>4. \A i \in 1 .. 4 : s[p + i - 1] = b[i]
      BY <3>2, <3>3
    <3> QED BY <3>4, <2>1, <2>3, <1>6
  <2>4. CASE p = n
    BY <2>2, <2>4, <2>7, <2>8
  <2>5. CASE p + 1 = n
    <3>1. p + 2 = n + 1
      BY <2>1, <2>5, <1>1
    <3> QED BY <3>1, <2>2, <2>7, <2>8
  <2>6. CASE p + 2 = n
    <3>1. p + 3 = n + 1
      BY <2>1, <2>6, <1>1
    <3> QED BY <3>1, <2>2, <2>7, <2>8
  <2> QED BY <2>1, <2>3, <2>4, <2>5, <2>6, <1>1
<1> QED BY <1>7, <1>8 DEF s, b

-----------------------------------------------------------------------------
(***************************************************************************)
(* Types.                                                                  *)
(***************************************************************************)

\* What parse_encoded may make of a buffer.
Returned == [kind : DOMAIN Kinds, content : Seq(Byte)]

SenderTypes ==
  /\ out \in Seq(Byte) /\ stream \in Seq(Byte) /\ Len(stream) <= PipeCapacity
  /\ peer \in {"open", "closed"}
  /\ sent \in Seq(Messages)
  /\ wire \in Seq(Byte) /\ ends \in Seq(Nat) /\ Len(ends) = Len(sent)
  /\ spoiled \in {"no", "clash", "long", "cut", "fault"}

ReceiverTypes ==
  /\ rpc \in {"boundary", "second", "body", "parse", "overrun", "ended"}
  /\ boundary \in Seq(Byte) /\ Len(boundary) <= BoundaryLength
  /\ buffer \in Seq(Byte) /\ Len(buffer) <= BufferLength
  /\ received \in Seq(Returned)

\* What the loops of comm_receive_data have read when they go round: no
\* underscore, then one and the byte after it, and buffers with room for more.
LoopInv ==
  /\ rpc \in {"boundary", "second"} => buffer = << >> /\ Len(boundary) < BoundaryLength
  /\ rpc = "boundary" => \A i \in 1 .. Len(boundary) : boundary[i] # Underscore
  /\ rpc = "second" =>
       /\ Len(boundary) >= 1 /\ boundary[Len(boundary)] = Underscore
       /\ \A i \in 1 .. Len(boundary) - 1 : boundary[i] # Underscore
  /\ rpc = "body" =>
       /\ Len(boundary) >= 2 /\ boundary[Len(boundary) - 1] = Underscore
       /\ \A i \in 1 .. Len(boundary) - 2 : boundary[i] # Underscore
       /\ Len(buffer) < BufferLength

TypeInv == SenderTypes /\ ReceiverTypes /\ LoopInv

LEMMA TypeInvImplies == TypeInv => TypeOK
<1> SUFFICES ASSUME TypeInv PROVE TypeOK
  OBVIOUS
<1>1. DOMAIN Kinds = {"text", "data", "file"}
  BY DEF Kinds
<1>2. ASSUME NEW i \in DOMAIN received
      PROVE  received[i].kind \in DOMAIN Kinds /\ received[i].content \in Seq(Byte)
  <2>1. received[i] \in Returned
    BY DEF TypeInv, ReceiverTypes
  <2> QED BY <2>1, <1>1 DEF Returned
<1> QED BY <1>2 DEF TypeInv, SenderTypes, ReceiverTypes, TypeOK

LEMMA InitTypeInv == Init => TypeInv
  BY FramingAssumption DEF Init, TypeInv, SenderTypes, ReceiverTypes, LoopInv

LEMMA SendTypes ==
  ASSUME TypeInv, NEW m \in Messages, NEW d \in Marks, comm_send_data(m, d)
  PROVE  TypeInv'
<1>1. Frame(m, d) \in Seq(Byte)
  BY FrameTypes
<1>2. out' \in Seq(Byte) /\ wire' \in Seq(Byte)
  BY <1>1 DEF comm_send_data, TypeInv, SenderTypes
<1>3. Len(wire') \in Nat
  BY <1>2, LenProperties
<1>4. ends' \in Seq(Nat) /\ sent' \in Seq(Messages) /\ Len(ends') = Len(sent')
  BY <1>3, AppendProperties DEF comm_send_data, TypeInv, SenderTypes
<1>5. SenderTypes'
  BY <1>2, <1>4 DEF comm_send_data, TypeInv, SenderTypes
<1>6. UNCHANGED <<rpc, boundary, buffer, received>>
  BY DEF comm_send_data, receiver
<1> QED BY <1>5, <1>6 DEF TypeInv, ReceiverTypes, LoopInv

LEMMA WriteTypes ==
  ASSUME TypeInv, write_one_by_one_without_zero
  PROVE  TypeInv'
<1>1. UNCHANGED <<peer, sent, wire, ends, spoiled, rpc, boundary, buffer, received>>
  BY DEF write_one_by_one_without_zero, receiver
<1>2. out' \in Seq(Byte) /\ stream' \in Seq(Byte) /\ Len(stream') = Len(stream) + 1
  <2>1. Head(out) \in Byte /\ Tail(out) \in Seq(Byte)
    BY MoveByte DEF write_one_by_one_without_zero, TypeInv, SenderTypes
  <2> QED BY <2>1, AppendProperties DEF write_one_by_one_without_zero, TypeInv, SenderTypes
<1>3. Len(stream') <= PipeCapacity
  BY <1>2, LenProperties, FramingAssumption
     DEF write_one_by_one_without_zero, TypeInv, SenderTypes
<1> QED BY <1>1, <1>2, <1>3 DEF TypeInv, SenderTypes, ReceiverTypes, LoopInv

LEMMA EndTypes ==
  ASSUME TypeInv, SenderEnds
  PROVE  TypeInv'
  BY DEF SenderEnds, receiver, TypeInv, SenderTypes, ReceiverTypes, LoopInv

\* A byte read keeps the sender's types.
LEMMA ReadTypes ==
  ASSUME TypeInv, NEW state, Read(state)
  PROVE  /\ SenderTypes' /\ received' = received
         /\ Head(stream) \in Byte
<1>1. UNCHANGED <<out, peer, sent, wire, ends, received, spoiled>>
  BY DEF Read, sender
<1>2. Head(stream) \in Byte /\ stream' \in Seq(Byte) /\ Len(stream') = Len(stream) - 1
  BY MoveByte DEF Read, TypeInv, SenderTypes
<1>3. Len(stream') <= PipeCapacity
  BY <1>2, LenProperties, FramingAssumption DEF TypeInv, SenderTypes
<1> QED BY <1>1, <1>2, <1>3 DEF TypeInv, SenderTypes

LEMMA BoundaryStepTypes ==
  ASSUME TypeInv, ReadBoundary
  PROVE  TypeInv'
<1> DEFINE c == Head(stream)
           n == Len(boundary)
<1>1. SenderTypes' /\ received' = received /\ c \in Byte
  BY ReadTypes DEF ReadBoundary
<1>2. /\ rpc = "boundary" /\ boundary' = Append(boundary, c) /\ buffer' = buffer
      /\ rpc' = IF Len(boundary') = BoundaryLength THEN "overrun"
                ELSE IF c = Underscore THEN "second" ELSE "boundary"
  BY DEF ReadBoundary, Read
<1>3. /\ boundary \in Seq(Byte) /\ buffer = << >> /\ n < BoundaryLength
      /\ \A i \in 1 .. n : boundary[i] # Underscore
      /\ buffer \in Seq(Byte) /\ Len(buffer) <= BufferLength /\ received \in Seq(Returned)
  BY <1>2 DEF TypeInv, ReceiverTypes, LoopInv
<1>4. n \in Nat /\ BoundaryLength \in Nat
  BY <1>3, LenProperties, FramingAssumption
<1> HIDE DEF c, n
<1>5. /\ boundary' \in Seq(Byte) /\ Len(boundary') = n + 1
      /\ \A i \in 1 .. n : boundary'[i] = boundary[i]
      /\ boundary'[n + 1] = c
  BY <1>1, <1>2, <1>3, AppendProperties DEF n
<1>6. ReceiverTypes'
  BY <1>1, <1>2, <1>3, <1>4, <1>5 DEF ReceiverTypes
<1>7. LoopInv'
  <2>1. CASE rpc' = "overrun"
    BY <2>1 DEF LoopInv
  <2>2. CASE rpc' = "second"
    <3>1. c = Underscore /\ n + 1 < BoundaryLength
      BY <2>2, <1>2, <1>3, <1>4, <1>5
    <3>2. (n + 1) - 1 = n
      BY <1>4
    <3>3. \A i \in 1 .. n : boundary'[i] # Underscore
      BY <1>3, <1>4, <1>5, Zenon
    <3> QED BY <2>2, <3>1, <3>2, <3>3, <1>2, <1>3, <1>4, <1>5 DEF LoopInv
  <2>3. CASE rpc' = "boundary"
    <3>1. c # Underscore /\ n + 1 < BoundaryLength
      BY <2>3, <1>2, <1>3, <1>4, <1>5
    <3>2. \A i \in 1 .. n + 1 : boundary'[i] # Underscore
      BY <3>1, <1>3, <1>4, <1>5
    <3> QED BY <2>3, <3>1, <3>2, <1>2, <1>3, <1>5 DEF LoopInv
  <2> QED BY <2>1, <2>2, <2>3, <1>2
<1> QED BY <1>1, <1>6, <1>7 DEF TypeInv

LEMMA SecondStepTypes ==
  ASSUME TypeInv, ReadSecond
  PROVE  TypeInv'
<1> DEFINE c == Head(stream)
           n == Len(boundary)
<1>1. SenderTypes' /\ received' = received /\ c \in Byte
  BY ReadTypes DEF ReadSecond
<1>2. /\ rpc = "second" /\ boundary' = Append(boundary, c) /\ buffer' = buffer
      /\ rpc' = "body"
  BY DEF ReadSecond, Read
<1>3. /\ boundary \in Seq(Byte) /\ buffer = << >> /\ n < BoundaryLength
      /\ n >= 1 /\ boundary[n] = Underscore
      /\ \A i \in 1 .. n - 1 : boundary[i] # Underscore
      /\ buffer \in Seq(Byte) /\ Len(buffer) <= BufferLength /\ received \in Seq(Returned)
  BY <1>2 DEF TypeInv, ReceiverTypes, LoopInv
<1>4. n \in Nat /\ BoundaryLength \in Nat /\ Len(buffer) = 0 /\ 0 < BufferLength
  BY <1>3, LenProperties, EmptySeq, FramingAssumption
<1> HIDE DEF c, n
<1>5. /\ boundary' \in Seq(Byte) /\ Len(boundary') = n + 1
      /\ \A i \in 1 .. n : boundary'[i] = boundary[i]
  BY <1>1, <1>2, <1>3, AppendProperties DEF n
<1>6. ReceiverTypes'
  BY <1>1, <1>2, <1>3, <1>4, <1>5 DEF ReceiverTypes
<1>7. LoopInv'
  <2>1. boundary'[(n + 1) - 1] = Underscore /\ n + 1 >= 2
    BY <1>3, <1>4, <1>5
  <2>2. \A i \in 1 .. (n + 1) - 2 : boundary'[i] # Underscore
    BY <1>3, <1>4, <1>5
  <2> QED BY <2>1, <2>2, <1>2, <1>4, <1>5 DEF LoopInv
<1> QED BY <1>1, <1>6, <1>7 DEF TypeInv

LEMMA BodyStepTypes ==
  ASSUME TypeInv, ReadBody
  PROVE  TypeInv'
<1> DEFINE buf == Append(buffer, Head(stream))
           n == Len(buf) - Len(boundary)
<1>1. SenderTypes' /\ received' = received /\ Head(stream) \in Byte
  BY ReadTypes DEF ReadBody
<1>2. /\ rpc = "body" /\ boundary' = boundary
      /\ \/ /\ Completes(buf, boundary)
            /\ buffer' = SubSeq(buf, 1, n)
            /\ rpc' = "parse"
         \/ /\ buffer' = buf
            /\ rpc' = IF Len(buf) = BufferLength THEN "overrun" ELSE "body"
  BY DEF ReadBody, Read
<1>3. /\ boundary \in Seq(Byte) /\ Len(boundary) <= BoundaryLength
      /\ buffer \in Seq(Byte) /\ Len(buffer) < BufferLength /\ received \in Seq(Returned)
  BY <1>2 DEF TypeInv, ReceiverTypes, LoopInv
<1>4. Len(boundary) \in Nat /\ Len(buffer) \in Nat /\ BufferLength \in Nat
  BY <1>3, LenProperties, FramingAssumption
<1>5. buf \in Seq(Byte) /\ Len(buf) = Len(buffer) + 1
  BY <1>1, <1>3, AppendProperties
<1> HIDE DEF buf
<1>6. CASE Completes(buf, boundary) /\ buffer' = SubSeq(buf, 1, n) /\ rpc' = "parse"
  <2>1. n \in 1 .. Len(buf)
    BY <1>4, <1>5, <1>6 DEF Completes
  <2> HIDE DEF n
  <2>2. buffer' \in Seq(Byte) /\ Len(buffer') = n
    BY <2>1, <1>5, <1>6
  <2>3. Len(buffer') <= BufferLength
    BY <2>1, <2>2, <1>3, <1>4, <1>5
  <2> QED BY <2>2, <2>3, <1>1, <1>2, <1>3, <1>6 DEF TypeInv, ReceiverTypes, LoopInv
<1>7. CASE /\ buffer' = buf
           /\ rpc' = IF Len(buf) = BufferLength THEN "overrun" ELSE "body"
  <2>1. Len(buf) <= BufferLength /\ (rpc' = "body" => Len(buf) < BufferLength)
    BY <1>3, <1>4, <1>5, <1>7
  <2>2. ReceiverTypes'
    BY <2>1, <1>1, <1>2, <1>3, <1>5, <1>7 DEF ReceiverTypes
  <2>3. LoopInv'
    BY <2>1, <1>2, <1>7 DEF TypeInv, LoopInv
  <2> QED BY <2>2, <2>3, <1>1 DEF TypeInv
<1> QED BY <1>2, <1>6, <1>7

LEMMA EofTypes ==
  ASSUME TypeInv, ReadAtEof
  PROVE  TypeInv'
  BY DEF ReadAtEof, sender, TypeInv, SenderTypes, ReceiverTypes, LoopInv

\* A message is returned, and the next boundary is read into new buffers.
LEMMA ReturnTypes ==
  ASSUME TypeInv, NEW m \in Returned, Return(m)
  PROVE  TypeInv'
<1>1. /\ received' = Append(received, m) /\ rpc' = "boundary"
      /\ boundary' = << >> /\ buffer' = << >>
      /\ UNCHANGED <<out, peer, sent, wire, ends, stream, spoiled>>
  BY DEF Return, sender
<1>2. received' \in Seq(Returned)
  BY <1>1, AppendProperties DEF TypeInv, ReceiverTypes
<1>3. << >> \in Seq(Byte) /\ Len(<< >>) = 0
  BY EmptySeq
<1> QED BY <1>1, <1>2, <1>3, FramingAssumption
        DEF TypeInv, SenderTypes, ReceiverTypes, LoopInv

LEMMA ContentTypes ==
  ASSUME TypeInv, Len(buffer) >= 2
  PROVE  Content \in Seq(Byte)
<1>1. buffer \in Seq(Byte) /\ Len(buffer) \in Nat
  BY LenProperties DEF TypeInv, ReceiverTypes
<1>2. \A i \in 2 .. Len(buffer) - 1 : buffer[i] \in Byte
  BY <1>1, ElementOfSeq
<1> QED BY <1>1, <1>2, SubSeqProperties DEF Content

\* What lies behind a copy consists of bytes.
LEMMA LeftoverTypes ==
  ASSUME NEW rest \in Leftovers
  PROVE  /\ rest \in Seq(Byte)
         /\ \A c \in Seq(Byte) : c \o rest \in Seq(Byte) /\ IsPrefix(c, c \o rest)
<1>1. rest \in Seq(Byte \ {0})
  BY FramingAssumption
<1>2. rest \in Seq(Byte)
  BY <1>1, SeqMonotonic
<1>3. ASSUME NEW c \in Seq(Byte) PROVE c \o rest \in Seq(Byte) /\ IsPrefix(c, c \o rest)
  <2>1. /\ c \o rest \in Seq(Byte) /\ Len(c \o rest) = Len(c) + Len(rest)
        /\ Len(c) \in Nat /\ Len(rest) \in Nat
        /\ \A i \in 1 .. Len(c) : (c \o rest)[i] = c[i]
    BY <1>2
  <2> DEFINE w == c \o rest
             n == Len(c)
  <2> HIDE DEF w
  <2>2. w \in Seq(Byte) /\ n <= Len(w) /\ \A i \in 1 .. n : w[i] = c[i]
    BY <2>1 DEF w
  <2>3. SubSeq(c, 1, n) = SubSeq(w, 1, n)
    BY <2>1, <2>2
  <2>4. IsPrefix(c, w)
    BY <2>2, <2>3 DEF IsPrefix
  <2> QED BY <2>2, <2>4 DEF w
<1> QED BY <1>2, <1>3

LEMMA ParseTypes ==
  ASSUME TypeInv, parse_encoded
  PROVE  TypeInv'
<1>1. CASE ReceiveText
  <2>1. Content \in Seq(Byte)
    BY <1>1, ContentTypes DEF ReceiveText, IsA
  <2>2. [kind |-> "text", content |-> Content] \in Returned
    BY <2>1 DEF Returned, Kinds
  <2> QED BY <1>1, <2>2, ReturnTypes DEF ReceiveText
<1>2. CASE ReceiveFile
  <2>1. Content \in Seq(Byte)
    BY <1>2, ContentTypes DEF ReceiveFile, IsA
  <2>2. decode_to_raw_data(Content) \in Seq(Byte)
    BY <2>1, DecodedTypes
  <2>3. [kind |-> "file", content |-> decode_to_raw_data(Content)] \in Returned
    BY <2>2 DEF Returned, Kinds
  <2> QED BY <1>2, <2>3, ReturnTypes DEF ReceiveFile
<1>5. CASE ReceiveData
  <2>1. PICK rest \in Leftovers : Return([kind |-> "data", content |-> Content \o rest])
    BY <1>5 DEF ReceiveData
  <2>2. Content \in Seq(Byte) /\ Content \o rest \in Seq(Byte)
    BY <1>5, ContentTypes, LeftoverTypes DEF ReceiveData, IsA
  <2>3. [kind |-> "data", content |-> Content \o rest] \in Returned
    BY <2>2 DEF Returned, Kinds
  <2> QED BY <2>1, <2>3, ReturnTypes
<1>3. CASE DecodeFaults
  BY <1>3 DEF DecodeFaults, sender, TypeInv, SenderTypes, ReceiverTypes, LoopInv
<1>4. CASE ParseFails
  BY <1>4 DEF ParseFails, sender, TypeInv, SenderTypes, ReceiverTypes, LoopInv
<1> QED BY <1>1, <1>2, <1>3, <1>4, <1>5 DEF parse_encoded

LEMMA NextTypeInv == TypeInv /\ [Next]_vars => TypeInv'
<1> SUFFICES ASSUME TypeInv, [Next]_vars PROVE TypeInv'
  OBVIOUS
<1>1. CASE \E m \in Messages, d \in Marks : comm_send_data(m, d)
  BY <1>1, SendTypes
<1>2. CASE write_one_by_one_without_zero \/ SenderEnds
  BY <1>2, WriteTypes, EndTypes
<1>3. CASE comm_receive_data
  BY <1>3, BoundaryStepTypes, SecondStepTypes, BodyStepTypes, EofTypes DEF comm_receive_data
<1>4. CASE parse_encoded
  BY <1>4, ParseTypes
<1>5. CASE UNCHANGED vars
  BY <1>5 DEF vars, sender, receiver, TypeInv, SenderTypes, ReceiverTypes, LoopInv
<1> QED BY <1>1, <1>2, <1>3, <1>4, <1>5 DEF Next

\* Whatever arrives, the receiver returns bytes and its buffers keep their
\* limits (comm.read.fifo.c 195-224).
THEOREM TypeCorrect == Spec => []TypeOK
<1>1. Init => TypeInv
  BY InitTypeInv
<1>2. TypeInv /\ [Next]_vars => TypeInv'
  BY NextTypeInv
<1>3. TypeInv => TypeOK
  BY TypeInvImplies
<1> QED BY <1>1, <1>2, <1>3, PTL DEF Spec

-----------------------------------------------------------------------------
(***************************************************************************)
(* Where sender and receiver stand on the wire.                            *)
(***************************************************************************)

\* Two readings of the same bytes.
SameStart(a, x, b, y) ==
  a \o x = b \o y /\ Len(a) <= Len(b) =>
    /\ \A i \in 1 .. Len(a) : a[i] = b[i]
    /\ Len(a) = Len(b) => a = b /\ x = y

LEMMA SameFront == \A a, x, b, y \in Seq(Byte) : SameStart(a, x, b, y)
<1> TAKE a, x, b, y \in Seq(Byte)
<1> SUFFICES ASSUME a \o x = b \o y, Len(a) <= Len(b)
             PROVE  /\ \A i \in 1 .. Len(a) : a[i] = b[i]
                    /\ Len(a) = Len(b) => a = b /\ x = y
  BY DEF SameStart
<1>1. Len(a) \in Nat /\ Len(b) \in Nat /\ Len(x) \in Nat /\ Len(y) \in Nat
  BY LenProperties
<1>2. \A i \in 1 .. Len(a) : (a \o x)[i] = a[i]
  <2>1. \A i \in 1 .. Len(a) + Len(x) : (a \o x)[i] = IF i <= Len(a) THEN a[i] ELSE x[i - Len(a)]
    BY ConcatProperties
  <2> QED BY <1>1, <2>1
<1>3. \A i \in 1 .. Len(b) : (b \o y)[i] = b[i]
  <2>1. \A i \in 1 .. Len(b) + Len(y) : (b \o y)[i] = IF i <= Len(b) THEN b[i] ELSE y[i - Len(b)]
    BY ConcatProperties
  <2> QED BY <1>1, <2>1
<1>4. \A i \in 1 .. Len(a) : a[i] = b[i]
  <2> TAKE i \in 1 .. Len(a)
  <2>1. i \in 1 .. Len(b)
    BY <1>1
  <2> QED BY <2>1, <1>2, <1>3
<1>5. ASSUME Len(a) = Len(b)
      PROVE  a = b /\ x = y
  <2>1. a = b
    BY <1>4, <1>5, SeqEqual
  <2>2. b \o x = b \o y
    BY <2>1
  <2>3. x = y
    BY <2>2, ConcatSimplifications, Zenon
  <2> QED BY <2>1, <2>3
<1> QED BY <1>4, <1>5

\* What is behind a place grows at its end.
LEMMA SubSeqGrows ==
  ASSUME NEW S, NEW s \in Seq(S), NEW t \in Seq(S), NEW e \in Nat, e <= Len(s)
  PROVE  SubSeq(s \o t, e + 1, Len(s \o t)) = SubSeq(s, e + 1, Len(s)) \o t
<1> DEFINE u == SubSeq(s \o t, e + 1, Len(s \o t))
           v == SubSeq(s, e + 1, Len(s))
           n == Len(s)
<1>1. n \in Nat /\ Len(t) \in Nat
  BY LenProperties
<1>2. /\ s \o t \in Seq(S) /\ Len(s \o t) = n + Len(t)
      /\ \A i \in 1 .. n + Len(t) : (s \o t)[i] = IF i <= n THEN s[i] ELSE t[i - n]
  BY ConcatProperties
<1>3. /\ u \in Seq(S) /\ Len(u) = n + Len(t) - e
      /\ \A i \in 1 .. n + Len(t) - e : u[i] = (s \o t)[e + i]
  <2> DEFINE w == s \o t
  <2>1. w \in Seq(S) /\ Len(w) = n + Len(t)
    BY <1>2
  <2> HIDE DEF w
  <2>2. LET z == SubSeq(w, e + 1, Len(w))
        IN  /\ z \in Seq(S) /\ Len(z) = n + Len(t) - e
            /\ \A i \in 1 .. n + Len(t) - e : z[i] = w[e + i]
    BY <1>1, <2>1
  <2> QED BY <2>2 DEF w
<1>4. /\ v \in Seq(S) /\ Len(v) = n - e
      /\ \A i \in 1 .. n - e : v[i] = s[e + i]
  BY <1>1
<1> HIDE DEF u, v, n
<1>5. /\ v \o t \in Seq(S) /\ Len(v \o t) = n - e + Len(t)
      /\ \A i \in 1 .. n - e + Len(t) :
           (v \o t)[i] = IF i <= n - e THEN v[i] ELSE t[i - (n - e)]
  <2>1. /\ v \o t \in Seq(S) /\ Len(v \o t) = Len(v) + Len(t)
        /\ \A i \in 1 .. Len(v) + Len(t) :
             (v \o t)[i] = IF i <= Len(v) THEN v[i] ELSE t[i - Len(v)]
    BY <1>4, ConcatProperties
  <2> QED BY <2>1, <1>4
<1>6. e <= n
  BY DEF n
<1>7. Len(u) = Len(v \o t)
  BY <1>1, <1>3, <1>5, <1>6
<1>8. ASSUME NEW i \in 1 .. Len(u)
      PROVE  u[i] = (v \o t)[i]
  <2>1. /\ i \in 1 .. n + Len(t) - e /\ i \in 1 .. n - e + Len(t)
        /\ e + i \in 1 .. n + Len(t) /\ (e + i) - n = i - (n - e)
        /\ (i <= n - e <=> e + i <= n)
    BY <1>1, <1>3, <1>6
  <2>2. CASE i <= n - e
    <3>1. i \in 1 .. n - e
      BY <2>1, <2>2, <1>1, <1>6
    <3> QED BY <3>1, <2>1, <2>2, <1>2, <1>3, <1>4, <1>5
  <2>3. CASE ~(i <= n - e)
    BY <2>1, <2>3, <1>2, <1>3, <1>5
  <2> QED BY <2>2, <2>3
<1> QED BY <1>3, <1>5, <1>7, <1>8, SeqEqual DEF u, v, n

\* Frame k is the bytes up to its end, and it is one the receiver can read.
GoodFrame(k, d) ==
  /\ Behind(k - 1) = Frame(sent[k], d) \o Behind(k)
  /\ ~Clashes(sent[k], gen_boundary(d), Serialized(sent[k]))
  /\ ~TooLong(gen_boundary(d), Serialized(sent[k]))

\* The wire is the frames of the messages sent.
WireInv ==
  /\ \A k \in 1 .. Len(sent) : ends[k] <= Len(wire)
  /\ EndOf(Len(sent)) = Len(wire)
  /\ Unspoiled => \A k \in 1 .. Len(sent) : \E d \in Marks : GoodFrame(k, d)

\* The receiver has returned the first messages, and stands in the frame of the
\* next: in its body before its end, or with its message in the buffer.
PlaceInv ==
  Unspoiled =>
    /\ Len(received) <= Len(sent)
    /\ \A i \in 1 .. Len(received) : Conveys(received[i], sent[i])
    /\ rpc \in {"boundary", "second", "body"} =>
         Behind(Len(received)) = boundary \o buffer \o stream \o out
    /\ rpc \in {"body", "parse"} => Len(received) < Len(sent)
    /\ rpc = "body" => Len(buffer) < Len(Serialized(sent[Len(received) + 1])) + 4
    /\ rpc = "parse" =>
         /\ buffer = Serialized(sent[Len(received) + 1])
         /\ Behind(Len(received) + 1) = stream \o out
    /\ rpc # "ended"
    /\ rpc = "overrun" => peer = "closed"

FramingInv == TypeInv /\ WireInv /\ PlaceInv

LEMMA InitFramingInv == Init => FramingInv
<1> SUFFICES ASSUME Init PROVE FramingInv
  OBVIOUS
<1>1. TypeInv
  BY InitTypeInv
<1>2. /\ sent = << >> /\ wire = << >> /\ ends = << >> /\ received = << >>
      /\ boundary = << >> /\ buffer = << >> /\ stream = << >> /\ out = << >>
      /\ rpc = "boundary" /\ Len(sent) = 0 /\ Len(wire) = 0 /\ Len(received) = 0
  BY EmptySeq DEF Init
<1>3. EndOf(0) = 0 /\ Behind(0) = << >>
  BY <1>2, SubSeqEmpty DEF EndOf, Behind
<1>4. WireInv
  BY <1>2, <1>3 DEF WireInv
<1>5. boundary \o buffer \o stream \o out = << >>
  BY <1>2
<1>6. PlaceInv
  BY <1>2, <1>3, <1>5 DEF PlaceInv
<1> QED BY <1>1, <1>4, <1>6 DEF FramingInv

LEMMA BehindTypes ==
  ASSUME TypeInv, WireInv, NEW k \in 0 .. Len(sent)
  PROVE  /\ EndOf(k) \in Nat /\ EndOf(k) <= Len(wire)
         /\ Behind(k) \in Seq(Byte) /\ Len(Behind(k)) = Len(wire) - EndOf(k)
<1>1. wire \in Seq(Byte) /\ Len(wire) \in Nat /\ Len(sent) \in Nat
      /\ ends \in Seq(Nat) /\ Len(ends) = Len(sent)
  BY LenProperties DEF TypeInv, SenderTypes
<1>2. EndOf(k) \in Nat /\ EndOf(k) <= Len(wire)
  <2>1. CASE k = 0
    BY <2>1, <1>1 DEF EndOf
  <2>2. CASE k # 0
    <3>1. k \in 1 .. Len(sent) /\ k \in 1 .. Len(ends)
      BY <2>2, <1>1
    <3>2. ends[k] \in Nat
      BY <3>1, <1>1, ElementOfSeq
    <3> QED BY <3>1, <3>2, <2>2 DEF WireInv, EndOf
  <2> QED BY <2>1, <2>2
<1>3. Behind(k) = SubSeq(wire, EndOf(k) + 1, Len(wire))
  BY DEF Behind
<1>4. \A i \in EndOf(k) + 1 .. Len(wire) : wire[i] \in Byte
  <2> TAKE i \in EndOf(k) + 1 .. Len(wire)
  <2>1. i \in 1 .. Len(wire)
    BY <1>1, <1>2
  <2> QED BY <2>1, <1>1, ElementOfSeq
<1>5. /\ Behind(k) \in Seq(Byte)
      /\ Len(Behind(k)) = IF EndOf(k) + 1 <= Len(wire) THEN Len(wire) - (EndOf(k) + 1) + 1 ELSE 0
  <2>1. EndOf(k) + 1 \in Int /\ Len(wire) \in Int
    BY <1>1, <1>2
  <2> QED BY <2>1, <1>3, <1>4, SubSeqProperties
<1>6. Len(Behind(k)) = Len(wire) - EndOf(k)
  <2> DEFINE e == EndOf(k)
             n == Len(wire)
  <2>1. e \in Nat /\ n \in Nat /\ e <= n
    BY <1>1, <1>2
  <2>2. Len(Behind(k)) = IF e + 1 <= n THEN n - (e + 1) + 1 ELSE 0
    BY <1>5
  <2> HIDE DEF e, n
  <2>3. Len(Behind(k)) = n - e
    BY <2>1, <2>2
  <2> QED BY <2>3 DEF e, n
<1> QED BY <1>2, <1>5, <1>6

LEMMA WireKept ==
  ASSUME WireInv, UNCHANGED <<sent, wire, ends>>, Unspoiled' => Unspoiled
  PROVE  WireInv' /\ \A k \in Nat : Behind(k)' = Behind(k)
<1>1. \A k \in Nat : EndOf(k)' = EndOf(k)
  BY DEF EndOf
<1>2. \A k \in Nat : Behind(k)' = Behind(k)
  BY <1>1 DEF Behind
<1>3. ASSUME Unspoiled', NEW k \in 1 .. Len(sent)
      PROVE  \E d \in Marks : GoodFrame(k, d)'
  <2>1. PICK d \in Marks : GoodFrame(k, d)
    BY <1>3 DEF WireInv
  <2>2. Behind(k - 1)' = Behind(k - 1) /\ Behind(k)' = Behind(k)
    BY DEF Behind, EndOf
  <2>3. GoodFrame(k, d)'
    BY <2>1, <2>2 DEF GoodFrame
  <2> QED BY <2>3
<1>4. EndOf(Len(sent))' = EndOf(Len(sent))
  BY DEF EndOf
<1> QED BY <1>2, <1>3, <1>4 DEF WireInv

\* A frame more behind every place, and behind the last one that frame alone.
LEMMA SendWire ==
  ASSUME TypeInv, WireInv, NEW m \in Messages, NEW d \in Marks, comm_send_data(m, d)
  PROVE  /\ Len(sent') = Len(sent) + 1 /\ Len(sent) \in Nat
         /\ \A k \in 1 .. Len(sent) : sent'[k] = sent[k]
         /\ \A k \in 0 .. Len(sent) :
              Behind(k) \in Seq(Byte) /\ Behind(k)' = Behind(k) \o Frame(m, d)
         /\ WireInv'
<1> DEFINE f == Frame(m, d)
<1>0. PICK n \in Nat : n = Len(sent)
  BY LenProperties DEF TypeInv, SenderTypes
<1>1. /\ out' = f /\ wire' = wire \o f /\ ends' = Append(ends, Len(wire'))
      /\ sent' = Append(sent, m)
  BY DEF comm_send_data
<1>2. /\ f \in Seq(Byte) /\ wire \in Seq(Byte) /\ Len(wire) \in Nat /\ n \in Nat
      /\ ends \in Seq(Nat) /\ Len(ends) = n /\ sent \in Seq(Messages) /\ Len(sent) = n
  BY <1>0, FrameTypes, LenProperties DEF TypeInv, SenderTypes
<1>3. wire' \in Seq(Byte) /\ Len(wire') = Len(wire) + Len(f) /\ Len(wire') \in Nat /\ Len(f) \in Nat
  BY <1>1, <1>2, ConcatProperties, LenProperties
<1> HIDE DEF f
<1>4. /\ Len(sent') = n + 1 /\ Len(ends') = n + 1
      /\ \A k \in 1 .. n : sent'[k] = sent[k] /\ ends'[k] = ends[k]
      /\ sent'[n + 1] = m /\ ends'[n + 1] = Len(wire')
  <2>1. /\ Len(Append(sent, m)) = n + 1
        /\ \A k \in 1 .. n : Append(sent, m)[k] = sent[k]
        /\ Append(sent, m)[n + 1] = m
    BY <1>2, AppendProperties
  <2>2. /\ Len(Append(ends, Len(wire'))) = n + 1
        /\ \A k \in 1 .. n : Append(ends, Len(wire'))[k] = ends[k]
        /\ Append(ends, Len(wire'))[n + 1] = Len(wire')
    BY <1>2, <1>3, AppendProperties
  <2> QED BY <1>1, <2>1, <2>2
<1>5. ASSUME NEW k \in 0 .. n
      PROVE  EndOf(k)' = EndOf(k)
  <2>1. k = 0 \/ k \in 1 .. n
    BY <1>2
  <2> QED BY <2>1, <1>4 DEF EndOf
<1>6. ASSUME NEW k \in 0 .. n
      PROVE  Behind(k) \in Seq(Byte) /\ Behind(k)' = Behind(k) \o f
  <2>1. EndOf(k) \in Nat /\ EndOf(k) <= Len(wire) /\ Behind(k) \in Seq(Byte)
    BY <1>0, BehindTypes
  <2>2. SubSeq(wire \o f, EndOf(k) + 1, Len(wire \o f))
          = SubSeq(wire, EndOf(k) + 1, Len(wire)) \o f
    BY <1>2, <2>1, SubSeqGrows
  <2>3. Behind(k)' = SubSeq(wire', EndOf(k) + 1, Len(wire'))
    BY <1>5 DEF Behind
  <2>4. Behind(k) = SubSeq(wire, EndOf(k) + 1, Len(wire))
    BY DEF Behind
  <2> QED BY <2>1, <2>2, <2>3, <2>4, <1>1
<1>7. Behind(n) = << >>
  <2>1. Behind(n) \in Seq(Byte) /\ EndOf(n) = Len(wire) /\ Len(Behind(n)) = Len(wire) - EndOf(n)
    BY <1>0, <1>2, BehindTypes DEF WireInv
  <2>2. Len(Behind(n)) = 0
    BY <2>1, <1>2
  <2> QED BY <2>1, <2>2, EmptySeq
<1>8. EndOf(n + 1)' = Len(wire') /\ Behind(n + 1)' = << >>
  <2>1. EndOf(n + 1)' = Len(wire')
    BY <1>2, <1>4 DEF EndOf
  <2>2. Behind(n + 1)' = SubSeq(wire', Len(wire') + 1, Len(wire'))
    BY <2>1 DEF Behind
  <2> QED BY <2>1, <2>2, <1>3, SubSeqEmpty
<1>9. \A k \in 1 .. n + 1 : ends'[k] <= Len(wire')
  <2> TAKE k \in 1 .. n + 1
  <2>1. CASE k = n + 1
    BY <2>1, <1>3, <1>4
  <2>2. CASE k # n + 1
    <3>1. k \in 1 .. n
      BY <2>2, <1>2
    <3>2. ends[k] <= Len(wire) /\ ends[k] \in Nat
      BY <3>1, <1>0, <1>2, ElementOfSeq DEF WireInv
    <3> QED BY <3>1, <3>2, <1>2, <1>3, <1>4
  <2> QED BY <2>1, <2>2
<1>10. ASSUME Unspoiled', NEW k \in 1 .. n + 1
       PROVE  \E e \in Marks : GoodFrame(k, e)'
  <2>1. /\ Unspoiled /\ ~Clashes(m, gen_boundary(d), Serialized(m))
        /\ ~TooLong(gen_boundary(d), Serialized(m))
    BY <1>10 DEF comm_send_data, Unspoiled
  <2>2. CASE k = n + 1
    <3>1. k - 1 = n
      BY <2>2, <1>2
    <3>2. Behind(k - 1)' = f /\ Behind(k)' = << >> /\ sent'[k] = m
      <4>1. Behind(n)' = << >> \o f
        <5>1. n \in 0 .. n
          BY <1>2
        <5> QED BY <5>1, <1>6, <1>7
      <4>2. << >> \o f = f
        BY <1>2, ConcatEmptySeq
      <4> QED BY <4>1, <4>2, <3>1, <2>2, <1>4, <1>8
    <3>3. f = f \o << >>
      BY <1>2, ConcatEmptySeq
    <3>4. GoodFrame(k, d)'
      BY <3>2, <3>3, <2>1 DEF GoodFrame, f
    <3> QED BY <3>4
  <2>3. CASE k # n + 1
    <3>1. k \in 1 .. n /\ k - 1 \in 0 .. n /\ k \in 0 .. n
      BY <2>3, <1>2
    <3>2. PICK e \in Marks : GoodFrame(k, e)
      BY <2>1, <3>1, <1>0 DEF WireInv
    <3> DEFINE g == Frame(sent[k], e)
    <3>3. g \in Seq(Byte)
      <4>1. sent[k] \in Messages
        BY <3>1, <1>2, ElementOfSeq
      <4> QED BY <4>1, FrameTypes
    <3>4. Behind(k - 1) = g \o Behind(k) /\ Behind(k) \in Seq(Byte)
      BY <3>1, <3>2, <1>6 DEF GoodFrame
    <3> HIDE DEF g
    <3>5. Behind(k - 1)' = g \o Behind(k)'
      <4>1. Behind(k - 1)' = (g \o Behind(k)) \o f /\ Behind(k)' = Behind(k) \o f
        BY <3>1, <3>4, <1>6
      <4>2. (g \o Behind(k)) \o f = g \o (Behind(k) \o f)
        <5>1. g \in Seq(Byte) /\ Behind(k) \in Seq(Byte) /\ f \in Seq(Byte)
          BY <3>3, <3>4, <1>2
        <5>2. Joins(g, Behind(k), f)
          BY <5>1, JoinAny, Zenon
        <5> QED BY <5>2 DEF Joins
      <4> QED BY <4>1, <4>2
    <3>6. sent'[k] = sent[k]
      BY <3>1, <1>4
    <3>7. GoodFrame(k, e)'
      BY <3>2, <3>5, <3>6 DEF GoodFrame, g
    <3> QED BY <3>7
  <2> QED BY <2>2, <2>3
<1>11. WireInv'
  <2>1. EndOf(Len(sent))' = EndOf(n + 1)'
    BY <1>4
  <2>2. EndOf(Len(sent))' = Len(wire')
    BY <2>1, <1>8
  <2> QED BY <2>2, <1>4, <1>9, <1>10 DEF WireInv
<1> QED BY <1>0, <1>2, <1>4, <1>6, <1>11 DEF f

\* While bytes are behind a place, a frame is, and it was sent.
LEMMA InFrame ==
  ASSUME TypeInv, WireInv, Unspoiled, NEW k \in 0 .. Len(sent), Behind(k) # << >>
  PROVE  LET m == sent[k + 1]
             s == Serialized(m)
         IN  /\ k < Len(sent) /\ k + 1 \in 0 .. Len(sent) /\ m \in Messages
             /\ Behind(k + 1) \in Seq(Byte)
             /\ \E d \in Marks :
                  /\ Behind(k) = gen_boundary(d) \o ((s \o gen_boundary(d)) \o Behind(k + 1))
                  /\ ~Clashes(m, gen_boundary(d), s)
                  /\ ~TooLong(gen_boundary(d), s)
<1>1. Len(sent) \in Nat /\ Len(wire) \in Nat /\ sent \in Seq(Messages)
  BY LenProperties DEF TypeInv, SenderTypes
<1>2. k # Len(sent)
  <2>1. SUFFICES ASSUME k = Len(sent) PROVE FALSE
    OBVIOUS
  <2>2. Behind(k) \in Seq(Byte) /\ Len(Behind(k)) = Len(wire) - EndOf(k) /\ EndOf(k) = Len(wire)
    BY <2>1, BehindTypes DEF WireInv
  <2>3. Len(Behind(k)) = 0
    BY <2>2, <1>1
  <2> QED BY <2>2, <2>3, EmptySeq
<1>3. k < Len(sent) /\ k + 1 \in 1 .. Len(sent) /\ k + 1 \in 0 .. Len(sent) /\ (k + 1) - 1 = k
  BY <1>1, <1>2
<1>4. sent[k + 1] \in Messages
  BY <1>1, <1>3, ElementOfSeq
<1>5. Behind(k + 1) \in Seq(Byte)
  BY <1>3, BehindTypes
<1>6. PICK d \in Marks : GoodFrame(k + 1, d)
  BY <1>3 DEF WireInv
<1> DEFINE s == Serialized(sent[k + 1])
           b == gen_boundary(d)
<1>7. Behind(k) = Frame(sent[k + 1], d) \o Behind(k + 1)
  BY <1>3, <1>6 DEF GoodFrame
<1>8. Frame(sent[k + 1], d) = b \o (s \o b) /\ s \o b \in Seq(Byte) /\ b \in Seq(Byte)
  BY <1>4, FrameTypes, BoundaryTypes
<1> HIDE DEF s, b
<1>9. (b \o (s \o b)) \o Behind(k + 1) = b \o ((s \o b) \o Behind(k + 1))
  <2> DEFINE c == s \o b
             e == Behind(k + 1)
  <2>1. b \in Seq(Byte) /\ c \in Seq(Byte) /\ e \in Seq(Byte)
    BY <1>5, <1>8
  <2> HIDE DEF c, e
  <2>2. (b \o c) \o e = b \o (c \o e)
    BY <2>1, ConcatAssociative
  <2> QED BY <2>2 DEF c, e
<1>10. Behind(k) = b \o ((s \o b) \o Behind(k + 1))
  BY <1>7, <1>8, <1>9
<1> QED BY <1>3, <1>4, <1>5, <1>6, <1>10 DEF GoodFrame, s, b

\* Its first underscore tells how much of a boundary was read.
LEMMA BoundaryPart ==
  ASSUME NEW d \in Marks, NEW u \in Seq(Byte), NEW x \in Seq(Byte), NEW v \in Seq(Byte),
         gen_boundary(d) \o u = x \o v
  PROVE  /\ (\A i \in 1 .. Len(x) : x[i] # Underscore) => Len(x) <= 2
         /\ /\ Len(x) >= 2 /\ x[Len(x) - 1] = Underscore
            /\ \A i \in 1 .. Len(x) - 2 : x[i] # Underscore
            => x = gen_boundary(d) /\ v = u
<1> DEFINE b == gen_boundary(d)
           n == Len(x)
<1>1. /\ b \in Seq(Byte) /\ Len(b) = 4 /\ d \in Digit /\ n \in Nat
      /\ b[1] = Dash /\ b[2] = d /\ b[3] = Underscore /\ b[4] = Underscore
  BY BoundaryTypes, LenProperties
<1>2. b[1] # Underscore /\ b[2] # Underscore
  BY <1>1 DEF Dash, Digit, Underscore
<1>3. b \o u = x \o v
  OBVIOUS
<1> HIDE DEF b
<1>4. CASE n <= 4
  <2>1. n <= Len(b)
    BY <1>1, <1>4
  <2>2. /\ \A i \in 1 .. n : x[i] = b[i]
        /\ n = 4 => x = b /\ v = u
    <3>1. Len(x) <= Len(b)
      BY <2>1
    <3> HIDE DEF n
    <3>2. /\ \A i \in 1 .. Len(x) : x[i] = b[i]
          /\ Len(x) = Len(b) => x = b /\ v = u
      <4>1. b \in Seq(Byte)
        BY <1>1
      <4>2. SameStart(x, v, b, u)
        BY <4>1, SameFront, Zenon
      <4> QED BY <3>1, <4>2, <1>3 DEF SameStart
    <3> QED BY <3>2, <1>1 DEF n
  <2> HIDE DEF n
  <2>3. (\A i \in 1 .. n : x[i] # Underscore) => n <= 2
    <3>1. SUFFICES ASSUME n >= 3 PROVE ~ \A i \in 1 .. n : x[i] # Underscore
      BY <1>1
    <3>2. 3 \in 1 .. n
      BY <3>1, <1>1
    <3> QED BY <3>2, <2>2, <1>1
  <2>4. ASSUME n >= 2, x[n - 1] = Underscore, \A i \in 1 .. n - 2 : x[i] # Underscore
        PROVE  n = 4
    <3>1. CASE n = 2
      <4>1. n - 1 = 1 /\ 1 \in 1 .. n
        BY <3>1
      <4> QED BY <4>1, <2>2, <2>4, <1>2
    <3>2. CASE n = 3
      <4>1. n - 1 = 2 /\ 2 \in 1 .. n
        BY <3>2
      <4> QED BY <4>1, <2>2, <2>4, <1>2
    <3> QED BY <3>1, <3>2, <2>4, <1>1, <1>4
  <2> QED BY <2>2, <2>3, <2>4 DEF n, b
<1>5. CASE n > 4
  <2>1. Len(b) <= Len(x)
    BY <1>1, <1>5
  <2>2. \A i \in 1 .. Len(b) : b[i] = x[i]
    <3>1. b \in Seq(Byte)
      BY <1>1
    <3>2. SameStart(b, u, x, v)
      BY <3>1, SameFront, Zenon
    <3> QED BY <2>1, <3>2, <1>3 DEF SameStart
  <2> HIDE DEF n
  <2>3. x[3] = Underscore /\ 3 \in 1 .. n /\ 3 \in 1 .. n - 2
    BY <2>2, <1>1, <1>5
  <2> QED BY <2>3 DEF n
<1>6. n <= 4 \/ n > 4
  BY <1>1
<1> QED BY <1>4, <1>5, <1>6, Zenon

(***************************************************************************)
(* Each step keeps sender and receiver together on the wire.               *)
(***************************************************************************)

LEMMA SendPlace ==
  ASSUME FramingInv, NEW m \in Messages, NEW d \in Marks, comm_send_data(m, d)
  PROVE  PlaceInv'
<1> DEFINE f == Frame(m, d)
<1>1. PICK r \in Nat : r = Len(received)
  BY LenProperties DEF FramingInv, TypeInv, ReceiverTypes
<1>2. UNCHANGED <<peer, stream, rpc, boundary, buffer, received>> /\ peer = "open"
      /\ out = << >> /\ out' = f /\ (Unspoiled' => Unspoiled)
  BY DEF comm_send_data, receiver, Unspoiled
<1>3. /\ Len(sent') = Len(sent) + 1 /\ Len(sent) \in Nat
      /\ \A k \in 1 .. Len(sent) : sent'[k] = sent[k]
      /\ \A k \in 0 .. Len(sent) :
           Behind(k) \in Seq(Byte) /\ Behind(k)' = Behind(k) \o f
  BY SendWire DEF FramingInv
<1>4. /\ boundary \in Seq(Byte) /\ buffer \in Seq(Byte) /\ stream \in Seq(Byte)
      /\ out \in Seq(Byte) /\ f \in Seq(Byte)
  BY FrameTypes DEF FramingInv, TypeInv, SenderTypes, ReceiverTypes
<1> HIDE DEF f
<1> SUFFICES ASSUME Unspoiled' PROVE PlaceInv'
  BY DEF PlaceInv
<1>5. /\ r <= Len(sent)
      /\ \A i \in 1 .. r : Conveys(received[i], sent[i])
      /\ rpc \in {"boundary", "second", "body"} =>
           Behind(r) = boundary \o buffer \o stream \o out
      /\ rpc \in {"body", "parse"} => r < Len(sent)
      /\ rpc = "body" => Len(buffer) < Len(Serialized(sent[r + 1])) + 4
      /\ rpc = "parse" => buffer = Serialized(sent[r + 1]) /\ Behind(r + 1) = stream \o out
      /\ rpc # "ended"
      /\ rpc = "overrun" => peer = "closed"
  BY <1>1, <1>2 DEF FramingInv, PlaceInv
<1>6. \A i \in 1 .. r : Conveys(received'[i], sent'[i])
  <2>1. \A i \in 1 .. r : sent'[i] = sent[i] /\ received'[i] = received[i]
    BY <1>1, <1>2, <1>3, <1>5
  <2> QED BY <1>5, <2>1
<1>7. ASSUME rpc \in {"boundary", "second", "body"}
      PROVE  Behind(r)' = boundary' \o buffer' \o stream' \o out'
  <2> DEFINE g == boundary \o buffer \o stream
  <2>1. g \in Seq(Byte)
    BY <1>4, ConcatProperties
  <2>2. g \o out = g
    BY <2>1, <1>2, ConcatEmptySeq
  <2>3. r \in 0 .. Len(sent)
    BY <1>3, <1>5
  <2> QED BY <2>2, <2>3, <1>2, <1>3, <1>5, <1>7
<1>8. ASSUME rpc = "parse"
      PROVE  Behind(r + 1)' = stream' \o out'
  <2>1. stream \o out = stream
    BY <1>2, <1>4, ConcatEmptySeq
  <2>2. r + 1 \in 0 .. Len(sent)
    BY <1>3, <1>5, <1>8
  <2> QED BY <2>1, <2>2, <1>2, <1>3, <1>5, <1>8
<1>9. rpc \in {"body", "parse"} => sent'[r + 1] = sent[r + 1] /\ r < Len(sent')
  <2>1. SUFFICES ASSUME r < Len(sent) PROVE sent'[r + 1] = sent[r + 1] /\ r < Len(sent')
    BY <1>5
  <2>2. r + 1 \in 1 .. Len(sent)
    BY <1>3, <2>1
  <2> QED BY <2>1, <2>2, <1>3
<1>10. /\ r <= Len(sent') /\ rpc' # "ended" /\ (rpc' = "overrun" => peer' = "closed")
       /\ r = Len(received')
  BY <1>1, <1>2, <1>3, <1>5
<1>11. Behind(Len(received))' = Behind(r)' /\ Behind(Len(received) + 1)' = Behind(r + 1)'
  BY <1>10
<1>12. /\ rpc' = "body" => Len(buffer') < Len(Serialized(sent'[r + 1])) + 4
       /\ rpc' = "parse" => buffer' = Serialized(sent'[r + 1])
  BY <1>2, <1>5, <1>9
<1>13. rpc' = rpc
  BY <1>2
<1> QED BY <1>6, <1>7, <1>8, <1>9, <1>10, <1>11, <1>12, <1>13 DEF PlaceInv

LEMMA WritePlace ==
  ASSUME FramingInv, write_one_by_one_without_zero
  PROVE  PlaceInv'
<1>1. /\ UNCHANGED <<peer, sent, wire, ends, spoiled, rpc, boundary, buffer, received>>
      /\ stream' = Append(stream, Head(out)) /\ out' = Tail(out) /\ out # << >>
  BY DEF write_one_by_one_without_zero, receiver
<1>2. /\ boundary \in Seq(Byte) /\ buffer \in Seq(Byte) /\ stream \in Seq(Byte)
      /\ out \in Seq(Byte)
  BY DEF FramingInv, TypeInv, SenderTypes, ReceiverTypes
<1>3. stream' \o out' = stream \o out /\ stream' \in Seq(Byte) /\ out' \in Seq(Byte)
  <2>1. stream \in Seq(Byte) /\ out \in Seq(Byte) /\ out # << >>
    BY <1>1, <1>2
  <2>2. /\ Append(stream, Head(out)) \o Tail(out) = stream \o out
        /\ Append(stream, Head(out)) \in Seq(Byte) /\ Tail(out) \in Seq(Byte)
    BY <2>1, MoveByte, Zenon
  <2>3. stream' = Append(stream, Head(out)) /\ out' = Tail(out)
    BY <1>1
  <2> QED BY <2>2, <2>3, Zenon
<1>4. boundary \o buffer \o stream' \o out' = boundary \o buffer \o stream \o out
  <2> DEFINE g == boundary \o buffer
  <2>1. g \in Seq(Byte)
    BY <1>2, ConcatProperties
  <2> HIDE DEF g
  <2>2. (g \o stream') \o out' = g \o (stream' \o out')
    <3>1. stream' \in Seq(Byte) /\ out' \in Seq(Byte)
      BY <1>3
    <3>2. Joins(g, stream', out')
      BY <2>1, <3>1, JoinAny, Zenon
    <3> QED BY <3>2 DEF Joins
  <2>3. (g \o stream) \o out = g \o (stream \o out)
    <3>1. stream \in Seq(Byte) /\ out \in Seq(Byte)
      BY <1>2
    <3>2. Joins(g, stream, out)
      BY <2>1, <3>1, JoinAny, Zenon
    <3> QED BY <3>2 DEF Joins
  <2> QED BY <2>2, <2>3, <1>3 DEF g
<1>5. \A k : Behind(k)' = Behind(k)
  BY <1>1 DEF Behind, EndOf
<1> QED BY <1>1, <1>3, <1>4, <1>5 DEF FramingInv, PlaceInv, Unspoiled

LEMMA EndPlace ==
  ASSUME FramingInv, SenderEnds
  PROVE  PlaceInv'
<1>1. /\ UNCHANGED <<sent, wire, ends, stream, rpc, boundary, buffer, received>>
      /\ peer' = "closed" /\ out' = << >>
  BY DEF SenderEnds, receiver
<1>2. ASSUME Unspoiled' PROVE Unspoiled /\ out = << >>
  BY <1>2 DEF SenderEnds, Unspoiled
<1>3. \A k : Behind(k)' = Behind(k)
  BY <1>1 DEF Behind, EndOf
<1> QED BY <1>1, <1>2, <1>3 DEF FramingInv, PlaceInv

LEMMA EofPlace ==
  ASSUME FramingInv, ReadAtEof
  PROVE  PlaceInv'
<1>1. /\ UNCHANGED <<sent, wire, ends, stream, peer, boundary, buffer, received, spoiled>>
      /\ peer' = "closed" /\ rpc' = "overrun"
  BY DEF ReadAtEof, sender
<1> QED BY <1>1 DEF FramingInv, PlaceInv, Unspoiled

\* While the boundary is read it is followed by the rest of the wire, and there
\* is a frame whose boundary it is.
LEMMA AtBoundary ==
  ASSUME FramingInv, Unspoiled, rpc \in {"boundary", "second"}, stream # << >>,
         NEW r \in Nat, r = Len(received)
  PROVE  /\ stream \o out \in Seq(Byte)
         /\ Behind(r) = boundary \o (stream \o out)
         /\ r < Len(sent) /\ Len(sent) \in Nat
         /\ \E d \in Marks, u \in Seq(Byte) :
              gen_boundary(d) \o u = boundary \o (stream \o out)
<1>1. /\ boundary \in Seq(Byte) /\ buffer = << >> /\ stream \in Seq(Byte) /\ out \in Seq(Byte)
      /\ Len(sent) \in Nat
  BY LenProperties DEF FramingInv, TypeInv, SenderTypes, ReceiverTypes, LoopInv
<1>2. boundary \o buffer = boundary
  BY <1>1, ConcatEmptySeq
<1>3. boundary \o buffer \o stream \o out = boundary \o (stream \o out) /\ stream \o out \in Seq(Byte)
  <2>1. boundary \in Seq(Byte) /\ stream \in Seq(Byte) /\ out \in Seq(Byte)
    BY <1>1
  <2>2. Joins(boundary, stream, out) /\ stream \o out \in Seq(Byte)
    BY <2>1, JoinAny, JoinTypes, Zenon
  <2> QED BY <2>2, <1>2 DEF Joins
<1>4. Behind(r) = boundary \o (stream \o out) /\ r <= Len(sent)
  BY <1>3 DEF FramingInv, PlaceInv
<1>5. Behind(r) # << >>
  <2>1. Len(stream \o out) = Len(stream) + Len(out) /\ Len(stream) \in Nat /\ Len(stream) # 0
        /\ Len(out) \in Nat
    BY <1>1, ConcatProperties, EmptySeq, LenProperties
  <2>2. stream \o out # << >>
    BY <2>1, <1>3, EmptySeq
  <2> QED BY <2>2, <1>1, <1>3, <1>4, ConcatEqualIffEmpty
<1>6. r \in 0 .. Len(sent)
  BY <1>1, <1>4
<1> DEFINE s == Serialized(sent[r + 1])
<1>7. /\ r < Len(sent) /\ sent[r + 1] \in Messages /\ Behind(r + 1) \in Seq(Byte)
      /\ \E d \in Marks : Behind(r) = gen_boundary(d) \o ((s \o gen_boundary(d)) \o Behind(r + 1))
  BY <1>5, <1>6, InFrame DEF FramingInv
<1>8. PICK d \in Marks :
        Behind(r) = gen_boundary(d) \o ((s \o gen_boundary(d)) \o Behind(r + 1))
  BY <1>7
<1>9. (s \o gen_boundary(d)) \o Behind(r + 1) \in Seq(Byte)
  <2>1. s \o gen_boundary(d) \in Seq(Byte)
    BY <1>7, FrameTypes
  <2> QED BY <2>1, <1>7, JoinTypes, Zenon
<1> QED BY <1>1, <1>3, <1>4, <1>7, <1>8, <1>9

\* What the receiver has read of a boundary grows by the byte it takes.
LEMMA TakeByte ==
  ASSUME FramingInv, stream # << >>, NEW x \in Seq(Byte)
  PROVE  /\ Append(x, Head(stream)) \in Seq(Byte) /\ Tail(stream) \in Seq(Byte)
         /\ Head(stream) \in Byte
         /\ Append(x, Head(stream)) \o (Tail(stream) \o out) = x \o (stream \o out)
<1>1. stream \in Seq(Byte) /\ out \in Seq(Byte)
  BY DEF FramingInv, TypeInv, SenderTypes
<1> DEFINE y == Append(x, Head(stream))
           z == Tail(stream)
<1>2. y \in Seq(Byte) /\ z \in Seq(Byte) /\ Head(stream) \in Byte /\ y \o z = x \o stream
  BY <1>1, MoveByte
<1> HIDE DEF y, z
<1>3. y \in Seq(Byte) /\ z \in Seq(Byte) /\ stream \in Seq(Byte) /\ out \in Seq(Byte)
  BY <1>1, <1>2
<1>4. Joins(y, z, out) /\ Joins(x, stream, out)
  BY <1>3, JoinAny, Zenon
<1> QED BY <1>2, <1>4 DEF y, z, Joins

LEMMA BoundaryStepPlace ==
  ASSUME FramingInv, ReadBoundary
  PROVE  PlaceInv'
<1>1. PICK r \in Nat : r = Len(received)
  BY LenProperties DEF FramingInv, TypeInv, ReceiverTypes
<1>2. /\ rpc = "boundary" /\ stream # << >> /\ stream' = Tail(stream)
      /\ boundary' = Append(boundary, Head(stream)) /\ buffer' = buffer
      /\ rpc' = IF Len(boundary') = BoundaryLength THEN "overrun"
                ELSE IF Head(stream) = Underscore THEN "second" ELSE "boundary"
      /\ UNCHANGED <<out, peer, sent, wire, ends, received, spoiled>>
  BY DEF ReadBoundary, Read, sender
<1> SUFFICES ASSUME Unspoiled PROVE PlaceInv'
  BY <1>2 DEF PlaceInv, Unspoiled
<1>3. /\ boundary \in Seq(Byte) /\ buffer = << >> /\ Len(boundary) \in Nat
      /\ \A i \in 1 .. Len(boundary) : boundary[i] # Underscore
  BY <1>2, LenProperties DEF FramingInv, TypeInv, ReceiverTypes, LoopInv
<1>4. /\ stream \o out \in Seq(Byte) /\ Behind(r) = boundary \o (stream \o out)
      /\ r < Len(sent) /\ Len(sent) \in Nat
      /\ \E d \in Marks, u \in Seq(Byte) : gen_boundary(d) \o u = boundary \o (stream \o out)
  BY <1>1, <1>2, AtBoundary
<1>5. Len(boundary) <= 2
  <2>1. PICK d \in Marks, u \in Seq(Byte) : gen_boundary(d) \o u = boundary \o (stream \o out)
    BY <1>4
  <2> DEFINE v == stream \o out
  <2>2. v \in Seq(Byte) /\ gen_boundary(d) \o u = boundary \o v
    BY <2>1, <1>4
  <2> HIDE DEF v
  <2> QED BY <2>2, <1>3, BoundaryPart
<1>6. /\ boundary' \in Seq(Byte) /\ stream' \in Seq(Byte) /\ out' \in Seq(Byte)
      /\ boundary' \o (stream' \o out') = boundary \o (stream \o out)
  BY <1>2, <1>3, TakeByte DEF FramingInv, TypeInv, SenderTypes
<1>7. Len(boundary') = Len(boundary) + 1
  <2>1. Head(stream) \in Byte
    BY <1>2, <1>3, TakeByte
  <2> QED BY <2>1, <1>2, <1>3, AppendProperties
<1>8. rpc' \in {"boundary", "second"}
  BY <1>2, <1>3, <1>5, <1>7, FramingAssumption
<1>9. boundary' \o buffer' \o stream' \o out' = boundary \o (stream \o out)
  <2>1. boundary' \o buffer' = boundary'
    BY <1>2, <1>3, <1>6, ConcatEmptySeq
  <2>2. Joins(boundary', stream', out')
    <3>1. boundary' \in Seq(Byte) /\ stream' \in Seq(Byte) /\ out' \in Seq(Byte)
      BY <1>6
    <3> QED BY <3>1, JoinAny, Zenon
  <2> QED BY <2>1, <2>2, <1>6 DEF Joins
<1>10. \A k : Behind(k)' = Behind(k)
  BY <1>2 DEF Behind, EndOf
<1>11. Behind(Len(received))' = boundary' \o buffer' \o stream' \o out'
  <2>1. Len(received') = r
    BY <1>1, <1>2
  <2>2. Behind(Len(received))' = Behind(r)'
    BY <2>1
  <2> QED BY <2>2, <1>4, <1>9, <1>10
<1> QED BY <1>2, <1>8, <1>11 DEF FramingInv, PlaceInv

LEMMA SecondStepPlace ==
  ASSUME FramingInv, ReadSecond
  PROVE  PlaceInv'
<1>1. PICK r \in Nat : r = Len(received)
  BY LenProperties DEF FramingInv, TypeInv, ReceiverTypes
<1>2. /\ rpc = "second" /\ stream # << >> /\ stream' = Tail(stream)
      /\ boundary' = Append(boundary, Head(stream)) /\ buffer' = buffer /\ rpc' = "body"
      /\ UNCHANGED <<out, peer, sent, wire, ends, received, spoiled>>
  BY DEF ReadSecond, Read, sender
<1> SUFFICES ASSUME Unspoiled PROVE PlaceInv'
  BY <1>2 DEF PlaceInv, Unspoiled
<1>3. boundary \in Seq(Byte) /\ buffer = << >> /\ sent \in Seq(Messages)
  BY <1>2 DEF FramingInv, TypeInv, SenderTypes, ReceiverTypes, LoopInv
<1>4. /\ Behind(r) = boundary \o (stream \o out)
      /\ r < Len(sent) /\ Len(sent) \in Nat
  BY <1>1, <1>2, AtBoundary
<1>5. /\ boundary' \in Seq(Byte) /\ stream' \in Seq(Byte) /\ out' \in Seq(Byte)
      /\ boundary' \o (stream' \o out') = boundary \o (stream \o out)
  BY <1>2, <1>3, TakeByte DEF FramingInv, TypeInv, SenderTypes
<1>6. boundary' \o buffer' \o stream' \o out' = boundary \o (stream \o out)
  <2>1. boundary' \o buffer' = boundary'
    BY <1>2, <1>3, <1>5, ConcatEmptySeq
  <2>2. Joins(boundary', stream', out')
    <3>1. boundary' \in Seq(Byte) /\ stream' \in Seq(Byte) /\ out' \in Seq(Byte)
      BY <1>5
    <3> QED BY <3>1, JoinAny, Zenon
  <2> QED BY <2>1, <2>2, <1>5 DEF Joins
<1>7. \A k : Behind(k)' = Behind(k)
  BY <1>2 DEF Behind, EndOf
<1>8. Behind(Len(received))' = boundary' \o buffer' \o stream' \o out'
  <2>1. Len(received') = r
    BY <1>1, <1>2
  <2>2. Behind(Len(received))' = Behind(r)'
    BY <2>1
  <2> QED BY <2>2, <1>4, <1>6, <1>7
<1>9. Len(buffer') < Len(Serialized(sent'[Len(received') + 1])) + 4
  <2>1. sent[r + 1] \in Messages
    <3>1. r + 1 \in 1 .. Len(sent)
      BY <1>4
    <3> QED BY <3>1, <1>3, ElementOfSeq
  <2>2. Serialized(sent[r + 1]) \in Seq(Byte)
    BY <2>1, SerializedTypes
  <2>3. Len(Serialized(sent[r + 1])) \in Nat /\ Len(buffer') = 0
    BY <2>2, <1>2, <1>3, LenProperties, EmptySeq
  <2> QED BY <2>3, <1>1, <1>2
<1> QED BY <1>1, <1>2, <1>4, <1>8, <1>9 DEF FramingInv, PlaceInv

\* In the body: the boundary is that of the frame, and what was read of the body
\* is the beginning of the message and its end.
LEMMA InBody ==
  ASSUME FramingInv, Unspoiled, rpc = "body", NEW r \in Nat, r = Len(received)
  PROVE  LET m == sent[r + 1]
             s == Serialized(m)
         IN  /\ r < Len(sent) /\ Len(sent) \in Nat /\ m \in Messages
             /\ Behind(r + 1) \in Seq(Byte)
             /\ \E d \in Marks :
                  /\ boundary = gen_boundary(d)
                  /\ buffer \o (stream \o out) = (s \o gen_boundary(d)) \o Behind(r + 1)
                  /\ ~Clashes(m, gen_boundary(d), s)
                  /\ ~TooLong(gen_boundary(d), s)
<1> DEFINE s == Serialized(sent[r + 1])
           v == buffer \o (stream \o out)
<1>1. /\ boundary \in Seq(Byte) /\ buffer \in Seq(Byte) /\ stream \in Seq(Byte)
      /\ out \in Seq(Byte) /\ Len(boundary) \in Nat /\ Len(sent) \in Nat
  BY LenProperties DEF FramingInv, TypeInv, SenderTypes, ReceiverTypes
<1>2. stream \o out \in Seq(Byte) /\ v \in Seq(Byte)
  BY <1>1, JoinTypes
<1>3. boundary \o buffer \o stream \o out = boundary \o v
  <2>1. /\ boundary \in Seq(Byte) /\ buffer \in Seq(Byte)
        /\ stream \in Seq(Byte) /\ out \in Seq(Byte)
    BY <1>1
  <2>2. Pieces(boundary, buffer, stream, out)
    BY <2>1, PiecesAny, Zenon
  <2> QED BY <2>2 DEF Pieces
<1> HIDE DEF v
<1>4. r < Len(sent) /\ Behind(r) = boundary \o v
  BY <1>3 DEF FramingInv, PlaceInv
<1>5. Len(boundary) >= 2 /\ boundary[Len(boundary) - 1] = Underscore
      /\ \A i \in 1 .. Len(boundary) - 2 : boundary[i] # Underscore
  BY DEF FramingInv, TypeInv, LoopInv
<1>6. Behind(r) # << >>
  <2>1. boundary # << >>
    BY <1>1, <1>5, EmptySeq
  <2> QED BY <2>1, <1>1, <1>2, <1>4, ConcatEqualIffEmpty
<1>7. r \in 0 .. Len(sent)
  BY <1>1, <1>4
<1>8. /\ sent[r + 1] \in Messages /\ Behind(r + 1) \in Seq(Byte)
      /\ \E d \in Marks :
           /\ Behind(r) = gen_boundary(d) \o ((s \o gen_boundary(d)) \o Behind(r + 1))
           /\ ~Clashes(sent[r + 1], gen_boundary(d), s)
           /\ ~TooLong(gen_boundary(d), s)
  BY <1>6, <1>7, InFrame DEF FramingInv
<1>9. PICK d \in Marks :
        /\ Behind(r) = gen_boundary(d) \o ((s \o gen_boundary(d)) \o Behind(r + 1))
        /\ ~Clashes(sent[r + 1], gen_boundary(d), s)
        /\ ~TooLong(gen_boundary(d), s)
  BY <1>8
<1> DEFINE u == (s \o gen_boundary(d)) \o Behind(r + 1)
<1>10. u \in Seq(Byte)
  <2>1. s \o gen_boundary(d) \in Seq(Byte)
    BY <1>8, FrameTypes
  <2> QED BY <2>1, <1>8, JoinTypes
<1>11. gen_boundary(d) \o u = boundary \o v
  BY <1>4, <1>9
<1> HIDE DEF u
<1>12. boundary = gen_boundary(d) /\ v = u
  BY <1>1, <1>2, <1>5, <1>10, <1>11, BoundaryPart
<1> QED BY <1>1, <1>4, <1>8, <1>9, <1>12 DEF u, v

LEMMA BodyStepPlace ==
  ASSUME FramingInv, ReadBody
  PROVE  PlaceInv'
<1>1. PICK r \in Nat : r = Len(received)
  BY LenProperties DEF FramingInv, TypeInv, ReceiverTypes
<1> DEFINE buf == Append(buffer, Head(stream))
           m == sent[r + 1]
           s == Serialized(m)
<1>2. /\ rpc = "body" /\ stream # << >> /\ stream' = Tail(stream) /\ boundary' = boundary
      /\ UNCHANGED <<out, peer, sent, wire, ends, received, spoiled>>
      /\ \/ /\ Completes(buf, boundary)
            /\ buffer' = SubSeq(buf, 1, Len(buf) - Len(boundary))
            /\ rpc' = "parse"
         \/ /\ \/ ~Completes(buf, boundary)
               \/ Len(buf) = BufferLength \/ Len(boundary) = BoundaryLength
            /\ buffer' = buf
            /\ rpc' = IF Len(buf) = BufferLength THEN "overrun" ELSE "body"
  BY DEF ReadBody, Read, sender
<1> SUFFICES ASSUME Unspoiled PROVE PlaceInv'
  BY <1>2 DEF PlaceInv, Unspoiled
<1>3. /\ r < Len(sent) /\ Len(sent) \in Nat /\ m \in Messages /\ Behind(r + 1) \in Seq(Byte)
      /\ \E d \in Marks :
           /\ boundary = gen_boundary(d)
           /\ buffer \o (stream \o out) = (s \o gen_boundary(d)) \o Behind(r + 1)
           /\ ~Clashes(m, gen_boundary(d), s) /\ ~TooLong(gen_boundary(d), s)
  BY <1>1, <1>2, InBody
<1>4. PICK d \in Marks :
        /\ boundary = gen_boundary(d)
        /\ buffer \o (stream \o out) = (s \o gen_boundary(d)) \o Behind(r + 1)
        /\ ~Clashes(m, gen_boundary(d), s) /\ ~TooLong(gen_boundary(d), s)
  BY <1>3
<1> DEFINE b == gen_boundary(d)
           rest == stream' \o out'
<1>5. /\ buffer \in Seq(Byte) /\ out \in Seq(Byte) /\ Len(buffer) \in Nat
      /\ s \in Seq(Byte) /\ Len(s) \in Nat /\ b \in Seq(Byte) /\ Len(b) = 4
      /\ s \o b \in Seq(Byte) /\ Len(s \o b) = Len(s) + 4
  BY <1>3, LenProperties, SerializedTypes, BoundaryTypes, FrameTypes
     DEF FramingInv, TypeInv, SenderTypes, ReceiverTypes
<1>6. Len(buffer) < Len(s) + 4
  BY <1>1, <1>2 DEF FramingInv, PlaceInv
<1>7. /\ buf \in Seq(Byte) /\ Len(buf) = Len(buffer) + 1
      /\ stream' \in Seq(Byte) /\ out' \in Seq(Byte) /\ rest \in Seq(Byte)
      /\ buf \o rest = (s \o b) \o Behind(r + 1)
  <2>1. /\ buf \in Seq(Byte) /\ Tail(stream) \in Seq(Byte) /\ Head(stream) \in Byte
        /\ buf \o (Tail(stream) \o out) = buffer \o (stream \o out)
    BY <1>2, <1>5, TakeByte
  <2>2. Len(buf) = Len(buffer) + 1
    BY <2>1, <1>5, AppendProperties
  <2>3. rest = Tail(stream) \o out /\ rest \in Seq(Byte)
    BY <2>1, <1>2, <1>5, JoinTypes
  <2> QED BY <2>1, <2>2, <2>3, <1>2, <1>4, <1>5
<1> HIDE DEF buf, rest
<1>8. Len(buf) <= Len(s) + 4
  BY <1>5, <1>6, <1>7
<1>9. /\ \A i \in 1 .. Len(buf) : buf[i] = (s \o b)[i]
      /\ Len(buf) = Len(s) + 4 => rest = Behind(r + 1)
  <2> DEFINE c == s \o b
             e == Behind(r + 1)
  <2>1. c \in Seq(Byte) /\ e \in Seq(Byte) /\ buf \o rest = c \o e /\ Len(buf) <= Len(c)
        /\ buf \in Seq(Byte) /\ rest \in Seq(Byte) /\ Len(c) = Len(s) + 4
    BY <1>3, <1>5, <1>7, <1>8
  <2> HIDE DEF c, e
  <2>2. /\ \A i \in 1 .. Len(buf) : buf[i] = c[i]
        /\ Len(buf) = Len(c) => buf = c /\ rest = e
    <3>1. /\ c \in Seq(Byte) /\ e \in Seq(Byte) /\ buf \in Seq(Byte) /\ rest \in Seq(Byte)
          /\ buf \o rest = c \o e /\ Len(buf) <= Len(c)
      BY <2>1
    <3>2. SameStart(buf, rest, c, e)
      BY <3>1, SameFront, Zenon
    <3> QED BY <3>1, <3>2 DEF SameStart
  <2> QED BY <2>1, <2>2 DEF c, e
<1>10. /\ Completes(buf, b) <=> Len(buf) = Len(s) + 4
       /\ Len(buf) = Len(s) + 4 => SubSeq(buf, 1, Len(buf) - 4) = s
  BY <1>3, <1>4, <1>7, <1>8, <1>9, OnlyAtEnd
<1>11. Len(s) + 4 < BufferLength
  BY <1>4, <1>5, FramingAssumption DEF TooLong
<1>12. Len(buf) # BufferLength /\ Len(boundary) # BoundaryLength
  <2>1. Len(boundary) = 4 /\ BoundaryLength > 4 /\ BoundaryLength \in Nat
    BY <1>4, <1>5, FramingAssumption
  <2>2. Len(buf) \in Nat /\ BufferLength \in Nat
    BY <1>7, LenProperties, FramingAssumption
  <2> QED BY <2>1, <2>2, <1>5, <1>8, <1>11
<1>13. \A k : Behind(k)' = Behind(k)
  BY <1>2 DEF Behind, EndOf
<1>14. /\ Len(received') = r /\ Len(received') <= Len(sent') /\ Len(received') < Len(sent')
       /\ Behind(Len(received))' = Behind(r) /\ Behind(Len(received) + 1)' = Behind(r + 1)
       /\ s = Serialized(sent'[Len(received') + 1])
       /\ \A i \in 1 .. Len(received') : Conveys(received'[i], sent'[i])
  <2>1. Len(received') = r
    BY <1>1, <1>2
  <2>2. Behind(Len(received))' = Behind(r)' /\ Behind(Len(received) + 1)' = Behind(r + 1)'
    BY <2>1
  <2>3. \A i \in 1 .. Len(received) : Conveys(received[i], sent[i])
    BY DEF FramingInv, PlaceInv
  <2> QED BY <2>1, <2>2, <2>3, <1>1, <1>2, <1>3, <1>13
<1>15. CASE Completes(buf, b)
  <2>1. Len(buf) = Len(s) + 4 /\ rest = Behind(r + 1)
    BY <1>9, <1>10, <1>15
  <2>2. rpc' = "parse" /\ buffer' = SubSeq(buf, 1, Len(buf) - Len(boundary))
    BY <1>2, <1>4, <1>12, <1>15
  <2>3. buffer' = s
    BY <2>1, <2>2, <1>4, <1>5, <1>10
  <2> QED BY <2>1, <2>2, <2>3, <1>14 DEF PlaceInv, rest
<1>16. CASE ~Completes(buf, b)
  <2>1. rpc' = "body" /\ buffer' = buf
    BY <1>2, <1>4, <1>12, <1>16
  <2>2. Len(buffer') < Len(s) + 4
    BY <2>1, <1>5, <1>7, <1>8, <1>10, <1>16
  <2>3. Behind(r) = boundary' \o buffer' \o stream' \o out'
    <3>1. Behind(r) = boundary \o buffer \o stream \o out
      BY <1>1, <1>2 DEF FramingInv, PlaceInv
    <3>2. boundary \o buffer \o stream \o out = boundary \o (buffer \o (stream \o out))
      <4>1. /\ boundary \in Seq(Byte) /\ buffer \in Seq(Byte)
            /\ stream \in Seq(Byte) /\ out \in Seq(Byte)
        BY DEF FramingInv, TypeInv, SenderTypes, ReceiverTypes
      <4>2. Pieces(boundary, buffer, stream, out)
        BY <4>1, PiecesAny, Zenon
      <4> QED BY <4>2 DEF Pieces
    <3>3. boundary' \o buffer' \o stream' \o out' = boundary' \o (buffer' \o rest)
      <4>1. /\ boundary' \in Seq(Byte) /\ buffer' \in Seq(Byte)
            /\ stream' \in Seq(Byte) /\ out' \in Seq(Byte)
        BY <2>1, <1>2, <1>7 DEF FramingInv, TypeInv, ReceiverTypes
      <4>2. Pieces(boundary', buffer', stream', out')
        BY <4>1, PiecesAny, Zenon
      <4> QED BY <4>2 DEF Pieces, rest
    <3>4. buffer' \o rest = buffer \o (stream \o out)
      BY <2>1, <1>4, <1>7
    <3> QED BY <3>1, <3>2, <3>3, <3>4, <1>2
  <2> QED BY <2>1, <2>2, <2>3, <1>14 DEF PlaceInv
<1> QED BY <1>15, <1>16

\* What is parsed is the message that was sent, and it is always an object.
LEMMA ParsedRight ==
  ASSUME FramingInv, Unspoiled, rpc = "parse", NEW r \in Nat, r = Len(received)
  PROVE  LET m == sent[r + 1]
         IN  /\ r < Len(sent) /\ m \in Messages
             /\ \E kind \in DOMAIN Kinds : IsA(kind)
             /\ \A kind \in {"text", "data"} :
                  IsA(kind) => [kind |-> kind, content |-> Content] = m
             /\ IsA("file") => [kind |-> "file", content |-> decode_to_raw_data(Content)] = m
<1> DEFINE m == sent[r + 1]
           s == Serialized(m)
           c == Inside(m)
<1>1. Len(sent) \in Nat /\ sent \in Seq(Messages) /\ r < Len(sent) /\ buffer = s
  BY LenProperties DEF FramingInv, PlaceInv, TypeInv, SenderTypes
<1>2. m \in Messages
  <2>1. r + 1 \in 1 .. Len(sent)
    BY <1>1
  <2> QED BY <2>1, <1>1, ElementOfSeq
<1> HIDE DEF m
<1>3. /\ c \in Seq(Byte) /\ s \in Seq(Byte) /\ Len(s) = Len(c) + 2
      /\ s[1] = Kinds[m.kind] /\ s[Len(s)] = Brace
      /\ SubSeq(s, 2, Len(s) - 1) = c
  BY <1>2, SerializedTypes
<1>4. Len(s) >= 2
  <2>1. Len(c) \in Nat
    BY <1>3, LenProperties
  <2> QED BY <2>1, <1>3
<1>5. /\ m.kind \in DOMAIN Kinds /\ m.content \in Seq(Byte)
      /\ m = [kind |-> m.kind, content |-> m.content]
  BY <1>2, MessageTypes
<1>6. /\ DOMAIN Kinds = {"text", "data", "file"}
      /\ Kinds["text"] = 115 /\ Kinds["data"] = 100 /\ Kinds["file"] = 102
  BY DEF Kinds
<1> HIDE DEF s, c
<1>7. Content = c
  BY <1>1, <1>3 DEF Content
<1>8. IsA(m.kind)
  BY <1>1, <1>3, <1>4 DEF IsA
<1>9. ASSUME NEW kind \in {"text", "data"}, IsA(kind)
      PROVE  [kind |-> kind, content |-> Content] = m
  <2>1. m.kind = kind
    BY <1>9, <1>1, <1>3, <1>5, <1>6 DEF IsA
  <2>2. c = m.content
    BY <2>1 DEF c, Inside
  <2> QED BY <2>1, <2>2, <1>5, <1>7
<1>10. ASSUME IsA("file")
       PROVE  [kind |-> "file", content |-> decode_to_raw_data(Content)] = m
  <2>1. m.kind = "file"
    BY <1>10, <1>1, <1>3, <1>5, <1>6 DEF IsA
  <2>2. c = encode_raw_data(m.content)
    BY <2>1 DEF c, Inside
  <2>3. decode_to_raw_data(c) = m.content
    BY <2>2, <1>5, FilesSurvive
  <2> QED BY <2>1, <2>3, <1>5, <1>7
<1> QED BY <1>1, <1>2, <1>5, <1>8, <1>9, <1>10 DEF m

\* The message the receiver stands in is returned, and the next frame follows.
LEMMA ReturnPlace ==
  ASSUME FramingInv, rpc = "parse", NEW r \in Nat, r = Len(received),
         NEW m \in Returned, Return(m), Unspoiled => Conveys(m, sent[r + 1])
  PROVE  PlaceInv'
<1>1. /\ received' = Append(received, m) /\ rpc' = "boundary"
      /\ boundary' = << >> /\ buffer' = << >>
      /\ UNCHANGED <<out, peer, sent, wire, ends, stream, spoiled>>
  BY DEF Return, sender
<1> SUFFICES ASSUME Unspoiled PROVE PlaceInv'
  BY <1>1 DEF PlaceInv, Unspoiled
<1>2. /\ Len(received') = r + 1 /\ received'[r + 1] = m
      /\ \A i \in 1 .. r : received'[i] = received[i]
  BY <1>1, AppendProperties DEF FramingInv, TypeInv, ReceiverTypes
<1>3. /\ r < Len(sent) /\ \A i \in 1 .. r : Conveys(received[i], sent[i])
      /\ Behind(r + 1) = stream \o out
  BY DEF FramingInv, PlaceInv
<1>4. \A i \in 1 .. r + 1 : Conveys(received'[i], sent'[i])
  <2> TAKE i \in 1 .. r + 1
  <2>1. i \in 1 .. r \/ i = r + 1
    OBVIOUS
  <2> QED BY <2>1, <1>1, <1>2, <1>3
<1>5. Len(sent) \in Nat /\ stream \in Seq(Byte) /\ out \in Seq(Byte)
  BY LenProperties DEF FramingInv, TypeInv, SenderTypes
<1>6. boundary' \o buffer' \o stream' \o out' = stream \o out
  <2>1. boundary' \o buffer' = << >>
    BY <1>1
  <2>2. << >> \o stream = stream
    BY <1>5, ConcatEmptySeq
  <2> QED BY <2>1, <2>2, <1>1
<1>7. Behind(Len(received))' = Behind(r + 1)
  <2>1. Behind(Len(received))' = Behind(r + 1)'
    BY <1>2
  <2>2. Behind(r + 1)' = Behind(r + 1)
    BY <1>1 DEF Behind, EndOf
  <2> QED BY <2>1, <2>2
<1>8. r + 1 <= Len(sent')
  BY <1>1, <1>3, <1>5
<1> QED BY <1>1, <1>2, <1>3, <1>4, <1>6, <1>7, <1>8 DEF PlaceInv

LEMMA ParsePlace ==
  ASSUME FramingInv, parse_encoded
  PROVE  PlaceInv'
<1>1. PICK r \in Nat : r = Len(received)
  BY LenProperties DEF FramingInv, TypeInv, ReceiverTypes
<1>2. CASE ReceiveText
  <2>1. Content \in Seq(Byte)
    BY <1>2, ContentTypes DEF ReceiveText, IsA, FramingInv
  <2>2. [kind |-> "text", content |-> Content] \in Returned
    BY <2>1 DEF Returned, Kinds
  <2>3. Unspoiled => Conveys([kind |-> "text", content |-> Content], sent[r + 1])
    BY <1>1, <1>2, ParsedRight DEF ReceiveText, Conveys
  <2> QED BY <1>1, <1>2, <2>2, <2>3, ReturnPlace DEF ReceiveText
<1>3. CASE ReceiveFile
  <2>1. Content \in Seq(Byte)
    BY <1>3, ContentTypes DEF ReceiveFile, IsA, FramingInv
  <2>2. [kind |-> "file", content |-> decode_to_raw_data(Content)] \in Returned
    BY <2>1, DecodedTypes DEF Returned, Kinds
  <2>3. Unspoiled =>
          Conveys([kind |-> "file", content |-> decode_to_raw_data(Content)], sent[r + 1])
    BY <1>1, <1>3, ParsedRight DEF ReceiveFile, Conveys
  <2> QED BY <1>1, <1>3, <2>2, <2>3, ReturnPlace DEF ReceiveFile
<1>6. CASE ReceiveData
  <2>1. PICK rest \in Leftovers : Return([kind |-> "data", content |-> Content \o rest])
    BY <1>6 DEF ReceiveData
  <2>2. Content \in Seq(Byte) /\ Content \o rest \in Seq(Byte) /\ IsPrefix(Content, Content \o rest)
    BY <1>6, ContentTypes, LeftoverTypes DEF ReceiveData, IsA, FramingInv
  <2>3. [kind |-> "data", content |-> Content \o rest] \in Returned
    BY <2>2 DEF Returned, Kinds
  <2>4. Unspoiled => [kind |-> "data", content |-> Content] = sent[r + 1]
    BY <1>1, <1>6, ParsedRight DEF ReceiveData
  <2>5. Unspoiled => sent[r + 1].kind = "data" /\ sent[r + 1].content = Content
    BY <2>4
  <2>6. Unspoiled => Conveys([kind |-> "data", content |-> Content \o rest], sent[r + 1])
    BY <2>2, <2>5 DEF Conveys
  <2> QED BY <1>1, <1>6, <2>1, <2>3, <2>6, ReturnPlace DEF ReceiveData
<1>4. CASE DecodeFaults
  BY <1>4 DEF DecodeFaults, PlaceInv, Unspoiled
<1>5. CASE ParseFails
  <2>1. ~Unspoiled
    BY <1>1, <1>5, ParsedRight DEF ParseFails
  <2> QED BY <2>1, <1>5 DEF ParseFails, PlaceInv, Unspoiled
<1> QED BY <1>2, <1>3, <1>4, <1>5, <1>6 DEF parse_encoded

LEMMA NextFramingInv == FramingInv /\ [Next]_vars => FramingInv'
<1> SUFFICES ASSUME FramingInv, [Next]_vars PROVE FramingInv'
  OBVIOUS
<1>1. TypeInv'
  BY NextTypeInv DEF FramingInv
<1>2. CASE \E m \in Messages, d \in Marks : comm_send_data(m, d)
  <2>1. PICK m \in Messages, d \in Marks : comm_send_data(m, d)
    BY <1>2
  <2>2. WireInv' /\ PlaceInv'
    BY <2>1, SendWire, SendPlace DEF FramingInv
  <2> QED BY <1>1, <2>2 DEF FramingInv
<1>3. CASE write_one_by_one_without_zero \/ SenderEnds
  <2>1. UNCHANGED <<sent, wire, ends>> /\ (Unspoiled' => Unspoiled)
    BY <1>3 DEF write_one_by_one_without_zero, SenderEnds, Unspoiled
  <2>2. WireInv' /\ PlaceInv'
    BY <2>1, <1>3, WireKept, WritePlace, EndPlace DEF FramingInv
  <2> QED BY <1>1, <2>2 DEF FramingInv
<1>4. CASE comm_receive_data
  <2>1. UNCHANGED <<sent, wire, ends>> /\ (Unspoiled' => Unspoiled)
    BY <1>4 DEF comm_receive_data, ReadBoundary, ReadSecond, ReadBody, ReadAtEof, Read,
                sender, Unspoiled
  <2>2. WireInv'
    BY <2>1, WireKept DEF FramingInv
  <2>3. PlaceInv'
    BY <1>4, BoundaryStepPlace, SecondStepPlace, BodyStepPlace, EofPlace DEF comm_receive_data
  <2> QED BY <1>1, <2>2, <2>3 DEF FramingInv
<1>5. CASE parse_encoded
  <2>1. UNCHANGED <<sent, wire, ends>> /\ (Unspoiled' => Unspoiled)
    BY <1>5 DEF parse_encoded, ReceiveText, ReceiveData, ReceiveFile, DecodeFaults, ParseFails, Return,
                sender, Unspoiled
  <2>2. WireInv' /\ PlaceInv'
    BY <2>1, <1>5, WireKept, ParsePlace DEF FramingInv
  <2> QED BY <1>1, <2>2 DEF FramingInv
<1>6. CASE UNCHANGED vars
  <2>1. /\ UNCHANGED <<out, peer, sent, wire, ends, stream, rpc, boundary, buffer, received,
                       spoiled>>
    BY <1>6 DEF vars, sender, receiver
  <2>2. WireInv' /\ \A k : Behind(k)' = Behind(k)
    BY <2>1, WireKept DEF FramingInv, Unspoiled, Behind, EndOf
  <2>3. PlaceInv'
    BY <2>1, <2>2 DEF FramingInv, PlaceInv, Unspoiled
  <2> QED BY <1>1, <2>2, <2>3 DEF FramingInv
<1> QED BY <1>2, <1>3, <1>4, <1>5, <1>6 DEF Next

-----------------------------------------------------------------------------
(***************************************************************************)
(* The theorems.                                                           *)
(***************************************************************************)

LEMMA SpecFramingInv == Spec => []FramingInv
<1>1. Init => FramingInv
  BY InitFramingInv
<1>2. FramingInv /\ [Next]_vars => FramingInv'
  BY NextFramingInv
<1> QED BY <1>1, <1>2, PTL DEF Spec

\* Sender and receiver agree where frames begin, as long as nothing has spoiled
\* the stream (comm.send.fifo.c 110-114, comm.read.fifo.c 202-221).
THEOREM StaysInStep == Spec => []InStep
<1>1. FramingInv => InStep
  BY DEF FramingInv, TypeInv, ReceiverTypes, PlaceInv, InStep
<1> QED BY <1>1, SpecFramingInv, PTL

\* Only a frame that clashes, is too long or is cut, or the end of the sender,
\* makes the receiver run over its buffers (comm.read.fifo.c 212-219).
THEOREM StaysInBuffer == Spec => []InBuffer
<1>1. FramingInv => InBuffer
  BY DEF FramingInv, PlaceInv, InBuffer
<1> QED BY <1>1, SpecFramingInv, PTL

\* Until the stream is spoiled what arrived is what was sent first.
LEMMA ArrivedInOrder ==
  FramingInv /\ Unspoiled => Arrivals = [i \in 1 .. Len(received) |-> sent[i]]
<1> SUFFICES ASSUME FramingInv, Unspoiled
             PROVE  Arrivals = [i \in 1 .. Len(received) |-> sent[i]]
  OBVIOUS
<1>1. Len(received) \in Nat /\ Len(sent) \in Nat /\ Len(received) <= Len(sent)
  BY LenProperties DEF FramingInv, PlaceInv, TypeInv, SenderTypes, ReceiverTypes
<1>2. \A i \in 1 .. Len(received) : i <= Len(sent) /\ Conveys(received[i], sent[i])
  BY <1>1 DEF FramingInv, PlaceInv
<1> QED BY <1>2 DEF Arrivals

\* A message that is returned is the next that arrives.
LEMMA NextArrives ==
  ASSUME FramingInv, FramingInv', Unspoiled, Unspoiled', rpc = "parse",
         NEW m, Return(m)
  PROVE  TheChannel!CReceive
<1>1. PICK r \in Nat : r = Len(received)
  BY LenProperties DEF FramingInv, TypeInv, ReceiverTypes
<1>2. r < Len(sent) /\ sent \in Seq(Messages)
  BY <1>1, ParsedRight DEF FramingInv, TypeInv, SenderTypes
<1>3. received' = Append(received, m) /\ sent' = sent /\ received \in Seq(Returned)
  BY DEF Return, sender, FramingInv, TypeInv, ReceiverTypes
<1>4. Len(received') = r + 1
  BY <1>1, <1>3
<1>5. Arrivals = [i \in 1 .. r |-> sent[i]]
  BY <1>1, ArrivedInOrder
<1>6. Arrivals' = [i \in 1 .. r + 1 |-> sent[i]]
  <2>1. FramingInv' /\ Unspoiled' => (Arrivals = [i \in 1 .. Len(received) |-> sent[i]])'
    BY ArrivedInOrder, PTL
  <2> QED BY <1>3, <1>4, <2>1
<1>7. Len(Arrivals) = r /\ Arrivals' = Append(Arrivals, sent[r + 1])
  BY <1>5, <1>6
<1> QED BY <1>2, <1>3, <1>7 DEF TheChannel!CReceive

\* A step that spoils nothing sends a message, returns the next one or is not
\* seen in the channel.
LEMMA ChannelStep ==
  FramingInv /\ [Next]_vars => [TheChannel!CNext]_(TheChannel!cvars)
<1> SUFFICES ASSUME FramingInv, [Next]_vars
             PROVE  [TheChannel!CNext]_(TheChannel!cvars)
  OBVIOUS
<1>0. FramingInv'
  BY NextFramingInv
<1>1. CASE ~Unspoiled'
  BY <1>1 DEF TheChannel!CNext, TheChannel!CBreak
<1>2. CASE Unspoiled'
  <2>1. ASSUME Unspoiled, UNCHANGED <<sent, received>>
        PROVE  [TheChannel!CNext]_(TheChannel!cvars)
    <3>1. Arrivals' = Arrivals
      BY <2>1 DEF Arrivals
    <3> QED BY <1>2, <2>1, <3>1 DEF TheChannel!cvars
  <2>2. ASSUME Unspoiled, TheChannel!CSend \/ TheChannel!CReceive
        PROVE  [TheChannel!CNext]_(TheChannel!cvars)
    BY <1>2, <2>2 DEF TheChannel!CNext
  <2>3. ASSUME rpc = "parse", NEW m, Return(m)
        PROVE  [TheChannel!CNext]_(TheChannel!cvars)
    <3>1. Unspoiled
      BY <1>2, <2>3 DEF Return, Unspoiled
    <3> QED BY <1>0, <1>2, <2>2, <2>3, <3>1, NextArrives
  <2>4. CASE \E m \in Messages, d \in Marks : comm_send_data(m, d)
    <3>1. Unspoiled /\ UNCHANGED received
      BY <1>2, <2>4 DEF comm_send_data, receiver, Unspoiled
    <3>2. PICK m \in Messages : sent' = Append(sent, m)
      BY <2>4 DEF comm_send_data
    <3>3. Arrivals' = Arrivals
      <4>1. /\ Len(received) \in Nat /\ Len(received) <= Len(sent) /\ sent \in Seq(Messages)
        BY <3>1, LenProperties DEF FramingInv, PlaceInv, TypeInv, SenderTypes, ReceiverTypes
      <4>2. \A i \in 1 .. Len(received) : sent'[i] = sent[i]
        BY <3>2, <4>1
      <4>3. Arrivals = [i \in 1 .. Len(received) |-> sent[i]]
        BY <3>1, ArrivedInOrder
      <4>4. FramingInv' /\ Unspoiled' => (Arrivals = [i \in 1 .. Len(received) |-> sent[i]])'
        BY ArrivedInOrder, PTL
      <4> QED BY <1>0, <1>2, <3>1, <4>2, <4>3, <4>4
    <3> QED BY <3>1, <3>2, <3>3, <2>2 DEF TheChannel!CSend
  <2>5. CASE write_one_by_one_without_zero \/ SenderEnds \/ comm_receive_data
    <3>1. Unspoiled /\ UNCHANGED <<sent, received>>
      BY <1>2, <2>5 DEF write_one_by_one_without_zero, SenderEnds, comm_receive_data,
                        ReadBoundary, ReadSecond, ReadBody, ReadAtEof, Read, sender, receiver,
                        Unspoiled
    <3> QED BY <3>1, <2>1
  <2>6. CASE ReceiveText \/ ReceiveData \/ ReceiveFile
    BY <2>3, <2>6 DEF ReceiveText, ReceiveData, ReceiveFile
  <2>7. CASE DecodeFaults
    BY <1>2, <2>7 DEF DecodeFaults, Unspoiled
  <2>8. CASE ParseFails
    <3>1. Unspoiled /\ UNCHANGED <<sent, received>>
      BY <1>2, <2>8 DEF ParseFails, sender, Unspoiled
    <3> QED BY <3>1, <2>1
  <2>9. CASE UNCHANGED vars
    <3>1. Unspoiled /\ UNCHANGED <<sent, received>>
      BY <1>2, <2>9 DEF vars, sender, receiver, Unspoiled
    <3> QED BY <3>1, <2>1
  <2> QED BY <2>4, <2>5, <2>6, <2>7, <2>8, <2>9 DEF Next, parse_encoded
<1> QED BY <1>1, <1>2

\* Boundaries, bytes and digits implement a channel: until the stream is
\* spoiled every message is returned once, in order and as it was sent, but for
\* the bytes that may follow a value of kind data
\* (comm_send_data, comm_receive_data, encode_raw_data, decode_to_raw_data).
THEOREM FramesAreAChannel == Spec => ImplementsChannel
<1>1. Init => TheChannel!CInit
  BY DEF Init, TheChannel!CInit, Unspoiled, Arrivals
<1>2. FramingInv /\ [Next]_vars => [TheChannel!CNext]_(TheChannel!cvars)
  BY ChannelStep
<1> QED BY <1>1, <1>2, SpecFramingInv, PTL DEF Spec, ImplementsChannel, TheChannel!CSpec
=============================================================================
