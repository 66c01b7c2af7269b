------------------------------ MODULE Base64Proofs ------------------------------
(***************************************************************************)
(* What is encoded comes back, whatever the bytes are and however many:    *)
(* TLC tries some, this is about all of them.                              *)
(*                                                                         *)
(* Texts are put together by FlattenSeq, which is recursive.  What holds   *)
(* for every length is proved by the least element of a set of numbers     *)
(* (SetInduction): the library's own theorems of induction are about       *)
(* operators, and no prover here can use them.                             *)
(***************************************************************************)
EXTENDS Base64, SequenceTheorems, WellFoundedInduction, TLAPS

Byte == 0 .. 255
Char == 0 .. 63
Symbol == 0 .. Pad     \* a character that counts
Sent == 0 .. Other     \* any character of a text

\* What decode() makes of one group of four characters.
GroupBack(g) == decode0(g[1], g[2], g[3], g[4])

\* The numbers by which encode() and decode() divide.
LEMMA Divisions ==
  ASSUME NEW x \in Nat, NEW q \in Nat, NEW r \in Nat
  PROVE  /\ x = 4 * q + r /\ r < 4 => x \div 4 = q /\ x % 4 = r
         /\ x = 16 * q + r /\ r < 16 => x \div 16 = q /\ x % 16 = r
         /\ x = 64 * q + r /\ r < 64 => x \div 64 = q /\ x % 64 = r
         /\ x = 256 * q + r /\ r < 256 => x % 256 = r
         /\ x = 1024 * q + r /\ r < 1024 => x \div 1024 = q
         /\ x = 4096 * q + r /\ r < 4096 => x \div 4096 = q
         /\ x = 262144 * q + r /\ r < 262144 => x \div 262144 = q
OBVIOUS

\* A byte in two parts, by the three cuts that are made.
LEMMA Cuts ==
  ASSUME NEW a \in Byte
  PROVE  /\ a = 4 * (a \div 4) + (a % 4) /\ a \div 4 \in 0 .. 63 /\ a % 4 \in 0 .. 3
         /\ a = 16 * (a \div 16) + (a % 16) /\ a \div 16 \in 0 .. 15 /\ a % 16 \in 0 .. 15
         /\ a = 64 * (a \div 64) + (a % 64) /\ a \div 64 \in 0 .. 3 /\ a % 64 \in 0 .. 63
<1>1. a = 4 * (a \div 4) + (a % 4) /\ a \div 4 \in 0 .. 63 /\ a % 4 \in 0 .. 3
  BY DEF Byte
<1>2. a = 16 * (a \div 16) + (a % 16) /\ a \div 16 \in 0 .. 15 /\ a % 16 \in 0 .. 15
  BY DEF Byte
<1>3. a = 64 * (a \div 64) + (a % 64) /\ a \div 64 \in 0 .. 3 /\ a % 64 \in 0 .. 63
  BY DEF Byte
<1>4. QED
  BY <1>1, <1>2, <1>3

\* The four characters of three bytes, by the parts that they are made of.
C1(a) == a \div 4
C2(a, b) == 16 * (a % 4) + (b \div 16)
C3(b, c) == 4 * (b % 16) + (c \div 64)
C4(c) == c % 64

\* They are characters of the alphabet.
LEMMA CharTypes ==
  ASSUME NEW a \in Byte, NEW b \in Byte
  PROVE  C1(a) \in Char /\ C2(a, b) \in Char /\ C3(a, b) \in Char /\ C4(a) \in Char
BY Cuts DEF C1, C2, C3, C4, Char

\* encode() makes these four of three bytes.
LEMMA TripleByParts ==
  ASSUME NEW a \in Byte, NEW b \in Byte, NEW c \in Byte
  PROVE  Triple(a, b, c) = <<C1(a), C2(a, b), C3(b, c), C4(c)>>
<1>1. PICK a1 \in 0 .. 63, a0 \in 0 .. 3 : a1 = a \div 4 /\ a0 = a % 4 /\ a = 4 * a1 + a0
  BY Cuts
<1>2. PICK b1 \in 0 .. 15, b0 \in 0 .. 15 : b1 = b \div 16 /\ b0 = b % 16 /\ b = 16 * b1 + b0
  BY Cuts
<1>3. PICK c1 \in 0 .. 3, c0 \in 0 .. 63 : c1 = c \div 64 /\ c0 = c % 64 /\ c = 64 * c1 + c0
  BY Cuts
<1> DEFINE i == a * 65536 + b * 256 + c
<1>4. i \in Nat
  BY <1>1, <1>2, <1>3
<1>5. i \div 262144 = a1
  <2>1. i = 262144 * a1 + (a0 * 65536 + b * 256 + c)
    BY <1>1, <1>2, <1>3
  <2>2. a0 * 65536 + b * 256 + c \in Nat /\ a0 * 65536 + b * 256 + c < 262144
    BY <1>2, <1>3
  <2>3. QED
    BY <1>4, <2>1, <2>2, Divisions
<1>6. (i \div 4096) % 64 = 16 * a0 + b1
  <2>1. i = 4096 * (64 * a1 + (16 * a0 + b1)) + (b0 * 256 + c)
    BY <1>1, <1>2, <1>3
  <2>2. b0 * 256 + c \in Nat /\ b0 * 256 + c < 4096
    BY <1>3
  <2>3. 64 * a1 + (16 * a0 + b1) \in Nat /\ 16 * a0 + b1 \in Nat /\ 16 * a0 + b1 < 64
    OBVIOUS
  <2>4. i \div 4096 = 64 * a1 + (16 * a0 + b1)
    BY <1>4, <2>1, <2>2, <2>3, Divisions
  <2>5. QED
    BY <2>3, <2>4, Divisions
<1>7. (i \div 64) % 64 = 4 * b0 + c1 /\ i % 64 = c0
  <2>1. i = 64 * (64 * (64 * a1 + 16 * a0 + b1) + (4 * b0 + c1)) + c0
    BY <1>1, <1>2, <1>3
  <2>2. i \div 64 = 64 * (64 * a1 + 16 * a0 + b1) + (4 * b0 + c1) /\ i % 64 = c0
    BY <1>4, <2>1, Divisions
  <2>3. 4 * b0 + c1 \in Nat /\ 4 * b0 + c1 < 64 /\ 64 * a1 + 16 * a0 + b1 \in Nat
    OBVIOUS
  <2>4. QED
    BY <2>2, <2>3, Divisions
<1>8. QED
  BY <1>1, <1>2, <1>3, <1>5, <1>6, <1>7 DEF Triple, C1, C2, C3, C4

\* The four characters of two bytes and of one: the bits that are missing are 0.
LEMMA RestByParts ==
  ASSUME NEW a \in Byte, NEW b \in Byte
  PROVE  /\ Rest(<<a, b>>) = <<C1(a), C2(a, b), C3(b, 0), Pad>>
         /\ Rest(<<a>>) = <<C1(a), C2(a, 0), Pad, Pad>>
<1>1. PICK a1 \in 0 .. 63, a0 \in 0 .. 3 : a1 = a \div 4 /\ a0 = a % 4 /\ a = 4 * a1 + a0
  BY Cuts
<1>2. PICK b1 \in 0 .. 15, b0 \in 0 .. 15 : b1 = b \div 16 /\ b0 = b % 16 /\ b = 16 * b1 + b0
  BY Cuts
<1> DEFINE i == a * 256 + b
<1>3. /\ i \in Nat /\ i = 1024 * a1 + (a0 * 256 + b)
      /\ a0 * 256 + b \in Nat /\ a0 * 256 + b < 1024
  BY <1>1, <1>2
<1>4. i \div 1024 = a1
  BY <1>3, Divisions
<1>5. (i \div 16) % 64 = 16 * a0 + b1
  <2>1. i = 16 * (64 * a1 + (16 * a0 + b1)) + b0
    BY <1>1, <1>2
  <2>2. 64 * a1 + (16 * a0 + b1) \in Nat /\ 16 * a0 + b1 \in Nat /\ 16 * a0 + b1 < 64
    OBVIOUS
  <2>3. i \div 16 = 64 * a1 + (16 * a0 + b1)
    BY <1>3, <2>1, <2>2, Divisions
  <2>4. QED
    BY <2>2, <2>3, Divisions
<1>6. (i * 4) % 64 = 4 * b0
  <2>1. i * 4 = 64 * (16 * a + b1) + 4 * b0 /\ i * 4 \in Nat /\ 16 * a + b1 \in Nat
    BY <1>1, <1>2
  <2>2. 4 * b0 \in Nat /\ 4 * b0 < 64
    OBVIOUS
  <2>3. QED
    BY <2>1, <2>2, Divisions
<1>7. (a * 16) % 64 = 16 * a0
  <2>1. a * 16 \in Nat /\ a * 16 = 64 * a1 + 16 * a0 /\ 16 * a0 < 64 /\ 16 * a0 \in Nat
    BY <1>1
  <2>2. QED
    BY <2>1, Divisions
<1>8. 0 \div 16 = 0 /\ 0 \div 64 = 0
  OBVIOUS
<1>9. Rest(<<a, b>>) = <<i \div 1024, (i \div 16) % 64, (i * 4) % 64, Pad>>
  BY DEF Rest
<1>10. Rest(<<a>>) = <<a \div 4, (a * 16) % 64, Pad, Pad>>
  BY DEF Rest
<1>11. C2(a, 0) = 16 * a0 /\ C3(b, 0) = 4 * b0
  BY <1>1, <1>2, <1>8 DEF C2, C3
<1>12. QED
  BY <1>1, <1>2, <1>4, <1>5, <1>6, <1>7, <1>9, <1>10, <1>11 DEF C1, C2

\* The bytes that such characters stand for: a character of padding adds nothing that
\* is kept.
LEMMA DecodeByParts ==
  ASSUME NEW a \in Byte, NEW b \in Byte, NEW c \in Byte
  PROVE  /\ ((C1(a) * 4) % 256) + ((C2(a, b) \div 16) % 4) = a
         /\ ((C2(a, b) * 16) % 256) + ((C3(b, c) \div 4) % 16) = b
         /\ ((C3(b, c) * 64) % 256) + (C4(c) % 64) = c
<1>1. PICK a1 \in 0 .. 63, a0 \in 0 .. 3 : a1 = a \div 4 /\ a0 = a % 4 /\ a = 4 * a1 + a0
  BY Cuts
<1>2. PICK b1 \in 0 .. 15, b0 \in 0 .. 15 : b1 = b \div 16 /\ b0 = b % 16 /\ b = 16 * b1 + b0
  BY Cuts
<1>3. PICK c1 \in 0 .. 3, c0 \in 0 .. 63 : c1 = c \div 64 /\ c0 = c % 64 /\ c = 64 * c1 + c0
  BY Cuts
<1>4. C1(a) = a1 /\ C2(a, b) = 16 * a0 + b1 /\ C3(b, c) = 4 * b0 + c1 /\ C4(c) = c0
  BY <1>1, <1>2, <1>3 DEF C1, C2, C3, C4
<1>5. (a1 * 4) % 256 = a1 * 4 /\ (16 * a0 + b1) \div 16 = a0 /\ a0 % 4 = a0
  OBVIOUS
<1>6. ((16 * a0 + b1) * 16) % 256 = 16 * b1 /\ (4 * b0 + c1) \div 4 = b0 /\ b0 % 16 = b0
  OBVIOUS
<1>7. ((4 * b0 + c1) * 64) % 256 = 64 * c1 /\ c0 % 64 = c0
  OBVIOUS
<1>8. ((C1(a) * 4) % 256) + ((C2(a, b) \div 16) % 4) = a1 * 4 + a0
  BY <1>4, <1>5
<1>9. ((C2(a, b) * 16) % 256) + ((C3(b, c) \div 4) % 16) = 16 * b1 + b0
  BY <1>4, <1>6
<1>10. ((C3(b, c) * 64) % 256) + (C4(c) % 64) = 64 * c1 + c0
  BY <1>4, <1>7
<1>11. QED
  BY <1>1, <1>2, <1>3, <1>8, <1>9, <1>10

\* A sequence is a part of another if it has its elements.
LEMMA PartIs ==
  ASSUME NEW s \in Seq(Nat), NEW t \in Seq(Nat), NEW n \in 1 .. Len(s),
         Len(t) = n, \A i \in 1 .. n : t[i] = s[i]
  PROVE  SubSeq(s, 1, n) = t
<1>1. n \in Nat /\ Len(s) \in Nat /\ \A i \in 1 .. n : s[i] \in Nat
  BY LenProperties
<1>2. /\ SubSeq(s, 1, n) \in Seq(Nat) /\ Len(SubSeq(s, 1, n)) = n
      /\ \A i \in 1 .. n : SubSeq(s, 1, n)[i] = s[i]
  BY <1>1, SubSeqProperties
<1>3. \A i \in 1 .. Len(t) : SubSeq(s, 1, n)[i] = t[i]
  BY <1>2
<1>4. QED
  BY <1>2, <1>3, SeqEqual

\* Of three bytes decode0 gives those that are not padding.
LEMMA FirstOfThree ==
  ASSUME NEW x \in Nat, NEW y \in Nat, NEW z \in Nat
  PROVE  /\ SubSeq(<<x, y, z>>, 1, 1) = <<x>>
         /\ SubSeq(<<x, y, z>>, 1, 2) = <<x, y>>
         /\ SubSeq(<<x, y, z>>, 1, 3) = <<x, y, z>>
<1>1. /\ <<x, y, z>> \in Seq(Nat) /\ <<x, y>> \in Seq(Nat) /\ <<x>> \in Seq(Nat)
      /\ Len(<<x, y, z>>) = 3 /\ Len(<<x, y>>) = 2 /\ Len(<<x>>) = 1
  OBVIOUS
<1>2. PICK s \in Seq(Nat) : s = <<x, y, z>>
  BY <1>1
<1>3. PICK u \in Seq(Nat) : u = <<x, y>>
  BY <1>1
<1>4. PICK t \in Seq(Nat) : t = <<x>>
  BY <1>1
<1>5. /\ Len(s) = 3 /\ Len(u) = 2 /\ Len(t) = 1
      /\ \A i \in 1 .. 1 : t[i] = s[i]
      /\ \A i \in 1 .. 2 : u[i] = s[i]
      /\ 1 \in 1 .. Len(s) /\ 2 \in 1 .. Len(s) /\ 3 \in 1 .. Len(s)
  BY <1>1, <1>2, <1>3, <1>4
<1>6. SubSeq(s, 1, 1) = t
  BY <1>5, PartIs
<1>7. SubSeq(s, 1, 2) = u
  BY <1>5, PartIs
<1>8. SubSeq(s, 1, 3) = s
  BY <1>5, PartIs
<1>9. QED
  BY <1>2, <1>3, <1>4, <1>6, <1>7, <1>8

\* The characters that stand for bits are of the alphabet, none of them is the padding,
\* and no bits are lost: four characters become the three bytes again that encode()
\* has made them of, and with padding the two bytes or the one (Base64.java:73-97,
\* 109-140).
THEOREM GroupsComeBack ==
  ASSUME NEW a \in Byte, NEW b \in Byte, NEW c \in Byte
  PROVE  /\ Triple(a, b, c) \in Char \X Char \X Char \X Char
         /\ GroupBack(Triple(a, b, c)) = <<a, b, c>>
         /\ Rest(<<a, b>>) \in Char \X Char \X Char \X {Pad}
         /\ GroupBack(Rest(<<a, b>>)) = <<a, b>>
         /\ Rest(<<a>>) \in Char \X Char \X {Pad} \X {Pad}
         /\ GroupBack(Rest(<<a>>)) = <<a>>
<1>1. 0 \in Byte /\ Pad \notin Char /\ \A v \in Char : v \in Nat /\ Value(v) = v
  BY DEF Value, Byte, Char, Pad
<1>2. /\ C1(a) \in Char /\ C2(a, b) \in Char /\ C3(b, c) \in Char /\ C4(c) \in Char
      /\ C2(a, 0) \in Char /\ C3(b, 0) \in Char
  BY <1>1, CharTypes
<1>3. /\ Triple(a, b, c) = <<C1(a), C2(a, b), C3(b, c), C4(c)>>
      /\ Rest(<<a, b>>) = <<C1(a), C2(a, b), C3(b, 0), Pad>>
      /\ Rest(<<a>>) = <<C1(a), C2(a, 0), Pad, Pad>>
  BY TripleByParts, RestByParts
<1>4. GroupBack(Triple(a, b, c)) = <<a, b, c>>
  <2>1. decode0(C1(a), C2(a, b), C3(b, c), C4(c)) = SubSeq(<<a, b, c>>, 1, 3)
    <3>1. /\ ((C1(a) * 4) % 256) + ((C2(a, b) \div 16) % 4) = a
          /\ ((C2(a, b) * 16) % 256) + ((C3(b, c) \div 4) % 16) = b
          /\ ((C3(b, c) * 64) % 256) + (C4(c) % 64) = c
      BY DecodeByParts
    <3>2. /\ Value(C1(a)) = C1(a) /\ Value(C2(a, b)) = C2(a, b)
          /\ Value(C3(b, c)) = C3(b, c) /\ Value(C4(c)) = C4(c)
          /\ C3(b, c) # Pad /\ C4(c) # Pad
      BY <1>1, <1>2
    <3>3. decode0(C1(a), C2(a, b), C3(b, c), C4(c)) =
            SubSeq(<<((C1(a) * 4) % 256) + ((C2(a, b) \div 16) % 4),
                     ((C2(a, b) * 16) % 256) + ((C3(b, c) \div 4) % 16),
                     ((C3(b, c) * 64) % 256) + (C4(c) % 64)>>, 1, 3)
      BY <3>2 DEF decode0
    <3>4. QED
      BY <3>1, <3>3
  <2>2. QED
    BY <1>3, <2>1, FirstOfThree DEF GroupBack, Byte
<1>5. GroupBack(Rest(<<a, b>>)) = <<a, b>>
  <2>1. PICK z \in Nat : z = ((C3(b, 0) * 64) % 256) + (Value(Pad) % 64)
    BY <1>1, <1>2 DEF Value
  <2>2. decode0(C1(a), C2(a, b), C3(b, 0), Pad) = SubSeq(<<a, b, z>>, 1, 2)
    <3>1. /\ ((C1(a) * 4) % 256) + ((C2(a, b) \div 16) % 4) = a
          /\ ((C2(a, b) * 16) % 256) + ((C3(b, 0) \div 4) % 16) = b
      BY <1>1, DecodeByParts
    <3>2. /\ Value(C1(a)) = C1(a) /\ Value(C2(a, b)) = C2(a, b) /\ Value(C3(b, 0)) = C3(b, 0)
          /\ C3(b, 0) # Pad
      BY <1>1, <1>2
    <3>3. decode0(C1(a), C2(a, b), C3(b, 0), Pad) =
            SubSeq(<<((C1(a) * 4) % 256) + ((C2(a, b) \div 16) % 4),
                     ((C2(a, b) * 16) % 256) + ((C3(b, 0) \div 4) % 16), z>>, 1, 2)
      BY <2>1, <3>2 DEF decode0
    <3>4. QED
      BY <3>1, <3>3
  <2>3. QED
    BY <1>3, <2>2, FirstOfThree DEF GroupBack, Byte
<1>6. GroupBack(Rest(<<a>>)) = <<a>>
  <2>1. PICK y \in Nat : y = ((C2(a, 0) * 16) % 256) + ((Value(Pad) \div 4) % 16)
    BY <1>1, <1>2 DEF Value
  <2>2. PICK z \in Nat : z = ((Value(Pad) * 64) % 256) + (Value(Pad) % 64)
    BY DEF Value
  <2>3. decode0(C1(a), C2(a, 0), Pad, Pad) = SubSeq(<<a, y, z>>, 1, 1)
    <3>1. ((C1(a) * 4) % 256) + ((C2(a, 0) \div 16) % 4) = a
      BY <1>1, DecodeByParts
    <3>2. Value(C1(a)) = C1(a) /\ Value(C2(a, 0)) = C2(a, 0)
      BY <1>1, <1>2
    <3>3. decode0(C1(a), C2(a, 0), Pad, Pad) =
            SubSeq(<<((C1(a) * 4) % 256) + ((C2(a, 0) \div 16) % 4), y, z>>, 1, 1)
      BY <2>1, <2>2, <3>2 DEF decode0
    <3>4. QED
      BY <3>1, <3>3
  <2>4. QED
    BY <1>3, <2>3, FirstOfThree DEF GroupBack, Byte
<1>7. QED
  BY <1>2, <1>3, <1>4, <1>5, <1>6

-------------------------------------------------------------------------------
(* The definition by bits, by groups of four characters. *)

\* Bit m of a byte, from the left.
BitOf(a, m) == (a \div 2 ^ (7 - m)) % 2

\* The divisors that cut the bits.
LEMMA Powers ==
  /\ 2 ^ (7 - 0) = 128 /\ 2 ^ (7 - 1) = 64 /\ 2 ^ (7 - 2) = 32 /\ 2 ^ (7 - 3) = 16
  /\ 2 ^ (7 - 4) = 8 /\ 2 ^ (7 - 5) = 4 /\ 2 ^ (7 - 6) = 2 /\ 2 ^ (7 - 7) = 1
OBVIOUS

\* The bits of a byte.
LEMMA BitValues ==
  ASSUME NEW a \in Byte
  PROVE  /\ BitOf(a, 0) = a \div 128 /\ BitOf(a, 1) = (a \div 64) % 2
         /\ BitOf(a, 2) = (a \div 32) % 2 /\ BitOf(a, 3) = (a \div 16) % 2
         /\ BitOf(a, 4) = (a \div 8) % 2 /\ BitOf(a, 5) = (a \div 4) % 2
         /\ BitOf(a, 6) = (a \div 2) % 2 /\ BitOf(a, 7) = a % 2
<1>1. (a \div 128) % 2 = a \div 128 /\ a \div 1 = a
  BY DEF Byte
<1>2. QED
  BY <1>1, Powers DEF BitOf

\* The parts of a byte, by their bits.
LEMMA BitSums ==
  ASSUME NEW a \in Byte
  PROVE  /\ a \div 4 = 32 * BitOf(a, 0) + 16 * BitOf(a, 1) + 8 * BitOf(a, 2)
                       + 4 * BitOf(a, 3) + 2 * BitOf(a, 4) + BitOf(a, 5)
         /\ a % 4 = 2 * BitOf(a, 6) + BitOf(a, 7)
         /\ a \div 16 = 8 * BitOf(a, 0) + 4 * BitOf(a, 1) + 2 * BitOf(a, 2) + BitOf(a, 3)
         /\ a % 16 = 8 * BitOf(a, 4) + 4 * BitOf(a, 5) + 2 * BitOf(a, 6) + BitOf(a, 7)
         /\ a \div 64 = 2 * BitOf(a, 0) + BitOf(a, 1)
         /\ a % 64 = 32 * BitOf(a, 2) + 16 * BitOf(a, 3) + 8 * BitOf(a, 4)
                       + 4 * BitOf(a, 5) + 2 * BitOf(a, 6) + BitOf(a, 7)
<1>1. /\ a \div 4 = 32 * (a \div 128) + 16 * ((a \div 64) % 2) + 8 * ((a \div 32) % 2)
                       + 4 * ((a \div 16) % 2) + 2 * ((a \div 8) % 2) + ((a \div 4) % 2)
  BY DEF Byte
<1>2. a % 4 = 2 * ((a \div 2) % 2) + (a % 2)
  BY DEF Byte
<1>3. a \div 16 = 8 * (a \div 128) + 4 * ((a \div 64) % 2)
                    + 2 * ((a \div 32) % 2) + ((a \div 16) % 2)
  BY DEF Byte
<1>4. a % 16 = 8 * ((a \div 8) % 2) + 4 * ((a \div 4) % 2) + 2 * ((a \div 2) % 2) + (a % 2)
  BY DEF Byte
<1>5. a \div 64 = 2 * (a \div 128) + ((a \div 64) % 2)
  BY DEF Byte
<1>6. a % 64 = 32 * ((a \div 32) % 2) + 16 * ((a \div 16) % 2) + 8 * ((a \div 8) % 2)
                + 4 * ((a \div 4) % 2) + 2 * ((a \div 2) % 2) + (a % 2)
  BY DEF Byte
<1>7. QED
  BY <1>1, <1>2, <1>3, <1>4, <1>5, <1>6, BitValues

\* Bits are numbers.
LEMMA BitTypes ==
  ASSUME NEW a \in Byte
  PROVE  /\ BitOf(a, 0) \in Nat /\ BitOf(a, 1) \in Nat /\ BitOf(a, 2) \in Nat
         /\ BitOf(a, 3) \in Nat /\ BitOf(a, 4) \in Nat /\ BitOf(a, 5) \in Nat
         /\ BitOf(a, 6) \in Nat /\ BitOf(a, 7) \in Nat
BY DEF BitOf, Byte

\* The bits behind the end of the data.
LEMMA ZeroBits ==
  /\ BitOf(0, 0) = 0 /\ BitOf(0, 1) = 0 /\ BitOf(0, 2) = 0 /\ BitOf(0, 3) = 0
  /\ BitOf(0, 4) = 0 /\ BitOf(0, 5) = 0 /\ BitOf(0, 6) = 0 /\ BitOf(0, 7) = 0
BY DEF BitOf

\* The byte i of s, or 0 behind its end.
ByteAt(s, i) == IF i <= Len(s) THEN s[i] ELSE 0

\* It is a byte in either case.
LEMMA ByteAtType ==
  ASSUME NEW s \in Seq(Byte), NEW i \in Nat \ {0}
  PROVE  ByteAt(s, i) \in Byte
<1>1. Len(s) \in Nat /\ \A j \in 1 .. Len(s) : s[j] \in Byte
  BY LenProperties
<1>2. QED
  BY <1>1 DEF ByteAt, Byte

\* A bit of the whole text is one of a byte.
LEMMA BitIs ==
  ASSUME NEW s \in Seq(Byte), NEW i \in Nat, NEW m \in 0 .. 7
  PROVE  Bit(s, 8 * i + m) = BitOf(ByteAt(s, i + 1), m)
<1>1. Len(s) \in Nat
  BY LenProperties
<1>2. (8 * i + m) \div 8 = i /\ (8 * i + m) % 8 = m
  OBVIOUS
<1>3. 8 * i + m < 8 * Len(s) <=> i + 1 <= Len(s)
  BY <1>1
<1>4. BitOf(0, m) = 0
  <2>1. m = 0 \/ m = 1 \/ m = 2 \/ m = 3 \/ m = 4 \/ m = 5 \/ m = 6 \/ m = 7
    OBVIOUS
  <2>2. QED
    BY <2>1, ZeroBits
<1>5. QED
  BY <1>2, <1>3, <1>4 DEF Bit, BitOf, ByteAt

\* The sum that makes character j.
SixBits(s, j) ==
  32 * Bit(s, 6 * (j - 1) + 0) + 16 * Bit(s, 6 * (j - 1) + 1) + 8 * Bit(s, 6 * (j - 1) + 2)
  + 4 * Bit(s, 6 * (j - 1) + 3) + 2 * Bit(s, 6 * (j - 1) + 4) + Bit(s, 6 * (j - 1) + 5)

\* Twenty-four bits are four characters by bits, and three bytes by parts.
LEMMA SixBitsIs ==
  ASSUME NEW s \in Seq(Byte), NEW k \in Nat
  PROVE  LET a == ByteAt(s, 3 * k + 1)
             b == ByteAt(s, 3 * k + 2)
             c == ByteAt(s, 3 * k + 3)
         IN  /\ SixBits(s, 4 * k + 1) = C1(a)
             /\ SixBits(s, 4 * k + 2) = C2(a, b)
             /\ SixBits(s, 4 * k + 3) = C3(b, c)
             /\ SixBits(s, 4 * k + 4) = C4(c)
<1> DEFINE a == ByteAt(s, 3 * k + 1)
           b == ByteAt(s, 3 * k + 2)
           c == ByteAt(s, 3 * k + 3)
<1>1. a \in Byte /\ b \in Byte /\ c \in Byte
  BY ByteAtType
<1>2. \A m \in 0 .. 7 : /\ Bit(s, 8 * (3 * k) + m) = BitOf(a, m)
                        /\ Bit(s, 8 * (3 * k + 1) + m) = BitOf(b, m)
                        /\ Bit(s, 8 * (3 * k + 2) + m) = BitOf(c, m)
  <2>1. ASSUME NEW i \in Nat
        PROVE  \A m \in 0 .. 7 : Bit(s, 8 * i + m) = BitOf(ByteAt(s, i + 1), m)
    BY BitIs
  <2>2. 3 * k \in Nat /\ 3 * k + 1 \in Nat /\ 3 * k + 2 \in Nat
        /\ (3 * k + 1) + 1 = 3 * k + 2 /\ (3 * k + 2) + 1 = 3 * k + 3
    OBVIOUS
  <2>3. \A m \in 0 .. 7 : Bit(s, 8 * (3 * k) + m) = BitOf(a, m)
    BY <2>1, <2>2
  <2>4. \A m \in 0 .. 7 : Bit(s, 8 * (3 * k + 1) + m) = BitOf(b, m)
    BY <2>1, <2>2
  <2>5. \A m \in 0 .. 7 : Bit(s, 8 * (3 * k + 2) + m) = BitOf(c, m)
    BY <2>1, <2>2
  <2>6. QED
    BY <2>3, <2>4, <2>5
<1> HIDE DEF a, b, c
<1>3. SixBits(s, 4 * k + 1) = C1(a)
  <2>1. /\ 6 * ((4 * k + 1) - 1) + 0 = 8 * (3 * k) + 0
        /\ 6 * ((4 * k + 1) - 1) + 1 = 8 * (3 * k) + 1
        /\ 6 * ((4 * k + 1) - 1) + 2 = 8 * (3 * k) + 2
        /\ 6 * ((4 * k + 1) - 1) + 3 = 8 * (3 * k) + 3
        /\ 6 * ((4 * k + 1) - 1) + 4 = 8 * (3 * k) + 4
        /\ 6 * ((4 * k + 1) - 1) + 5 = 8 * (3 * k) + 5
    OBVIOUS
  <2>2. SixBits(s, 4 * k + 1) = 32 * BitOf(a, 0) + 16 * BitOf(a, 1) + 8 * BitOf(a, 2)
                       + 4 * BitOf(a, 3) + 2 * BitOf(a, 4) + BitOf(a, 5)
    BY <1>2, <2>1 DEF SixBits
  <2>3. QED
    BY <1>1, <2>2, BitSums DEF C1
<1>4. SixBits(s, 4 * k + 2) = C2(a, b)
  <2>1. /\ 6 * ((4 * k + 2) - 1) + 0 = 8 * (3 * k) + 6
        /\ 6 * ((4 * k + 2) - 1) + 1 = 8 * (3 * k) + 7
        /\ 6 * ((4 * k + 2) - 1) + 2 = 8 * (3 * k + 1) + 0
        /\ 6 * ((4 * k + 2) - 1) + 3 = 8 * (3 * k + 1) + 1
        /\ 6 * ((4 * k + 2) - 1) + 4 = 8 * (3 * k + 1) + 2
        /\ 6 * ((4 * k + 2) - 1) + 5 = 8 * (3 * k + 1) + 3
    OBVIOUS
  <2>2. SixBits(s, 4 * k + 2) = 32 * BitOf(a, 6) + 16 * BitOf(a, 7) + 8 * BitOf(b, 0)
                       + 4 * BitOf(b, 1) + 2 * BitOf(b, 2) + BitOf(b, 3)
    BY <1>2, <2>1 DEF SixBits
  <2>3. /\ a % 4 = 2 * BitOf(a, 6) + BitOf(a, 7)
        /\ b \div 16 = 8 * BitOf(b, 0) + 4 * BitOf(b, 1) + 2 * BitOf(b, 2) + BitOf(b, 3)
    BY <1>1, BitSums
  <2>4. PICK u \in Nat, v \in Nat, w \in Nat, x \in Nat, y \in Nat, z \in Nat :
          u = BitOf(a, 6) /\ v = BitOf(a, 7) /\ w = BitOf(b, 0) /\
          x = BitOf(b, 1) /\ y = BitOf(b, 2) /\ z = BitOf(b, 3)
    BY <1>1, BitTypes
  <2>5. C2(a, b) = 16 * (2 * u + v) + (8 * w + 4 * x + 2 * y + z)
    BY <2>3, <2>4 DEF C2
  <2>6. SixBits(s, 4 * k + 2) = 32 * u + 16 * v + 8 * w + 4 * x + 2 * y + z
    BY <2>2, <2>4
  <2>7. 32 * u + 16 * v + 8 * w + 4 * x + 2 * y + z
          = 16 * (2 * u + v) + (8 * w + 4 * x + 2 * y + z)
    OBVIOUS
  <2>8. QED
    BY <2>5, <2>6, <2>7
<1>5. SixBits(s, 4 * k + 3) = C3(b, c)
  <2>1. /\ 6 * ((4 * k + 3) - 1) + 0 = 8 * (3 * k + 1) + 4
        /\ 6 * ((4 * k + 3) - 1) + 1 = 8 * (3 * k + 1) + 5
        /\ 6 * ((4 * k + 3) - 1) + 2 = 8 * (3 * k + 1) + 6
        /\ 6 * ((4 * k + 3) - 1) + 3 = 8 * (3 * k + 1) + 7
        /\ 6 * ((4 * k + 3) - 1) + 4 = 8 * (3 * k + 2) + 0
        /\ 6 * ((4 * k + 3) - 1) + 5 = 8 * (3 * k + 2) + 1
    OBVIOUS
  <2>2. SixBits(s, 4 * k + 3) = 32 * BitOf(b, 4) + 16 * BitOf(b, 5) + 8 * BitOf(b, 6)
                       + 4 * BitOf(b, 7) + 2 * BitOf(c, 0) + BitOf(c, 1)
    BY <1>2, <2>1 DEF SixBits
  <2>3. /\ b % 16 = 8 * BitOf(b, 4) + 4 * BitOf(b, 5) + 2 * BitOf(b, 6) + BitOf(b, 7)
        /\ c \div 64 = 2 * BitOf(c, 0) + BitOf(c, 1)
    BY <1>1, BitSums
  <2>4. PICK u \in Nat, v \in Nat, w \in Nat, x \in Nat, y \in Nat, z \in Nat :
          u = BitOf(b, 4) /\ v = BitOf(b, 5) /\ w = BitOf(b, 6) /\
          x = BitOf(b, 7) /\ y = BitOf(c, 0) /\ z = BitOf(c, 1)
    BY <1>1, BitTypes
  <2>5. C3(b, c) = 4 * (8 * u + 4 * v + 2 * w + x) + (2 * y + z)
    BY <2>3, <2>4 DEF C3
  <2>6. SixBits(s, 4 * k + 3) = 32 * u + 16 * v + 8 * w + 4 * x + 2 * y + z
    BY <2>2, <2>4
  <2>7. 32 * u + 16 * v + 8 * w + 4 * x + 2 * y + z
          = 4 * (8 * u + 4 * v + 2 * w + x) + (2 * y + z)
    OBVIOUS
  <2>8. QED
    BY <2>5, <2>6, <2>7
<1>6. SixBits(s, 4 * k + 4) = C4(c)
  <2>1. /\ 6 * ((4 * k + 4) - 1) + 0 = 8 * (3 * k + 2) + 2
        /\ 6 * ((4 * k + 4) - 1) + 1 = 8 * (3 * k + 2) + 3
        /\ 6 * ((4 * k + 4) - 1) + 2 = 8 * (3 * k + 2) + 4
        /\ 6 * ((4 * k + 4) - 1) + 3 = 8 * (3 * k + 2) + 5
        /\ 6 * ((4 * k + 4) - 1) + 4 = 8 * (3 * k + 2) + 6
        /\ 6 * ((4 * k + 4) - 1) + 5 = 8 * (3 * k + 2) + 7
    OBVIOUS
  <2>2. SixBits(s, 4 * k + 4) = 32 * BitOf(c, 2) + 16 * BitOf(c, 3) + 8 * BitOf(c, 4)
                       + 4 * BitOf(c, 5) + 2 * BitOf(c, 6) + BitOf(c, 7)
    BY <1>2, <2>1 DEF SixBits
  <2>3. QED
    BY <1>1, <2>2, BitSums DEF C4
<1>7. QED
  BY <1>3, <1>4, <1>5, <1>6 DEF a, b, c

\* The characters of the reference, by groups of four.
Char4(s, k) ==
  <<C1(ByteAt(s, 3 * k + 1)), C2(ByteAt(s, 3 * k + 1), ByteAt(s, 3 * k + 2)),
    IF Len(s) < 3 * k + 2 THEN Pad ELSE C3(ByteAt(s, 3 * k + 2), ByteAt(s, 3 * k + 3)),
    IF Len(s) < 3 * k + 3 THEN Pad ELSE C4(ByteAt(s, 3 * k + 3))>>
Groups(s) == (Len(s) + 2) \div 3

\* The reference is made of such groups.
LEMMA ReferenceByGroups ==
  ASSUME NEW s \in Seq(Byte), NEW k \in Nat, k < Groups(s)
  PROVE  /\ 4 * k + 1 \in DOMAIN Reference(s) /\ 4 * k + 4 \in DOMAIN Reference(s)
         /\ Char4(s, k) = <<Reference(s)[4 * k + 1], Reference(s)[4 * k + 2],
                            Reference(s)[4 * k + 3], Reference(s)[4 * k + 4]>>
<1>1. Len(s) \in Nat /\ 3 * k + 1 <= Len(s) /\ Groups(s) \in Nat
  BY LenProperties DEF Groups
<1>2. \A j \in 1 .. 4 * Groups(s) :
        Reference(s)[j] = IF 6 * (j - 1) >= 8 * Len(s) THEN Pad ELSE SixBits(s, j)
  BY DEF Reference, SixBits, Groups
<1>3. DOMAIN Reference(s) = 1 .. 4 * Groups(s)
  BY DEF Reference, Groups
<1>4. 4 * k + 1 \in 1 .. 4 * Groups(s) /\ 4 * k + 2 \in 1 .. 4 * Groups(s)
      /\ 4 * k + 3 \in 1 .. 4 * Groups(s) /\ 4 * k + 4 \in 1 .. 4 * Groups(s)
  BY <1>1
<1>5. /\ 6 * ((4 * k + 1) - 1) < 8 * Len(s)
      /\ 6 * ((4 * k + 2) - 1) < 8 * Len(s)
      /\ 6 * ((4 * k + 3) - 1) >= 8 * Len(s) <=> Len(s) < 3 * k + 2
      /\ 6 * ((4 * k + 4) - 1) >= 8 * Len(s) <=> Len(s) < 3 * k + 3
  BY <1>1
<1>6. /\ Reference(s)[4 * k + 1] = SixBits(s, 4 * k + 1)
      /\ Reference(s)[4 * k + 2] = SixBits(s, 4 * k + 2)
      /\ Reference(s)[4 * k + 3] = IF Len(s) < 3 * k + 2 THEN Pad ELSE SixBits(s, 4 * k + 3)
      /\ Reference(s)[4 * k + 4] = IF Len(s) < 3 * k + 3 THEN Pad ELSE SixBits(s, 4 * k + 4)
  <2>1. ~(6 * ((4 * k + 1) - 1) >= 8 * Len(s)) /\ ~(6 * ((4 * k + 2) - 1) >= 8 * Len(s))
    BY <1>1, <1>5
  <2>2. QED
    BY <1>2, <1>4, <1>5, <2>1
<1>7. QED
  BY <1>3, <1>4, <1>6, SixBitsIs DEF Char4

\* Nothing in it is skipped.
LEMMA ReferenceType ==
  ASSUME NEW s \in Seq(Byte)
  PROVE  /\ Reference(s) \in Seq(Symbol)
         /\ Len(Reference(s)) = 4 * Groups(s)
         /\ Groups(s) \in Nat
<1>1. Groups(s) \in Nat /\ 4 * Groups(s) \in Nat
  BY LenProperties DEF Groups
<1>2. DOMAIN Reference(s) = 1 .. 4 * Groups(s)
  BY DEF Reference, Groups
<1>3. ASSUME NEW j \in 1 .. 4 * Groups(s) PROVE Reference(s)[j] \in Symbol
  <2>1. PICK k \in Nat, i \in 1 .. 4 : j = 4 * k + i /\ k < Groups(s)
    <3>1. (j - 1) \div 4 \in Nat /\ ((j - 1) % 4) + 1 \in 1 .. 4
          /\ j = 4 * ((j - 1) \div 4) + (((j - 1) % 4) + 1) /\ (j - 1) \div 4 < Groups(s)
      BY <1>1
    <3>2. QED
      BY <3>1
  <2>2. Char4(s, k) = <<Reference(s)[4 * k + 1], Reference(s)[4 * k + 2],
                            Reference(s)[4 * k + 3], Reference(s)[4 * k + 4]>>
    BY <2>1, ReferenceByGroups
  <2>3. Char4(s, k) \in Symbol \X Symbol \X Symbol \X Symbol
    <3>1. /\ ByteAt(s, 3 * k + 1) \in Byte /\ ByteAt(s, 3 * k + 2) \in Byte
          /\ ByteAt(s, 3 * k + 3) \in Byte
      BY ByteAtType
    <3>2. /\ C1(ByteAt(s, 3 * k + 1)) \in Char
          /\ C2(ByteAt(s, 3 * k + 1), ByteAt(s, 3 * k + 2)) \in Char
          /\ C3(ByteAt(s, 3 * k + 2), ByteAt(s, 3 * k + 3)) \in Char
          /\ C4(ByteAt(s, 3 * k + 3)) \in Char
      BY <3>1, CharTypes
    <3>3. \A ch \in Char : ch \in Symbol
      BY DEF Char, Symbol, Pad
    <3>4. Pad \in Symbol
      BY DEF Symbol, Pad
    <3>5. QED
      BY <3>2, <3>3, <3>4 DEF Char4
  <2>4. /\ Reference(s)[4 * k + 1] \in Symbol /\ Reference(s)[4 * k + 2] \in Symbol
        /\ Reference(s)[4 * k + 3] \in Symbol /\ Reference(s)[4 * k + 4] \in Symbol
    BY <2>2, <2>3
  <2>5. i = 1 \/ i = 2 \/ i = 3 \/ i = 4
    OBVIOUS
  <2>6. QED
    BY <2>1, <2>4, <2>5
<1>4. Reference(s) \in [1 .. 4 * Groups(s) -> Symbol]
  <2>1. Reference(s) = [j \in 1 .. 4 * Groups(s) |-> Reference(s)[j]]
    BY <1>2 DEF Reference
  <2>2. QED
    BY <1>3, <2>1
<1>5. QED
  BY <1>1, <1>4, IsASeq

-------------------------------------------------------------------------------
(* Sequences put together of parts. *)

\* A set of numbers that holds 0, and the successor of each of its numbers, holds all.
LEMMA SetInduction ==
  ASSUME NEW S, 0 \in S, \A n \in Nat : n \in S => n + 1 \in S
  PROVE  Nat \subseteq S
<1> DEFINE Lt == OpToRel(<, Nat)
<1> DEFINE T == Nat \ S
<1>1. \A m, n \in Nat : <<m, n>> \in Lt <=> m < n
  BY DEF OpToRel
<1>2. SUFFICES ASSUME T # {} PROVE FALSE
  OBVIOUS
<1> HIDE DEF Lt
<1>3. IsWellFoundedOn(Lt, Nat)
  BY NatLessThanWellFounded DEF Lt
<1>4. PICK x \in T : \A y \in T : ~(<<y, x>> \in Lt)
  BY <1>2, <1>3, WFMin
<1>5. x # 0 /\ x - 1 \in Nat
  OBVIOUS
<1>6. x - 1 \in S
  <2>1. <<x - 1, x>> \in Lt
    BY <1>1, <1>5
  <2>2. x - 1 \notin T
    BY <1>4, <2>1
  <2>3. QED
    BY <1>5, <2>2
<1>7. QED
  BY <1>5, <1>6

\* G[i] is the concatenation of the first i of the sequences.
Parts(G, s, n) == G[0] = <<>> /\ \A i \in 1 .. n : G[i] = G[i - 1] \o s[i]

\* FlattenSeq is what such partial concatenations end in.
LEMMA FlattenIs ==
  ASSUME NEW C, NEW n \in Nat, NEW s \in [1 .. n -> Seq(C)], NEW G, Parts(G, s, n)
  PROVE  FlattenSeq(s) = G[n]
<1> USE DEF Parts
<1>1. s \in Seq(Seq(C)) /\ Len(s) = n
  BY IsASeq
<1>2. CASE n = 0
  <2>1. s = <<>>
    BY <1>1, <1>2, EmptySeq
  <2>2. QED
    BY <1>1, <1>2, <2>1 DEF FlattenSeq
<1>3. CASE n > 0
  <2> DEFINE Step(f, i) == IF i = 1 THEN s[i] ELSE f[i - 1] \o s[i]
             Solves(f) == f = [i \in 1 .. n |-> Step(f, i)]
  <2>1. G[1] = s[1]
    <3>1. 1 \in 1 .. n /\ s[1] \in Seq(C) /\ 1 - 1 = 0
      BY <1>3
    <3>2. G[1] = <<>> \o s[1]
      BY <3>1
    <3>3. QED
      BY <3>1, <3>2, ConcatEmptySeq
  <2>2. Solves([i \in 1 .. n |-> G[i]])
    <3> DEFINE g == [i \in 1 .. n |-> G[i]]
    <3>1. ASSUME NEW i \in 1 .. n PROVE G[i] = Step(g, i)
      <4>1. CASE i = 1
        BY <2>1, <4>1
      <4>2. CASE i # 1
        <5>1. i - 1 \in 1 .. n
          BY <4>2
        <5>2. QED
          BY <4>2, <5>1
      <4>3. QED
        BY <4>1, <4>2
    <3>2. g = [i \in 1 .. n |-> Step(g, i)]
      BY <3>1
    <3>3. QED
      BY <3>2
  <2>3. PICK f : f = (CHOOSE g : Solves(g)) /\ Solves(f)
    BY <2>2
  <2>4. \A i \in 1 .. n : f[i] = Step(f, i)
    BY <2>3
  <2>5. FlattenSeq(s) = f[n]
    BY <1>1, <1>3, <2>3 DEF FlattenSeq
  <2> DEFINE Same == {m \in Nat : m + 1 \in 1 .. n => f[m + 1] = G[m + 1]}
  <2>6. 0 \in Same
    BY <2>1, <2>4, <1>3
  <2>7. \A m \in Nat : m \in Same => m + 1 \in Same
    <3> SUFFICES ASSUME NEW m \in Nat, m \in Same, m + 2 \in 1 .. n
                 PROVE  f[m + 2] = G[m + 2]
      OBVIOUS
    <3>1. m + 2 # 1 /\ (m + 2) - 1 = m + 1 /\ m + 1 \in 1 .. n
      OBVIOUS
    <3>2. f[m + 2] = f[m + 1] \o s[m + 2]
      BY <2>4, <3>1
    <3>3. G[m + 2] = G[m + 1] \o s[m + 2]
      BY <3>1
    <3>4. QED
      BY <3>1, <3>2, <3>3
  <2>8. Nat \subseteq Same
    <3> HIDE DEF Same
    <3> QED
      BY <2>6, <2>7, SetInduction
  <2>9. n - 1 \in Same
    <3> HIDE DEF Same
    <3>1. n - 1 \in Nat
      BY <1>3
    <3>2. QED
      BY <2>8, <3>1
  <2>10. f[n] = G[n]
    BY <1>3, <2>9
  <2>11. QED
    BY <2>5, <2>10
<1>4. QED
  BY <1>2, <1>3

\* A concatenation is built up part by part.
LEMMA FlattenHasParts ==
  ASSUME NEW C, NEW n \in Nat, NEW s \in [1 .. n -> Seq(C)]
  PROVE  \E G \in [0 .. n -> Seq(C)] : Parts(G, s, n)
<1> DEFINE Has(G, m) == G \in [0 .. m -> Seq(C)] /\ Parts(G, s, m)
           Built == {m \in Nat : m <= n => \E G : Has(G, m)}
<1> USE DEF Parts
<1>1. 0 \in Built
  <2>1. Has([i \in 0 .. 0 |-> <<>>], 0)
    BY EmptySeq
  <2>2. QED
    BY <2>1
<1>2. \A m \in Nat : m \in Built => m + 1 \in Built
  <2> SUFFICES ASSUME NEW m \in Nat, m <= n => \E G : Has(G, m), m + 1 <= n
               PROVE  \E G : Has(G, m + 1)
    <3> HIDE DEF Has
    <3> QED
      OBVIOUS
  <2>1. PICK G : Has(G, m)
    <3> HIDE DEF Has
    <3> QED
      OBVIOUS
  <2> DEFINE H == [i \in 0 .. m + 1 |-> IF i = m + 1 THEN G[m] \o s[m + 1] ELSE G[i]]
  <2>2. G[m] \o s[m + 1] \in Seq(C)
    <3>1. G[m] \in Seq(C) /\ s[m + 1] \in Seq(C)
      BY <2>1
    <3>2. QED
      BY <3>1, ConcatProperties
  <2>3. H \in [0 .. m + 1 -> Seq(C)] /\ H[0] = <<>>
    BY <2>1, <2>2
  <2>4. ASSUME NEW i \in 1 .. m + 1 PROVE H[i] = H[i - 1] \o s[i]
    <3>1. CASE i = m + 1
      <4>1. i - 1 = m /\ m \in 0 .. m + 1 /\ i \in 0 .. m + 1 /\ m # m + 1
        BY <3>1
      <4>2. H[i] = G[m] \o s[m + 1] /\ H[i - 1] = G[m]
        BY <3>1, <4>1
      <4>3. QED
        BY <3>1, <4>2
    <3>2. CASE i # m + 1
      <4>1. /\ i \in 1 .. m /\ i - 1 \in 0 .. m /\ i - 1 # m + 1
            /\ i \in 0 .. m + 1 /\ i - 1 \in 0 .. m + 1
        BY <3>2
      <4>2. H[i] = G[i] /\ H[i - 1] = G[i - 1]
        BY <4>1
      <4>3. QED
        BY <2>1, <4>1, <4>2
    <3>3. QED
      BY <3>1, <3>2
  <2>5. QED
    BY <2>3, <2>4
<1>3. n \in Built
  <2> HIDE DEF Built
  <2> QED
    BY <1>1, <1>2, SetInduction
<1>4. PICK G : Has(G, n)
  <2> HIDE DEF Has
  <2> QED
    BY <1>3
<1>5. QED
  BY <1>4

\* The parts of g elements each of which a sequence is made up, the last one shorter.
Slices(s, t, g, n) ==
  /\ s = [i \in 1 .. n |-> s[i]]
  /\ \A i \in 1 .. n : s[i] = SubSeq(t, g * (i - 1) + 1,
                                   IF g * i <= Len(t) THEN g * i ELSE Len(t))
  /\ g * n <= Len(t) + g - 1

\* A sequence taken apart and put together again.
LEMMA FlattenParts ==
  ASSUME NEW C, NEW t \in Seq(C), NEW n \in Nat, NEW s \in [1 .. n -> Seq(C)],
         NEW g \in {1, 3, 4}, Slices(s, t, g, n)
  PROVE  FlattenSeq(s) = SubSeq(t, 1, IF g * n <= Len(t) THEN g * n ELSE Len(t))
<1>0. /\ g * n <= Len(t) + g - 1
      /\ \A i \in 1 .. n : s[i] = SubSeq(t, g * (i - 1) + 1,
                                       IF g * i <= Len(t) THEN g * i ELSE Len(t))
  BY DEF Slices
<1> DEFINE Upto(i) == IF g * i <= Len(t) THEN g * i ELSE Len(t)
           G == [i \in 0 .. n |-> SubSeq(t, 1, Upto(i))]
<1>1. Len(t) \in Nat /\ Upto(0) = 0
  BY LenProperties
<1>2. G[0] = <<>>
  BY <1>1, SubSeqEmpty
<1>3. ASSUME NEW i \in 1 .. n PROVE G[i] = G[i - 1] \o s[i]
  <2>1. /\ Upto(i - 1) = g * (i - 1) /\ Upto(i - 1) <= Upto(i) /\ Upto(i) <= Len(t)
        /\ Upto(i) \in Nat /\ Upto(i - 1) \in Nat
    BY <1>0, <1>1
  <2>2. s[i] = SubSeq(t, Upto(i - 1) + 1, Upto(i))
    BY <1>0, <2>1
  <2> HIDE DEF Upto
  <2>3. SubSeq(t, 1, Upto(i - 1)) \o SubSeq(t, Upto(i - 1) + 1, Upto(i)) = SubSeq(t, 1, Upto(i))
    <3> HIDE DEF G
    <3>1. 1 \in 1 .. Len(t) + 1 /\ Upto(i - 1) \in 1 - 1 .. Len(t)
          /\ Upto(i) \in Upto(i - 1) .. Len(t)
      BY <1>1, <2>1
    <3>2. QED
      BY <3>1, ConcatAdjacentSubSeq
  <2>4. G[i] = SubSeq(t, 1, Upto(i)) /\ G[i - 1] = SubSeq(t, 1, Upto(i - 1))
    <3>1. i \in 0 .. n /\ i - 1 \in 0 .. n
      OBVIOUS
    <3>2. QED
      BY <3>1
  <2> HIDE DEF G
  <2>5. QED
    BY <2>2, <2>3, <2>4
<1>4. Parts(G, s, n)
  <2> HIDE DEF G
  <2> QED
    BY <1>2, <1>3 DEF Parts
<1>5. FlattenSeq(s) = G[n]
  <2> HIDE DEF G
  <2> QED
    BY <1>4, FlattenIs
<1>6. QED
  BY <1>5

\* The same without a type for the parts.
LEMMA FlattenSlices ==
  ASSUME NEW C, NEW t \in Seq(C), NEW n \in Nat, NEW s, NEW g \in {1, 3, 4},
         Slices(s, t, g, n)
  PROVE  FlattenSeq(s) = SubSeq(t, 1, IF g * n <= Len(t) THEN g * n ELSE Len(t))
<1>1. ASSUME NEW i \in 1 .. n PROVE s[i] \in Seq(C)
  <2>1. Len(t) \in Nat /\ \A j \in 1 .. Len(t) : t[j] \in C
    BY LenProperties
  <2>2. g * (i - 1) + 1 \in Nat \ {0} /\ g * i \in Nat
    OBVIOUS
  <2>3. PICK a \in Nat \ {0}, b \in Nat :
          /\ a = g * (i - 1) + 1 /\ b = (IF g * i <= Len(t) THEN g * i ELSE Len(t))
    BY <2>1, <2>2
  <2>4. s[i] = SubSeq(t, a, b)
    BY <2>3 DEF Slices
  <2>5. \A j \in a .. b : t[j] \in C
    <3>1. b <= Len(t)
      BY <2>1, <2>2, <2>3
    <3>2. QED
      BY <2>1, <3>1
  <2>6. SubSeq(t, a, b) \in Seq(C)
    BY <2>5, SubSeqProperties
  <2>7. QED
    BY <2>4, <2>6
<1>2. s = [i \in 1 .. n |-> s[i]]
  BY DEF Slices
<1>3. s \in [1 .. n -> Seq(C)]
  BY <1>1, <1>2
<1>4. QED
  BY <1>3, FlattenParts

\* A part of a sequence, by its elements.
LEMMA SliceIs ==
  ASSUME NEW C, NEW t \in Seq(C), NEW u \in Seq(C), NEW j \in Nat, NEW m \in Nat,
         m = Len(u), j + m <= Len(t), \A i \in 1 .. m : t[j + i] = u[i]
  PROVE  SubSeq(t, j + 1, j + m) = u
<1>1. Len(t) \in Nat /\ \A i \in 1 .. Len(t) : t[i] \in C
  BY LenProperties
<1>2. PICK a \in Nat, b \in Nat : a = j + 1 /\ b = j + m
  OBVIOUS
<1>3. \A i \in a .. b : t[i] \in C
  BY <1>1, <1>2
<1>4. b - a + 1 = m /\ (a <= b \/ m = 0)
  BY <1>2
<1>5. PICK v : v = SubSeq(t, a, b)
  OBVIOUS
<1>6. v \in Seq(C) /\ Len(v) = m /\ \A i \in 1 .. m : v[i] = t[a + i - 1]
  BY <1>3, <1>4, <1>5, SubSeqProperties
<1>7. \A i \in 1 .. m : v[i] = u[i]
  BY <1>2, <1>6
<1>8. v = u
  BY <1>6, <1>7, SeqEqual
<1>9. QED
  BY <1>2, <1>5, <1>8

\* Groups of four, three, two and one.
LEMMA SmallSlices ==
  ASSUME NEW C, NEW t \in Seq(C), NEW j \in Nat
  PROVE  /\ j + 1 <= Len(t) => SubSeq(t, j + 1, j + 1) = <<t[j + 1]>>
         /\ j + 2 <= Len(t) => SubSeq(t, j + 1, j + 2) = <<t[j + 1], t[j + 2]>>
         /\ j + 3 <= Len(t) => SubSeq(t, j + 1, j + 3) = <<t[j + 1], t[j + 2], t[j + 3]>>
         /\ j + 4 <= Len(t) => SubSeq(t, j + 1, j + 4)
                                 = <<t[j + 1], t[j + 2], t[j + 3], t[j + 4]>>
<1>1. Len(t) \in Nat /\ \A i \in 1 .. Len(t) : t[i] \in C
  BY LenProperties
<1>2. /\ j + 1 <= Len(t) => t[j + 1] \in C
      /\ j + 2 <= Len(t) => t[j + 2] \in C
      /\ j + 3 <= Len(t) => t[j + 3] \in C
      /\ j + 4 <= Len(t) => t[j + 4] \in C
  BY <1>1
<1>3. \A x, y, z, w \in C :
        /\ <<x>> \in Seq(C) /\ <<x, y>> \in Seq(C) /\ <<x, y, z>> \in Seq(C)
        /\ <<x, y, z, w>> \in Seq(C)
  OBVIOUS
<1>4. CASE j + 1 > Len(t)
  BY <1>1, <1>4
<1>5. ASSUME j + 1 <= Len(t) PROVE SubSeq(t, j + 1, j + 1) = <<t[j + 1]>>
  <2>1. t[j + 1] \in C
    BY <1>1, <1>5
  <2>2. PICK u \in Seq(C) : u = <<t[j + 1]>>
    BY <1>3, <2>1
  <2>3. 1 = Len(u) /\ \A i \in 1 .. 1 : t[j + i] = u[i]
    BY <2>2
  <2>4. SubSeq(t, j + 1, j + 1) = u
    BY <1>5, <2>3, SliceIs
  <2>5. QED
    BY <2>2, <2>4
<1>6. ASSUME j + 2 <= Len(t) PROVE SubSeq(t, j + 1, j + 2) = <<t[j + 1], t[j + 2]>>
  <2>1. t[j + 1] \in C /\ t[j + 2] \in C
    BY <1>1, <1>6
  <2>2. PICK u \in Seq(C) : u = <<t[j + 1], t[j + 2]>>
    BY <1>3, <2>1
  <2>3. 2 = Len(u) /\ \A i \in 1 .. 2 : t[j + i] = u[i]
    BY <2>2
  <2>4. SubSeq(t, j + 1, j + 2) = u
    BY <1>6, <2>3, SliceIs
  <2>5. QED
    BY <2>2, <2>4
<1>7. ASSUME j + 3 <= Len(t)
      PROVE  SubSeq(t, j + 1, j + 3) = <<t[j + 1], t[j + 2], t[j + 3]>>
  <2>1. t[j + 1] \in C /\ t[j + 2] \in C /\ t[j + 3] \in C
    BY <1>1, <1>7
  <2>2. PICK u \in Seq(C) : u = <<t[j + 1], t[j + 2], t[j + 3]>>
    BY <1>3, <2>1
  <2>3. 3 = Len(u) /\ \A i \in 1 .. 3 : t[j + i] = u[i]
    BY <2>2
  <2>4. SubSeq(t, j + 1, j + 3) = u
    BY <1>7, <2>3, SliceIs
  <2>5. QED
    BY <2>2, <2>4
<1>8. ASSUME j + 4 <= Len(t)
      PROVE  SubSeq(t, j + 1, j + 4) = <<t[j + 1], t[j + 2], t[j + 3], t[j + 4]>>
  <2>1. t[j + 1] \in C /\ t[j + 2] \in C /\ t[j + 3] \in C /\ t[j + 4] \in C
    BY <1>1, <1>8
  <2>2. PICK u \in Seq(C) : u = <<t[j + 1], t[j + 2], t[j + 3], t[j + 4]>>
    BY <1>3, <2>1
  <2>3. 4 = Len(u) /\ \A i \in 1 .. 4 : t[j + i] = u[i]
    BY <2>2
  <2>4. SubSeq(t, j + 1, j + 4) = u
    BY <1>8, <2>3, SliceIs
  <2>5. QED
    BY <2>2, <2>4
<1>9. QED
  BY <1>5, <1>6, <1>7, <1>8

\* The elements of a sequence with one put in.
LEMMA Inserted ==
  ASSUME NEW C, NEW t \in Seq(C), NEW e \in C, NEW i \in 1 .. Len(t) + 1
  PROVE  /\ InsertAt(t, i, e) \in Seq(C)
         /\ Len(InsertAt(t, i, e)) = Len(t) + 1
         /\ \A k \in 1 .. Len(t) + 1 :
              InsertAt(t, i, e)[k] = IF k < i THEN t[k] ELSE IF k = i THEN e ELSE t[k - 1]
<1>1. PICK n \in Nat : n = Len(t) /\ \A k \in 1 .. n : t[k] \in C
  BY LenProperties
<1>2. i \in Nat /\ i >= 1 /\ i <= n + 1
  BY <1>1
<1>3. PICK a : a = SubSeq(t, 1, i - 1)
  OBVIOUS
<1>4. PICK b : b = SubSeq(t, i, n)
  OBVIOUS
<1>5. a \in Seq(C) /\ Len(a) = i - 1 /\ \A k \in 1 .. i - 1 : a[k] = t[k]
  <2>1. \A k \in 1 .. i - 1 : t[k] \in C
    BY <1>1, <1>2
  <2>2. /\ i - 1 \in Int /\ (IF 1 <= i - 1 THEN (i - 1) - 1 + 1 ELSE 0) = i - 1
        /\ (i - 1) - 1 + 1 = i - 1 /\ \A k \in 1 .. i - 1 : 1 + k - 1 = k
    BY <1>2
  <2>3. QED
    BY <1>3, <2>1, <2>2, SubSeqProperties
<1>6. b \in Seq(C) /\ Len(b) = n - i + 1 /\ \A k \in 1 .. n - i + 1 : b[k] = t[i + k - 1]
  <2>1. \A k \in i .. n : t[k] \in C
    BY <1>1, <1>2
  <2>2. (IF i <= n THEN n - i + 1 ELSE 0) = n - i + 1
    BY <1>2
  <2>3. QED
    BY <1>2, <1>4, <2>1, <2>2, SubSeqProperties
<1>7. PICK o : o = <<e>> /\ o \in Seq(C) /\ Len(o) = 1 /\ o[1] = e
  <2>1. <<e>> \in Seq(C) /\ Len(<<e>>) = 1 /\ <<e>>[1] = e
    OBVIOUS
  <2>2. QED
    BY <2>1
<1>8. PICK c : c = a \o o
  OBVIOUS
<1>9. c \in Seq(C) /\ Len(c) = i /\ c[i] = e /\ \A k \in 1 .. i - 1 : c[k] = a[k]
  <2>1. /\ c \in Seq(C) /\ Len(c) = (i - 1) + 1
        /\ \A k \in 1 .. (i - 1) + 1 : c[k] = IF k <= i - 1 THEN a[k] ELSE o[k - (i - 1)]
    BY <1>5, <1>7, <1>8, ConcatProperties
  <2>2. (i - 1) + 1 = i /\ i - (i - 1) = 1 /\ ~(i <= i - 1) /\ i \in 1 .. i
    BY <1>2
  <2>3. \A k \in 1 .. i - 1 : k \in 1 .. i /\ k <= i - 1
    BY <1>2
  <2>4. QED
    BY <1>7, <2>1, <2>2, <2>3
<1>10. PICK d : d = c \o b
  OBVIOUS
<1>11. /\ d \in Seq(C) /\ Len(d) = i + Len(b)
       /\ \A k \in 1 .. Len(d) : d[k] = IF k <= i THEN c[k] ELSE b[k - i]
  <2>1. /\ d \in Seq(C) /\ Len(d) = Len(c) + Len(b)
        /\ \A k \in 1 .. Len(c) + Len(b) : d[k] = IF k <= Len(c) THEN c[k] ELSE b[k - Len(c)]
    BY <1>6, <1>9, <1>10, ConcatProperties
  <2>2. QED
    BY <1>9, <2>1
<1>12. InsertAt(t, i, e) = d
  BY <1>1, <1>3, <1>4, <1>7, <1>8, <1>10 DEF InsertAt
<1>13. Len(d) = n + 1
  BY <1>1, <1>2, <1>6, <1>11
<1>14. ASSUME NEW k \in 1 .. n + 1
       PROVE  d[k] = IF k < i THEN t[k] ELSE IF k = i THEN e ELSE t[k - 1]
  <2>1. CASE k < i
    <3>1. k \in 1 .. i - 1 /\ k <= i /\ k \in 1 .. Len(d)
      BY <1>2, <1>13, <2>1
    <3>2. QED
      BY <1>5, <1>9, <1>11, <2>1, <3>1
  <2>2. CASE k = i
    <3>1. k <= i /\ k \in 1 .. Len(d) /\ ~(k < i)
      BY <1>2, <1>13, <2>2
    <3>2. QED
      BY <1>9, <1>11, <2>2, <3>1
  <2>3. CASE k > i
    <3>1. k - i \in 1 .. n - i + 1 /\ ~(k <= i) /\ k \in 1 .. Len(d) /\ i + (k - i) - 1 = k - 1
          /\ ~(k < i) /\ k # i
      BY <1>2, <1>13, <2>3
    <3>2. d[k] = b[k - i] /\ b[k - i] = t[i + (k - i) - 1]
      BY <1>6, <1>11, <3>1
    <3>3. QED
      BY <3>1, <3>2
  <2>4. QED
    BY <1>2, <2>1, <2>2, <2>3
<1>15. PICK v : v = InsertAt(t, i, e)
  OBVIOUS
<1>16. v \in Seq(C) /\ Len(v) = Len(t) + 1
       /\ \A k \in 1 .. Len(t) + 1 :
            v[k] = IF k < i THEN t[k] ELSE IF k = i THEN e ELSE t[k - 1]
  BY <1>1, <1>11, <1>12, <1>13, <1>14, <1>15
<1>17. QED
  BY <1>15, <1>16

-------------------------------------------------------------------------------
(* What encode() and decode() make of a whole text. *)

\* Group k of the reference.
LEMMA ReferenceGroup ==
  ASSUME NEW s \in Seq(Byte), NEW k \in Nat, k < Groups(s)
  PROVE  SubSeq(Reference(s), 4 * k + 1, 4 * k + 4) = Char4(s, k)
<1>1. 4 * k \in Nat /\ 4 * k + 4 <= Len(Reference(s)) /\ Reference(s) \in Seq(Symbol)
  BY ReferenceType
<1>2. QED
  BY <1>1, SmallSlices, ReferenceByGroups

\* encode() gives the reference: its groups of three bytes, then what remains.
LEMMA EncodeIsReference ==
  ASSUME NEW s \in Seq(Byte)
  PROVE  encode(s) = Reference(s)
<1>1. PICK n \in Nat : n = Len(s)
  BY LenProperties
<1>2. \A i \in 1 .. n : s[i] \in Byte
  BY <1>1, LenProperties
<1>3. PICK w \in Nat : w = n \div 3
  BY <1>1
<1>4. PICK R \in Seq(Symbol) : R = Reference(s)
  BY ReferenceType
<1>5. Len(R) = 4 * Groups(s) /\ Groups(s) = (n + 2) \div 3 /\ Groups(s) \in Nat
  BY <1>1, <1>4, ReferenceType DEF Groups
<1> DEFINE E == [k \in 1 .. w |-> Triple(s[3 * k - 2], s[3 * k - 1], s[3 * k])]
           last == Rest(SubSeq(s, 3 * w + 1, n))
<1>6. encode(s) = FlattenSeq(E) \o last
  BY <1>1, <1>3 DEF encode
<1>7. 4 * w <= Len(R) /\ 4 * w \in Nat
  BY <1>3, <1>5
<1>8. ASSUME NEW k \in 1 .. w PROVE E[k] = SubSeq(R, 4 * (k - 1) + 1, 4 * k)
  <2>1. PICK m \in Nat : k = m + 1
    <3>1. k - 1 \in Nat /\ k = (k - 1) + 1
      OBVIOUS
    <3>2. QED
      BY <3>1
  <2>2. /\ 3 * k - 2 = 3 * m + 1 /\ 3 * k - 1 = 3 * m + 2 /\ 3 * k = 3 * m + 3
        /\ 3 * m + 3 <= n /\ m < Groups(s)
        /\ 4 * (k - 1) + 1 = 4 * m + 1 /\ 4 * k = 4 * m + 4
    BY <1>3, <1>5, <2>1
  <2>3. /\ ByteAt(s, 3 * m + 1) = s[3 * m + 1] /\ ByteAt(s, 3 * m + 2) = s[3 * m + 2]
        /\ ByteAt(s, 3 * m + 3) = s[3 * m + 3]
    BY <1>1, <2>2 DEF ByteAt
  <2>4. s[3 * m + 1] \in Byte /\ s[3 * m + 2] \in Byte /\ s[3 * m + 3] \in Byte
    BY <1>2, <2>2
  <2>5. Char4(s, m) = Triple(s[3 * m + 1], s[3 * m + 2], s[3 * m + 3])
    <3>1. ~(Len(s) < 3 * m + 2) /\ ~(Len(s) < 3 * m + 3)
      BY <1>1, <2>2
    <3>2. Char4(s, m) = <<C1(s[3 * m + 1]), C2(s[3 * m + 1], s[3 * m + 2]),
                          C3(s[3 * m + 2], s[3 * m + 3]), C4(s[3 * m + 3])>>
      BY <2>3, <3>1 DEF Char4
    <3>3. QED
      BY <2>4, <3>2, TripleByParts
  <2>6. E[k] = Char4(s, m)
    BY <2>2, <2>5
  <2>7. SubSeq(R, 4 * m + 1, 4 * m + 4) = Char4(s, m)
    BY <1>4, <2>2, ReferenceGroup
  <2> HIDE DEF E
  <2>8. QED
    BY <2>2, <2>6, <2>7
<1>9. FlattenSeq(E) = SubSeq(R, 1, 4 * w)
  <2>1. \A k \in 1 .. w : 4 * k <= Len(R) /\ 4 * k \in Nat
    BY <1>5, <1>7
  <2>3. \A k \in 1 .. w :
          E[k] = SubSeq(R, 4 * (k - 1) + 1, IF 4 * k <= Len(R) THEN 4 * k ELSE Len(R))
    <3> HIDE DEF E
    <3>1. QED
      BY <1>8, <2>1
  <2>4. 4 * w <= Len(R) + 4 - 1
    BY <1>5, <1>7
  <2>5. FlattenSeq(E) = SubSeq(R, 1, IF 4 * w <= Len(R) THEN 4 * w ELSE Len(R))
    <3>1. E = [k \in 1 .. w |-> E[k]]
      OBVIOUS
    <3> HIDE DEF E
    <3>2. Slices(E, R, 4, w)
      BY <2>3, <2>4, <3>1 DEF Slices
    <3>3. QED
      BY <3>2, FlattenSlices
  <2> HIDE DEF E
  <2>6. QED
    BY <1>7, <2>5
<1>10. CASE n = 3 * w
  <2>1. Groups(s) = w
    BY <1>5, <1>10
  <2>2. SubSeq(s, 3 * w + 1, n) = <<>>
    BY <1>10, SubSeqEmpty
  <2>3. last = <<>>
    <3>1. Rest(<<>>) = <<>>
      BY DEF Rest
    <3>2. QED
      BY <2>2, <3>1
  <2>4. FlattenSeq(E) = R
    <3> HIDE DEF E
    <3>1. SubSeq(R, 1, Len(R)) = R
      BY SubSeqFull
    <3>2. Len(R) = 4 * w
      BY <1>5, <2>1
    <3>3. QED
      BY <1>9, <3>1, <3>2
  <2> HIDE DEF E, last
  <2>5. QED
    BY <1>4, <1>6, <2>3, <2>4, ConcatEmptySeq
<1>11. CASE n # 3 * w
  <2>1. Groups(s) = w + 1 /\ w < Groups(s) /\ (n = 3 * w + 1 \/ n = 3 * w + 2)
    BY <1>3, <1>5, <1>11
  <2>2. last = Char4(s, w)
    <3>1. CASE n = 3 * w + 1
      <4>1. SubSeq(s, 3 * w + 1, 3 * w + 1) = <<s[3 * w + 1]>>
        <5>1. 3 * w \in Nat /\ 3 * w + 1 <= Len(s)
          BY <1>1, <3>1
        <5>2. QED
          BY <5>1, SmallSlices
      <4>2. Rest(<<s[3 * w + 1]>>) = <<C1(s[3 * w + 1]), C2(s[3 * w + 1], 0), Pad, Pad>>
        <5>1. s[3 * w + 1] \in Byte
          BY <1>2, <3>1
        <5>2. QED
          BY <5>1, RestByParts
      <4>3. ByteAt(s, 3 * w + 1) = s[3 * w + 1] /\ ByteAt(s, 3 * w + 2) = 0
            /\ Len(s) < 3 * w + 2 /\ Len(s) < 3 * w + 3
        BY <1>1, <3>1 DEF ByteAt
      <4>4. QED
        BY <3>1, <4>1, <4>2, <4>3 DEF Char4
    <3>2. CASE n = 3 * w + 2
      <4>1. SubSeq(s, 3 * w + 1, 3 * w + 2) = <<s[3 * w + 1], s[3 * w + 2]>>
        <5>1. 3 * w \in Nat /\ 3 * w + 2 <= Len(s)
          BY <1>1, <3>2
        <5>2. QED
          BY <5>1, SmallSlices
      <4>2. Rest(<<s[3 * w + 1], s[3 * w + 2]>>) =
              <<C1(s[3 * w + 1]), C2(s[3 * w + 1], s[3 * w + 2]), C3(s[3 * w + 2], 0), Pad>>
        <5>1. s[3 * w + 1] \in Byte /\ s[3 * w + 2] \in Byte
          BY <1>2, <3>2
        <5>2. QED
          BY <5>1, RestByParts
      <4>3. ByteAt(s, 3 * w + 1) = s[3 * w + 1] /\ ByteAt(s, 3 * w + 2) = s[3 * w + 2]
            /\ ByteAt(s, 3 * w + 3) = 0
            /\ ~(Len(s) < 3 * w + 2) /\ Len(s) < 3 * w + 3
        BY <1>1, <3>2 DEF ByteAt
      <4>4. QED
        BY <3>2, <4>1, <4>2, <4>3 DEF Char4
    <3>3. QED
      BY <2>1, <3>1, <3>2
  <2>3. last = SubSeq(R, 4 * w + 1, 4 * w + 4)
    BY <1>4, <2>1, <2>2, ReferenceGroup
  <2>4. Len(R) = 4 * w + 4
    BY <1>5, <2>1
  <2> HIDE DEF E, last
  <2>5. SubSeq(R, 1, 4 * w) \o SubSeq(R, 4 * w + 1, 4 * w + 4) = SubSeq(R, 1, 4 * w + 4)
    <3>1. 1 \in 1 .. Len(R) + 1 /\ 4 * w \in 1 - 1 .. Len(R) /\ 4 * w + 4 \in 4 * w .. Len(R)
      BY <2>4
    <3>2. QED
      BY <3>1, ConcatAdjacentSubSeq
  <2>6. SubSeq(R, 1, 4 * w + 4) = R
    BY <2>4, SubSeqFull
  <2>7. QED
    BY <1>4, <1>6, <1>9, <2>3, <2>5, <2>6
<1>12. QED
  BY <1>10, <1>11

\* What a character leaves.
Kept(ch) == IF Legal(ch) THEN <<ch>> ELSE <<>>

\* That is a text of what counts.
LEMMA KeptType ==
  ASSUME NEW ch \in Sent
  PROVE  Kept(ch) \in Seq(Symbol)
<1>1. Legal(ch) => ch \in Symbol
  BY DEF Legal, Symbol, Sent, Other, Pad
<1>2. \A x \in Symbol : <<x>> \in Seq(Symbol)
  OBVIOUS
<1>3. <<>> \in Seq(Symbol)
  OBVIOUS
<1>4. QED
  BY <1>1, <1>2, <1>3 DEF Kept

\* A text of nothing but the alphabet and padding stays as it is.
LEMMA SymbolsAreKept ==
  ASSUME NEW t \in Seq(Symbol)
  PROVE  AllLegal(t) = t
<1>1. PICK n \in Nat : n = Len(t)
  BY LenProperties
<1> DEFINE K == [i \in 1 .. n |-> Kept(t[i])]
<1>2. AllLegal(t) = FlattenSeq(K)
  BY <1>1 DEF AllLegal, Kept
<1>3. ASSUME NEW i \in 1 .. n PROVE K[i] = SubSeq(t, 1 * (i - 1) + 1, 1 * i)
  <2>1. t[i] \in Symbol
    BY <1>1, LenProperties
  <2>2. K[i] = <<t[i]>>
    <3>1. \A x \in Symbol : x # Other
      BY DEF Symbol, Other, Pad
    <3>2. K[i] = Kept(t[i])
      OBVIOUS
    <3> HIDE DEF K
    <3>3. QED
      BY <2>1, <3>1, <3>2 DEF Kept, Legal
  <2>3. PICK j \in Nat : i = j + 1
    <3>1. i - 1 \in Nat /\ i = (i - 1) + 1
      OBVIOUS
    <3>2. QED
      BY <3>1
  <2>4. 1 * (i - 1) + 1 = j + 1 /\ 1 * i = j + 1 /\ j + 1 <= Len(t)
    BY <1>1, <2>3
  <2>5. SubSeq(t, j + 1, j + 1) = <<t[j + 1]>>
    BY <2>4, SmallSlices
  <2> HIDE DEF K
  <2>6. QED
    BY <2>2, <2>3, <2>4, <2>5
<1>4. Slices(K, t, 1, n)
  <2>1. \A i \in 1 .. n : 1 * i <= Len(t)
    BY <1>1
  <2>2. 1 * n <= Len(t) + 1 - 1
    BY <1>1
  <2>3. K = [i \in 1 .. n |-> K[i]]
    OBVIOUS
  <2> HIDE DEF K
  <2>4. QED
    BY <1>3, <2>1, <2>2, <2>3 DEF Slices
<1>5. FlattenSeq(K) = SubSeq(t, 1, IF 1 * n <= Len(t) THEN 1 * n ELSE Len(t))
  <2> HIDE DEF K
  <2> QED
    BY <1>4, FlattenSlices
<1>6. SubSeq(t, 1, Len(t)) = t
  BY SubSeqFull
<1>7. (IF 1 * n <= Len(t) THEN 1 * n ELSE Len(t)) = Len(t)
  BY <1>1
<1> HIDE DEF K
<1>8. QED
  BY <1>2, <1>5, <1>6, <1>7

\* A character that is skipped changes nothing wherever it is put in.
LEMMA NoiseIsSkipped ==
  ASSUME NEW t \in Seq(Sent), NEW i \in 1 .. Len(t) + 1
  PROVE  AllLegal(InsertAt(t, i, Other)) = AllLegal(t)
<1>1. PICK n \in Nat : n = Len(t) /\ \A k \in 1 .. n : t[k] \in Sent
  BY LenProperties
<1>2. PICK u : u = InsertAt(t, i, Other)
  OBVIOUS
<1>3. /\ u \in Seq(Sent) /\ Len(u) = n + 1
      /\ \A k \in 1 .. n + 1 : u[k] = IF k < i THEN t[k] ELSE IF k = i THEN Other ELSE t[k - 1]
  <2>1. Other \in Sent
    BY DEF Other, Sent
  <2>2. PICK e \in Sent : e = Other
    BY <2>1
  <2>3. /\ InsertAt(t, i, e) \in Seq(Sent) /\ Len(InsertAt(t, i, e)) = Len(t) + 1
        /\ \A k \in 1 .. Len(t) + 1 :
             InsertAt(t, i, e)[k] = IF k < i THEN t[k] ELSE IF k = i THEN e ELSE t[k - 1]
    BY Inserted
  <2>4. QED
    BY <1>1, <1>2, <2>2, <2>3
<1>4. \A k \in 1 .. n + 1 : u[k] \in Sent
  BY <1>3, LenProperties
<1>5. i \in Nat /\ i >= 1 /\ i <= n + 1
  BY <1>1
<1> DEFINE K == [k \in 1 .. n |-> Kept(t[k])]
           L == [k \in 1 .. n + 1 |-> Kept(u[k])]
<1>6. K \in [1 .. n -> Seq(Symbol)] /\ L \in [1 .. n + 1 -> Seq(Symbol)]
  BY <1>1, <1>4, KeptType
<1>7. PICK H \in [0 .. n -> Seq(Symbol)] : Parts(H, K, n)
  <2> HIDE DEF K
  <2> QED
    BY <1>6, FlattenHasParts
<1> DEFINE G == [k \in 0 .. n + 1 |-> IF k < i THEN H[k] ELSE H[k - 1]]
<1>8. G[0] = <<>>
  BY <1>5, <1>7 DEF Parts
<1>9. ASSUME NEW k \in 1 .. n + 1 PROVE G[k] = G[k - 1] \o L[k]
  <2>1. CASE k < i
    <3>1. k \in 1 .. n /\ k \in 0 .. n + 1 /\ k - 1 \in 0 .. n + 1 /\ k - 1 < i
      BY <1>5, <2>1
    <3>2. G[k] = H[k] /\ G[k - 1] = H[k - 1] /\ L[k] = K[k]
      BY <1>3, <2>1, <3>1
    <3>3. H[k] = H[k - 1] \o K[k]
      BY <1>7, <3>1 DEF Parts
    <3>4. QED
      BY <3>2, <3>3
  <2>2. CASE k = i
    <3>1. k \in 0 .. n + 1 /\ k - 1 \in 0 .. n + 1 /\ k - 1 < i /\ ~(k < i) /\ k - 1 \in 0 .. n
      BY <1>5, <2>2
    <3>2. G[k] = H[k - 1] /\ G[k - 1] = H[k - 1]
      BY <3>1
    <3>3. L[k] = <<>>
      BY <1>3, <2>2, <3>1 DEF Kept, Legal
    <3>4. H[k - 1] \o <<>> = H[k - 1]
      BY <3>1, <1>7, ConcatEmptySeq
    <3>5. QED
      BY <3>2, <3>3, <3>4
  <2>3. CASE k > i
    <3>1. PICK m \in 1 .. n : m = k - 1
      BY <1>5, <2>3
    <3>2. /\ k \in 0 .. n + 1 /\ m \in 0 .. n + 1 /\ ~(k < i) /\ ~(m < i) /\ k # i
          /\ k - 1 = m
      BY <1>5, <2>3, <3>1
    <3>3. G[k] = H[m] /\ G[m] = H[m - 1] /\ L[k] = K[m]
      BY <1>3, <3>1, <3>2
    <3>4. H[m] = H[m - 1] \o K[m]
      BY <1>7, <3>1 DEF Parts
    <3>5. QED
      BY <3>2, <3>3, <3>4
  <2>4. k < i \/ k = i \/ k > i
    BY <1>5
  <2>5. QED
    <3> HIDE DEF G, L
    <3> QED
      BY <2>1, <2>2, <2>3, <2>4
<1>10. Parts(G, L, n + 1)
  <2> HIDE DEF G, L
  <2> QED
    BY <1>8, <1>9 DEF Parts
<1>11. G[n + 1] = H[n]
  <2>1. n + 1 \in 0 .. n + 1 /\ ~(n + 1 < i) /\ (n + 1) - 1 = n
    BY <1>5
  <2>2. QED
    BY <2>1
<1>12. FlattenSeq(K) = H[n]
  <2> HIDE DEF K
  <2> QED
    BY <1>6, <1>7, FlattenIs
<1>13. FlattenSeq(L) = G[n + 1]
  <2>1. n + 1 \in Nat
    OBVIOUS
  <2> HIDE DEF L, G
  <2> QED
    BY <1>6, <1>10, <2>1, FlattenIs
<1>14. AllLegal(t) = FlattenSeq(K) /\ AllLegal(u) = FlattenSeq(L)
  BY <1>1, <1>3 DEF AllLegal, Kept
<1>15. QED
  <2> HIDE DEF K, L, G
  <2> QED
    BY <1>2, <1>11, <1>12, <1>13, <1>14

\* The bytes of group k of s.
LEMMA GroupBackIs ==
  ASSUME NEW s \in Seq(Byte), NEW k \in Nat, k < Groups(s)
  PROVE  GroupBack(Char4(s, k))
           = SubSeq(s, 3 * k + 1, IF 3 * k + 3 <= Len(s) THEN 3 * k + 3 ELSE Len(s))
<1>1. PICK n \in Nat : n = Len(s) /\ \A j \in 1 .. n : s[j] \in Byte
  BY LenProperties
<1>2. 3 * k + 1 <= n /\ 3 * k \in Nat
  BY <1>1 DEF Groups
<1>3. CASE n >= 3 * k + 3
  <2>1. s[3 * k + 1] \in Byte /\ s[3 * k + 2] \in Byte /\ s[3 * k + 3] \in Byte
    BY <1>1, <1>3
  <2>2. /\ ByteAt(s, 3 * k + 1) = s[3 * k + 1] /\ ByteAt(s, 3 * k + 2) = s[3 * k + 2]
        /\ ByteAt(s, 3 * k + 3) = s[3 * k + 3] /\ ~(Len(s) < 3 * k + 2) /\ ~(Len(s) < 3 * k + 3)
    BY <1>1, <1>3 DEF ByteAt
  <2>3. Char4(s, k) = <<C1(s[3 * k + 1]), C2(s[3 * k + 1], s[3 * k + 2]),
                        C3(s[3 * k + 2], s[3 * k + 3]), C4(s[3 * k + 3])>>
    BY <2>2 DEF Char4
  <2>4. GroupBack(Char4(s, k)) = <<s[3 * k + 1], s[3 * k + 2], s[3 * k + 3]>>
    <3>1. Char4(s, k) = Triple(s[3 * k + 1], s[3 * k + 2], s[3 * k + 3])
      BY <2>1, <2>3, TripleByParts
    <3>2. PICK a \in Byte, b \in Byte, c \in Byte :
            a = s[3 * k + 1] /\ b = s[3 * k + 2] /\ c = s[3 * k + 3]
      BY <2>1
    <3>3. GroupBack(Triple(a, b, c)) = <<a, b, c>>
      BY GroupsComeBack
    <3>4. QED
      BY <3>1, <3>2, <3>3
  <2>5. SubSeq(s, 3 * k + 1, 3 * k + 3) = <<s[3 * k + 1], s[3 * k + 2], s[3 * k + 3]>>
    BY <1>1, <1>2, <1>3, SmallSlices
  <2>6. QED
    BY <1>1, <1>3, <2>4, <2>5
<1>4. CASE n = 3 * k + 2
  <2>1. s[3 * k + 1] \in Byte /\ s[3 * k + 2] \in Byte
    BY <1>1, <1>4
  <2>2. /\ ByteAt(s, 3 * k + 1) = s[3 * k + 1] /\ ByteAt(s, 3 * k + 2) = s[3 * k + 2]
        /\ ByteAt(s, 3 * k + 3) = 0 /\ ~(Len(s) < 3 * k + 2) /\ Len(s) < 3 * k + 3
    BY <1>1, <1>4 DEF ByteAt
  <2>3. Char4(s, k) = <<C1(s[3 * k + 1]), C2(s[3 * k + 1], s[3 * k + 2]),
                        C3(s[3 * k + 2], 0), Pad>>
    BY <2>2 DEF Char4
  <2>4. GroupBack(Char4(s, k)) = <<s[3 * k + 1], s[3 * k + 2]>>
    <3>1. Char4(s, k) = Rest(<<s[3 * k + 1], s[3 * k + 2]>>)
      BY <2>1, <2>3, RestByParts
    <3>2. QED
      BY <2>1, <3>1, GroupsComeBack
  <2>5. SubSeq(s, 3 * k + 1, 3 * k + 2) = <<s[3 * k + 1], s[3 * k + 2]>>
    <3>1. 3 * k + 2 <= Len(s)
      BY <1>1, <1>4
    <3>2. QED
      BY <1>2, <3>1, SmallSlices
  <2>6. (IF 3 * k + 3 <= Len(s) THEN 3 * k + 3 ELSE Len(s)) = 3 * k + 2
    BY <1>1, <1>4
  <2>7. QED
    BY <2>4, <2>5, <2>6
<1>5. CASE n = 3 * k + 1
  <2>1. s[3 * k + 1] \in Byte
    BY <1>1, <1>5
  <2>2. /\ ByteAt(s, 3 * k + 1) = s[3 * k + 1] /\ ByteAt(s, 3 * k + 2) = 0
        /\ ByteAt(s, 3 * k + 3) = 0 /\ Len(s) < 3 * k + 2 /\ Len(s) < 3 * k + 3
    BY <1>1, <1>5 DEF ByteAt
  <2>3. Char4(s, k) = <<C1(s[3 * k + 1]), C2(s[3 * k + 1], 0), Pad, Pad>>
    BY <2>2 DEF Char4
  <2>4. GroupBack(Char4(s, k)) = <<s[3 * k + 1]>>
    <3>1. Char4(s, k) = Rest(<<s[3 * k + 1]>>)
      BY <2>1, <2>3, RestByParts
    <3>2. QED
      BY <2>1, <3>1, GroupsComeBack
  <2>5. SubSeq(s, 3 * k + 1, 3 * k + 1) = <<s[3 * k + 1]>>
    BY <1>1, <1>2, <1>5, SmallSlices
  <2>6. (IF 3 * k + 3 <= Len(s) THEN 3 * k + 3 ELSE Len(s)) = 3 * k + 1
    BY <1>1, <1>5
  <2>7. QED
    BY <2>4, <2>5, <2>6
<1>6. n >= 3 * k + 3 \/ n = 3 * k + 2 \/ n = 3 * k + 1
  BY <1>2
<1>7. QED
  BY <1>3, <1>4, <1>5, <1>6

\* A text of which the reference is what counts is decoded to what was encoded.
LEMMA DecodeIsBack ==
  ASSUME NEW s \in Seq(Byte), NEW t, AllLegal(t) = Reference(s)
  PROVE  decode(t) = s
<1>1. PICK n \in Nat : n = Len(s)
  BY LenProperties
<1>2. PICK R \in Seq(Symbol) : R = Reference(s)
  BY ReferenceType
<1>3. PICK m \in Nat : m = Groups(s) /\ Len(R) = 4 * m /\ 3 * m <= n + 2 /\ n <= 3 * m
                       /\ Len(R) \div 4 = m
  <2>1. Groups(s) = (n + 2) \div 3 /\ Groups(s) \in Nat
    BY <1>1, ReferenceType DEF Groups
  <2>2. 3 * Groups(s) <= n + 2 /\ n <= 3 * Groups(s) /\ (4 * Groups(s)) \div 4 = Groups(s)
    BY <2>1
  <2>3. QED
    BY <1>2, <2>1, <2>2, ReferenceType
<1> DEFINE D == [k \in 1 .. m |-> decode0(R[4 * k - 3], R[4 * k - 2], R[4 * k - 1], R[4 * k])]
<1>4. decode(t) = FlattenSeq(D)
  BY <1>2, <1>3 DEF decode
<1>5. ASSUME NEW k \in 1 .. m
      PROVE  D[k] = SubSeq(s, 3 * (k - 1) + 1, IF 3 * k <= Len(s) THEN 3 * k ELSE Len(s))
  <2>1. PICK j \in Nat : k = j + 1
    <3>1. k - 1 \in Nat /\ k = (k - 1) + 1
      OBVIOUS
    <3>2. QED
      BY <3>1
  <2>2. /\ j < Groups(s) /\ 3 * (k - 1) + 1 = 3 * j + 1 /\ 3 * k = 3 * j + 3
        /\ 4 * k - 3 = 4 * j + 1 /\ 4 * k - 2 = 4 * j + 2 /\ 4 * k - 1 = 4 * j + 3
        /\ 4 * k = 4 * j + 4
    BY <1>3, <2>1
  <2>3. Char4(s, j) = <<R[4 * j + 1], R[4 * j + 2], R[4 * j + 3], R[4 * j + 4]>>
    BY <1>2, <2>2, ReferenceByGroups
  <2>4. D[k] = decode0(R[4 * j + 1], R[4 * j + 2], R[4 * j + 3], R[4 * j + 4])
    BY <2>2
  <2>5. D[k] = GroupBack(Char4(s, j))
    BY <2>3, <2>4 DEF GroupBack
  <2> HIDE DEF D
  <2>6. QED
    BY <2>2, <2>5, GroupBackIs
<1>6. Slices(D, s, 3, m)
  <2>1. D = [k \in 1 .. m |-> D[k]]
    OBVIOUS
  <2>2. 3 * m <= Len(s) + 3 - 1
    BY <1>1, <1>3
  <2> HIDE DEF D
  <2>3. QED
    BY <1>5, <2>1, <2>2 DEF Slices
<1> HIDE DEF D
<1>7. FlattenSeq(D) = SubSeq(s, 1, IF 3 * m <= Len(s) THEN 3 * m ELSE Len(s))
  BY <1>6, FlattenSlices
<1>8. (IF 3 * m <= Len(s) THEN 3 * m ELSE Len(s)) = Len(s)
  BY <1>1, <1>3
<1>9. QED
  BY <1>4, <1>7, <1>8, SubSeqFull

-------------------------------------------------------------------------------
(* The steps. *)

\* What is known of the text from encode() on: what counts of it is the reference.
OnItsWay ==
  /\ text \in Seq(Sent)
  /\ Len(text) = Len(Reference(data)) + noise
  /\ AllLegal(text) = Reference(data)
  /\ noise = 0 => text = Reference(data)

\* The inductive invariant: no step fails, so "failed" is never reached.
Inv ==
  /\ data \in Seq(Byte)
  /\ noise \in Nat
  /\ pc \in {"encode", "decode", "done"}
  /\ pc = "encode" => noise = 0
  /\ pc # "encode" => OnItsWay
  /\ pc = "done" => back = data

\* Any data to begin with.
LEMMA InitInv == Init => Inv
<1> SUFFICES ASSUME Init PROVE Inv
  OBVIOUS
<1>1. PICK m \in 0 .. MaxLength : data \in [1 .. m -> Bytes]
  BY DEF Init, BoundedSeq, SeqOf
<1>2. m \in Nat /\ Bytes \subseteq Byte
  BY Base64Assumption DEF Byte
<1>3. data \in Seq(Byte)
  BY <1>1, <1>2, SeqDef
<1>4. QED
  BY <1>3 DEF Init, Inv

\* What encode() gives may be sent.
LEMMA SymbolSeqIsSent ==
  ASSUME NEW t \in Seq(Symbol)
  PROVE  t \in Seq(Sent)
<1>1. Symbol \subseteq Sent
  BY DEF Symbol, Sent, Pad, Other
<1>2. QED
  BY <1>1

\* The array is long enough for the text, and nothing of the text is skipped.
LEMMA EncodeInv ==
  ASSUME Inv, Encode
  PROVE  Inv'
<1>1. data \in Seq(Byte) /\ pc = "encode" /\ noise = 0
  BY DEF Inv, Encode
<1>2. PICK R \in Seq(Symbol) : R = Reference(data) /\ Len(R) = 4 * Groups(data)
  BY <1>1, ReferenceType
<1>3. encode(data) = R
  BY <1>1, <1>2, EncodeIsReference
<1>4. Len(R) <= OutSize(Len(data))
  BY <1>1, <1>2, LenProperties DEF OutSize, Groups
<1>5. text' = R /\ pc' = "decode" /\ data' = data /\ noise' = noise
  BY <1>3, <1>4 DEF Encode
<1>6. R \in Seq(Sent)
  BY SymbolSeqIsSent
<1>7. AllLegal(R) = R
  BY SymbolsAreKept
<1>8. OnItsWay'
  <2>1. Reference(data)' = R
    BY <1>2, <1>5
  <2>2. AllLegal(text)' = R
    BY <1>5, <1>7
  <2>3. Len(text') = Len(R) + noise'
    BY <1>1, <1>2, <1>5, LenProperties
  <2>4. QED
    BY <1>5, <1>6, <2>1, <2>2, <2>3 DEF OnItsWay
<1>9. QED
  BY <1>1, <1>5, <1>8 DEF Inv

\* A broken line leaves what counts as it is.
LEMMA AddNoiseInv ==
  ASSUME Inv, AddNoise
  PROVE  Inv'
<1>1. data \in Seq(Byte) /\ noise \in Nat /\ pc = "decode" /\ OnItsWay
  BY DEF Inv, AddNoise
<1>2. text \in Seq(Sent) /\ Len(text) = Len(Reference(data)) + noise
      /\ AllLegal(text) = Reference(data)
  BY <1>1 DEF OnItsWay
<1>3. PICK i \in 1 .. Len(text) + 1 : text' = InsertAt(text, i, Other)
  BY DEF AddNoise
<1>4. noise' = noise + 1 /\ data' = data /\ back' = back /\ pc' = pc
  BY DEF AddNoise
<1>5. text' \in Seq(Sent) /\ Len(text') = Len(text) + 1
  <2>1. PICK e \in Sent : e = Other
    BY DEF Sent, Other
  <2>2. InsertAt(text, i, e) \in Seq(Sent) /\ Len(InsertAt(text, i, e)) = Len(text) + 1
    BY <1>2, Inserted
  <2>3. QED
    BY <1>3, <2>1, <2>2
<1>6. AllLegal(text') = AllLegal(text)
  BY <1>2, <1>3, NoiseIsSkipped
<1>7. Len(Reference(data)) \in Nat
  BY <1>1, ReferenceType
<1>8. OnItsWay'
  <2>1. Reference(data)' = Reference(data)
    BY <1>4
  <2>2. AllLegal(text)' = AllLegal(text')
    OBVIOUS
  <2>3. Len(text') = Len(Reference(data)) + noise' /\ noise' # 0
    BY <1>1, <1>2, <1>4, <1>5, <1>7
  <2>4. QED
    BY <1>2, <1>5, <1>6, <2>1, <2>2, <2>3 DEF OnItsWay
<1>9. QED
  BY <1>1, <1>4, <1>8 DEF Inv

\* The array is long enough for the data, which is what comes back.
LEMMA DecodeInv ==
  ASSUME Inv, Decode
  PROVE  Inv'
<1>1. data \in Seq(Byte) /\ noise \in Nat /\ pc = "decode" /\ OnItsWay
  BY DEF Inv, Decode
<1>2. decode(text) = data
  BY <1>1, DecodeIsBack DEF OnItsWay
<1>3. Len(decode(text)) <= ObufSize(Len(text))
  <2>1. PICK n \in Nat : n = Len(data)
    BY <1>1, LenProperties
  <2>2. Len(text) = 4 * ((n + 2) \div 3) + noise
    BY <1>1, <2>1, ReferenceType DEF OnItsWay, Groups
  <2>3. PICK m \in Nat : m = (n + 2) \div 3 /\ n <= 3 * m
    BY <2>1
  <2>4. n <= ((4 * m + noise) \div 4) * 3 + 3
    BY <1>1, <2>3
  <2>5. QED
    BY <1>2, <2>1, <2>2, <2>3, <2>4 DEF ObufSize
<1>4. back' = data /\ pc' = "done" /\ data' = data /\ text' = text /\ noise' = noise
  BY <1>2, <1>3 DEF Decode
<1>5. OnItsWay'
  <2>1. Reference(data)' = Reference(data) /\ AllLegal(text)' = AllLegal(text)
    BY <1>4
  <2>2. QED
    BY <1>1, <1>4, <2>1 DEF OnItsWay
<1>6. QED
  BY <1>1, <1>4, <1>5 DEF Inv

\* Nothing changes.
LEMMA StutterInv ==
  ASSUME Inv, UNCHANGED vars
  PROVE  Inv'
<1>1. data' = data /\ text' = text /\ back' = back /\ pc' = pc /\ noise' = noise
  BY DEF vars
<1>2. OnItsWay => OnItsWay'
  <2>1. Reference(data)' = Reference(data) /\ AllLegal(text)' = AllLegal(text)
    BY <1>1
  <2>2. QED
    BY <1>1, <2>1 DEF OnItsWay
<1>3. QED
  BY <1>1, <1>2 DEF Inv

\* For any bytes, data of any length and any number of characters that are skipped, put in
\* anywhere: what encode() makes of the data is what the definition by bits says, the
\* arrays are never too short, and decode() gives the data back (Base64.java:50-97,
\* 109-140).
THEOREM RoundTripHolds == Spec => []RoundTrip
<1>1. Init => Inv
  BY InitInv
<1>2. Inv /\ [Next]_vars => Inv'
  BY EncodeInv, AddNoiseInv, DecodeInv, StutterInv DEF Next
<1>3. Inv => RoundTrip
  BY DEF Inv, OnItsWay, RoundTrip
<1>4. QED
  BY <1>1, <1>2, <1>3, PTL DEF Spec
===============================================================================
