--------------------------------- MODULE Base64 ---------------------------------
(***************************************************************************)
(* Utils/Base64.java: bytes to text and back, checked against a definition *)
(* by bits.  Of a character only its place in the alphabet matters, and    *)
(* whether it is the padding or something to be skipped.                   *)
(***************************************************************************)
EXTENDS Naturals, Sequences, SequencesExt

CONSTANTS Bytes,       \* the bytes tried
          MaxLength,   \* bound on the length of data
          MaxNoise     \* bound: characters that are not of the alphabet

ASSUME Base64Assumption == /\ Bytes \subseteq 0 .. 255
                           /\ MaxLength \in Nat
                           /\ MaxNoise \in Nat

Pad == 64
Other == 65   \* a line break, say

VARIABLES
  data,   \* what is encoded
  text,   \* what it becomes, and what is then made of it on its way
  back,   \* what is decoded
  pc,     \* "encode", "decode", "done" or "failed": an index out of bounds
  noise   \* characters put in so far

vars == <<data, text, back, pc, noise>>

-------------------------------------------------------------------------------
(* encode *)

\* Variant: the bits of the characters before are not masked.
TripleUnmasked(a, b, c) ==
  LET i == a * 65536 + b * 256 + c
  IN <<i \div 262144, i \div 4096, i \div 64, i % 64>>

\* Three bytes give four characters.
Triple(a, b, c) ==
  LET i == a * 65536 + b * 256 + c
  IN <<i \div 262144, (i \div 4096) % 64, (i \div 64) % 64, i % 64>>

\* Variant: the last two bytes are not shifted up.
RestUnshifted(s) ==
  CASE Len(s) = 0 -> <<>>
    [] Len(s) = 1 -> <<s[1] \div 4, (s[1] * 16) % 64, Pad, Pad>>
    [] Len(s) = 2 -> LET i == s[1] * 256 + s[2]
                     IN <<i \div 1024, (i \div 16) % 64, i % 64, Pad>>

\* What becomes of the bytes that remain.
Rest(s) ==
  CASE Len(s) = 0 -> <<>>
    [] Len(s) = 1 -> <<s[1] \div 4, (s[1] * 16) % 64, Pad, Pad>>
    [] Len(s) = 2 -> LET i == s[1] * 256 + s[2]
                     IN <<i \div 1024, (i \div 16) % 64, (i * 4) % 64, Pad>>

encode(s) ==
  LET whole == Len(s) \div 3
  IN FlattenSeq([k \in 1 .. whole |-> Triple(s[3 * k - 2], s[3 * k - 1], s[3 * k])])
       \o Rest(SubSeq(s, 3 * whole + 1, Len(s)))

\* The array the characters are put into.
OutSize(n) == (n \div 3) * 4 + 4

-------------------------------------------------------------------------------
(* decode *)

\* The table has 127 for the padding.
Value(ch) == IF ch = Pad THEN 127 ELSE ch

\* Four characters give three bytes, or fewer.
decode0(a, b, c, d) ==
  SubSeq(<<((Value(a) * 4) % 256) + ((Value(b) \div 16) % 4),
           ((Value(b) * 16) % 256) + ((Value(c) \div 4) % 16),
           ((Value(c) * 64) % 256) + (Value(d) % 64)>>,
         1, IF c = Pad THEN 1 ELSE IF d = Pad THEN 2 ELSE 3)

\* Variant: every character counts.
LegalAny(ch) == TRUE

Legal(ch) == ch # Other

\* What is left of a text without the characters that are skipped.
AllLegal(s) == FlattenSeq([i \in 1 .. Len(s) |-> IF Legal(s[i]) THEN <<s[i]>> ELSE <<>>])

\* Characters at the end that are not four are dropped.
decode(s) ==
  LET legal == AllLegal(s)
  IN FlattenSeq([k \in 1 .. Len(legal) \div 4 |->
       decode0(legal[4 * k - 3], legal[4 * k - 2], legal[4 * k - 1], legal[4 * k])])

\* The array the bytes are put into.
ObufSize(n) == (n \div 4) * 3 + 3

-------------------------------------------------------------------------------

Init == /\ data \in BoundedSeq(Bytes, MaxLength)
        /\ text = <<>>
        /\ back = <<>>
        /\ pc = "encode"
        /\ noise = 0

Encode == /\ pc = "encode"
          /\ IF Len(encode(data)) <= OutSize(Len(data))
             THEN text' = encode(data) /\ pc' = "decode"
             ELSE pc' = "failed" /\ UNCHANGED text
          /\ UNCHANGED <<data, back, noise>>

\* Who sends the text breaks its lines.
AddNoise == /\ pc = "decode"
            /\ noise < MaxNoise
            /\ \E i \in 1 .. Len(text) + 1 : text' = InsertAt(text, i, Other)
            /\ noise' = noise + 1
            /\ UNCHANGED <<data, back, pc>>

Decode == /\ pc = "decode"
          /\ IF Len(decode(text)) <= ObufSize(Len(text))
             THEN back' = decode(text) /\ pc' = "done"
             ELSE pc' = "failed" /\ UNCHANGED back
          /\ UNCHANGED <<data, text, noise>>

Next == Encode \/ AddNoise \/ Decode

Spec == Init /\ [][Next]_vars

-------------------------------------------------------------------------------
(* The reference: six bits make a character, and bits that are missing are 0. *)

Bit(s, k) == IF k < 8 * Len(s) THEN (s[k \div 8 + 1] \div 2 ^ (7 - (k % 8))) % 2 ELSE 0

Reference(s) ==
  [j \in 1 .. 4 * ((Len(s) + 2) \div 3) |->
     IF 6 * (j - 1) >= 8 * Len(s) THEN Pad
     ELSE LET b(i) == Bit(s, 6 * (j - 1) + i)
          IN 32 * b(0) + 16 * b(1) + 8 * b(2) + 4 * b(3) + 2 * b(4) + b(5)]

\* encode() with no offset gives what the definition by bits says (Base64.java:109-140),
\* and decode() gives back what was encoded wherever lines were broken
\* (Base64.java:50-97): a group of four may be cut by characters to be skipped.  No
\* index runs out of its array.
RoundTrip ==
  /\ pc # "encode" /\ noise = 0 => text = Reference(data)
  /\ pc \in {"done", "failed"} => back = data
===============================================================================
