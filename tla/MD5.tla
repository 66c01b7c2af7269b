----------------------------------- MODULE MD5 -----------------------------------
(***************************************************************************)
(* Utils/MD5.java: how a digest is written, and what that does to the      *)
(* comparison of two contents by their digests, which is what DataMD5 and  *)
(* ReturnDataMD5 of a task are for.  The digests themselves are external:  *)
(* any bytes.                                                              *)
(***************************************************************************)
EXTENDS Naturals, Sequences, SequencesExt

CONSTANTS DigestBytes,   \* the bytes tried, of 0 .. 255
          DigestLength   \* of a digest; 16 in the program

VARIABLES
  digests,   \* of two contents
  written    \* what is kept of each in a task; << >> before

vars == <<digests, written>>

Contents == {1, 2}

\* Integer.toHexString(): no leading zero.
toHexString(b) == IF b < 16 THEN <<b>> ELSE <<b \div 16, b % 16>>

toHex(digest) == FlattenSeq([i \in 1 .. DigestLength |-> toHexString(digest[i])])

Init == /\ digests \in [Contents -> [1 .. DigestLength -> DigestBytes]]
        /\ written = [c \in Contents |-> <<>>]

getMD5Hash(c) == /\ written[c] = <<>>
                 /\ written' = [written EXCEPT ![c] = toHex(digests[c])]
                 /\ UNCHANGED digests

Next == \E c \in Contents : getMD5Hash(c)

Spec == Init /\ [][Next]_vars

-------------------------------------------------------------------------------

BothWritten == \A c \in Contents : written[c] # <<>>

\* What is written represents the digest: other digests are written otherwise
\* (MD5.java:65, "Return an 8 byte representation of the 32 byte MD5 digest").
RepresentsDigest == BothWritten /\ written[1] = written[2] => digests[1] = digests[2]
===============================================================================
