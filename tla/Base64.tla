------------------------------- MODULE Base64 -------------------------------
(***************************************************************************)
(* base64_decode, by which both versions of NetDJ read the credentials of  *)
(* a Basic Authorization header (src/netdj/src/util.cc, and the same loops *)
(* on a QString in src/netdj2/engine/util.cpp).                            *)
(*                                                                         *)
(* A character is what the function tells apart: the place of a letter in  *)
(* the alphabet (0..63), the padding "=", or one that is not in the        *)
(* alphabet.  inalphabet and decoder have 256 entries of which only those  *)
(* of the alphabet are set: the rest are what the stack held.  junk is     *)
(* what they hold for a character outside the alphabet: Skip, or the value *)
(* of its decoder entry.                                                   *)
(***************************************************************************)
EXTENDS Integers, Sequences, SequencesExt

Pad     == 64     (* '='                                                   *)
Outside == 65     (* Any character that is not in the alphabet.            *)
Skip    == 1000   (* inalphabet holds 0.                                   *)
Junk    == -128..127 \cup {Skip}

(***************************************************************************)
(* (bits >> n) stored in a char.                                           *)
(***************************************************************************)
Byte(bits, n) == (bits \div 2^n) % 256

(***************************************************************************)
(* One turn of the loop.  The fourth character of a group completes three  *)
(* bytes; the others make room for the next.                               *)
(***************************************************************************)
Loop0 == [bits |-> 0, char_count |-> 0, res |-> <<>>, ended |-> FALSE]

Add(l, value) ==
  LET bits == l.bits + value IN
  IF l.char_count = 3
    THEN [l EXCEPT !.bits = 0, !.char_count = 0,
                   !.res = @ \o <<Byte(bits, 16), Byte(bits, 8), Byte(bits, 0)>>]
    ELSE [l EXCEPT !.bits = bits * 64, !.char_count = @ + 1]

Turn(l, ch, junk) ==
  IF l.ended \/ ch = Pad THEN [l EXCEPT !.ended = TRUE]
  ELSE IF ch < Pad THEN Add(l, ch)
  ELSE IF junk = Skip THEN l ELSE Add(l, junk)

(***************************************************************************)
(* What is left of a group of two or three characters.                     *)
(***************************************************************************)
Rest(l) ==
  CASE l.char_count = 2 -> <<Byte(l.bits, 10)>>
    [] l.char_count = 3 -> <<Byte(l.bits, 16), Byte(l.bits, 8)>>
    [] OTHER -> <<>>

base64_decode(str, junk) ==
  LET l == FoldLeft(LAMBDA a, ch : Turn(a, ch, junk), Loop0, str) IN l.res \o Rest(l)

-----------------------------------------------------------------------------
(***************************************************************************)
(* The reference: RFC 2045.  Three bytes are four letters of six bits, and *)
(* what is missing of the last three is padded.                            *)
(***************************************************************************)
Letters(bytes, n) ==
  LET at(i) == IF i <= Len(bytes) THEN bytes[i] ELSE 0
      bits  == at(1) * 65536 + at(2) * 256 + at(3)
  IN  [i \in 1..4 |-> IF i > n THEN Pad ELSE (bits \div 64^(4 - i)) % 64]

Groups(bytes) == (Len(bytes) + 2) \div 3

Encode(bytes) ==
  FoldLeft(LAMBDA s, g :
             LET group == SubSeq(bytes, 3 * g - 2, IF 3 * g < Len(bytes) THEN 3 * g ELSE Len(bytes))
             IN  s \o Letters(group, Len(group) + 1),
           <<>>, [g \in 1..Groups(bytes) |-> g])

(***************************************************************************)
(* Whatever was on the stack, what a client encoded is what the server     *)
(* decodes, at every length modulo three.                                  *)
(***************************************************************************)
DecodesEncoded(Bytes, n) ==
  \A bytes \in BoundedSeq(Bytes, n) : \A junk \in {Skip, -128, 127} :
    base64_decode(Encode(bytes), junk) = bytes

(***************************************************************************)
(* A line break in the credentials, which RFC 2045 tells a decoder to      *)
(* ignore, is ignored: false of this code for some of what the stack holds.*)
(***************************************************************************)
IgnoresOutside(Bytes, n, junk) ==
  \A bytes \in BoundedSeq(Bytes, n) : \A i \in 1..Len(Encode(bytes)) :
    base64_decode(InsertAt(Encode(bytes), i, Outside), junk) = bytes
=============================================================================
