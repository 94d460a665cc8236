--------------------------------- MODULE Utf8 ---------------------------------
(***************************************************************************)
(* String::from_utf8_lossy of the Rust library, to which the parsers give  *)
(* every text of a message.  A String is the sequence of its UTF-8 bytes.  *)
(* Well-formed characters are kept; the longest beginning of a character   *)
(* that goes no further, or a byte that begins none, becomes one U+FFFD.   *)
(***************************************************************************)
EXTENDS Integers, Sequences

Replacement == <<239, 191, 189>>

\* How many bytes a character has that begins with byte b; 0 if none does.
Announced(b) ==
  CASE b \in 0 .. 127   -> 1
    [] b \in 194 .. 223 -> 2
    [] b \in 224 .. 239 -> 3
    [] b \in 240 .. 244 -> 4
    [] OTHER            -> 0

\* What may come second: no overlong form, no surrogate, nothing past U+10FFFF.
Second(b) ==
  CASE b = 224 -> 160 .. 191
    [] b = 237 -> 128 .. 159
    [] b = 240 -> 144 .. 191
    [] b = 244 -> 128 .. 143
    [] OTHER   -> 128 .. 191

\* The n bytes of s from i on begin a character, or are one.
Begins(s, i, n) ==
  /\ n \in 1 .. Announced(s[i]) /\ i + n - 1 <= Len(s)
  /\ \A k \in 1 .. n - 1 :
       s[i + k] \in IF k = 1 THEN Second(s[i]) ELSE 128 .. 191

InCharacter(s, i) ==
  \E first \in 1 .. i : /\ Begins(s, first, Announced(s[first]))
                        /\ i < first + Announced(s[first])

\* What is emitted for the byte at i.
Reading(s, i) ==
  CASE InCharacter(s, i)                                   -> <<s[i]>>
    [] ~InCharacter(s, i)
         /\ \E first \in 1 .. i - 1 : Begins(s, first, i - first + 1) -> <<>>
    [] OTHER                                               -> Replacement

Utf8Lossy(s) ==
  LET upTo[i \in 0 .. Len(s)] ==
        IF i = 0 THEN <<>> ELSE upTo[i - 1] \o Reading(s, i)
  IN upTo[Len(s)]
===============================================================================
