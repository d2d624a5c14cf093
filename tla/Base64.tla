------------------------------- MODULE Base64 -------------------------------
(***************************************************************************)
(* The codec of the pictures: base64_encode turns bytes into a text,       *)
(* base64_decode turns a text into bytes.  Client and server have the same *)
(* file, src/client/base64.cpp and src/server/base64.cpp; the encoder is   *)
(* mapped to the one, the decoder to the other.                            *)
(*                                                                         *)
(* Bytes and characters are their codes, so the arithmetic is that of      *)
(* uint8_t.                                                                *)
(***************************************************************************)
EXTENDS Integers, Sequences, SequencesExt

Pad == 61

(* What a table look-up of a character that is not in the table gives:
   npos, as a uint8_t. *)
NotFound == 255

(* "ABC...Zabc...z0123456789+/" *)
base64_chars ==
    [k \in 0 .. 63 |-> IF k < 26 THEN 65 + k
                       ELSE IF k < 52 THEN 71 + k
                       ELSE IF k < 62 THEN k - 4
                       ELSE IF k = 62 THEN 43 ELSE 47]

is_base64 == {base64_chars[k] : k \in 0 .. 63}

find == [c \in 0 .. 255 |-> IF c \in is_base64
                            THEN CHOOSE k \in 0 .. 63 : base64_chars[k] = c
                            ELSE NotFound]

Least(m, n) == IF m < n THEN m ELSE n

(* The groups of n that a loop with a counter takes from a sequence; the last
   one may be shorter. *)
Groups(s, n) ==
    [g \in 1 .. (Len(s) + n - 1) \div n |->
        SubSeq(s, n * (g - 1) + 1, Least(n * g, Len(s)))]

-----------------------------------------------------------------------------
(* The four indexes made of three bytes: masks and shifts. *)
Sextets(b) ==
    << b[1] \div 4,
       (b[1] % 4) * 16 + b[2] \div 16,
       (b[2] % 16) * 4 + b[3] \div 64,
       b[3] % 64 >>

(* A shorter last group is filled up by hand. *)
Filled(g, n, c) == g \o [j \in 1 .. n - Len(g) |-> c]

EncodedGroup(g) ==
    LET s == Sextets(Filled(g, 3, 0))
    IN  [j \in 1 .. 4 |-> IF j <= Len(g) + 1 THEN base64_chars[s[j]] ELSE Pad]

base64_encode(b) == FlattenSeq([g \in DOMAIN Groups(b, 3) |->
                                    EncodedGroup(Groups(b, 3)[g])])

-----------------------------------------------------------------------------
(* The characters the loop takes: up to the end, the first '=' or the first
   character that is none of base64. *)
Taken(t) ==
    LET Stops == {k \in DOMAIN t : t[k] \notin is_base64}
    IN  SubSeq(t, 1, IF Stops = {} THEN Len(t)
                     ELSE Min(Stops) - 1)

(* The three bytes made of four indexes; the sums are cut to eight bits. *)
Octets(s) ==
    << (s[1] * 4 + (s[2] % 64) \div 16) % 256,
       ((s[2] % 16) * 16 + (s[3] % 64) \div 4) % 256,
       ((s[3] % 4) * 64 + s[4]) % 256 >>

(* A group of i characters holds i - 1 whole bytes. *)
EveryByte(g) == Least(Len(g), 3)
BytesOf(g) == Len(g) - 1

DecodedGroup(g) ==
    LET c == Filled(g, 4, 0)
    IN  SubSeq(Octets([j \in 1 .. 4 |-> find[c[j]]]), 1, BytesOf(g))

base64_decode(t) == FlattenSeq([g \in DOMAIN Groups(Taken(t), 4) |->
                                    DecodedGroup(Groups(Taken(t), 4)[g])])

=============================================================================
