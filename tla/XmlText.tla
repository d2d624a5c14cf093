------------------------------ MODULE XmlText -------------------------------
(***************************************************************************)
(* The text of an XML element in TinyXML-2 (src/client/tinyxml2.cpp):      *)
(* XMLPrinter::PrintString writes it, StrPair::ParseText finds its end in  *)
(* the received text, and StrPair::GetStr, at the first GetText, replaces  *)
(* references and newlines in place.  GetStr has a read pointer and a      *)
(* write pointer into the one buffer; each turn of its loop is a step.     *)
(*                                                                         *)
(* Characters are their codes.  White space is preserved, as the           *)
(* documents of this program are read.                                     *)
(***************************************************************************)
EXTENDS Integers, Sequences, SequencesExt

CONSTANT UnsignedLimit   \* 2^32: the number of a reference is an unsigned long

ASSUME UnsignedAssumption == UnsignedLimit \in Nat \ {0}

VARIABLES mem,   \* the buffer the document is read from
          end,   \* the end of the text in it
          p,     \* the read pointer of GetStr
          q      \* the write pointer of GetStr

textVars == <<mem, end, p, q>>

NUL == 0    LF == 10    CR == 13    QUOT == 34    HASH == 35    AMP == 38
APOS == 39  SEMICOLON == 59         LESS == 60    GREATER == 62  X == 120

(* "quot", "amp", "apos", "lt", "gt" and what they stand for. *)
entities ==
    {[pattern |-> <<113, 117, 111, 116>>, value |-> QUOT],
     [pattern |-> <<97, 109, 112>>, value |-> AMP],
     [pattern |-> <<97, 112, 111, 115>>, value |-> APOS],
     [pattern |-> <<108, 116>>, value |-> LESS],
     [pattern |-> <<103, 116>>, value |-> GREATER]}

-----------------------------------------------------------------------------
(* PrintString for the text of an element: three of the characters that have
   an entity are written as one. *)

(* NoAmpersand forgets the third. *)
NoAmpersand == {LESS, GREATER}

restrictedEntityFlag == {LESS, GREATER, AMP}

Escaped(c) ==
    IF c \in restrictedEntityFlag
    THEN LET e == CHOOSE e \in entities : e.value = c
         IN  <<AMP>> \o e.pattern \o <<SEMICOLON>>
    ELSE <<c>>

PrintString(t) == FlattenSeq([k \in DOMAIN t |-> Escaped(t[k])])

(* The text arrives in front of an end tag, and ends at its '<'; GetStr puts
   a zero there, if it is asked for the text. *)
Positions(c, from) == {k \in from .. Len(mem) : mem[k] = c}

ParseText(t) ==
    LET stop == Min({k \in 1 .. Len(t) + 1 : k = Len(t) + 1 \/ t[k] = LESS})
    IN  /\ mem' = [Append(t, NUL) EXCEPT ![stop] = NUL]
        /\ end' = stop
        /\ p' = 1 /\ q' = 1

-----------------------------------------------------------------------------
(* ConvertUTF32ToUTF8: a lead byte and up to three more of six bits; nothing
   at all beyond that.  FourBytes has one length for all. *)
Low(u, n) == 128 + ((u \div 64^n) % 64)
FourBytes(u) == <<240 + u \div 64^3, Low(u, 2), Low(u, 1), Low(u, 0)>>
ConvertUTF32ToUTF8(u) ==
    IF u < 128 THEN <<u>>
    ELSE IF u < 2048 THEN <<192 + u \div 64, Low(u, 0)>>
    ELSE IF u < 65536 THEN <<224 + u \div 64^2, Low(u, 1), Low(u, 0)>>
    ELSE IF u < 2097152 THEN FourBytes(u)
    ELSE <<>>

(* LowerDigit forgets the upper-case letters. *)
LowerDigit(c, base) ==
    IF c \in 48 .. 57 THEN c - 48
    ELSE IF base = 16 /\ c \in 97 .. 102 THEN c - 87
    ELSE -1

DigitOf(c, base) ==
    IF base = 16 /\ c \in 65 .. 70 THEN c - 55 ELSE LowerDigit(c, base)

(* GetCharacterRef: the number between the first ';' and the last '#' or 'x'
   before it, not the one at the read pointer.  [next |-> 0] is the null
   pointer it returns when there is no ';' or a character is no digit. *)
NoReference == [next |-> 0, value |-> <<>>]

(* The numbers the code adds and multiplies are unsigned and wrap around. *)
Number(digits, base) ==
    LET upTo[k \in 0 .. Len(digits)] ==
            IF k = 0 THEN 0
            ELSE (base * upTo[k - 1] + digits[k]) % UnsignedLimit
    IN  upTo[Len(digits)]

GetCharacterRef ==
    LET hex    == mem[p + 2] = X
        base   == IF hex THEN 16 ELSE 10
        stops  == Positions(SEMICOLON, IF hex THEN p + 3 ELSE p + 2)
        stop   == Min({k \in stops : k < end})
        marker == Max({k \in p + 1 .. stop - 1 : mem[k] = IF hex THEN X ELSE HASH})
        digits == [k \in 1 .. stop - marker - 1 |-> DigitOf(mem[marker + k], base)]
    IN  IF mem[p + 2] = NUL THEN [next |-> p + 1, value |-> <<>>]
        ELSE IF \A k \in stops : k > end THEN NoReference
        ELSE IF \E k \in DOMAIN digits : digits[k] = -1 THEN NoReference
        ELSE [next |-> stop + 1,
              value |-> ConvertUTF32ToUTF8(Number(digits, base))]

(* *q = ... ; q += ... ; p = ... *)
Put(s, next) ==
    /\ mem' = [k \in DOMAIN mem |-> IF k \in q .. q + Len(s) - 1
                                    THEN s[k - q + 1] ELSE mem[k]]
    /\ q' = q + Len(s)
    /\ p' = next
    /\ UNCHANGED end

Reading == p < end

(* CR-LF, LF-CR, CR and LF become LF. *)
NewLine ==
    /\ Reading
    /\ \/ mem[p] = CR /\ Put(<<LF>>, IF mem[p + 1] = LF THEN p + 2 ELSE p + 1)
       \/ mem[p] = LF /\ Put(<<LF>>, IF mem[p + 1] = CR THEN p + 2 ELSE p + 1)

(* &#...; : what is no reference is copied. *)
CharacterReference ==
    /\ Reading /\ mem[p] = AMP /\ mem[p + 1] = HASH
    /\ LET ref == GetCharacterRef
       IN  IF ref.next = 0 THEN Put(<<AMP>>, p + 1) ELSE Put(ref.value, ref.next)

Entities ==
    {e \in entities :
        LET last == p + Len(e.pattern) + 1
        IN  /\ last < end
            /\ SubSeq(mem, p + 1, last) = Append(e.pattern, SEMICOLON)}

Entity ==
    /\ Reading /\ mem[p] = AMP /\ mem[p + 1] # HASH
    /\ \E e \in Entities : Put(<<e.value>>, p + Len(e.pattern) + 2)

(* An ampersand that begins no entity is stepped over: the byte under the
   write pointer stays what it was. *)
Unknown ==
    /\ Reading /\ mem[p] = AMP /\ mem[p + 1] # HASH /\ Entities = {}
    /\ Put(<<mem[q]>>, p + 1)

Copy ==
    /\ Reading /\ mem[p] \notin {CR, LF, AMP}
    /\ Put(<<mem[p]>>, p + 1)

GetStr == NewLine \/ CharacterReference \/ Entity \/ Unknown \/ Copy

(* *q = 0, and the text is what lies before the first zero. *)
Finish ==
    /\ ~Reading
    /\ mem' = [mem EXCEPT ![q] = NUL]
    /\ UNCHANGED <<end, p, q>>

Str == SubSeq(mem, 1, Min(Positions(NUL, 1)) - 1)
=============================================================================
