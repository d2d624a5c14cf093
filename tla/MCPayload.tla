----------------------------- MODULE MCPayload ------------------------------
EXTENDS Payload

(* Short texts of two letters and the characters reading and printing treat
   apart; "&lt;" is among them.  A text of white space only is no text node. *)
SomeChars == {108, 116, QUOT, AMP, SEMICOLON, LESS, HASH, CR, LF}
SomeTexts == {t \in UNION {[1 .. n -> SomeChars] : n \in 1 .. 4} :
                \E k \in DOMAIN t : t[k] \notin {CR, LF}}

(* The predefined entities, references of one to four bytes, none and zero,
   one to a number beyond the limit (2^24 here),
   and what is no reference or no known one. *)
Pieces == {
    [written |-> <<97>>, meant |-> <<97>>, unknown |-> FALSE],   \* a
    [written |-> <<38, 97, 109, 112, 59>>, meant |-> <<38>>, unknown |-> FALSE],   \* &amp;
    [written |-> <<38, 113, 117, 111, 116, 59>>, meant |-> <<34>>, unknown |-> FALSE],   \* &quot;
    [written |-> <<38, 97, 112, 111, 115, 59>>, meant |-> <<39>>, unknown |-> FALSE],   \* &apos;
    [written |-> <<38, 108, 116, 59>>, meant |-> <<60>>, unknown |-> FALSE],   \* &lt;
    [written |-> <<38, 98, 59>>, meant |-> <<38, 98, 59>>, unknown |-> TRUE],   \* &b;
    [written |-> <<38, 59>>, meant |-> <<38, 59>>, unknown |-> TRUE],   \* &;
    [written |-> <<38, 35, 59>>, meant |-> <<0>>, unknown |-> FALSE],   \* &#;
    [written |-> <<38, 35, 54, 53, 59>>, meant |-> <<65>>, unknown |-> FALSE],   \* &#65;
    [written |-> <<38, 35, 120, 51, 65, 57, 59>>, meant |-> <<206, 169>>, unknown |-> FALSE],   \* &#x3A9;
    [written |-> <<38, 35, 56, 51, 54, 52, 59>>, meant |-> <<226, 130, 172>>, unknown |-> FALSE],   \* &#8364;
    [written |-> <<38, 35, 120, 49, 70, 54, 48, 48, 59>>, meant |-> <<240, 159, 152, 128>>, unknown |-> FALSE],   \* &#x1F600;
    [written |-> <<38, 35, 120, 50, 48, 48, 48, 48, 48, 59>>, meant |-> <<>>, unknown |-> FALSE],   \* &#x200000;
    [written |-> <<38, 35, 120, 49, 48, 48, 48, 48, 55, 65, 59>>, meant |-> <<122>>, unknown |-> FALSE],   \* &#x100007A;
    [written |-> <<38, 35, 54, 103, 59>>, meant |-> <<38, 35, 54, 103, 59>>, unknown |-> FALSE],   \* &#6g;
    [written |-> <<38, 35, 122, 122, 35, 57, 59>>, meant |-> <<9>>, unknown |-> FALSE]   \* &#zz#9;
    }
SomeForeign == UNION {[1 .. n -> Pieces] : n \in 1 .. 3}

(* Bytes whose bits show where each of them goes. *)
SomeBytes == {0, 1, 15, 64, 129, 255}
SomePictures == UNION {[1 .. n -> SomeBytes] : n \in 1 .. 4}
=============================================================================
