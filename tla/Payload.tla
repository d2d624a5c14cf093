------------------------------- MODULE Payload ------------------------------
(***************************************************************************)
(* One value on its way between client and server.  A text is printed as    *)
(* the text of an element, a picture is encoded first; the other side       *)
(* parses the element, reads its text in place and decodes a picture.       *)
(* Values also come from other programs: texts with references the printer  *)
(* of this program never writes, pictures without padding or in lines.      *)
(***************************************************************************)
EXTENDS XmlText, Base64

(* None of them is empty: an element without text is read without a text
   node, and GetText returns a null pointer. *)
CONSTANTS Texts,      \* the texts of this program: sequences of codes
          Foreign,    \* the texts of others: sequences of pieces
          Pictures    \* the pictures: sequences of bytes

(* A code zero ends a text. *)
Byte == 0..255
Piece == [written : Seq(Byte \ {NUL}), meant : Seq(Byte), unknown : BOOLEAN]

ASSUME TextsAssumption == Texts \subseteq Seq(Byte \ {NUL})
ASSUME ForeignAssumption == Foreign \subseteq Seq(Piece)
ASSUME PicturesAssumption == Pictures \subseteq Seq(Byte)

VARIABLES kind,       \* "text", "foreign" or "picture"
          value,      \* the text or the picture the sender has
          wire,       \* the element's text on the wire
          kept,       \* the characters of a picture before its first line break
          got,        \* what the receiver makes of it
          state       \* "sender", "encoded", "wire", "reading", "text" or "done"

vars == <<mem, end, p, q, kind, value, wire, kept, got, state>>

(* A piece of a foreign text: how it is written, what it means, and whether it
   is a reference TinyXML-2 does not know. *)
Written(t) == FlattenSeq([k \in DOMAIN t |-> t[k].written])
Meant(t) == FlattenSeq([k \in DOMAIN t |-> t[k].meant])

Init ==
    /\ \/ kind = "text" /\ value \in Texts
       \/ kind = "foreign" /\ value \in Foreign
       \/ kind = "picture" /\ value \in Pictures
    /\ wire = <<>> /\ kept = 0 /\ got = <<>>
    /\ mem = <<NUL>> /\ end = 1 /\ p = 1 /\ q = 1
    /\ state = "sender"

(* on_reg_img_clicked and auth encode the file they have read. *)
Encode ==
    /\ state = "sender" /\ kind = "picture"
    /\ wire' = base64_encode(value)
    /\ state' = "encoded"
    /\ UNCHANGED <<textVars, kind, value, kept, got>>

Sends(t, n) ==
    /\ wire' = PrintString(t) /\ kept' = n
    /\ state' = "wire"
    /\ UNCHANGED <<textVars, kind, value, got>>

SendText == state = "sender" /\ kind = "text" /\ Sends(value, 0)

(* The text, with all of its padding or less, or broken into two lines. *)
SendPicture ==
    /\ state = "encoded"
    /\ \/ \E n \in 0 .. Len(wire) :
             /\ \A k \in n + 1 .. Len(wire) : wire[k] = Pad
             /\ Sends(SubSeq(wire, 1, n), n)
       \/ \E n \in DOMAIN wire :
             Sends(SubSeq(wire, 1, n) \o <<LF>> \o SubSeq(wire, n + 1, Len(wire)), n)

SendForeign ==
    /\ state = "sender" /\ kind = "foreign"
    /\ wire' = Written(value)
    /\ state' = "wire"
    /\ UNCHANGED <<textVars, kind, value, kept, got>>

Parse ==
    /\ state = "wire"
    /\ ParseText(wire)
    /\ state' = "reading"
    /\ UNCHANGED <<kind, value, wire, kept, got>>

Read ==
    /\ state = "reading"
    /\ \/ GetStr /\ UNCHANGED state
       \/ Finish /\ state' = "text"
    /\ UNCHANGED <<kind, value, wire, kept, got>>

(* decode_file and save_img_to_file decode and write a picture; a text is
   taken as it is. *)
Take ==
    /\ state = "text"
    /\ got' = IF kind = "picture" THEN base64_decode(Str) ELSE Str
    /\ state' = "done"
    /\ UNCHANGED <<textVars, kind, value, wire, kept>>

(* The value is sent again, with the next connection. *)
Again ==
    /\ state = "done"
    /\ wire' = <<>> /\ kept' = 0 /\ got' = <<>>
    /\ mem' = <<NUL>> /\ end' = 1 /\ p' = 1 /\ q' = 1
    /\ state' = "sender"
    /\ UNCHANGED <<kind, value>>

Next == \/ Encode \/ SendText \/ SendPicture \/ SendForeign
        \/ Parse \/ Read \/ Take \/ Again

Spec == Init /\ [][Next]_vars

-----------------------------------------------------------------------------
(* GetStr never writes over what it has not read: the replaced text fits into
   the buffer of the text it replaces, which the assertion
   q + len <= adjusted (tinyxml2.cpp:321) says of one reference. *)
WritesBehindReads == q <= p /\ p <= Len(mem) /\ (state = "reading" => p <= end)

(* The length of the run of alternating CR and LF that ends at position k. *)
RunLength(t, k) ==
    Max({n \in 0 .. k :
            \A j \in k - n + 1 .. k :
                /\ t[j] \in {CR, LF}
                /\ j > k - n + 1 => t[j] # t[j - 1]})

(* A text with its newlines normalised: of such a run every second character
   is dropped and the others are LF. *)
ReadAs(t, k) ==
    IF RunLength(t, k) = 0 THEN <<t[k]>>
    ELSE IF RunLength(t, k) % 2 = 0 THEN <<>> ELSE <<LF>>

Normalized(t) == FlattenSeq([k \in DOMAIN t |-> ReadAs(t, k)])

(* A text this program prints is read as it was, up to its newlines: a login,
   a description or a listing with any of the special characters. *)
PrintedTextComesBack ==
    state = "done" /\ kind = "text" => got = Normalized(value)

(* The positions in the meaning of a foreign text of the ampersands of unknown
   references. *)
UnknownAt(t) ==
    {Len(Meant(SubSeq(t, 1, k - 1))) + 1 : k \in {j \in DOMAIN t : t[j].unknown}}

UpToZero(t) ==
    SubSeq(t, 1, Min({k \in 1 .. Len(t) + 1 : k = Len(t) + 1 \/ t[k] = NUL}) - 1)

(* A foreign text is read as it is meant, up to a character of code zero.  The
   ampersand of an unknown reference is the one byte that may be another one,
   and only behind something that was replaced by something shorter. *)
ForeignTextComesBack ==
    state = "done" /\ kind = "foreign" =>
        LET meant == UpToZero(Meant(value))
        IN  /\ Len(got) = Len(meant)
            /\ \A k \in DOMAIN got :
                  got[k] # meant[k] =>
                      /\ k \in UnknownAt(value)
                      /\ \E j \in DOMAIN value :
                            /\ Len(value[j].meant) < Len(value[j].written)
                            /\ Len(Meant(SubSeq(value, 1, j))) < k

(* A picture is read and decoded as it was, with or without padding; of one in
   lines exactly the bytes of the first line come back. *)
PictureComesBack ==
    state = "done" /\ kind = "picture" =>
        got = SubSeq(value, 1, Least(Len(value), (6 * kept) \div 8))
=============================================================================
