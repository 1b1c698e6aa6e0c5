----------------------------- MODULE JsonString -----------------------------
(***************************************************************************)
(* Reader::decodeString: the bytes that a JSON string stands for.  A text  *)
(* is a sequence of elements: a byte that is copied, an escape such as     *)
(* "\n", a UTF-16 unit "\uXXXX", or an escape that cannot be read.  The     *)
(* decoder takes one step for each, and one for a pair of surrogates.      *)
(***************************************************************************)
EXTENDS Utf8

VARIABLES
    text,               \* the string, without its quotes
    scan,               \* how many elements were read
    unescaped,          \* the decoded string, as bytes
    textOutcome         \* what decodeString returns: "reading", "true", "false"

textVars == <<text, scan, unescaped, textOutcome>>

TextInit ==
    /\ text = <<>>
    /\ scan = 0
    /\ unescaped = <<>>
    /\ textOutcome = "reading"

Byte(b) == [is |-> "byte", value |-> b]
Escape(b) == [is |-> "escape", value |-> b]
Unit(u) == [is |-> "unit", value |-> u]
BadEscape == [is |-> "bad", value |-> 0]

(* Units on both sides of every limit: of the lengths of a character and   *)
(* of the two kinds of surrogates.                                         *)
BoundaryUnits ==
    {0, 127, 128, 2047, 2048, 55295, 55296, 56319, 56320, 57343, 57344, 65535}

TextElements == {Byte(65), Escape(10), BadEscape} \cup {Unit(u) : u \in BoundaryUnits}

TextGiven ==
    /\ text = <<>>
    /\ text' \in UNION {[1 .. n -> TextElements] : n \in 1 .. 3}
    /\ UNCHANGED <<scan, unescaped, textOutcome>>

(* A byte that carries six bits of a code point, from this bit on. *)
Continuation(cp, bit) == 128 + ((cp \div bit) % 64)

codePointToUTF8(cp) ==
    CASE cp <= 127 -> <<cp>>
      [] cp > 127 /\ cp <= 2047 -> <<192 + cp \div 64, Continuation(cp, 1)>>
      [] cp > 2047 /\ cp <= 65535 -> <<224 + cp \div 4096, Continuation(cp, 64), Continuation(cp, 1)>>
      [] OTHER -> <<240 + cp \div 262144, Continuation(cp, 4096), Continuation(cp, 64), Continuation(cp, 1)>>

IsHigh(e) == e.is = "unit" /\ e.value \in 55296 .. 56319
IsLow(e) == e.is = "unit" /\ e.value \in 56320 .. 57343

(* decodeUnicodeCodePoint of a high surrogate and the unit behind it,      *)
(* which is not asked whether it is a low one.                             *)
Combined(high, unit) == 65536 + (high % 1024) * 1024 + (unit % 1024)

Element == text[scan + 1]
Second == text[scan + 2]

Decodes(elements, bytes) ==
    /\ scan' = scan + elements
    /\ unescaped' = unescaped \o bytes
    /\ UNCHANGED <<text, textOutcome>>

TextRefused == textOutcome' = "false" /\ UNCHANGED <<text, scan, unescaped>>

decodeString ==
    /\ textOutcome = "reading"
    /\ scan < Len(text)
    /\ CASE Element.is \in {"byte", "escape"} -> Decodes(1, <<Element.value>>)
         [] Element.is = "unit" /\ ~IsHigh(Element) -> Decodes(1, codePointToUTF8(Element.value))
         [] IsHigh(Element) /\ scan + 1 < Len(text) /\ Second.is = "unit" ->
                Decodes(2, codePointToUTF8(Combined(Element.value, Second.value)))
         [] OTHER -> TextRefused

TextEnds ==
    /\ textOutcome = "reading"
    /\ text # <<>>
    /\ scan = Len(text)
    /\ textOutcome' = "true"
    /\ UNCHANGED <<text, scan, unescaped>>

TextNext == TextGiven \/ decodeString \/ TextEnds

-----------------------------------------------------------------------------
(* The reference: the code points of a text by the definition of UTF-16.   *)

Paired ==
    \A i \in DOMAIN text :
        /\ IsHigh(text[i]) => i < Len(text) /\ IsLow(text[i + 1])
        /\ IsLow(text[i]) => i > 1 /\ IsHigh(text[i - 1])

(* The code point that begins at an element; none at a low surrogate.      *)
PointAt(i) ==
    CASE IsLow(text[i]) -> <<>>
      [] IsHigh(text[i]) -> <<65536 + (text[i].value - 55296) * 1024 + (text[i + 1].value - 56320)>>
      [] OTHER -> <<text[i].value>>

Points == FlattenSeq([i \in DOMAIN text |-> PointAt(i)])

Spells(bytes, points) ==
    LET from[k \in 1 .. Len(points) + 1, i \in 1 .. Len(bytes) + 1] ==
            IF k > Len(points) THEN i > Len(bytes)
            ELSE \E end \in i .. Len(bytes) :
                     /\ IsCharacter(SubSeq(bytes, i, end))
                     /\ CodePoint(SubSeq(bytes, i, end)) = points[k]
                     /\ from[k + 1, end + 1]
    IN  from[1, 1]

(* A string whose surrogates are paired is decoded to the UTF-8 of its     *)
(* code points, and is refused only for an escape that cannot be read.     *)
StringExact ==
    Paired => /\ textOutcome = "true" => Spells(unescaped, Points)
              /\ textOutcome = "false" => BadEscape \in ToSet(text)
=============================================================================
