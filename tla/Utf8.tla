-------------------------------- MODULE Utf8 --------------------------------
(***************************************************************************)
(* utf-8.c: whether a null-terminated string is UTF-8.  MQTTAsync_create,  *)
(* MQTTAsync_subscribeMany, MQTTAsync_unsubscribeMany and MQTTAsync_send   *)
(* refuse a client id or topic that is not, with MQTTASYNC_BAD_UTF8_STRING.*)
(* A string is a sequence of bytes without its null.                       *)
(***************************************************************************)
EXTENDS Integers, Sequences, SequencesExt

CONSTANT Strings        \* the client ids and topics that are checked

ASSUME StringsAssumption == Strings \subseteq Seq(1..255)

\* valid_ranges: for each row the lower and upper limit of each byte.
valid_ranges ==
    << << <<0, 127>> >>,
       << <<194, 223>>, <<128, 191>> >>,
       << <<224, 224>>, <<160, 191>>, <<128, 191>> >>,
       << <<225, 236>>, <<128, 191>>, <<128, 191>> >>,
       << <<237, 237>>, <<128, 159>>, <<128, 191>> >>,
       << <<238, 239>>, <<128, 191>>, <<128, 191>> >>,
       << <<240, 240>>, <<144, 191>>, <<128, 191>>, <<128, 191>> >>,
       << <<241, 243>>, <<128, 191>>, <<128, 191>>, <<128, 191>> >>,
       << <<244, 244>>, <<128, 143>>, <<128, 191>>, <<128, 191>> >> >>

\* A byte as a char, which is signed on the platforms the makefiles build for.
Char(b) == IF b < 128 THEN b ELSE b - 256

\* A byte of the string or, behind its end, the null.
ByteAt(data, i) == IF i <= Len(data) THEN data[i] ELSE 0

\* How many bytes the first byte announces.
charlen(b) == IF b < 128 THEN 1 ELSE IF b >= 240 THEN 4 ELSE IF b >= 224 THEN 3 ELSE 2

\* Mutant: the length is checked and the ranges are not.
UTF8_char_validate_Length(data, i) ==
    IF charlen(data[i]) > Len(data) THEN 0 ELSE i + charlen(data[i])

\* UTF8_char_validate of the character that starts at this place: the place of
\* the next one, or 0.  It is given the length of the whole string, so it reads
\* the null when the last character is cut.
UTF8_char_validate(data, i) ==
    LET n == charlen(data[i])
        Matches(row) ==
            /\ Len(row) = n
            /\ \A j \in 1..n : /\ Char(ByteAt(data, i + j - 1)) >= Char(row[j][1])
                               /\ Char(ByteAt(data, i + j - 1)) <= Char(row[j][2])
    IN  IF n <= Len(data) /\ \E r \in DOMAIN valid_ranges : Matches(valid_ranges[r]) THEN i + n ELSE 0

VARIABLES
    string,             \* the client id or topic
    at                  \* where UTF8_validateString is in it; 0: refused

utf8Vars == <<string, at>>

Utf8Init == string = <<>> /\ at = 1

\* UTF8_validateString is called with a string, and goes from one character to
\* the next.
StringGiven ==
    /\ string = <<>>
    /\ string' \in Strings
    /\ UNCHANGED at

UTF8_validate ==
    /\ at \in 1..Len(string)
    /\ at' = UTF8_char_validate(string, at)
    /\ UNCHANGED string

Utf8Next == StringGiven \/ UTF8_validate

-----------------------------------------------------------------------------
(* The reference: the code points a string could encode.                   *)

\* The number that the bytes of a character spell, by the bits of each.
CodePoint(c) ==
    CASE Len(c) = 1 -> c[1]
      [] Len(c) = 2 -> (c[1] % 32) * 64 + (c[2] % 64)
      [] Len(c) = 3 -> (c[1] % 16) * 4096 + (c[2] % 64) * 64 + (c[3] % 64)
      [] Len(c) = 4 -> (c[1] % 8) * 262144 + (c[2] % 64) * 4096 + (c[3] % 64) * 64 + (c[4] % 64)

\* The leading bits are right, the number is a code point that is no
\* surrogate, and a shorter character could not encode it.
IsCharacter(c) ==
    /\ Len(c) \in 1..4
    /\ c[1] \div (<<128, 32, 16, 8>>[Len(c)]) = <<0, 6, 14, 30>>[Len(c)]
    /\ \A i \in 2..Len(c) : c[i] \div 64 = 2
    /\ CodePoint(c) >= <<0, 128, 2048, 65536>>[Len(c)]
    /\ CodePoint(c) <= 55295 \/ (CodePoint(c) >= 57344 /\ CodePoint(c) <= 1114111)

\* The string is a sequence of characters.
WellFormed(data) ==
    LET from[i \in 1..(Len(data) + 1)] ==
            \/ i = Len(data) + 1
            \/ \E end \in i..Len(data) : IsCharacter(SubSeq(data, i, end)) /\ from[end + 1]
    IN  from[1]

\* A client id or topic is accepted exactly when it is well-formed UTF-8, at
\* every limit of the table and wherever the last character is cut short.
Utf8Exact == at \notin 1..Len(string) => (at # 0 <=> WellFormed(string))
=============================================================================
