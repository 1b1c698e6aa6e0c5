----------------------------- MODULE JsonReader -----------------------------
(***************************************************************************)
(* Json::Reader, which the message handlers and the constructors that read *)
(* a file give their text to: readValue, readObject and readArray as a     *)
(* machine with a stack, one step for each token, and decodeNumber, one    *)
(* step for each digit; decodeString is in JsonString.  The values that    *)
(* are built are left out.                                                 *)
(***************************************************************************)
EXTENDS JsonString

CONSTANTS
    MaxTokens,          \* bound: tokens of a document
    StackLimit,         \* stackLimit_g, 1000 in the code
    maxLargestInt       \* Value::maxLargestInt, 2^63 - 1 in the code

ASSUME JsonAssumption ==
    {MaxTokens, StackLimit, maxLargestInt} \subseteq Nat \ {0}

(* A scalar is a number, true, false or null.  A name may be the empty     *)
(* string, which the code tells apart.                                     *)
Tokens == {"{", "}", "[", "]", ",", ":", "scalar", "string", "empty", "comment", "end"}

VARIABLES
    nodes_,             \* the objects and arrays that are open
    expects,            \* where the innermost of them, or the reader, is
    outcome,            \* what parse returns: "reading", "true", "false",
                        \* or "thrown"
    document,           \* history: the tokens read
    lenient             \* history: a token was let pass that JSON forbids

documentVars == <<nodes_, expects, outcome, document, lenient>>

DocumentInit ==
    /\ nodes_ = <<>>
    /\ expects = "value"
    /\ outcome = "reading"
    /\ document = <<>>
    /\ lenient = FALSE

Reading(where, token) ==
    /\ outcome = "reading"
    /\ expects = where
    /\ token \in Tokens
    /\ Len(document) < MaxTokens
    /\ document' = Append(document, token)

(* A value has ended: parse returns, or the container of the value goes    *)
(* on.  What follows the document is not looked at.                        *)
ValueRead(open) ==
    /\ nodes_' = open
    /\ IF open = <<>>
       THEN outcome' = "true" /\ UNCHANGED expects
       ELSE /\ expects' = IF Last(open).kind = "object" THEN "objectComma" ELSE "arrayComma"
            /\ UNCHANGED outcome

(* readValue counts its nesting before it reads a token. *)
ReadValue ==
    /\ expects' = "value"
    /\ outcome' = IF Len(nodes_) >= StackLimit THEN "thrown" ELSE outcome
    /\ UNCHANGED nodes_

GoOn(where) == expects' = where /\ UNCHANGED <<nodes_, outcome>>

(* recoverFromError skips tokens, and every caller returns false. *)
Refuse == outcome' = "false" /\ UNCHANGED <<nodes_, expects>>

Open(kind, where) ==
    /\ nodes_' = Append(nodes_, [kind |-> kind, unnamed |-> TRUE, members |-> FALSE])
    /\ expects' = where
    /\ UNCHANGED outcome

ValueToken(token) ==
    CASE token = "comment" -> GoOn("value")
      [] token = "{" -> Open("object", "objectName")
      [] token = "[" -> Open("array", "arrayStart")
      [] token \in {"scalar", "string", "empty"} -> ValueRead(nodes_)
      [] OTHER -> Refuse

readValue(token) ==
    /\ Reading("value", token)
    /\ ValueToken(token)
    /\ UNCHANGED lenient

(* readArray looks for a "]" that follows at once before it calls          *)
(* readValue.                                                              *)
arrayStart(token) ==
    /\ Reading("arrayStart", token)
    /\ IF token = "]" THEN ValueRead(Front(nodes_))
       ELSE IF Len(nodes_) >= StackLimit THEN ReadValue
       ELSE ValueToken(token)
    /\ UNCHANGED lenient

NameRead(token) ==
    /\ nodes_' = [nodes_ EXCEPT ![Len(nodes_)] =
                     [@ EXCEPT !.unnamed = (token = "empty"), !.members = TRUE]]
    /\ expects' = "objectColon"
    /\ UNCHANGED outcome

(* Mutant: "}" ends the object after a comma too. *)
objectName_AfterComma(token) ==
    /\ Reading("objectName", token)
    /\ UNCHANGED lenient
    /\ CASE token = "comment" -> GoOn("objectName")
         [] token = "}" -> ValueRead(Front(nodes_))
         [] token \in {"string", "empty"} -> NameRead(token)
         [] OTHER -> Refuse

(* "}" may come here if `name' is empty: at the start, and behind a comma  *)
(* when the member before had the empty name.                              *)
objectName(token) ==
    /\ Reading("objectName", token)
    /\ lenient' = (lenient \/ (token = "}" /\ Last(nodes_).members))
    /\ CASE token = "comment" -> GoOn("objectName")
         [] token = "}" /\ Last(nodes_).unnamed -> ValueRead(Front(nodes_))
         [] token \in {"string", "empty"} -> NameRead(token)
         [] OTHER -> Refuse

objectColon(token) ==
    /\ Reading("objectColon", token)
    /\ IF token = ":" THEN ReadValue ELSE Refuse
    /\ UNCHANGED lenient

objectComma(token) ==
    /\ Reading("objectComma", token)
    /\ CASE token = "}" -> ValueRead(Front(nodes_))
         [] token = "," -> GoOn("objectName")
         [] token = "comment" -> GoOn("objectCommented")
         [] OTHER -> Refuse
    /\ UNCHANGED lenient

(* After a comment any token passes for the comma. *)
objectCommented(token) ==
    /\ Reading("objectCommented", token)
    /\ CASE token = "}" -> ValueRead(Front(nodes_))
         [] token = "comment" -> GoOn("objectCommented")
         [] OTHER -> GoOn("objectName")
    /\ lenient' = (lenient \/ token \notin {"}", ",", "comment"})

arrayComma(token) ==
    /\ Reading("arrayComma", token)
    /\ CASE token = "comment" -> GoOn("arrayComma")
         [] token = "," -> ReadValue
         [] token = "]" -> ValueRead(Front(nodes_))
         [] OTHER -> Refuse
    /\ UNCHANGED lenient

DocumentNext ==
    \E token \in Tokens :
        \/ readValue(token)
        \/ arrayStart(token)
        \/ objectName(token)
        \/ objectColon(token)
        \/ objectComma(token)
        \/ objectCommented(token)
        \/ arrayComma(token)

-----------------------------------------------------------------------------
(* decodeNumber *)

VARIABLES
    number,             \* the token: its sign and the digits
    current,            \* how many digits were read
    value,              \* what they make, a LargestUInt
    decoded             \* "none", "double", or the integer

numberVars == <<number, current, value, decoded>>

NumberInit ==
    /\ number = [isNegative |-> FALSE, digits |-> <<>>]
    /\ current = 0
    /\ value = 0
    /\ decoded = [type |-> "none"]

(* Digits for which a value just fits, and just does not. *)
Digits == {0, 1, 2, 4, 5, 6, 7, 8}
Numbers == [isNegative : BOOLEAN, digits : UNION {[1 .. n -> Digits] : n \in 1 .. 4}]

NumberStarts ==
    /\ number.digits = <<>>
    /\ number' \in Numbers
    /\ UNCHANGED <<current, value, decoded>>

maxIntegerValue == IF number.isNegative THEN maxLargestInt + 1 ELSE 2 * maxLargestInt + 1
threshold == maxIntegerValue \div 10
Digit == number.digits[current + 1]

(* Another digit would overflow the LargestUInt. *)
TooLarge ==
    /\ value >= threshold
    /\ \/ value > threshold
       \/ current + 1 # Len(number.digits)
       \/ Digit > maxIntegerValue % 10

NextDigit ==
    /\ decoded.type = "none"
    /\ current < Len(number.digits)
    /\ IF TooLarge
       THEN decoded' = [type |-> "double"] /\ UNCHANGED <<current, value>>
       ELSE /\ value' = value * 10 + Digit
            /\ current' = current + 1
            /\ UNCHANGED decoded
    /\ UNCHANGED number

NumberEnds ==
    /\ decoded.type = "none"
    /\ number.digits # <<>>
    /\ current = Len(number.digits)
    /\ decoded' = [type |-> "integer", value |-> IF number.isNegative THEN -value ELSE value]
    /\ UNCHANGED <<number, current, value>>

NumberNext == NumberStarts \/ NextDigit \/ NumberEnds

-----------------------------------------------------------------------------
(* The JSON documents without comments that have n tokens. *)

Scalars == {<<"scalar">>, <<"string">>, <<"empty">>}
Concatenated(S, T) == {s \o t : s \in S, t \in T}

RECURSIVE Values(_), Elements(_), Members(_)
Elements(n) ==
    IF n = 0 THEN {}
    ELSE Values(n) \cup UNION {Concatenated(Values(k), Concatenated({<<",">>}, Elements(n - 1 - k))) : k \in 1 .. n - 2}
Members(n) ==
    IF n < 3 THEN {}
    ELSE LET member(k) == Concatenated({<<"string", ":">>, <<"empty", ":">>}, Values(k - 2))
         IN  member(n) \cup UNION {Concatenated(member(k), Concatenated({<<",">>}, Members(n - 1 - k))) : k \in 3 .. n - 4}
Values(n) ==
    CASE n = 0 -> {}
      [] n = 1 -> Scalars
      [] n = 2 -> {<<"[", "]">>, <<"{", "}">>}
      [] OTHER -> Concatenated({<<"[">>}, Concatenated(Elements(n - 2), {<<"]">>}))
                  \cup Concatenated({<<"{">>}, Concatenated(Members(n - 2), {<<"}">>}))

Documents == UNION {Values(n) : n \in 1 .. MaxTokens}
Beginnings == UNION {{SubSeq(d, 1, i) : i \in DOMAIN d} : d \in Documents}

Uncommented == SelectSeq(document, LAMBDA token : token # "comment")

(* What parse accepts is JSON with comments, but for the two leniencies;   *)
(* no JSON document within the bound is refused, unless it has comments;   *)
(* and parse throws only for a document nested deeper than the limit.      *)
DocumentExact ==
    /\ outcome = "true" /\ ~lenient => Uncommented \in Documents
    /\ outcome = "false" /\ Uncommented = document => document \notin Beginnings
    /\ outcome = "thrown" => Len(nodes_) = StackLimit

Spelled == FoldLeft(LAMBDA v, digit : v * 10 + digit, 0, number.digits)

(* An integer is decoded exactly when it fits, at both ends of the range,  *)
(* with leading zeros too, and no product on the way there overflows.      *)
NumberExact ==
    /\ value <= 2 * maxLargestInt + 1
    /\ decoded.type # "none" =>
          decoded = IF Spelled <= maxIntegerValue
                    THEN [type |-> "integer", value |-> IF number.isNegative THEN -Spelled ELSE Spelled]
                    ELSE [type |-> "double"]

(* All three together: what a handler or a constructor is given is what    *)
(* the text says.                                                          *)
JsonExact == DocumentExact /\ NumberExact /\ StringExact
=============================================================================
