--------------------------- MODULE LibraryProofs ---------------------------
(***************************************************************************)
(* Proofs about the sequential parts of the program and of the libraries   *)
(* it is built with: what the searches of message_arrived find in a topic, *)
(* what the validators of utf-8.c accept, what the operations of           *)
(* LinkedList.c make of a list, and that MQTTPacket.c reads the lengths    *)
(* and the packets that were sent.  The parts share no state, so each has  *)
(* a specification of its own.                                             *)
(***************************************************************************)
EXTENDS CommandTopic, Utf8, LinkedList, PacketReader, SequenceTheorems, WellFoundedInduction, TLAPS

(* A set of numbers that is not empty has a least one. *)
LEMMA LeastNumber ==
    ASSUME NEW S \in SUBSET Nat, S # {}
    PROVE  \E i \in S : \A k \in S : i <= k
<1> DEFINE R == OpToRel(<, Nat)
<1>1. \A i, k \in Nat : i < k => <<i, k>> \in R
  BY DEF OpToRel
<1>2. IsWellFoundedOn(R, Nat)
  BY NatLessThanWellFounded
<1> HIDE DEF R
<1>3. PICK i \in S : \A k \in S : ~(<<k, i>> \in R)
  BY <1>2, WFMin
<1>4. \A k \in S : ~(k < i)
  BY <1>1, <1>3
<1> QED
  BY <1>4

(* The number that is in a set of numbers and below the others. *)
LEMMA MinIs ==
    ASSUME NEW S, NEW k \in S, \A j \in S : j \in Int /\ k <= j
    PROVE  Min(S) = k
<1>1. Min(S) = CHOOSE x \in S : \A y \in S : x <= y
  BY DEF Min
<1>2. Min(S) \in S /\ \A y \in S : Min(S) <= y
  BY <1>1
<1>3. Min(S) \in Int /\ k \in Int /\ k <= Min(S) /\ Min(S) <= k
  BY <1>2
<1> QED
  BY <1>3

-----------------------------------------------------------------------------
(* The topics of commands *)

TopicSpec == TopicInit /\ [][TopicNext]_topicVars

(* A search finds the first segment that ends in the word. *)
LEMMA FirstFound ==
    ASSUME NEW topic, NEW word, NEW from, NEW k \in Int,
           k \in Found(topic, word, from),
           \A j \in Found(topic, word, from) : j \in Int /\ k <= j
    PROVE  Min(Found(topic, word, from)) = k /\ After(topic, word, from) = topic[k + 1]
<1> DEFINE F == Found(topic, word, from)
<1>1. k \in F /\ \A j \in F : j \in Int /\ k <= j
  OBVIOUS
<1> HIDE DEF F
<1>2. Min(F) = k /\ F # {}
  BY <1>1, MinIs
<1> QED
  BY <1>2 DEF After, F

(* The segments of a device topic and of a gateway topic that are found. *)
LEMMA DeviceFound ==
    ASSUME NEW topic, Len(topic) = 5,
           topic[1].ends \notin Words, topic[2].ends = "cmd", topic[4].ends = "fmt"
    PROVE  Command(topic).commandName = topic[3] /\ Command(topic).format = topic[5]
<1>1. Min(Found(topic, "cmd", 1)) = 2 /\ After(topic, "cmd", 1) = topic[3]
  <2>1. 2 \in Found(topic, "cmd", 1) /\ \A j \in Found(topic, "cmd", 1) : j \in Int /\ 2 <= j
    BY DEF Found, Words
  <2> QED
    BY <2>1, FirstFound
<1>2. After(topic, "fmt", 4) = topic[5]
  <2>1. 4 \in Found(topic, "fmt", 4) /\ \A j \in Found(topic, "fmt", 4) : j \in Int /\ 4 <= j
    BY DEF Found
  <2> QED
    BY <2>1, FirstFound
<1> QED
  BY <1>1, <1>2 DEF Command

(* The same for a gateway topic. *)
LEMMA GatewayFound ==
    ASSUME NEW topic, Len(topic) = 9,
           topic[1].ends \notin Words, topic[2].ends = "type", topic[4].ends = "id",
           topic[6].ends = "cmd", topic[8].ends = "fmt"
    PROVE  /\ Command(topic).deviceType = topic[3]
           /\ topic[3].ends # "id" => Command(topic).deviceId = topic[5]
           /\ "cmd" \notin {topic[3].ends, topic[5].ends} =>
                 Command(topic).commandName = topic[7] /\ Command(topic).format = topic[9]
<1>1. After(topic, "type", 1) = topic[3]
  <2>1. 2 \in Found(topic, "type", 1) /\ \A j \in Found(topic, "type", 1) : j \in Int /\ 2 <= j
    BY DEF Found, Words
  <2> QED
    BY <2>1, FirstFound
<1>2. ASSUME topic[3].ends # "id" PROVE After(topic, "id", 1) = topic[5]
  <2>1. 4 \in Found(topic, "id", 1) /\ \A j \in Found(topic, "id", 1) : j \in Int /\ 4 <= j
    BY <1>2 DEF Found, Words
  <2> QED
    BY <2>1, FirstFound
<1>3. ASSUME "cmd" \notin {topic[3].ends, topic[5].ends}
      PROVE  /\ Min(Found(topic, "cmd", 1)) = 6
             /\ After(topic, "cmd", 1) = topic[7]
             /\ After(topic, "fmt", 8) = topic[9]
  <2>1. 6 \in Found(topic, "cmd", 1) /\ \A j \in Found(topic, "cmd", 1) : j \in Int /\ 6 <= j
    BY <1>3 DEF Found, Words
  <2>2. 8 \in Found(topic, "fmt", 8) /\ \A j \in Found(topic, "fmt", 8) : j \in Int /\ 8 <= j
    BY DEF Found
  <2> QED
    BY <2>1, <2>2, FirstFound
<1> QED
  BY <1>1, <1>2, <1>3 DEF Command

(* The command of a device is found at its own words. *)
LEMMA DeviceParsed ==
    ASSUME NEW cmd, NEW fmt
    PROVE  LET made == Command(DeviceTopic(cmd, fmt))
           IN  made.commandName = cmd /\ made.format = fmt
<1>1. iot2.ends \notin Words /\ \A w : Word(w).ends = w
  <2>1. iot2.ends = "" /\ \A w : Word(w).ends = w
    BY Zenon DEF iot2, Word
  <2>2. "" \notin Words
    BY Zenon DEF Words
  <2> QED
    BY <2>1, <2>2, Zenon
<1>2. LET topic == DeviceTopic(cmd, fmt)
      IN  /\ Len(topic) = 5 /\ topic[1] = iot2 /\ topic[2] = Word("cmd") /\ topic[3] = cmd
          /\ topic[4] = Word("fmt") /\ topic[5] = fmt
  BY DEF DeviceTopic
<1> QED
  BY <1>1, <1>2, DeviceFound

(* The command for a device behind a gateway. *)
LEMMA GatewayParsed ==
    ASSUME NEW type, NEW id, NEW cmd, NEW fmt
    PROVE  LET made == Command(GatewayTopic(type, id, cmd, fmt))
           IN  /\ made.deviceType = type
               /\ type.ends # "id" => made.deviceId = id
               /\ "cmd" \notin {type.ends, id.ends} => made.commandName = cmd /\ made.format = fmt
<1>1. iot2.ends \notin Words /\ \A w : Word(w).ends = w
  <2>1. iot2.ends = "" /\ \A w : Word(w).ends = w
    BY Zenon DEF iot2, Word
  <2>2. "" \notin Words
    BY Zenon DEF Words
  <2> QED
    BY <2>1, <2>2, Zenon
<1>2. LET topic == GatewayTopic(type, id, cmd, fmt)
      IN  /\ Len(topic) = 9 /\ topic[1] = iot2 /\ topic[2] = Word("type") /\ topic[3] = type
          /\ topic[4] = Word("id") /\ topic[5] = id /\ topic[6] = Word("cmd") /\ topic[7] = cmd
          /\ topic[8] = Word("fmt") /\ topic[9] = fmt
  BY DEF GatewayTopic
<1> QED
  BY <1>1, <1>2, GatewayFound

(* The Command was made of the names that arrived. *)
TopicInv ==
    /\ names = <<>> => command = <<>>
    /\ names # <<>> => names \in DeviceNames \cup GatewayNames
    /\ command # <<>> => command = Command(sentTopic)

(* The names that a sender put into the topic of a command come out of it, *)
(* but for those that a search started at the front can miss.              *)
THEOREM TopicParsed == TopicSpec => []CommandParsed
<1>1. TopicInit => TopicInv
  BY DEF TopicInit, TopicInv
<1>2. TopicInv /\ [TopicNext]_topicVars => TopicInv'
  BY DEF TopicInv, TopicNext, topicVars, CommandArrives, CommandMade, sentTopic
<1>3. TopicInv => CommandParsed
  <2> SUFFICES ASSUME TopicInv, command # <<>>
               PROVE  IF names \in DeviceNames
                      THEN command.commandName = names.cmd /\ command.format = names.fmt
                      ELSE /\ command.deviceType = names.type
                           /\ names.type.ends # "id" => command.deviceId = names.id
                           /\ "cmd" \notin {names.type.ends, names.id.ends} =>
                                 command.commandName = names.cmd /\ command.format = names.fmt
    BY DEF CommandParsed
  <2>1. command = Command(sentTopic) /\ names \in DeviceNames \cup GatewayNames
    BY DEF TopicInv
  <2>2. CASE names \in DeviceNames
    BY <2>1, <2>2, DeviceParsed DEF sentTopic
  <2>3. CASE names \notin DeviceNames
    BY <2>1, <2>3, GatewayParsed DEF sentTopic
  <2> QED
    BY <2>2, <2>3
<1> QED
  BY <1>1, <1>2, <1>3, PTL DEF TopicSpec

-----------------------------------------------------------------------------
(* UTF-8 *)

(* The bytes of a string: its null is not one of them. *)
Byte == 1 .. 255

(* The rows of valid_ranges, by the number of bytes. *)
Row1(a) == a \in 0 .. 127
Row2(a, b) == a \in 194 .. 223 /\ b \in 128 .. 191
Row3(a, b, c) ==
    /\ b \in 128 .. 191 /\ c \in 128 .. 191
    /\ \/ a = 224 /\ b >= 160
       \/ a \in 225 .. 236
       \/ a = 237 /\ b <= 159
       \/ a \in 238 .. 239
Row4(a, b, c, d) ==
    /\ b \in 128 .. 191 /\ c \in 128 .. 191 /\ d \in 128 .. 191
    /\ \/ a = 240 /\ b >= 144
       \/ a \in 241 .. 243
       \/ a = 244 /\ b <= 143

(* A byte is in a range exactly when the signed chars are. *)
InRange(b, range) == Char(b) >= Char(range[1]) /\ Char(b) <= Char(range[2])

(* The comparison of chars is that of bytes: a range has both ends on one side of 128. *)
LEMMA RangeIsUnsigned ==
    ASSUME NEW b \in 0 .. 255, NEW low \in 0 .. 255, NEW high \in 0 .. 255, NEW range,
           range = <<low, high>>, low <= high, (low < 128) <=> (high < 128)
    PROVE  InRange(b, range) <=> b \in low .. high
  BY DEF InRange, Char

RowMatches(row, n, B) == Len(row) = n /\ \A j \in 1 .. n : InRange(B[j], row[j])

(* The rows of valid_ranges for each number of bytes, taken together. *)
LEMMA Rows ==
    ASSUME NEW a \in 0 .. 255, NEW b \in 0 .. 255, NEW c \in 0 .. 255, NEW d \in 0 .. 255, NEW B,
           B = <<a, b, c, d>>
    PROVE  /\ (\E r \in DOMAIN valid_ranges : RowMatches(valid_ranges[r], 1, B)) <=> Row1(a)
           /\ (\E r \in DOMAIN valid_ranges : RowMatches(valid_ranges[r], 2, B)) <=> Row2(a, b)
           /\ (\E r \in DOMAIN valid_ranges : RowMatches(valid_ranges[r], 3, B)) <=> Row3(a, b, c)
           /\ (\E r \in DOMAIN valid_ranges : RowMatches(valid_ranges[r], 4, B)) <=> Row4(a, b, c, d)
<1> DEFINE M(r, n) == RowMatches(valid_ranges[r], n, B)
<1> DEFINE In(x, low, high) == Char(x) >= Char(low) /\ Char(x) <= Char(high)
<1>1. /\ DOMAIN valid_ranges = 1 .. 9
      /\ Len(valid_ranges[1]) = 1
      /\ Len(valid_ranges[2]) = 2
      /\ \A r \in {3, 4, 5, 6} : Len(valid_ranges[r]) = 3
      /\ \A r \in {7, 8, 9} : Len(valid_ranges[r]) = 4
  BY DEF valid_ranges
<1>2. (M(1, 1) <=> In(a, 0, 127))
  BY DEF RowMatches, valid_ranges, InRange
<1>3. M(2, 2) <=> (In(a, 194, 223) /\ In(b, 128, 191))
  BY DEF RowMatches, valid_ranges, InRange
<1>4. /\ M(3, 3) <=> (In(a, 224, 224) /\ In(b, 160, 191) /\ In(c, 128, 191))
      /\ M(4, 3) <=> (In(a, 225, 236) /\ In(b, 128, 191) /\ In(c, 128, 191))
      /\ M(5, 3) <=> (In(a, 237, 237) /\ In(b, 128, 159) /\ In(c, 128, 191))
      /\ M(6, 3) <=> (In(a, 238, 239) /\ In(b, 128, 191) /\ In(c, 128, 191))
  BY DEF RowMatches, valid_ranges, InRange
<1>5. /\ M(7, 4) <=> (In(a, 240, 240) /\ In(b, 144, 191) /\ In(c, 128, 191) /\ In(d, 128, 191))
      /\ M(8, 4) <=> (In(a, 241, 243) /\ In(b, 128, 191) /\ In(c, 128, 191) /\ In(d, 128, 191))
      /\ M(9, 4) <=> (In(a, 244, 244) /\ In(b, 128, 143) /\ In(c, 128, 191) /\ In(d, 128, 191))
  BY DEF RowMatches, valid_ranges, InRange
<1>6. \A r \in 1 .. 9, n \in 1 .. 4 : M(r, n) => n = Len(valid_ranges[r])
  BY DEF RowMatches
<1>7. /\ \A r \in 1 .. 9 : M(r, 1) => r = 1
      /\ \A r \in 1 .. 9 : M(r, 2) => r = 2
      /\ \A r \in 1 .. 9 : M(r, 3) => r \in 3 .. 6
      /\ \A r \in 1 .. 9 : M(r, 4) => r \in 7 .. 9
  <2> HIDE DEF M
  <2> QED
    BY <1>1, <1>6
<1>8. \A n : (\E r \in DOMAIN valid_ranges : RowMatches(valid_ranges[r], n, B)) <=> \E r \in 1 .. 9 : M(r, n)
  BY <1>1
<1> HIDE DEF M
<1>9. M(1, 1) <=> Row1(a)
  BY <1>2 DEF Row1, Char
<1>10. M(2, 2) <=> Row2(a, b)
  BY <1>3 DEF Row2, Char
<1>11. (\E r \in 3 .. 6 : M(r, 3)) <=> Row3(a, b, c)
  <2>1. (\E r \in 3 .. 6 : M(r, 3)) <=> (M(3, 3) \/ M(4, 3) \/ M(5, 3) \/ M(6, 3))
    OBVIOUS
  <2> QED
    BY <2>1, <1>4 DEF Row3, Char
<1>12. (\E r \in 7 .. 9 : M(r, 4)) <=> Row4(a, b, c, d)
  <2>1. (\E r \in 7 .. 9 : M(r, 4)) <=> (M(7, 4) \/ M(8, 4) \/ M(9, 4))
    OBVIOUS
  <2> QED
    BY <2>1, <1>5 DEF Row4, Char
<1>13. /\ (\E r \in 1 .. 9 : M(r, 1)) <=> M(1, 1)
       /\ (\E r \in 1 .. 9 : M(r, 2)) <=> M(2, 2)
       /\ (\E r \in 1 .. 9 : M(r, 3)) <=> \E r \in 3 .. 6 : M(r, 3)
       /\ (\E r \in 1 .. 9 : M(r, 4)) <=> \E r \in 7 .. 9 : M(r, 4)
  BY <1>7
<1> QED
  BY <1>8, <1>9, <1>10, <1>11, <1>12, <1>13

(* The bytes a, b, c, d begin with a character of n bytes, by the table. *)
Encodes(n, a, b, c, d) ==
    \/ n = 1 /\ Row1(a)
    \/ n = 2 /\ Row2(a, b)
    \/ n = 3 /\ Row3(a, b, c)
    \/ n = 4 /\ Row4(a, b, c, d)

(* Numbers alone: the table says what the bits of the bytes mean. *)
LEMMA Bits1 ==
    ASSUME NEW a \in Byte
    PROVE  (a \div 128 = 0 /\ a >= 0 /\ (a <= 55295 \/ (a >= 57344 /\ a <= 1114111))) <=> Row1(a)
  BY DEF Byte, Row1

(* The same for two bytes. *)
LEMMA Bits2 ==
    ASSUME NEW a \in Byte, NEW b \in Byte, NEW p, p = (a % 32) * 64 + (b % 64)
    PROVE  (a \div 32 = 6 /\ b \div 64 = 2 /\ p >= 128 /\ (p <= 55295 \/ (p >= 57344 /\ p <= 1114111)))
           <=> Row2(a, b)
  BY DEF Byte, Row2

(* The same for three bytes. *)
LEMMA Bits3 ==
    ASSUME NEW a \in Byte, NEW b \in Byte, NEW c \in Byte, NEW p,
           p = (a % 16) * 4096 + (b % 64) * 64 + (c % 64)
    PROVE  /\ (/\ a \div 16 = 14 /\ b \div 64 = 2 /\ c \div 64 = 2
               /\ p >= 2048 /\ (p <= 55295 \/ (p >= 57344 /\ p <= 1114111)))
           <=> Row3(a, b, c)
  BY DEF Byte, Row3

(* The same for four bytes. *)
LEMMA Bits4 ==
    ASSUME NEW a \in Byte, NEW b \in Byte, NEW c \in Byte, NEW d \in Byte, NEW p,
           p = (a % 8) * 262144 + (b % 64) * 4096 + (c % 64) * 64 + (d % 64)
    PROVE  (/\ a \div 8 = 30 /\ b \div 64 = 2 /\ c \div 64 = 2 /\ d \div 64 = 2
            /\ p >= 65536 /\ (p <= 55295 \/ (p >= 57344 /\ p <= 1114111)))
           <=> Row4(a, b, c, d)
  BY DEF Byte, Row4

(* The bytes of a string, and the null behind them. *)
LEMMA ByteTypes ==
    ASSUME NEW text \in Seq(Byte)
    PROVE  /\ \A i \in 1 .. Len(text) : text[i] \in Byte /\ ByteAt(text, i) = text[i]
           /\ \A k \in Nat \ {0} : ByteAt(text, k) \in 0 .. 255
           /\ \A k \in Nat : k > Len(text) => ByteAt(text, k) = 0
<1>1. \A i \in 1 .. Len(text) : text[i] \in Byte
  OBVIOUS
<1>2. \A x \in Byte : x \in 0 .. 255
  BY DEF Byte
<1>3. Len(text) \in Nat
  OBVIOUS
<1>4. \A k \in Nat : k > Len(text) => ByteAt(text, k) = 0
  BY <1>3 DEF ByteAt
<1>5. \A i \in 1 .. Len(text) : ByteAt(text, i) = text[i]
  BY <1>3 DEF ByteAt
<1>6. ASSUME NEW k \in Nat \ {0} PROVE ByteAt(text, k) \in 0 .. 255
  <2>1. CASE k > Len(text)
    BY <1>4, <2>1
  <2>2. CASE k <= Len(text)
    <3>1. k \in 1 .. Len(text)
      BY <1>3, <2>2
    <3>2. ByteAt(text, k) \in Byte
      BY <1>1, <1>5, <3>1
    <3> QED
      BY <1>2, <3>2
  <2> QED
    BY <1>3, <2>1, <2>2
<1> QED
  BY <1>1, <1>4, <1>5, <1>6

(* A character has one to four bytes. *)
LEMMA charlenRange == ASSUME NEW a \in Byte PROVE charlen(a) \in 1 .. 4
  BY DEF Byte, charlen

(* charlen tells the number of bytes of a row, none of which is the null. *)
LEMMA EncodesLength ==
    ASSUME NEW n, NEW a \in Byte, NEW b, NEW c, NEW d, Encodes(n, a, b, c, d)
    PROVE  /\ n = charlen(a)
           /\ n >= 2 => b # 0
           /\ n >= 3 => c # 0
           /\ n >= 4 => d # 0
  BY DEF Byte, Encodes, Row1, Row2, Row3, Row4, charlen

(* UTF8_char_validate finds the row for the number of bytes charlen tells. *)
LEMMA CharValidated ==
    ASSUME NEW text \in Seq(Byte), NEW i \in 1 .. Len(text)
    PROVE  UTF8_char_validate(text, i) =
               IF /\ charlen(text[i]) <= Len(text)
                  /\ Encodes(charlen(text[i]), ByteAt(text, i), ByteAt(text, i + 1),
                             ByteAt(text, i + 2), ByteAt(text, i + 3))
               THEN i + charlen(text[i]) ELSE 0
<1> DEFINE n == charlen(text[i])
           Matches(row) ==
               /\ Len(row) = n
               /\ \A j \in 1..n : /\ Char(ByteAt(text, i + j - 1)) >= Char(row[j][1])
                                  /\ Char(ByteAt(text, i + j - 1)) <= Char(row[j][2])
           Fits == \E r \in DOMAIN valid_ranges : Matches(valid_ranges[r])
           a == ByteAt(text, i)
           b == ByteAt(text, i + 1)
           c == ByteAt(text, i + 2)
           d == ByteAt(text, i + 3)
           B == <<a, b, c, d>>
<1>1. UTF8_char_validate(text, i) = IF n <= Len(text) /\ Fits THEN i + n ELSE 0
  BY DEF UTF8_char_validate
<1>2. text[i] \in Byte /\ n \in 1 .. 4
  BY ByteTypes, charlenRange
<1>3. a \in 0 .. 255 /\ b \in 0 .. 255 /\ c \in 0 .. 255 /\ d \in 0 .. 255
  BY ByteTypes, SMTT(60)
<1>4. \A j \in 1 .. n : ByteAt(text, i + j - 1) = B[j]
  <2> HIDE DEF n
  <2>1. /\ i + 1 - 1 = i /\ i + 2 - 1 = i + 1 /\ i + 3 - 1 = i + 2 /\ i + 4 - 1 = i + 3
    OBVIOUS
  <2>2. \A j \in 1 .. n : j \in {1, 2, 3, 4}
    BY <1>2
  <2>3. B[1] = a /\ B[2] = b /\ B[3] = c /\ B[4] = d
    OBVIOUS
  <2> HIDE DEF B
  <2> SUFFICES ASSUME NEW j \in {1, 2, 3, 4} PROVE ByteAt(text, i + j - 1) = B[j]
    BY <2>2
  <2> QED
    BY <2>1, <2>3
<1>5. \A r \in DOMAIN valid_ranges : Matches(valid_ranges[r]) <=> RowMatches(valid_ranges[r], n, B)
  <2> HIDE DEF n, B
  <2> QED
    BY <1>4 DEF RowMatches, InRange
<1>6. Fits <=> \E r \in DOMAIN valid_ranges : RowMatches(valid_ranges[r], n, B)
  BY <1>5
<1> HIDE DEF n, a, b, c, d, Fits
<1>7. Fits <=> Encodes(n, a, b, c, d)
  <2>1. B = <<a, b, c, d>>
    OBVIOUS
  <2> HIDE DEF B
  <2>2. /\ (\E r \in DOMAIN valid_ranges : RowMatches(valid_ranges[r], 1, B)) <=> Row1(a)
        /\ (\E r \in DOMAIN valid_ranges : RowMatches(valid_ranges[r], 2, B)) <=> Row2(a, b)
        /\ (\E r \in DOMAIN valid_ranges : RowMatches(valid_ranges[r], 3, B)) <=> Row3(a, b, c)
        /\ (\E r \in DOMAIN valid_ranges : RowMatches(valid_ranges[r], 4, B)) <=> Row4(a, b, c, d)
    BY <1>3, <2>1, Rows, ZenonT(60)
  <2>3. n = 1 \/ n = 2 \/ n = 3 \/ n = 4
    BY <1>2
  <2> QED
    BY <1>6, <2>2, <2>3 DEF Encodes
<1> QED
  BY <1>1, <1>7 DEF n, a, b, c, d

(* The bytes of a part of a string. *)
LEMMA Piece ==
    ASSUME NEW text \in Seq(Byte), NEW i \in 1 .. Len(text), NEW end \in i .. Len(text)
    PROVE  LET c == SubSeq(text, i, end)
           IN  /\ Len(c) = end - i + 1
               /\ \A k \in 1 .. Len(c) : c[k] = ByteAt(text, i + k - 1) /\ c[k] \in Byte
<1>1. Len(SubSeq(text, i, end)) = end - i + 1
  BY SubSeqProperties
<1>2. \A k \in 1 .. end - i + 1 : SubSeq(text, i, end)[k] = text[i + k - 1] /\ text[i + k - 1] \in Byte
  BY SubSeqProperties
<1> QED
  BY <1>1, <1>2 DEF ByteAt

(* What RFC 3629 calls a character is what a row of the table allows. *)
LEMMA CharacterRows ==
    ASSUME NEW text \in Seq(Byte), NEW i \in 1 .. Len(text), NEW end \in i .. Len(text)
    PROVE  IsCharacter(SubSeq(text, i, end)) <=>
               Encodes(end - i + 1, ByteAt(text, i), ByteAt(text, i + 1),
                       ByteAt(text, i + 2), ByteAt(text, i + 3))
<1> DEFINE c == SubSeq(text, i, end)
           n == end - i + 1
<1>1. /\ Len(c) = n /\ n \in Nat
      /\ \A k \in 1 .. n : c[k] = ByteAt(text, i + k - 1) /\ c[k] \in Byte
  BY Piece
<1>2. /\ n >= 1 => c[1] = ByteAt(text, i) /\ c[1] \in Byte
      /\ n >= 2 => c[2] = ByteAt(text, i + 1) /\ c[2] \in Byte
      /\ n >= 3 => c[3] = ByteAt(text, i + 2) /\ c[3] \in Byte
      /\ n >= 4 => c[4] = ByteAt(text, i + 3) /\ c[4] \in Byte
  <2> HIDE DEF c, n
  <2>1. /\ i + 1 - 1 = i /\ i + 2 - 1 = i + 1 /\ i + 3 - 1 = i + 2 /\ i + 4 - 1 = i + 3
    OBVIOUS
  <2> QED
    BY <1>1, <2>1
<1>3. n >= 1
  OBVIOUS
<1> HIDE DEF c, n
<1>4. CASE n = 1
  <2>1. IsCharacter(c) <=> (c[1] \div 128 = 0 /\ c[1] >= 0 /\ (c[1] <= 55295 \/ (c[1] >= 57344 /\ c[1] <= 1114111)))
    BY <1>1, <1>4 DEF IsCharacter, CodePoint
  <2>2. IsCharacter(c) <=> Row1(c[1])
    BY <1>2, <1>4, <2>1, Bits1
  <2>3. c[1] = ByteAt(text, i) /\ n = 1 /\ n # 2 /\ n # 3 /\ n # 4
    BY <1>2, <1>3, <1>4
  <2>4. IsCharacter(c) <=> Encodes(n, ByteAt(text, i), ByteAt(text, i + 1), ByteAt(text, i + 2), ByteAt(text, i + 3))
    BY <2>2, <2>3, Zenon DEF Encodes
  <2> QED
    BY <2>4, Zenon DEF c, n
<1>5. CASE n = 2
  <2> DEFINE p == (c[1] % 32) * 64 + (c[2] % 64)
  <2>1. CodePoint(c) = p
    BY <1>1, <1>5 DEF CodePoint
  <2>2. IsCharacter(c) <=> /\ c[1] \div 32 = 6 /\ c[2] \div 64 = 2
                           /\ p >= 128 /\ (p <= 55295 \/ (p >= 57344 /\ p <= 1114111))
    BY <1>1, <1>5, <2>1 DEF IsCharacter
  <2>3. IsCharacter(c) <=> Row2(c[1], c[2])
    BY <1>2, <1>5, <2>2, Bits2
  <2> QED
    BY <1>2, <1>5, <2>3 DEF Encodes, c, n
<1>6. CASE n = 3
  <2> DEFINE p == (c[1] % 16) * 4096 + (c[2] % 64) * 64 + (c[3] % 64)
  <2>1. CodePoint(c) = p
    BY <1>1, <1>6 DEF CodePoint
  <2>2. IsCharacter(c) <=> /\ c[1] \div 16 = 14 /\ c[2] \div 64 = 2 /\ c[3] \div 64 = 2
                           /\ p >= 2048 /\ (p <= 55295 \/ (p >= 57344 /\ p <= 1114111))
    BY <1>1, <1>6, <2>1 DEF IsCharacter
  <2>3. IsCharacter(c) <=> Row3(c[1], c[2], c[3])
    BY <1>2, <1>6, <2>2, Bits3
  <2> QED
    BY <1>2, <1>6, <2>3 DEF Encodes, c, n
<1>7. CASE n = 4
  <2> DEFINE p == (c[1] % 8) * 262144 + (c[2] % 64) * 4096 + (c[3] % 64) * 64 + (c[4] % 64)
  <2>1. CodePoint(c) = p
    BY <1>1, <1>7 DEF CodePoint
  <2>2. IsCharacter(c) <=> /\ c[1] \div 8 = 30 /\ c[2] \div 64 = 2 /\ c[3] \div 64 = 2 /\ c[4] \div 64 = 2
                           /\ p >= 65536 /\ (p <= 55295 \/ (p >= 57344 /\ p <= 1114111))
    BY <1>1, <1>7, <2>1 DEF IsCharacter
  <2>3. IsCharacter(c) <=> Row4(c[1], c[2], c[3], c[4])
    BY <1>2, <1>7, <2>2, Bits4, SMTT(60)
  <2> QED
    BY <1>2, <1>7, <2>3 DEF Encodes, c, n
<1>8. CASE n > 4
  <2>1. ~IsCharacter(c)
    BY <1>1, <1>8, SMTT(60) DEF IsCharacter
  <2> QED
    BY <1>1, <1>8, <2>1 DEF Encodes, c, n
<1> QED
  BY <1>1, <1>3, <1>4, <1>5, <1>6, <1>7, <1>8

(* utf-8.c goes over a character exactly as far as it reaches. *)
LEMMA CharExact ==
    ASSUME NEW text \in Seq(Byte), NEW i \in 1 .. Len(text)
    PROVE  /\ UTF8_char_validate(text, i) # 0 =>
                 \E end \in i .. Len(text) :
                     IsCharacter(SubSeq(text, i, end)) /\ UTF8_char_validate(text, i) = end + 1
           /\ \A end \in i .. Len(text) :
                 IsCharacter(SubSeq(text, i, end)) => UTF8_char_validate(text, i) = end + 1
<1> DEFINE n == charlen(text[i])
           E(k) == Encodes(k, ByteAt(text, i), ByteAt(text, i + 1), ByteAt(text, i + 2), ByteAt(text, i + 3))
           result == UTF8_char_validate(text, i)
<1>1. result = IF n <= Len(text) /\ E(n) THEN i + n ELSE 0
  BY CharValidated
<1>2. \A end \in i .. Len(text) : IsCharacter(SubSeq(text, i, end)) <=> E(end - i + 1)
  BY CharacterRows
<1>3. ByteAt(text, i) = text[i] /\ text[i] \in Byte /\ n \in 1 .. 4
  BY ByteTypes, charlenRange
<1>4. \A k : E(k) => k = n
  BY <1>3, EncodesLength
<1>5. E(n) => i + n <= Len(text) + 1
  <2>1. \A k \in Nat : k > Len(text) => ByteAt(text, k) = 0
    BY ByteTypes
  <2> HIDE DEF n
  <2>2. /\ E(2) => ByteAt(text, i + 1) # 0
        /\ E(3) => ByteAt(text, i + 2) # 0
        /\ E(4) => ByteAt(text, i + 3) # 0
    <3>1. ByteAt(text, i) \in Byte
      BY <1>3
    <3>2. ASSUME E(2) PROVE ByteAt(text, i + 1) # 0
      <4>1. 2 >= 2 => ByteAt(text, i + 1) # 0
        BY <3>1, <3>2, EncodesLength, Zenon
      <4> QED
        BY <4>1
    <3>3. ASSUME E(3) PROVE ByteAt(text, i + 2) # 0
      <4>1. 3 >= 3 => ByteAt(text, i + 2) # 0
        BY <3>1, <3>3, EncodesLength, Zenon
      <4> QED
        BY <4>1
    <3>4. ASSUME E(4) PROVE ByteAt(text, i + 3) # 0
      <4>1. 4 >= 4 => ByteAt(text, i + 3) # 0
        BY <3>1, <3>4, EncodesLength, Zenon
      <4> QED
        BY <4>1
    <3> QED
      BY <3>2, <3>3, <3>4
  <2>3. /\ E(2) => i + 1 <= Len(text)
        /\ E(3) => i + 2 <= Len(text)
        /\ E(4) => i + 3 <= Len(text)
    BY <2>1, <2>2
  <2> HIDE DEF E
  <2> QED
    BY <1>3, <2>3
<1> HIDE DEF E, n, result
<1>6. ASSUME result # 0 PROVE \E end \in i .. Len(text) : IsCharacter(SubSeq(text, i, end)) /\ result = end + 1
  <2>1. E(n) /\ result = i + n
    BY <1>1, <1>6
  <2>2. i + n - 1 \in i .. Len(text) /\ (i + n - 1) - i + 1 = n /\ (i + n - 1) + 1 = i + n
    BY <2>1, <1>3, <1>5
  <2>3. IsCharacter(SubSeq(text, i, i + n - 1))
    BY <1>2, <2>1, <2>2
  <2> QED
    BY <2>1, <2>2, <2>3
<1>7. ASSUME NEW end \in i .. Len(text), IsCharacter(SubSeq(text, i, end)) PROVE result = end + 1
  <2>1. E(end - i + 1) /\ n = end - i + 1
    BY <1>2, <1>4, <1>7
  <2>2. n <= Len(text) /\ i + n = end + 1 /\ E(n)
    BY <2>1
  <2> QED
    BY <1>1, <2>2
<1> QED
  BY <1>6, <1>7 DEF result

(* The string can be cut into characters from here on: the places where they  *)
(* start, and the end.                                                        *)
Cuts(text, i, n, cut) ==
    /\ cut \in [0 .. n -> 1 .. Len(text) + 1]
    /\ cut[0] = i
    /\ cut[n] = Len(text) + 1
    /\ \A j \in 1 .. n : /\ cut[j] - 1 \in cut[j - 1] .. Len(text)
                         /\ IsCharacter(SubSeq(text, cut[j - 1], cut[j] - 1))

Cuttable(text, i) == \E n \in Nat : \E cut : Cuts(text, i, n, cut)

(* Behind the first character the rest can be cut too, and a character can be *)
(* put in front.                                                              *)
LEMMA CuttableStep ==
    ASSUME NEW text \in Seq(Byte), NEW i \in 1 .. Len(text) + 1
    PROVE  Cuttable(text, i) <=>
               \/ i = Len(text) + 1
               \/ \E end \in i .. Len(text) : IsCharacter(SubSeq(text, i, end)) /\ Cuttable(text, end + 1)
<1> DEFINE L == Len(text)
<1>0. L \in Nat
  OBVIOUS
<1> HIDE DEF L
<1>1. ASSUME i = L + 1 PROVE Cuttable(text, i)
  <2>1. Cuts(text, i, 0, [j \in 0 .. 0 |-> i])
    BY <1>0, <1>1 DEF Cuts, L
  <2> QED
    BY <2>1 DEF Cuttable
<1>2. ASSUME NEW end \in i .. L, IsCharacter(SubSeq(text, i, end)), Cuttable(text, end + 1)
      PROVE  Cuttable(text, i)
  <2>0. PICK n \in Nat : \E cut : Cuts(text, end + 1, n, cut)
    BY <1>2 DEF Cuttable
  <2>1. PICK cut : Cuts(text, end + 1, n, cut)
    BY <2>0
  <2> DEFINE longer == [j \in 0 .. n + 1 |-> IF j = 0 THEN i ELSE cut[j - 1]]
  <2>2. cut \in [0 .. n -> 1 .. L + 1] /\ cut[0] = end + 1 /\ cut[n] = L + 1
    BY <2>1 DEF Cuts, L
  <2>3. longer \in [0 .. n + 1 -> 1 .. L + 1]
    <3>1. i \in 1 .. L + 1
      BY DEF L
    <3> QED
      BY <2>2, <3>1
  <2>4. longer[0] = i /\ longer[n + 1] = L + 1
    BY <2>2
  <2>5. ASSUME NEW j \in 1 .. n + 1
        PROVE  /\ longer[j] - 1 \in longer[j - 1] .. L
               /\ IsCharacter(SubSeq(text, longer[j - 1], longer[j] - 1))
    <3>1. CASE j = 1
      <4>1. longer[1] = end + 1 /\ longer[0] = i /\ (end + 1) - 1 = end
        BY <2>2
      <4> HIDE DEF longer
      <4> QED
        BY <1>2, <3>1, <4>1
    <3>2. CASE j # 1
      <4>1. j - 1 \in 1 .. n /\ longer[j] = cut[j - 1] /\ longer[j - 1] = cut[(j - 1) - 1]
        BY <3>2
      <4>2. /\ cut[j - 1] - 1 \in cut[(j - 1) - 1] .. L
            /\ IsCharacter(SubSeq(text, cut[(j - 1) - 1], cut[j - 1] - 1))
        BY <2>1, <4>1 DEF Cuts, L
      <4> HIDE DEF longer
      <4> QED
        BY <4>1, <4>2
    <3> QED
      BY <3>1, <3>2
  <2>6. Cuts(text, i, n + 1, longer)
    <3> HIDE DEF longer
    <3> QED
      BY <2>3, <2>4, <2>5 DEF Cuts, L
  <2> QED
    BY <2>6 DEF Cuttable
<1>3. ASSUME Cuttable(text, i), i # L + 1
      PROVE  \E end \in i .. L : IsCharacter(SubSeq(text, i, end)) /\ Cuttable(text, end + 1)
  <2>0. PICK n \in Nat : \E cut : Cuts(text, i, n, cut)
    BY <1>3 DEF Cuttable
  <2>1. PICK cut : Cuts(text, i, n, cut)
    BY <2>0
  <2>2. cut \in [0 .. n -> 1 .. L + 1] /\ cut[0] = i /\ cut[n] = L + 1 /\ n # 0
    BY <1>3, <2>1 DEF Cuts, L
  <2> DEFINE shorter == [j \in 0 .. n - 1 |-> cut[j + 1]]
             end == cut[1] - 1
  <2>3. end \in i .. L /\ IsCharacter(SubSeq(text, i, end)) /\ end + 1 = cut[1]
    <3>1. 1 \in 1 .. n /\ 1 - 1 = 0
      BY <2>2
    <3>2. cut[1] - 1 \in cut[1 - 1] .. L /\ IsCharacter(SubSeq(text, cut[1 - 1], cut[1] - 1))
      BY <2>1, <3>1 DEF Cuts, L
    <3>3. cut[1] \in Nat
      BY <2>2, <3>1
    <3> QED
      BY <2>2, <3>1, <3>2, <3>3
  <2>4. shorter \in [0 .. n - 1 -> 1 .. L + 1] /\ shorter[0] = cut[1] /\ shorter[n - 1] = L + 1
    BY <2>2
  <2>5. ASSUME NEW j \in 1 .. n - 1
        PROVE  /\ shorter[j] - 1 \in shorter[j - 1] .. L
               /\ IsCharacter(SubSeq(text, shorter[j - 1], shorter[j] - 1))
    <3>1. j + 1 \in 1 .. n /\ shorter[j] = cut[j + 1] /\ shorter[j - 1] = cut[(j + 1) - 1]
      BY <2>2
    <3>2. /\ cut[j + 1] - 1 \in cut[(j + 1) - 1] .. L
          /\ IsCharacter(SubSeq(text, cut[(j + 1) - 1], cut[j + 1] - 1))
      BY <2>1, <3>1 DEF Cuts, L
    <3> HIDE DEF shorter
    <3> QED
      BY <3>1, <3>2
  <2>6. Cuts(text, end + 1, n - 1, shorter)
    <3> HIDE DEF shorter, end
    <3> QED
      BY <2>3, <2>4, <2>5 DEF Cuts, L
  <2>7. n - 1 \in Nat
    BY <2>2
  <2> HIDE DEF end, shorter
  <2>8. Cuttable(text, end + 1)
    BY <2>6, <2>7 DEF Cuttable
  <2> QED
    BY <2>3, <2>8
<1> QED
  BY <1>1, <1>2, <1>3 DEF L

(* WellFormed asks a function that does what its recursive definition says. *)
LEMMA WellFormedFrom ==
    ASSUME NEW text \in Seq(Byte)
    PROVE  \E from :
              /\ WellFormed(text) <=> from[1]
              /\ \A i \in 1 .. Len(text) + 1 :
                    from[i] <=> \/ i = Len(text) + 1
                                \/ \E end \in i .. Len(text) : IsCharacter(SubSeq(text, i, end)) /\ from[end + 1]
<1> DEFINE Body(f, i) ==
               \/ i = Len(text) + 1
               \/ \E end \in i .. Len(text) : IsCharacter(SubSeq(text, i, end)) /\ f[end + 1]
           IsFrom(f) == f = [i \in 1 .. Len(text) + 1 |-> Body(f, i)]
           from == CHOOSE f : IsFrom(f)
<1>1. WellFormed(text) = from[1]
  BY DEF WellFormed
<1>2. \E f : IsFrom(f)
  <2> DEFINE f == [i \in 1 .. Len(text) + 1 |-> Cuttable(text, i)]
  <2>1. ASSUME NEW i \in 1 .. Len(text) + 1 PROVE Cuttable(text, i) <=> Body(f, i)
    <3>1. \A end \in i .. Len(text) : f[end + 1] <=> Cuttable(text, end + 1)
      OBVIOUS
    <3> HIDE DEF f
    <3> QED
      BY <3>1, CuttableStep
  <2>2. \A i \in 1 .. Len(text) + 1 : Cuttable(text, i) \in BOOLEAN /\ Body(f, i) \in BOOLEAN
    BY DEF Cuttable
  <2>3. f = [i \in 1 .. Len(text) + 1 |-> Body(f, i)]
    <3> HIDE DEF Body
    <3> QED
      BY <2>1, <2>2
  <2> QED
    BY <2>3
<1>3. IsFrom(from)
  <2> HIDE DEF IsFrom
  <2> QED
    BY <1>2
<1> HIDE DEF from
<1>4. \A i \in 1 .. Len(text) + 1 : from[i] = Body(from, i)
  <2> HIDE DEF Body
  <2> QED
    BY <1>3
<1> QED
  BY <1>1, <1>4

(* The function that WellFormed asks. *)
IsFrom(text, from) ==
    /\ WellFormed(text) <=> from[1]
    /\ \A i \in 1 .. Len(text) + 1 :
          from[i] <=> \/ i = Len(text) + 1
                      \/ \E end \in i .. Len(text) : IsCharacter(SubSeq(text, i, end)) /\ from[end + 1]

FromOf(text) == CHOOSE from : IsFrom(text, from)

(* One step of UTF8_validate loses nothing: the rest of a string is a sequence *)
(* of characters exactly when what follows the character it goes over is, and  *)
(* is none when it refuses.                                                    *)
LEMMA ValidateStep ==
    ASSUME NEW text \in Seq(Byte), NEW i \in 1 .. Len(text)
    PROVE  LET next == UTF8_char_validate(text, i)
               from == FromOf(text)
           IN  /\ next = 0 => ~from[i]
               /\ next # 0 => next \in 1 .. Len(text) + 1 /\ (from[i] <=> from[next])
<1> DEFINE next == UTF8_char_validate(text, i)
           from == FromOf(text)
<1>1. IsFrom(text, from)
  BY WellFormedFrom, Zenon DEF IsFrom, FromOf
<1> HIDE DEF from
<1>2. from[i] <=> \E end \in i .. Len(text) : IsCharacter(SubSeq(text, i, end)) /\ from[end + 1]
  <2>1. i \in 1 .. Len(text) + 1 /\ i # Len(text) + 1
    OBVIOUS
  <2> QED
    BY <1>1, <2>1 DEF IsFrom
<1>3. /\ next # 0 => \E end \in i .. Len(text) : IsCharacter(SubSeq(text, i, end)) /\ next = end + 1
      /\ \A end \in i .. Len(text) : IsCharacter(SubSeq(text, i, end)) => next = end + 1
  BY CharExact
<1> HIDE DEF next
<1>4. ASSUME next = 0 PROVE ~from[i]
  <2>1. \A end \in i .. Len(text) : end + 1 # 0
    OBVIOUS
  <2> QED
    BY <1>2, <1>3, <1>4, <2>1
<1>5. ASSUME next # 0 PROVE next \in 1 .. Len(text) + 1 /\ (from[i] <=> from[next])
  <2>1. PICK end \in i .. Len(text) : IsCharacter(SubSeq(text, i, end)) /\ next = end + 1
    BY <1>3, <1>5
  <2>2. next \in 1 .. Len(text) + 1
    BY <2>1
  <2>3. \A other \in i .. Len(text) : IsCharacter(SubSeq(text, i, other)) => other + 1 = next
    BY <1>3
  <2> QED
    BY <1>2, <2>1, <2>2, <2>3
<1> QED
  BY <1>4, <1>5 DEF next, from

Utf8Spec == Utf8Init /\ [][Utf8Next]_utf8Vars

(* From the place UTF8_validate has come to, the string is a sequence of       *)
(* characters exactly when the whole of it is.                                 *)
Utf8Inv ==
    /\ string \in Seq(Byte)
    /\ at \in 0 .. Len(string) + 1
    /\ string = <<>> => at = 1
    /\ at # 0 => (FromOf(string)[at] <=> FromOf(string)[1])
    /\ at = 0 => ~FromOf(string)[1]

(* A client id or topic is accepted by utf-8.c exactly when it is well-formed  *)
(* UTF-8, whatever its bytes and its length.                                   *)
THEOREM Utf8Checked == Utf8Spec => []Utf8Exact
<1>1. Utf8Init => Utf8Inv
  <2> SUFFICES ASSUME Utf8Init PROVE Utf8Inv
    OBVIOUS
  <2>1. string = <<>> /\ at = 1 /\ string \in Seq(Byte) /\ Len(string) = 0
    BY DEF Utf8Init
  <2> QED
    BY <2>1 DEF Utf8Inv
<1>2. Utf8Inv /\ [Utf8Next]_utf8Vars => Utf8Inv'
  <2> SUFFICES ASSUME Utf8Inv, [Utf8Next]_utf8Vars PROVE Utf8Inv'
    OBVIOUS
  <2>1. CASE StringGiven
    <3>1. string' \in Seq(Byte) /\ at' = 1
      BY <2>1, StringsAssumption DEF Utf8Inv, StringGiven, Byte
    <3>2. Len(string') \in Nat
      BY <3>1
    <3>3. at' \in 0 .. Len(string') + 1
      BY <3>1, <3>2
    <3> QED
      BY <3>1, <3>3 DEF Utf8Inv
  <2>2. CASE UTF8_validate
    <3>1. at \in 1 .. Len(string) /\ string' = string /\ string \in Seq(Byte)
      BY <2>2 DEF UTF8_validate, Utf8Inv
    <3>2. string # <<>> /\ Len(string) \in Nat
      BY <3>1
    <3> DEFINE next == UTF8_char_validate(string, at)
    <3>3. at' = next
      BY <2>2 DEF UTF8_validate
    <3>4. /\ next = 0 => ~FromOf(string)[at]
          /\ next # 0 => next \in 1 .. Len(string) + 1 /\ (FromOf(string)[at] <=> FromOf(string)[next])
      BY <3>1, ValidateStep
    <3>5. FromOf(string)[at] <=> FromOf(string)[1]
      BY <3>1 DEF Utf8Inv
    <3> HIDE DEF next
    <3>6. next \in 0 .. Len(string) + 1
      BY <3>2, <3>4
    <3> QED
      BY <3>1, <3>2, <3>3, <3>4, <3>5, <3>6 DEF Utf8Inv
  <2>3. CASE UNCHANGED utf8Vars
    BY <2>3 DEF Utf8Inv, utf8Vars
  <2> QED
    BY <2>1, <2>2, <2>3 DEF Utf8Next
<1>3. Utf8Inv => Utf8Exact
  <2> SUFFICES ASSUME Utf8Inv, at \notin 1 .. Len(string) PROVE at # 0 <=> WellFormed(string)
    BY DEF Utf8Exact
  <2>1. IsFrom(string, FromOf(string))
    BY WellFormedFrom, Zenon DEF IsFrom, FromOf, Utf8Inv
  <2>2. Len(string) \in Nat /\ (at = 0 \/ at = Len(string) + 1)
    BY DEF Utf8Inv
  <2>3. FromOf(string)[Len(string) + 1]
    BY <2>1, <2>2 DEF IsFrom
  <2>4. WellFormed(string) <=> FromOf(string)[1]
    BY <2>1 DEF IsFrom
  <2>5. CASE at = 0
    BY <2>4, <2>5 DEF Utf8Inv
  <2>6. CASE at = Len(string) + 1
    BY <2>2, <2>3, <2>4, <2>6 DEF Utf8Inv
  <2> QED
    BY <2>2, <2>5, <2>6
<1> QED
  BY <1>1, <1>2, <1>3, PTL DEF Utf8Spec

-----------------------------------------------------------------------------
(* Lists *)

(* What is at a place of a sequence. *)
Place(s, i) == IF i \in 1 .. Len(s) THEN s[i] ELSE NoElement

Distinct(s) == \A i, j \in 1 .. Len(s) : s[i] = s[j] => i = j

(* The elements are linked as the sequence says. *)
Chain(s, el) ==
    /\ s \in Seq(ListContents)
    /\ Distinct(s)
    /\ \A e : e \in DOMAIN el <=> \E i \in 1 .. Len(s) : e = s[i]
    /\ \A i \in 1 .. Len(s) : el[s[i]] = [prev |-> Place(s, i - 1), next |-> Place(s, i + 1)]

(* The sequence t is s with c put in at k, and s without its place k. *)
PutIn(s, t, k, c) ==
    /\ t \in Seq(ListContents)
    /\ Len(t) = Len(s) + 1
    /\ \A i \in 1 .. k - 1 : t[i] = s[i]
    /\ t[k] = c
    /\ \A i \in k + 1 .. Len(s) + 1 : t[i] = s[i - 1]

TakenOut(s, t, k) ==
    /\ t \in Seq(ListContents)
    /\ Len(t) = Len(s) - 1
    /\ \A i \in 1 .. k - 1 : t[i] = s[i]
    /\ \A i \in k .. Len(s) - 1 : t[i] = s[i + 1]

Between(el, new, before, after) ==
    [e \in DOMAIN el \cup {new} |->
        CASE e = new -> [prev |-> before, next |-> after]
          [] e = before -> [el[e] EXCEPT !.next = new]
          [] e = after -> [el[e] EXCEPT !.prev = new]
          [] OTHER -> el[e]]

Without(el, gone) ==
    [e \in DOMAIN el \ {gone} |->
        CASE e = el[gone].prev -> [el[e] EXCEPT !.next = el[gone].next]
          [] e = el[gone].next -> [el[e] EXCEPT !.prev = el[gone].prev]
          [] OTHER -> el[e]]

(* The null pointer is no element. *)
LEMMA PlaceTyped ==
    ASSUME NEW s \in Seq(ListContents)
    PROVE  \A i \in 1 .. Len(s) : s[i] \in ListContents /\ s[i] # NoElement
  BY NoElementAssumption

(* Linking an element between two neighbours puts it into the chain. *)
LEMMA ChainInsert ==
    ASSUME NEW s, NEW t, NEW el, NEW c \in ListContents, NEW k \in 1 .. Len(s) + 1,
           Chain(s, el), c \notin DOMAIN el, PutIn(s, t, k, c)
    PROVE  Chain(t, Between(el, c, Place(s, k - 1), Place(s, k)))
<1> DEFINE n == Len(s)
           before == Place(s, k - 1)
           after == Place(s, k)
           new == Between(el, c, before, after)
<1>1. s \in Seq(ListContents) /\ t \in Seq(ListContents) /\ n \in Nat /\ Len(t) = n + 1 /\ k \in 1 .. n + 1
  BY DEF Chain, PutIn
<1>2. \A i \in 1 .. n : s[i] \in DOMAIN el /\ s[i] # c /\ s[i] # NoElement
  BY <1>1, PlaceTyped DEF Chain
<1>3. /\ \A i \in 1 .. k - 1 : t[i] = s[i]
      /\ t[k] = c
      /\ \A i \in k + 1 .. n + 1 : t[i] = s[i - 1]
  BY DEF PutIn
<1>4. \A i, j \in 1 .. n : s[i] = s[j] => i = j
  BY DEF Chain, Distinct
<1> HIDE DEF n
<1>8. /\ \A j \in 1 .. n : before = s[j] => j = k - 1
      /\ \A j \in 1 .. n : after = s[j] => j = k
      /\ before # c /\ after # c
  <2>1. c # NoElement
    BY NoElementAssumption
  <2>2. before = NoElement \/ (k - 1 \in 1 .. n /\ before = s[k - 1])
    BY <1>1 DEF Place, n
  <2>3. after = NoElement \/ (k \in 1 .. n /\ after = s[k])
    BY <1>1 DEF Place, n
  <2> HIDE DEF before, after
  <2> QED
    BY <1>2, <1>4, <2>1, <2>2, <2>3
<1>5. Distinct(t)
  <2> SUFFICES ASSUME NEW i \in 1 .. n + 1, NEW j \in 1 .. n + 1, t[i] = t[j], i < j PROVE FALSE
    BY <1>1 DEF Distinct
  <2>1. CASE j < k
    <3>1. i \in 1 .. k - 1 /\ j \in 1 .. k - 1 /\ i \in 1 .. n /\ j \in 1 .. n /\ i # j
      BY <1>1, <2>1
    <3>2. t[i] = s[i] /\ t[j] = s[j]
      BY <1>3, <3>1
    <3> QED
      BY <1>4, <3>1, <3>2
  <2>2. CASE j = k
    <3>1. i \in 1 .. k - 1 /\ i \in 1 .. n
      BY <1>1, <2>2
    <3> QED
      BY <1>2, <1>3, <2>2, <3>1
  <2>3. CASE j > k /\ i < k
    <3>1. t[i] = s[i] /\ t[j] = s[j - 1] /\ i \in 1 .. n /\ j - 1 \in 1 .. n /\ i # j - 1
      BY <1>1, <1>3, <2>3
    <3> QED
      BY <1>4, <3>1
  <2>4. CASE j > k /\ i = k
    <3>1. j \in k + 1 .. n + 1 /\ j - 1 \in 1 .. n
      BY <1>1, <2>4
    <3>2. t[j] = s[j - 1] /\ t[i] = c
      BY <1>3, <2>4, <3>1
    <3> QED
      BY <1>2, <3>1, <3>2
  <2>5. CASE j > k /\ i > k
    <3>1. t[i] = s[i - 1] /\ t[j] = s[j - 1] /\ i - 1 \in 1 .. n /\ j - 1 \in 1 .. n /\ i - 1 # j - 1
      BY <1>1, <1>3, <2>5
    <3> QED
      BY <1>4, <3>1
  <2> QED
    BY <1>1, <2>1, <2>2, <2>3, <2>4, <2>5
<1>6. \A e : e \in DOMAIN new <=> \E i \in 1 .. Len(t) : e = t[i]
  <2>1. DOMAIN new = DOMAIN el \cup {c}
    BY DEF Between
  <2>2. ASSUME NEW e \in DOMAIN el PROVE \E i \in 1 .. n + 1 : e = t[i]
    <3>1. PICK i \in 1 .. n : e = s[i]
      BY DEF Chain, n
    <3>2. CASE i < k
      BY <1>1, <1>3, <3>1, <3>2
    <3>3. CASE i >= k
      <4>1. i + 1 \in k + 1 .. n + 1 /\ i + 1 \in 1 .. n + 1 /\ (i + 1) - 1 = i
        BY <1>1, <3>3
      <4> QED
        BY <1>3, <3>1, <4>1
    <3> QED
      BY <1>1, <3>2, <3>3
  <2>3. ASSUME NEW i \in 1 .. n + 1 PROVE t[i] \in DOMAIN el \cup {c}
    <3>1. CASE i < k
      BY <1>1, <1>2, <1>3, <3>1
    <3>2. CASE i = k
      BY <1>3, <3>2
    <3>3. CASE i > k
      <4>1. i \in k + 1 .. n + 1 /\ i - 1 \in 1 .. n
        BY <1>1, <3>3
      <4> QED
        BY <1>2, <1>3, <4>1
    <3> QED
      BY <1>1, <3>1, <3>2, <3>3
  <2>4. k \in 1 .. n + 1 /\ c = t[k]
    BY <1>1, <1>3
  <2> QED
    BY <1>1, <2>1, <2>2, <2>3, <2>4
<1>7. ASSUME NEW i \in 1 .. n + 1
      PROVE  new[t[i]] = [prev |-> Place(t, i - 1), next |-> Place(t, i + 1)]
  <2> DEFINE Old(j) == [prev |-> Place(s, j - 1), next |-> Place(s, j + 1)]
  <2>0. \A j \in 1 .. n : el[s[j]] = Old(j)
    BY DEF Chain, n
  <2>00. /\ \A j \in 0 .. k - 1 : Place(t, j) = Place(s, j)
         /\ Place(t, k) = c
         /\ \A j \in k + 1 .. n + 2 : Place(t, j) = Place(s, j - 1)
    <3>1. ASSUME NEW j \in 0 .. k - 1 PROVE Place(t, j) = Place(s, j)
      <4>1. CASE j = 0
        BY <1>1, <4>1 DEF Place, n
      <4>2. CASE j # 0
        <5>1. j \in 1 .. k - 1 /\ j \in 1 .. n /\ j \in 1 .. n + 1
          BY <1>1, <4>2
        <5> QED
          BY <1>1, <1>3, <5>1 DEF Place, n
      <4> QED
        BY <4>1, <4>2
    <3>2. Place(t, k) = c
      BY <1>1, <1>3 DEF Place
    <3>3. ASSUME NEW j \in k + 1 .. n + 2 PROVE Place(t, j) = Place(s, j - 1)
      <4>1. CASE j = n + 2
        BY <1>1, <4>1 DEF Place, n
      <4>2. CASE j # n + 2
        <5>1. j \in k + 1 .. n + 1 /\ j \in 1 .. n + 1 /\ j - 1 \in 1 .. n
          BY <1>1, <4>2
        <5> QED
          BY <1>1, <1>3, <5>1 DEF Place, n
      <4> QED
        BY <4>1, <4>2
    <3> QED
      BY <3>1, <3>2, <3>3
  <2>1. CASE i = k
    <3>1. new[c] = [prev |-> before, next |-> after]
      <4> HIDE DEF before, after
      <4> QED
        BY <1>8 DEF Between
    <3>2. Place(t, k - 1) = before /\ Place(t, k + 1) = Place(s, k) /\ t[i] = c
      <4>1. k - 1 \in 0 .. k - 1 /\ k + 1 \in k + 1 .. n + 2 /\ (k + 1) - 1 = k
        BY <1>1
      <4> QED
        BY <1>3, <2>1, <2>00, <4>1
    <3> HIDE DEF new, before
    <3> QED
      BY <2>1, <3>1, <3>2
  <2>2. CASE i = k - 1
    <3>1. i \in 1 .. n /\ t[i] = s[i] /\ before = s[i]
      BY <1>1, <1>3, <2>2, SMTT(60) DEF Place, n
    <3>2. new[s[i]] = [el[s[i]] EXCEPT !.next = c]
      <4> HIDE DEF before, after
      <4>1. after # s[i] /\ s[i] # c /\ s[i] \in DOMAIN el
        BY <1>1, <1>2, <1>8, <2>2, <3>1
      <4> QED
        BY <3>1, <4>1 DEF Between
    <3>3. new[s[i]] = [prev |-> Place(s, i - 1), next |-> c]
      <4> HIDE DEF new
      <4>1. el[s[i]] = [prev |-> Place(s, i - 1), next |-> Place(s, i + 1)]
        BY <2>0, <3>1
      <4>2. [[prev |-> Place(s, i - 1), next |-> Place(s, i + 1)] EXCEPT !.next = c]
               = [prev |-> Place(s, i - 1), next |-> c]
        OBVIOUS
      <4> QED
        BY <3>2, <4>1, <4>2
    <3>4. Place(t, i - 1) = Place(s, i - 1) /\ Place(t, i + 1) = c
      <4>1. i - 1 \in 0 .. k - 1 /\ i + 1 = k
        BY <1>1, <2>2, <3>1
      <4> QED
        BY <2>00, <4>1
    <3> HIDE DEF new
    <3> QED
      BY <3>1, <3>3, <3>4
  <2>3. CASE i = k + 1
    <3>1. k \in 1 .. n /\ t[i] = s[k] /\ after = s[k] /\ before # s[k]
      <4>1. k \in 1 .. n /\ i \in k + 1 .. n + 1 /\ i - 1 = k
        BY <1>1, <2>3
      <4>2. t[i] = s[k] /\ after = s[k]
        BY <1>3, <4>1 DEF Place, n
      <4>3. before # s[k]
        BY <1>1, <1>8, <4>1
      <4> QED
        BY <4>1, <4>2, <4>3
    <3>2. new[s[k]] = [el[s[k]] EXCEPT !.prev = c]
      <4> HIDE DEF before, after
      <4> QED
        BY <1>2, <3>1 DEF Between
    <3>3. new[s[k]] = [prev |-> c, next |-> Place(s, k + 1)]
      <4> HIDE DEF new
      <4>1. el[s[k]] = [prev |-> Place(s, k - 1), next |-> Place(s, k + 1)]
        BY <2>0, <3>1
      <4>2. [[prev |-> Place(s, k - 1), next |-> Place(s, k + 1)] EXCEPT !.prev = c]
               = [prev |-> c, next |-> Place(s, k + 1)]
        OBVIOUS
      <4> QED
        BY <3>2, <4>1, <4>2
    <3>4. Place(t, i - 1) = c /\ Place(t, i + 1) = Place(s, k + 1)
      <4>1. i - 1 = k /\ i + 1 \in k + 1 .. n + 2 /\ (i + 1) - 1 = k + 1
        BY <1>1, <2>3
      <4> QED
        BY <2>00, <4>1
    <3> HIDE DEF new
    <3> QED
      BY <3>1, <3>3, <3>4
  <2>4. ASSUME NEW j \in 1 .. n, j # k, j # k - 1 PROVE new[s[j]] = Old(j)
    <3>1. before # s[j] /\ after # s[j]
      BY <1>8, <2>4
    <3>3. new[s[j]] = el[s[j]]
      <4> HIDE DEF before, after
      <4> QED
        BY <1>2, <3>1 DEF Between
    <3> HIDE DEF new
    <3> QED
      BY <2>0, <3>3
  <2>5. CASE i < k - 1
    <3>1. i \in 1 .. n /\ i # k /\ i # k - 1 /\ i \in 1 .. k - 1 /\ i - 1 \in 0 .. k - 1 /\ i + 1 \in 0 .. k - 1
      BY <1>1, <2>5
    <3>2. new[s[i]] = Old(i) /\ t[i] = s[i]
      BY <1>3, <2>4, <3>1
    <3>3. Place(t, i - 1) = Place(s, i - 1) /\ Place(t, i + 1) = Place(s, i + 1)
      BY <2>00, <3>1
    <3> HIDE DEF new
    <3> QED
      BY <3>2, <3>3
  <2>6. CASE i > k + 1
    <3> DEFINE j == i - 1
    <3>1. /\ j \in 1 .. n /\ j # k /\ j # k - 1 /\ i \in k + 1 .. n + 1
          /\ i - 1 \in k + 1 .. n + 2 /\ i + 1 \in k + 1 .. n + 2
          /\ (i - 1) - 1 = j - 1 /\ (i + 1) - 1 = j + 1
      BY <1>1, <2>6
    <3>2. t[i] = s[j]
      BY <1>3, <3>1
    <3>3. Place(t, i - 1) = Place(s, j - 1) /\ Place(t, i + 1) = Place(s, j + 1)
      BY <2>00, <3>1
    <3> HIDE DEF new, j
    <3>4. new[s[j]] = Old(j)
      BY <2>4, <3>1
    <3> QED
      BY <3>2, <3>3, <3>4
  <2> QED
    BY <1>1, <2>1, <2>2, <2>3, <2>5, <2>6
<1> QED
  BY <1>1, <1>5, <1>6, <1>7 DEF Chain

(* Linking the neighbours of an element takes it out of the chain. *)
LEMMA ChainRemove ==
    ASSUME NEW s, NEW t, NEW el, NEW k \in 1 .. Len(s),
           Chain(s, el), TakenOut(s, t, k)
    PROVE  Chain(t, Without(el, s[k]))
<1> DEFINE n == Len(s)
           gone == s[k]
           before == Place(s, k - 1)
           after == Place(s, k + 1)
           new == Without(el, gone)
           Old(j) == [prev |-> Place(s, j - 1), next |-> Place(s, j + 1)]
<1>1. s \in Seq(ListContents) /\ t \in Seq(ListContents) /\ n \in Nat /\ Len(t) = n - 1 /\ k \in 1 .. n
  BY DEF Chain, TakenOut
<1>2. \A i \in 1 .. n : s[i] \in DOMAIN el /\ s[i] # NoElement
  BY <1>1, PlaceTyped DEF Chain
<1>3. /\ \A i \in 1 .. k - 1 : t[i] = s[i]
      /\ \A i \in k .. n - 1 : t[i] = s[i + 1]
  BY DEF TakenOut
<1>4. \A i, j \in 1 .. n : s[i] = s[j] => i = j
  BY DEF Chain, Distinct
<1>5. \A j \in 1 .. n : el[s[j]] = Old(j)
  BY DEF Chain
<1>6. \A e : e \in DOMAIN el <=> \E i \in 1 .. n : e = s[i]
  BY DEF Chain
<1> HIDE DEF n
<1>7. /\ \A j \in 1 .. n : before = s[j] => j = k - 1
      /\ \A j \in 1 .. n : after = s[j] => j = k + 1
  <2>1. before = NoElement \/ (k - 1 \in 1 .. n /\ before = s[k - 1])
    BY <1>1 DEF Place, n
  <2>2. after = NoElement \/ (k + 1 \in 1 .. n /\ after = s[k + 1])
    BY <1>1 DEF Place, n
  <2> HIDE DEF before, after
  <2> QED
    BY <1>2, <1>4, <2>1, <2>2
<1>8. el[gone].prev = before /\ el[gone].next = after
  <2>1. el[gone] = Old(k)
    BY <1>1, <1>5
  <2>2. Old(k).prev = before /\ Old(k).next = after
    OBVIOUS
  <2> QED
    BY <2>1, <2>2
<1>9. Distinct(t)
  <2> SUFFICES ASSUME NEW i \in 1 .. n - 1, NEW j \in 1 .. n - 1, t[i] = t[j], i < j PROVE FALSE
    BY <1>1 DEF Distinct
  <2>1. CASE j < k
    <3>1. i \in 1 .. k - 1 /\ j \in 1 .. k - 1 /\ i \in 1 .. n /\ j \in 1 .. n /\ i # j
      BY <1>1, <2>1
    <3>2. t[i] = s[i] /\ t[j] = s[j]
      BY <1>3, <3>1
    <3> QED
      BY <1>4, <3>1, <3>2
  <2>2. CASE j >= k /\ i < k
    <3>1. i \in 1 .. k - 1 /\ j \in k .. n - 1 /\ i \in 1 .. n /\ j + 1 \in 1 .. n /\ i # j + 1
      BY <1>1, <2>2
    <3>2. t[i] = s[i] /\ t[j] = s[j + 1]
      BY <1>3, <3>1
    <3> QED
      BY <1>4, <3>1, <3>2
  <2>3. CASE i >= k
    <3>1. i \in k .. n - 1 /\ j \in k .. n - 1 /\ i + 1 \in 1 .. n /\ j + 1 \in 1 .. n /\ i + 1 # j + 1
      BY <1>1, <2>3
    <3>2. t[i] = s[i + 1] /\ t[j] = s[j + 1]
      BY <1>3, <3>1
    <3> QED
      BY <1>4, <3>1, <3>2
  <2> QED
    BY <1>1, <2>1, <2>2, <2>3
<1>10. \A e : e \in DOMAIN new <=> \E i \in 1 .. Len(t) : e = t[i]
  <2>1. DOMAIN new = DOMAIN el \ {gone}
    BY DEF Without
  <2>2. ASSUME NEW e \in DOMAIN el, e # gone PROVE \E i \in 1 .. n - 1 : e = t[i]
    <3>1. PICK i \in 1 .. n : e = s[i] /\ i # k
      BY <1>6, <2>2
    <3>2. CASE i < k
      BY <1>1, <1>3, <3>1, <3>2
    <3>3. CASE i > k
      <4>1. i - 1 \in k .. n - 1 /\ i - 1 \in 1 .. n - 1 /\ (i - 1) + 1 = i
        BY <1>1, <3>3
      <4> QED
        BY <1>3, <3>1, <4>1
    <3> QED
      BY <1>1, <3>1, <3>2, <3>3
  <2>3. ASSUME NEW i \in 1 .. n - 1 PROVE t[i] \in DOMAIN el \ {gone}
    <3>1. CASE i < k
      <4>1. i \in 1 .. k - 1 /\ i \in 1 .. n /\ i # k
        BY <1>1, <3>1
      <4> QED
        BY <1>1, <1>2, <1>3, <1>4, <4>1
    <3>2. CASE i >= k
      <4>1. i \in k .. n - 1 /\ i + 1 \in 1 .. n /\ i + 1 # k
        BY <1>1, <3>2
      <4> QED
        BY <1>1, <1>2, <1>3, <1>4, <4>1
    <3> QED
      BY <1>1, <3>1, <3>2
  <2> HIDE DEF new
  <2> QED
    BY <1>1, <2>1, <2>2, <2>3
<1>11. /\ \A j \in 0 .. k - 1 : Place(t, j) = Place(s, j)
       /\ \A j \in k .. n : Place(t, j) = Place(s, j + 1)
  <2>1. ASSUME NEW j \in 0 .. k - 1 PROVE Place(t, j) = Place(s, j)
    <3>1. CASE j = 0
      BY <1>1, <3>1 DEF Place, n
    <3>2. CASE j # 0
      <4>1. j \in 1 .. k - 1 /\ j \in 1 .. n /\ j \in 1 .. n - 1
        BY <1>1, <3>2
      <4> QED
        BY <1>1, <1>3, <4>1 DEF Place, n
    <3> QED
      BY <3>1, <3>2
  <2>2. ASSUME NEW j \in k .. n PROVE Place(t, j) = Place(s, j + 1)
    <3>1. CASE j = n
      BY <1>1, <3>1 DEF Place, n
    <3>2. CASE j # n
      <4>1. j \in k .. n - 1 /\ j \in 1 .. n - 1 /\ j + 1 \in 1 .. n
        BY <1>1, <3>2
      <4> QED
        BY <1>1, <1>3, <4>1 DEF Place, n
    <3> QED
      BY <3>1, <3>2
  <2> QED
    BY <2>1, <2>2
<1>12. \A j \in 1 .. n : j # k => s[j] \in DOMAIN el \ {gone}
  BY <1>1, <1>2, <1>4
<1>13. ASSUME NEW j \in 1 .. n, j # k
       PROVE  new[s[j]] = [prev |-> IF j = k + 1 THEN before ELSE Place(s, j - 1),
                           next |-> IF j = k - 1 THEN after ELSE Place(s, j + 1)]
  <2>0. el[s[j]] = Old(j) /\ s[j] \in DOMAIN el \ {gone}
    BY <1>5, <1>12, <1>13
  <2>1. CASE j = k - 1
    <3>1. before = s[j] /\ after # s[j] /\ j # k + 1
      BY <1>1, <1>7, <2>1 DEF Place, n
    <3> HIDE DEF before, after, gone
    <3>2. new[s[j]] = [el[s[j]] EXCEPT !.next = after]
      BY <1>8, <2>0, <3>1 DEF Without
    <3>3. [Old(j) EXCEPT !.next = after] = [prev |-> Place(s, j - 1), next |-> after]
      OBVIOUS
    <3> HIDE DEF new, Old
    <3> QED
      BY <2>0, <2>1, <3>1, <3>2, <3>3
  <2>2. CASE j = k + 1
    <3>1. after = s[j] /\ before # s[j] /\ j # k - 1
      BY <1>1, <1>7, <2>2 DEF Place, n
    <3> HIDE DEF before, after, gone
    <3>2. new[s[j]] = [el[s[j]] EXCEPT !.prev = before]
      BY <1>8, <2>0, <3>1 DEF Without
    <3>3. [Old(j) EXCEPT !.prev = before] = [prev |-> before, next |-> Place(s, j + 1)]
      OBVIOUS
    <3> HIDE DEF new, Old
    <3> QED
      BY <2>0, <2>2, <3>1, <3>2, <3>3
  <2>3. CASE j # k - 1 /\ j # k + 1
    <3>1. after # s[j] /\ before # s[j]
      BY <1>7, <2>3
    <3> HIDE DEF before, after, gone
    <3>2. new[s[j]] = el[s[j]]
      BY <1>8, <2>0, <3>1 DEF Without
    <3> HIDE DEF new
    <3> QED
      BY <2>0, <2>3, <3>2
  <2> QED
    BY <2>1, <2>2, <2>3
<1>14. ASSUME NEW i \in 1 .. n - 1
       PROVE  new[t[i]] = [prev |-> Place(t, i - 1), next |-> Place(t, i + 1)]
  <2> HIDE DEF new
  <2>1. CASE i < k - 1
    <3>1. i \in 1 .. k - 1 /\ i \in 1 .. n /\ i # k /\ i # k - 1 /\ i # k + 1 /\ i - 1 \in 0 .. k - 1 /\ i + 1 \in 0 .. k - 1
      BY <1>1, <2>1
    <3>2. t[i] = s[i] /\ Place(t, i - 1) = Place(s, i - 1) /\ Place(t, i + 1) = Place(s, i + 1)
      BY <1>3, <1>11, <3>1
    <3> QED
      BY <1>13, <3>1, <3>2
  <2>2. CASE i = k - 1
    <3>1. i \in 1 .. k - 1 /\ i \in 1 .. n /\ i # k /\ i # k + 1 /\ i - 1 \in 0 .. k - 1 /\ i + 1 = k /\ k \in k .. n
      BY <1>1, <2>2
    <3>2. t[i] = s[i] /\ Place(t, i - 1) = Place(s, i - 1) /\ Place(t, i + 1) = after
      BY <1>3, <1>11, <3>1
    <3> HIDE DEF after, before
    <3> QED
      BY <1>13, <2>2, <3>1, <3>2
  <2>3. CASE i = k
    <3>1. i \in k .. n - 1 /\ i + 1 \in 1 .. n /\ i + 1 # k /\ i + 1 # k - 1 /\ i - 1 \in 0 .. k - 1 /\ i + 1 \in k .. n
          /\ i - 1 = k - 1
      BY <1>1, <2>3
    <3>2. t[i] = s[i + 1] /\ Place(t, i - 1) = before /\ Place(t, i + 1) = Place(s, (i + 1) + 1)
      BY <1>3, <1>11, <3>1
    <3> HIDE DEF after, before
    <3> QED
      BY <1>13, <2>3, <3>1, <3>2
  <2>4. CASE i > k
    <3>1. i \in k .. n - 1 /\ i + 1 \in 1 .. n /\ i + 1 # k /\ i + 1 # k - 1 /\ i + 1 # k + 1 /\ i - 1 \in k .. n /\ i + 1 \in k .. n
          /\ (i - 1) + 1 = (i + 1) - 1
      BY <1>1, <2>4
    <3>2. t[i] = s[i + 1] /\ Place(t, i - 1) = Place(s, (i + 1) - 1) /\ Place(t, i + 1) = Place(s, (i + 1) + 1)
      BY <1>3, <1>11, <3>1
    <3> QED
      BY <1>13, <3>1, <3>2
  <2> QED
    BY <1>1, <2>1, <2>2, <2>3, <2>4
<1> QED
  BY <1>1, <1>9, <1>10, <1>14 DEF Chain

(* The operations on the sequence. *)
LEMMA AppendPuts ==
    ASSUME NEW s \in Seq(ListContents), NEW c \in ListContents
    PROVE  PutIn(s, Append(s, c), Len(s) + 1, c)
<1>1. Len(s) \in Nat /\ Append(s, c) \in Seq(ListContents) /\ Len(Append(s, c)) = Len(s) + 1
  OBVIOUS
<1>2. Append(s, c)[Len(s) + 1] = c /\ \A i \in 1 .. Len(s) : Append(s, c)[i] = s[i]
  OBVIOUS
<1>3. \A i \in (Len(s) + 1) + 1 .. Len(s) + 1 : FALSE
  BY <1>1
<1>4. 1 .. (Len(s) + 1) - 1 = 1 .. Len(s)
  BY <1>1
<1> QED
  BY <1>1, <1>2, <1>3, <1>4 DEF PutIn

(* InsertAt puts an element at a place. *)
LEMMA InsertPuts ==
    ASSUME NEW s \in Seq(ListContents), NEW c \in ListContents, NEW k \in 1 .. Len(s)
    PROVE  PutIn(s, InsertAt(s, k, c), k, c)
<1> DEFINE a == SubSeq(s, 1, k - 1)
           b == SubSeq(s, k, Len(s))
           t == (a \o <<c>>) \o b
<1>1. Len(s) \in Nat /\ k \in Nat
  OBVIOUS
<1>2. /\ a \in Seq(ListContents) /\ Len(a) = k - 1
      /\ \A i \in 1 .. k - 1 : a[i] = s[i]
  BY <1>1, SubSeqProperties
<1>3. /\ b \in Seq(ListContents) /\ Len(b) = Len(s) - k + 1
      /\ \A i \in 1 .. Len(s) - k + 1 : b[i] = s[k + i - 1]
  BY <1>1, SubSeqProperties
<1>4. InsertAt(s, k, c) = t
  BY DEF InsertAt
<1> HIDE DEF a, b
<1>5. /\ a \o <<c>> \in Seq(ListContents) /\ Len(a \o <<c>>) = k
      /\ \A i \in 1 .. k - 1 : (a \o <<c>>)[i] = s[i]
      /\ (a \o <<c>>)[k] = c
  BY <1>1, <1>2, ConcatProperties
<1> DEFINE d == a \o <<c>>
<1> HIDE DEF d
<1>6. /\ d \in Seq(ListContents) /\ Len(d) = k
      /\ \A i \in 1 .. k - 1 : d[i] = s[i]
      /\ d[k] = c
      /\ t = d \o b
  BY <1>5 DEF d
<1> HIDE DEF t
<1>7. t \in Seq(ListContents) /\ Len(t) = Len(s) + 1
  <2>1. Len(t) = Len(d) + Len(b) /\ t \in Seq(ListContents)
    BY <1>3, <1>6, ConcatProperties
  <2>2. Len(d) = k /\ Len(b) = Len(s) - k + 1
    BY <1>3, <1>6
  <2>3. k + (Len(s) - k + 1) = Len(s) + 1
    BY <1>1
  <2>4. Len(t) = k + (Len(s) - k + 1)
    BY <2>1, <2>2, Zenon
  <2> QED
    BY <2>1, <2>3, <2>4, Zenon
<1>8. /\ \A i \in 1 .. k : t[i] = d[i]
      /\ \A i \in k + 1 .. Len(s) + 1 : t[i] = b[i - k]
  <2>1. k + Len(b) = Len(s) + 1
    BY <1>1, <1>3
  <2>2. \A i \in 1 .. Len(d) + Len(b) : t[i] = IF i <= Len(d) THEN d[i] ELSE b[i - Len(d)]
    BY <1>3, <1>6, ConcatProperties
  <2> QED
    BY <1>1, <1>6, <2>1, <2>2
<1>9. ASSUME NEW i \in k + 1 .. Len(s) + 1 PROVE t[i] = s[i - 1]
  <2>1. i - k \in 1 .. Len(s) - k + 1 /\ k + (i - k) - 1 = i - 1
    BY <1>1
  <2> QED
    BY <1>3, <1>8, <2>1
<1>10. \A i \in 1 .. k - 1 : t[i] = s[i]
  BY <1>1, <1>6, <1>8
<1>11. t[k] = c
  BY <1>1, <1>6, <1>8
<1> QED
  BY <1>4, <1>7, <1>9, <1>10, <1>11 DEF PutIn

(* RemoveAt takes the element of a place. *)
LEMMA RemoveTakes ==
    ASSUME NEW s \in Seq(ListContents), NEW k \in 1 .. Len(s)
    PROVE  TakenOut(s, RemoveAt(s, k), k)
<1> DEFINE a == SubSeq(s, 1, k - 1)
           b == SubSeq(s, k + 1, Len(s))
           t == a \o b
<1>1. Len(s) \in Nat /\ k \in Nat
  OBVIOUS
<1>2. /\ a \in Seq(ListContents) /\ Len(a) = k - 1
      /\ \A i \in 1 .. k - 1 : a[i] = s[i]
  BY <1>1, SubSeqProperties
<1>3. /\ b \in Seq(ListContents) /\ Len(b) = Len(s) - k
      /\ \A i \in 1 .. Len(s) - k : b[i] = s[k + i]
  <2>1. /\ b \in Seq(ListContents)
        /\ Len(b) = IF k + 1 <= Len(s) THEN Len(s) - (k + 1) + 1 ELSE 0
        /\ \A i \in 1 .. Len(s) - (k + 1) + 1 : b[i] = s[(k + 1) + i - 1]
    BY <1>1, SubSeqProperties
  <2>2. Len(s) - (k + 1) + 1 = Len(s) - k
    BY <1>1
  <2>3. \A i \in 1 .. Len(s) - k : (k + 1) + i - 1 = k + i
    BY <1>1
  <2> HIDE DEF b
  <2>4. Len(b) = Len(s) - k
    BY <1>1, <2>1
  <2> QED
    BY <2>1, <2>2, <2>3, <2>4
<1>4. RemoveAt(s, k) = t
  BY DEF RemoveAt
<1> HIDE DEF a, b
<1>5. t \in Seq(ListContents) /\ Len(t) = Len(s) - 1
  <2>1. Len(t) = Len(a) + Len(b) /\ t \in Seq(ListContents)
    BY <1>2, <1>3, ConcatProperties
  <2> QED
    BY <1>1, <1>2, <1>3, <2>1
<1>6. \A i \in 1 .. Len(a) + Len(b) : t[i] = IF i <= Len(a) THEN a[i] ELSE b[i - Len(a)]
  BY <1>2, <1>3, ConcatProperties
<1> HIDE DEF t
<1>7. ASSUME NEW i \in 1 .. k - 1 PROVE t[i] = s[i]
  <2>1. i \in 1 .. Len(a) + Len(b) /\ i <= Len(a)
    BY <1>1, <1>2, <1>3
  <2>2. t[i] = a[i]
    BY <1>6, <2>1
  <2> QED
    BY <1>2, <2>2
<1>8. ASSUME NEW i \in k .. Len(s) - 1 PROVE t[i] = s[i + 1]
  <2>1. i - (k - 1) \in 1 .. Len(s) - k /\ k + (i - (k - 1)) = i + 1 /\ i \in 1 .. Len(a) + Len(b) /\ ~(i <= k - 1)
    BY <1>1, <1>2, <1>3
  <2>2. t[i] = b[i - (k - 1)]
    BY <1>2, <1>6, <2>1
  <2> QED
    BY <1>3, <2>1, <2>2
<1> QED
  BY <1>4, <1>5, <1>7, <1>8 DEF TakenOut

(* Tail takes the first element. *)
LEMMA TailTakes ==
    ASSUME NEW s \in Seq(ListContents), Len(s) > 0
    PROVE  TakenOut(s, Tail(s), 1)
<1>1. Len(s) \in Nat /\ s # <<>>
  OBVIOUS
<1>2. Tail(s) \in Seq(ListContents) /\ Len(Tail(s)) = Len(s) - 1 /\ \A i \in 1 .. Len(s) - 1 : Tail(s)[i] = s[i + 1]
  BY <1>1, HeadTailProperties
<1> QED
  BY <1>1, <1>2 DEF TakenOut

(* Front takes the last element. *)
LEMMA FrontTakes ==
    ASSUME NEW s \in Seq(ListContents), Len(s) > 0
    PROVE  TakenOut(s, Front(s), Len(s))
<1>1. Len(s) \in Nat
  OBVIOUS
<1>2. Front(s) \in Seq(ListContents) /\ Len(Front(s)) = Len(s) - 1 /\ \A i \in 1 .. Len(s) - 1 : Front(s)[i] = s[i]
  <2> DEFINE t == SubSeq(s, 1, Len(s) - 1)
  <2>1. \A i \in 1 .. Len(s) - 1 : s[i] \in ListContents
    BY <1>1
  <2>2. /\ t \in Seq(ListContents)
        /\ Len(t) = IF 1 <= Len(s) - 1 THEN (Len(s) - 1) - 1 + 1 ELSE 0
        /\ \A i \in 1 .. (Len(s) - 1) - 1 + 1 : t[i] = s[1 + i - 1]
    BY <1>1, <2>1, SubSeqProperties
  <2>3. (Len(s) - 1) - 1 + 1 = Len(s) - 1 /\ \A i \in 1 .. Len(s) - 1 : 1 + i - 1 = i
    BY <1>1
  <2> HIDE DEF t
  <2>4. Len(t) = Len(s) - 1
    <3>1. \A n \in Nat : n > 0 => (IF 1 <= n - 1 THEN (n - 1) - 1 + 1 ELSE 0) = n - 1
      OBVIOUS
    <3> QED
      BY <1>1, <2>2, <3>1
  <2>5. \A i \in 1 .. Len(s) - 1 : t[i] = s[i]
    BY <2>2, <2>3
  <2>6. Front(s) = t
    BY DEF Front, t
  <2> QED
    BY <2>2, <2>4, <2>5, <2>6
<1> QED
  BY <1>1, <1>2 DEF TakenOut

ListSpec == ListInit /\ [][ListNext]_listVars

(* The sequence has no content twice, the elements are linked as it says, and  *)
(* the pointers and the count of the list are right.                           *)
ListInv ==
    /\ Chain(items, element)
    /\ list \in [first : ListContents \cup {NoElement}, last : ListContents \cup {NoElement},
                 current : DOMAIN element \cup {NoElement}, count : Nat]
    /\ list.first = Place(items, 1)
    /\ list.last = Place(items, Len(items))
    /\ list.count = Len(items)

(* A search finds what the elements are linked for, and nothing else. *)
LEMMA FindsExactly ==
    ASSUME ListInv, NEW content \in ListContents
    PROVE  /\ Finds(content) = content <=> content \in DOMAIN element
           /\ Finds(content) # NoElement <=> content \in DOMAIN element
<1>1. content # NoElement
  BY NoElementAssumption
<1>2. /\ items \in Seq(ListContents)
      /\ \A e : e \in DOMAIN element <=> \E i \in 1 .. Len(items) : e = items[i]
      /\ \A i \in 1 .. Len(items) : element[items[i]] = [prev |-> Place(items, i - 1), next |-> Place(items, i + 1)]
      /\ list.first = Place(items, 1)
      /\ list.current \in DOMAIN element \cup {NoElement}
  BY DEF ListInv, Chain
<1>3. Len(items) \in Nat
  BY <1>2
<1>4. content \in DOMAIN element => content \in Reached
  <2> SUFFICES ASSUME content \in DOMAIN element, NEW S \in SUBSET DOMAIN element,
                      {list.first} \cup {NextOf(s) : s \in S} \subseteq S \cup {NoElement},
                      content \notin S
               PROVE  FALSE
    BY DEF Reached
  <2> DEFINE Missing == {i \in 1 .. Len(items) : items[i] \notin S}
  <2>1. Missing \in SUBSET Nat /\ Missing # {}
    BY <1>2
  <2>2. PICK i \in Missing : \A k \in Missing : i <= k
    BY <2>1, LeastNumber
  <2>3. i \in 1 .. Len(items) /\ items[i] \notin S /\ items[i] # NoElement
    BY <1>2, <2>2, PlaceTyped
  <2>4. CASE i = 1
    <3>1. list.first = items[1]
      BY <1>2, <2>3, <2>4 DEF Place
    <3> QED
      BY <2>3, <2>4, <3>1
  <2>5. CASE i # 1
    <3>1. i - 1 \in 1 .. Len(items) /\ i - 1 \notin Missing /\ (i - 1) + 1 = i
      BY <1>3, <2>2, <2>3, <2>5
    <3>2. items[i - 1] \in S
      BY <3>1
    <3>3. NextOf(items[i - 1]) = items[i]
      <4>1. element[items[i - 1]] = [prev |-> Place(items, (i - 1) - 1), next |-> Place(items, (i - 1) + 1)]
        BY <1>2, <3>1
      <4>2. element[items[i - 1]].next = Place(items, (i - 1) + 1)
        BY <4>1
      <4> QED
        BY <2>3, <3>1, <4>2 DEF NextOf, Place
    <3> QED
      BY <2>3, <3>2, <3>3
  <2> QED
    BY <2>4, <2>5
<1>5. Reached \subseteq DOMAIN element
  BY DEF Reached
<1> QED
  BY <1>1, <1>2, <1>4, <1>5 DEF Finds

(* The list with one more element. *)
LEMMA ListCounted ==
    ASSUME NEW E, NEW C, NEW l \in [first : E, last : E, current : C, count : Nat], NEW F \in E, NEW L \in E,
           NEW m, m = [l EXCEPT !.first = F, !.last = L, !.count = @ + 1]
    PROVE  /\ m.first = F /\ m.last = L /\ m.count = l.count + 1 /\ m.current = l.current
           /\ m \in [first : E, last : E, current : C, count : Nat]
<1>1. m.first = F /\ m.last = L /\ m.count = l.count + 1 /\ m.current = l.current
  OBVIOUS
<1>2. m = [first |-> F, last |-> L, current |-> l.current, count |-> l.count + 1]
  OBVIOUS
<1>3. l.current \in C /\ l.count + 1 \in Nat
  OBVIOUS
<1> QED
  BY <1>1, <1>2, <1>3

(* Every operation keeps the list. *)
LEMMA ListPut ==
    ASSUME ListInv, NEW content \in ListContents, content \notin DOMAIN element,
           NEW k \in 1 .. Len(items) + 1, PutIn(items, items', k, content),
           element' = LinkedBetween(content, Place(items, k - 1), Place(items, k)),
           list' = [list EXCEPT !.first = IF k = 1 THEN content ELSE @,
                                !.last = IF k = Len(items) + 1 THEN content ELSE @,
                                !.count = @ + 1]
    PROVE  ListInv'
<1>1. Chain(items', element')
  <2>1. element' = Between(element, content, Place(items, k - 1), Place(items, k))
    BY DEF LinkedBetween, Between
  <2> QED
    BY <2>1, ChainInsert DEF ListInv
<1>2. /\ items \in Seq(ListContents) /\ Len(items) \in Nat /\ items' \in Seq(ListContents)
      /\ Len(items') = Len(items) + 1
      /\ list.first = Place(items, 1) /\ list.last = Place(items, Len(items)) /\ list.count = Len(items)
  BY DEF ListInv, Chain, PutIn
<1>3. /\ \A i \in 1 .. k - 1 : items'[i] = items[i]
      /\ items'[k] = content
      /\ \A i \in k + 1 .. Len(items) + 1 : items'[i] = items[i - 1]
  BY DEF PutIn
<1>4. DOMAIN element' = DOMAIN element \cup {content}
  BY DEF LinkedBetween
<1>5. /\ list'.first = IF k = 1 THEN content ELSE list.first
      /\ list'.last = IF k = Len(items) + 1 THEN content ELSE list.last
      /\ list'.count = list.count + 1
      /\ list'.current = list.current
      /\ list' \in [first : ListContents \cup {NoElement}, last : ListContents \cup {NoElement},
                    current : DOMAIN element \cup {NoElement}, count : Nat]
  <2> DEFINE F == IF k = 1 THEN content ELSE list.first
             L == IF k = Len(items) + 1 THEN content ELSE list.last
  <2>1. list \in [first : ListContents \cup {NoElement}, last : ListContents \cup {NoElement},
                  current : DOMAIN element \cup {NoElement}, count : Nat]
    BY DEF ListInv
  <2>2. list' = [list EXCEPT !.first = F, !.last = L, !.count = @ + 1]
    OBVIOUS
  <2>3. F \in ListContents \cup {NoElement} /\ L \in ListContents \cup {NoElement}
    BY <2>1
  <2> HIDE DEF F, L
  <2>4. /\ list'.first = F /\ list'.last = L /\ list'.count = list.count + 1 /\ list'.current = list.current
        /\ list' \in [first : ListContents \cup {NoElement}, last : ListContents \cup {NoElement},
                      current : DOMAIN element \cup {NoElement}, count : Nat]
    <3>1. PICK E, C : E = ListContents \cup {NoElement} /\ C = DOMAIN element \cup {NoElement}
      OBVIOUS
    <3>2. PICK l, m, f, g : l = list /\ m = list' /\ f = F /\ g = L
      OBVIOUS
    <3>3. l \in [first : E, last : E, current : C, count : Nat] /\ f \in E /\ g \in E
      BY <2>1, <2>3, <3>1, <3>2
    <3>4. m = [l EXCEPT !.first = f, !.last = g, !.count = @ + 1]
      BY <2>2, <3>2
    <3>5. /\ m.first = f /\ m.last = g /\ m.count = l.count + 1 /\ m.current = l.current
          /\ m \in [first : E, last : E, current : C, count : Nat]
      BY <3>3, <3>4, ListCounted, ZenonT(60)
    <3> QED
      BY <3>1, <3>2, <3>5
  <2> QED
    BY <2>4 DEF F, L
<1>6. list'.first = Place(items', 1)
  <2>1. CASE k = 1
    BY <1>2, <1>3, <1>5, <2>1 DEF Place
  <2>2. CASE k # 1
    <3>1. 1 \in 1 .. k - 1 /\ 1 \in 1 .. Len(items) /\ 1 \in 1 .. Len(items')
      BY <1>2, <2>2
    <3> QED
      BY <1>2, <1>3, <1>5, <2>2, <3>1 DEF Place
  <2> QED
    BY <2>1, <2>2
<1>7. list'.last = Place(items', Len(items'))
  <2>1. CASE k = Len(items) + 1
    BY <1>2, <1>3, <1>5, <2>1 DEF Place
  <2>2. CASE k # Len(items) + 1
    <3>1. Len(items) + 1 \in k + 1 .. Len(items) + 1 /\ Len(items) \in 1 .. Len(items)
          /\ Len(items') \in 1 .. Len(items') /\ (Len(items) + 1) - 1 = Len(items)
      BY <1>2, <2>2
    <3>2. items'[Len(items')] = items[Len(items)]
      BY <1>2, <1>3, <3>1
    <3> QED
      BY <1>2, <1>5, <2>2, <3>1, <3>2 DEF Place
  <2> QED
    BY <2>1, <2>2
<1>8. list' \in [first : ListContents \cup {NoElement}, last : ListContents \cup {NoElement},
                 current : DOMAIN element' \cup {NoElement}, count : Nat]
  BY <1>4, <1>5
<1>9. list'.count = Len(items')
  BY <1>2, <1>5
<1> QED
  BY <1>1, <1>6, <1>7, <1>8, <1>9 DEF ListInv

(* An operation that unlinks the k-th element and moves the ends keeps the invariant. *)
LEMMA ListTake ==
    ASSUME ListInv, NEW k \in 1 .. Len(items), TakenOut(items, items', k),
           element' = UnlinkedElement(items[k]),
           list'.first = IF k = 1 THEN Place(items, 2) ELSE list.first,
           list'.last = IF k = Len(items) THEN Place(items, Len(items) - 1) ELSE list.last,
           list'.count = list.count - 1,
           list' = [first |-> list'.first, last |-> list'.last, current |-> list'.current, count |-> list'.count],
           list'.current \in {list.current, Place(items, k - 1), Place(items, k + 1)} \ {items[k]}
    PROVE  ListInv'
<1>1. Chain(items', element')
  <2>1. element' = Without(element, items[k])
    BY DEF UnlinkedElement, Without, PrevOf, NextOf
  <2> QED
    BY <2>1, ChainRemove DEF ListInv
<1>2. /\ items \in Seq(ListContents) /\ Len(items) \in Nat /\ items' \in Seq(ListContents)
      /\ Len(items') = Len(items) - 1
      /\ list.first = Place(items, 1) /\ list.last = Place(items, Len(items)) /\ list.count = Len(items)
      /\ list.current \in DOMAIN element \cup {NoElement}
      /\ \A e : e \in DOMAIN element <=> \E i \in 1 .. Len(items) : e = items[i]
  BY DEF ListInv, Chain, TakenOut
<1>3. /\ \A i \in 1 .. k - 1 : items'[i] = items[i]
      /\ \A i \in k .. Len(items) - 1 : items'[i] = items[i + 1]
  BY DEF TakenOut
<1>4. DOMAIN element' = DOMAIN element \ {items[k]}
  BY DEF UnlinkedElement
<1>5. list'.first = Place(items', 1)
  <2>1. CASE k = 1 /\ Len(items) = 1
    BY <1>2, <2>1 DEF Place
  <2>2. CASE k = 1 /\ Len(items) # 1
    <3>1. 1 \in k .. Len(items) - 1 /\ 2 \in 1 .. Len(items) /\ 1 \in 1 .. Len(items') /\ 1 + 1 = 2
      BY <1>2, <2>2
    <3>2. items'[1] = items[2]
      BY <1>3, <3>1
    <3> QED
      BY <2>2, <3>1, <3>2 DEF Place
  <2>3. CASE k # 1
    <3>1. 1 \in 1 .. k - 1 /\ 1 \in 1 .. Len(items) /\ 1 \in 1 .. Len(items')
      BY <1>2, <2>3
    <3> QED
      BY <1>2, <1>3, <2>3, <3>1 DEF Place
  <2> QED
    BY <2>1, <2>2, <2>3
<1>6. list'.last = Place(items', Len(items'))
  <2>1. CASE k = Len(items) /\ Len(items) = 1
    BY <1>2, <2>1 DEF Place
  <2>2. CASE k = Len(items) /\ Len(items) # 1
    <3>1. Len(items) - 1 \in 1 .. k - 1 /\ Len(items) - 1 \in 1 .. Len(items) /\ Len(items') \in 1 .. Len(items')
      BY <1>2, <2>2
    <3>2. items'[Len(items')] = items[Len(items) - 1]
      BY <1>2, <1>3, <3>1
    <3> QED
      BY <2>2, <3>1, <3>2 DEF Place
  <2>3. CASE k # Len(items)
    <3>1. Len(items) - 1 \in k .. Len(items) - 1 /\ (Len(items) - 1) + 1 = Len(items)
          /\ Len(items) \in 1 .. Len(items) /\ Len(items') \in 1 .. Len(items')
      BY <1>2, <2>3
    <3>2. items'[Len(items')] = items[Len(items)]
      BY <1>2, <1>3, <3>1
    <3> QED
      BY <1>2, <2>3, <3>1, <3>2 DEF Place
  <2> QED
    BY <2>1, <2>2, <2>3
<1>7. list'.current \in DOMAIN element' \cup {NoElement}
  <2>1. \A i : Place(items, i) \in DOMAIN element \cup {NoElement}
    BY <1>2 DEF Place
  <2> QED
    BY <1>2, <1>4, <2>1
<1>8. list' \in [first : ListContents \cup {NoElement}, last : ListContents \cup {NoElement},
                 current : DOMAIN element' \cup {NoElement}, count : Nat]
  <2>1. list'.count \in Nat
    BY <1>2
  <2>2. \A i : Place(items', i) \in ListContents \cup {NoElement}
    BY <1>2 DEF Place
  <2> QED
    BY <1>5, <1>6, <1>7, <2>1, <2>2
<1>9. list'.count = Len(items')
  BY <1>2
<1> QED
  BY <1>1, <1>5, <1>6, <1>8, <1>9 DEF ListInv

(* The pointers of an element, and where it is. *)
LEMMA ListPointers ==
    ASSUME ListInv
    PROVE  /\ \A k \in 1 .. Len(items) : /\ NextOf(items[k]) = Place(items, k + 1)
                                         /\ PrevOf(items[k]) = Place(items, k - 1)
                                         /\ items[k] \in ListContents
                                         /\ items[k] # NoElement
           /\ \A e \in DOMAIN element : PositionOf(e) \in 1 .. Len(items) /\ items[PositionOf(e)] = e
           /\ \A i, j \in 1 .. Len(items) : items[i] = items[j] => i = j
           /\ items \in Seq(ListContents) /\ Len(items) \in Nat
           /\ list.first = Place(items, 1) /\ list.last = Place(items, Len(items)) /\ list.count = Len(items)
           /\ list.current \in DOMAIN element \cup {NoElement}
<1>1. /\ items \in Seq(ListContents)
      /\ \A e : e \in DOMAIN element <=> \E i \in 1 .. Len(items) : e = items[i]
      /\ \A i \in 1 .. Len(items) : element[items[i]] = [prev |-> Place(items, i - 1), next |-> Place(items, i + 1)]
      /\ \A i, j \in 1 .. Len(items) : items[i] = items[j] => i = j
  BY DEF ListInv, Chain, Distinct
<1>2. DOMAIN items = 1 .. Len(items) /\ Len(items) \in Nat
  BY <1>1
<1>3. ASSUME NEW k \in 1 .. Len(items)
      PROVE  NextOf(items[k]) = Place(items, k + 1) /\ PrevOf(items[k]) = Place(items, k - 1)
  <2>1. element[items[k]] = [prev |-> Place(items, k - 1), next |-> Place(items, k + 1)]
    BY <1>1
  <2>2. element[items[k]].prev = Place(items, k - 1) /\ element[items[k]].next = Place(items, k + 1)
    BY <2>1
  <2> QED
    BY <2>2 DEF NextOf, PrevOf
<1>4. ASSUME NEW e \in DOMAIN element PROVE PositionOf(e) \in 1 .. Len(items) /\ items[PositionOf(e)] = e
  <2>1. \E i \in DOMAIN items : items[i] = e
    BY <1>1, <1>2
  <2>2. PositionOf(e) \in DOMAIN items /\ items[PositionOf(e)] = e
    BY <2>1 DEF PositionOf
  <2> QED
    BY <1>2, <2>2
<1>5. \A k \in 1 .. Len(items) : items[k] \in ListContents /\ items[k] # NoElement
  BY <1>1, PlaceTyped
<1> QED
  BY <1>1, <1>2, <1>3, <1>4, <1>5 DEF ListInv

(* ListAppend keeps the invariant. *)
LEMMA AppendKeeps ==
    ASSUME ListInv, NEW content \in ListContents, ListAppend(content)
    PROVE  ListInv'
<1> DEFINE k == Len(items) + 1
<1>1. /\ items \in Seq(ListContents) /\ Len(items) \in Nat
      /\ list.first = Place(items, 1) /\ list.last = Place(items, Len(items))
      /\ \A i \in 1 .. Len(items) : items[i] # NoElement
  BY ListPointers
<1>2. content \notin DOMAIN element /\ items' = Append(items, content)
  BY DEF ListAppend
<1>3. PutIn(items, items', k, content) /\ k \in 1 .. Len(items) + 1
  BY <1>1, <1>2, AppendPuts
<1>4. Place(items, k - 1) = list.last /\ Place(items, k) = NoElement
  BY <1>1 DEF Place
<1>5. (list.first = NoElement) <=> (k = 1)
  BY <1>1 DEF Place
<1>6. element' = LinkedBetween(content, Place(items, k - 1), Place(items, k))
  BY <1>4 DEF ListAppend
<1>7. list' = [list EXCEPT !.first = IF k = 1 THEN content ELSE @,
                           !.last = IF k = Len(items) + 1 THEN content ELSE @,
                           !.count = @ + 1]
  <2>1. list' = [list EXCEPT !.first = IF list.first = NoElement THEN content ELSE @,
                             !.last = content, !.count = @ + 1]
    BY DEF ListAppend
  <2>2. (IF list.first = NoElement THEN content ELSE list.first) = (IF k = 1 THEN content ELSE list.first)
    BY <1>5
  <2>3. (IF k = Len(items) + 1 THEN content ELSE list.last) = content
    OBVIOUS
  <2> HIDE DEF k
  <2> QED
    BY <2>1, <2>2, <2>3, Zenon
<1> HIDE DEF k
<1> QED
  BY <1>2, <1>3, <1>6, <1>7, ListPut

(* ListInsert keeps the invariant, with and without an index. *)
LEMMA InsertKeeps ==
    ASSUME ListInv, NEW content \in ListContents, NEW index \in DOMAIN element, ListInsert(content, index)
    PROVE  ListInv'
<1> DEFINE k == PositionOf(index)
<1>1. /\ items \in Seq(ListContents) /\ Len(items) \in Nat
      /\ k \in 1 .. Len(items) /\ items[k] = index
      /\ PrevOf(index) = Place(items, k - 1)
      /\ \A i \in 1 .. Len(items) : items[i] # NoElement
  BY ListPointers
<1>2. content \notin DOMAIN element /\ items' = InsertAt(items, k, content)
  BY DEF ListInsert
<1> HIDE DEF k
<1>3. PutIn(items, items', k, content) /\ k \in 1 .. Len(items) + 1
  BY <1>1, <1>2, InsertPuts
<1>4. Place(items, k) = index
  BY <1>1 DEF Place
<1>5. (PrevOf(index) = NoElement) <=> (k = 1)
  BY <1>1 DEF Place
<1>6. element' = LinkedBetween(content, Place(items, k - 1), Place(items, k))
  BY <1>1, <1>4 DEF ListInsert
<1>7. list' = [list EXCEPT !.first = IF k = 1 THEN content ELSE @,
                           !.last = IF k = Len(items) + 1 THEN content ELSE @,
                           !.count = @ + 1]
  <2>1. list' = [list EXCEPT !.first = IF PrevOf(index) = NoElement THEN content ELSE @, !.count = @ + 1]
    BY DEF ListInsert
  <2>2. (IF PrevOf(index) = NoElement THEN content ELSE list.first) = (IF k = 1 THEN content ELSE list.first)
    BY <1>5
  <2>3. (IF k = Len(items) + 1 THEN content ELSE list.last) = list.last
    BY <1>1
  <2>4. [list EXCEPT !.last = list.last] = list
    BY DEF ListInv
  <2>5. ASSUME NEW F, NEW n
        PROVE  [list EXCEPT !.first = F, !.last = list.last, !.count = n] = [list EXCEPT !.first = F, !.count = n]
    BY DEF ListInv
  <2>6. PICK F, n : F = (IF k = 1 THEN content ELSE list.first) /\ n = list.count + 1
    OBVIOUS
  <2>7. list' = [list EXCEPT !.first = F, !.count = n]
    BY <2>1, <2>2, <2>6, Zenon
  <2> QED
    BY <2>3, <2>5, <2>6, <2>7, Zenon
<1> QED
  BY <1>2, <1>3, <1>6, <1>7, ListPut

(* ListUnlink keeps the invariant. *)
LEMMA UnlinkKeeps ==
    ASSUME ListInv, NEW content \in ListContents, ListUnlink(content)
    PROVE  ListInv'
<1> DEFINE k == PositionOf(content)
<1>0. content \in DOMAIN element
  BY FindsExactly DEF ListUnlink
<1>1. /\ items \in Seq(ListContents) /\ Len(items) \in Nat
      /\ k \in 1 .. Len(items) /\ items[k] = content
      /\ PrevOf(content) = Place(items, k - 1)
      /\ NextOf(content) = Place(items, k + 1)
      /\ \A i \in 1 .. Len(items) : items[i] # NoElement
      /\ \A i, j \in 1 .. Len(items) : items[i] = items[j] => i = j
  BY <1>0, ListPointers
<1>2. items' = RemoveAt(items, k)
  BY DEF ListUnlink
<1> HIDE DEF k
<1>3. TakenOut(items, items', k)
  BY <1>1, <1>2, RemoveTakes
<1>4. element' = UnlinkedElement(items[k])
  BY <1>1 DEF ListUnlink
<1>5. (PrevOf(content) = NoElement) <=> (k = 1)
  BY <1>1 DEF Place
<1>6. (NextOf(content) = NoElement) <=> (k = Len(items))
  BY <1>1 DEF Place
<1>7. list' = [first |-> IF PrevOf(content) = NoElement THEN NextOf(content) ELSE list.first,
               last |-> IF NextOf(content) = NoElement THEN PrevOf(content) ELSE list.last,
               current |-> IF list.current = content THEN NextOf(content) ELSE list.current,
               count |-> list.count - 1]
  BY DEF ListUnlink
<1>8. /\ list'.first = IF k = 1 THEN Place(items, 2) ELSE list.first
      /\ list'.last = IF k = Len(items) THEN Place(items, Len(items) - 1) ELSE list.last
      /\ list'.count = list.count - 1
      /\ list'.current = IF list.current = content THEN NextOf(content) ELSE list.current
      /\ list' = [first |-> list'.first, last |-> list'.last, current |-> list'.current, count |-> list'.count]
  <2>1. /\ list'.first = IF PrevOf(content) = NoElement THEN NextOf(content) ELSE list.first
        /\ list'.last = IF NextOf(content) = NoElement THEN PrevOf(content) ELSE list.last
        /\ list'.count = list.count - 1
        /\ list'.current = IF list.current = content THEN NextOf(content) ELSE list.current
        /\ list' = [first |-> list'.first, last |-> list'.last, current |-> list'.current, count |-> list'.count]
    BY <1>7
  <2>2. k = 1 => k + 1 = 2
    OBVIOUS
  <2> QED
    BY <1>1, <1>5, <1>6, <2>1, <2>2
<1>9. list'.current \in {list.current, Place(items, k - 1), Place(items, k + 1)} \ {items[k]}
  <2>1. Place(items, k + 1) # items[k]
    BY <1>1 DEF Place
  <2> QED
    BY <1>1, <1>8, <2>1
<1> QED
  BY <1>1, <1>3, <1>4, <1>8, <1>9, ListTake

(* ListDetachHead keeps the invariant. *)
LEMMA DetachHeadKeeps ==
    ASSUME ListInv, ListDetachHead
    PROVE  ListInv'
<1>1. /\ items \in Seq(ListContents) /\ Len(items) \in Nat /\ Len(items) > 0
      /\ list.first = Place(items, 1) /\ list.last = Place(items, Len(items))
      /\ \A i \in 1 .. Len(items) : items[i] # NoElement
      /\ \A i, j \in 1 .. Len(items) : items[i] = items[j] => i = j
  BY ListPointers DEF ListDetachHead
<1>2. 1 \in 1 .. Len(items) /\ Len(items) \in 1 .. Len(items) /\ list.first = items[1] /\ list.last = items[Len(items)]
  BY <1>1 DEF Place
<1>3. NextOf(items[1]) = Place(items, 2)
  <2>1. NextOf(items[1]) = Place(items, 1 + 1)
    BY <1>2, ListPointers
  <2> QED
    BY <2>1
<1>4. items' = Tail(items) /\ element' = UnlinkedElement(items[1])
  BY <1>2 DEF ListDetachHead
<1>5. TakenOut(items, items', 1)
  BY <1>1, <1>4, TailTakes
<1>6. (list.last = list.first) <=> (1 = Len(items))
  BY <1>1, <1>2
<1>7. list' = [first |-> NextOf(list.first),
               last |-> IF list.last = list.first THEN NoElement ELSE list.last,
               current |-> IF list.current = list.first THEN NextOf(list.first) ELSE list.current,
               count |-> list.count - 1]
  BY DEF ListDetachHead
<1>8. /\ list'.first = NextOf(list.first)
      /\ list'.last = IF list.last = list.first THEN NoElement ELSE list.last
      /\ list'.current = IF list.current = list.first THEN NextOf(list.first) ELSE list.current
      /\ list'.count = list.count - 1
      /\ list' = [first |-> list'.first, last |-> list'.last, current |-> list'.current, count |-> list'.count]
  BY <1>7
<1>9. ASSUME 1 = Len(items) PROVE Place(items, Len(items) - 1) = NoElement
  <2>1. Len(items) - 1 \notin 1 .. Len(items)
    <3>1. \A n \in Nat : n > 0 => n - 1 \notin 1 .. n \/ n # 1
      OBVIOUS
    <3> QED
      BY <1>1, <1>9, <3>1
  <2> QED
    BY <2>1 DEF Place
<1>10. /\ list'.first = IF 1 = 1 THEN Place(items, 2) ELSE list.first
       /\ list'.last = IF 1 = Len(items) THEN Place(items, Len(items) - 1) ELSE list.last
  BY <1>2, <1>3, <1>6, <1>8, <1>9
<1>11. list'.current \in {list.current, Place(items, 1 - 1), Place(items, 1 + 1)} \ {items[1]}
  <2>1. Place(items, 2) # items[1]
    BY <1>1, <1>2 DEF Place
  <2>2. 1 + 1 = 2
    OBVIOUS
  <2> QED
    BY <1>2, <1>3, <1>8, <2>1, <2>2
<1> QED
  BY <1>2, <1>4, <1>5, <1>8, <1>10, <1>11, ListTake

(* ListPopTail keeps the invariant. *)
LEMMA PopTailKeeps ==
    ASSUME ListInv, ListPopTail
    PROVE  ListInv'
<1> DEFINE k == Len(items)
<1>1. /\ items \in Seq(ListContents) /\ k \in Nat /\ k > 0
      /\ list.first = Place(items, 1) /\ list.last = Place(items, k)
      /\ \A i \in 1 .. k : items[i] # NoElement
      /\ \A i, j \in 1 .. k : items[i] = items[j] => i = j
  BY ListPointers DEF ListPopTail
<1>2. 1 \in 1 .. k /\ k \in 1 .. k /\ list.first = items[1] /\ list.last = items[k]
  BY <1>1 DEF Place
<1>3. PrevOf(items[k]) = Place(items, k - 1)
  BY <1>2, ListPointers
<1>4. items' = Front(items) /\ element' = UnlinkedElement(items[k])
  BY <1>2 DEF ListPopTail
<1>5. TakenOut(items, items', k)
  BY <1>1, <1>4, FrontTakes
<1>6. (list.first = list.last) <=> (k = 1)
  BY <1>1, <1>2
<1>7. list' = [first |-> IF list.first = list.last THEN NoElement ELSE list.first,
               last |-> PrevOf(list.last),
               current |-> IF list.current = list.last THEN PrevOf(list.last) ELSE list.current,
               count |-> list.count - 1]
  BY DEF ListPopTail
<1>8. /\ list'.first = IF list.first = list.last THEN NoElement ELSE list.first
      /\ list'.last = PrevOf(list.last)
      /\ list'.current = IF list.current = list.last THEN PrevOf(list.last) ELSE list.current
      /\ list'.count = list.count - 1
      /\ list' = [first |-> list'.first, last |-> list'.last, current |-> list'.current, count |-> list'.count]
  BY <1>7
<1>9. k = 1 => Place(items, 2) = NoElement
  BY DEF Place
<1>10. /\ list'.first = IF k = 1 THEN Place(items, 2) ELSE list.first
       /\ list'.last = IF k = Len(items) THEN Place(items, Len(items) - 1) ELSE list.last
  BY <1>2, <1>3, <1>6, <1>8, <1>9
<1>11. list'.current \in {list.current, Place(items, k - 1), Place(items, k + 1)} \ {items[k]}
  <2>1. Place(items, k - 1) # items[k]
    BY <1>1, <1>2 DEF Place
  <2> QED
    BY <1>2, <1>3, <1>8, <2>1
<1>12. k \in 1 .. Len(items)
  BY <1>2
<1> HIDE DEF k
<1> QED
  BY <1>4, <1>5, <1>8, <1>10, <1>11, <1>12, ListTake

(* An empty list satisfies the invariant. *)
LEMMA EmptyList ==
    ASSUME items = <<>>, element = <<>>, list = ListZero
    PROVE  ListInv
<1>1. items \in Seq(ListContents) /\ Len(items) = 0 /\ DOMAIN element = {}
  OBVIOUS
<1>2. Chain(items, element)
  BY <1>1 DEF Chain, Distinct
<1>3. /\ list = [first |-> NoElement, last |-> NoElement, current |-> NoElement, count |-> 0]
      /\ Place(items, 1) = NoElement /\ Place(items, 0) = NoElement
  BY <1>1 DEF ListZero, Place
<1> QED
  BY <1>1, <1>2, <1>3 DEF ListInv

(* A list that has been emptied satisfies the invariant. *)
LEMMA EmptyListNext ==
    ASSUME items' = <<>>, element' = <<>>, list' = ListZero
    PROVE  ListInv'
<1>1. items' \in Seq(ListContents) /\ Len(items') = 0 /\ DOMAIN element' = {}
  OBVIOUS
<1>2. Chain(items', element')
  BY <1>1 DEF Chain, Distinct
<1>3. /\ list' = [first |-> NoElement, last |-> NoElement, current |-> NoElement, count |-> 0]
      /\ Place(items', 1) = NoElement /\ Place(items', 0) = NoElement
  BY <1>1 DEF ListZero, Place
<1> QED
  BY <1>1, <1>2, <1>3 DEF ListInv

(* ListFindItem moves current only, to an element of the list. *)
LEMMA FindKeeps ==
    ASSUME ListInv, NEW content \in ListContents, ListFindItem(content)
    PROVE  ListInv'
<1>1. /\ element' = element /\ items' = items
      /\ list' = [list EXCEPT !.current = IF Finds(content) = NoElement THEN list.current ELSE content]
  BY DEF ListFindItem
<1> DEFINE c == IF Finds(content) = NoElement THEN list.current ELSE content
<1>2. c \in DOMAIN element \cup {NoElement}
  BY FindsExactly DEF ListInv
<1> HIDE DEF c
<1>3. list' = [list EXCEPT !.current = c]
  BY <1>1 DEF c
<1>4. /\ list' \in [first : ListContents \cup {NoElement}, last : ListContents \cup {NoElement},
                    current : DOMAIN element \cup {NoElement}, count : Nat]
      /\ list'.first = list.first /\ list'.last = list.last /\ list'.count = list.count
  BY <1>2, <1>3 DEF ListInv
<1> QED
  BY <1>1, <1>4 DEF ListInv

(* However elements are appended, inserted, searched for and removed, the list *)
(* that LinkedList.c keeps is the sequence it stands for in both directions,   *)
(* `current' is an element of it or null, and a search finds exactly what is   *)
(* in it.                                                                      *)
THEOREM ListSequence == ListSpec => []ListIsSequence
<1>1. ListInit => ListInv
  BY EmptyList DEF ListInit
<1>2. ListInv /\ [ListNext]_listVars => ListInv'
  <2> SUFFICES ASSUME ListInv, [ListNext]_listVars PROVE ListInv'
    OBVIOUS
  <2>1. ASSUME NEW content \in ListContents, ListAppend(content) PROVE ListInv'
    BY <2>1, AppendKeeps
  <2>2. ASSUME NEW content \in ListContents, ListFindItem(content) PROVE ListInv'
    BY <2>2, FindKeeps
  <2>3. ASSUME NEW content \in ListContents, ListUnlink(content) PROVE ListInv'
    BY <2>3, UnlinkKeeps
  <2>4. ASSUME NEW content \in ListContents, NEW index \in DOMAIN element, ListInsert(content, index)
        PROVE  ListInv'
    BY <2>4, InsertKeeps
  <2>5. CASE ListDetachHead
    BY <2>5, DetachHeadKeeps
  <2>6. CASE ListPopTail
    BY <2>6, PopTailKeeps
  <2>7. CASE ListEmpty
    BY <2>7, EmptyListNext DEF ListEmpty
  <2>8. CASE UNCHANGED listVars
    BY <2>8 DEF ListInv, listVars
  <2> QED
    BY <2>1, <2>2, <2>3, <2>4, <2>5, <2>6, <2>7, <2>8 DEF ListNext
<1>3. ListInv => ListIsSequence
  <2> SUFFICES ASSUME ListInv PROVE ListIsSequence
    OBVIOUS
  <2>1. items \in Seq(ListContents) /\ DOMAIN items = 1 .. Len(items)
    BY DEF ListInv, Chain
  <2>2. \A i : At(i) = Place(items, i)
    BY <2>1 DEF At, Place
  <2>3. DOMAIN element = ToSet(items)
    BY <2>1 DEF ListInv, Chain, ToSet
  <2>4. \A content \in ListContents : Finds(content) = content <=> content \in ToSet(items)
    BY <2>3, FindsExactly
  <2> QED
    BY <2>1, <2>2, <2>3, <2>4, ListPointers DEF ListIsSequence
<1> QED
  BY <1>1, <1>2, <1>3, PTL DEF ListSpec

-----------------------------------------------------------------------------
(* The length of a packet *)

(* Division by a number that need not be known. *)
LEMMA DivMod ==
    ASSUME NEW n \in Nat, NEW r \in Nat \ {0}
    PROVE  /\ n \div r \in Nat /\ n % r \in 0 .. r - 1
           /\ n = r * (n \div r) + (n % r)
<1>1. n = r * (n \div r) + (n % r)
  OBVIOUS
<1>2. n \div r \in Nat
  OBVIOUS
<1>3. n % r \in 0 .. r - 1
  OBVIOUS
<1> QED
  BY <1>1, <1>2, <1>3

(* What is left to encode gets smaller. *)
LEMMA DivSmaller ==
    ASSUME NEW n \in Nat \ {0}, NEW r \in Nat \ {0, 1}
    PROVE  n \div r \in 0 .. n - 1
<1>1. n \div r \in Nat /\ n % r \in 0 .. r - 1 /\ n = r * (n \div r) + (n % r)
  BY DivMod
<1>2. ASSUME NEW q \in Nat, NEW m \in Nat, n = r * q + m PROVE q < n
  BY <1>2
<1> QED
  BY <1>1, <1>2

(* The bit that says more digits follow does not change the digit. *)
LEMMA LastDigit ==
    ASSUME NEW d \in Nat, NEW r \in Nat \ {0}, d < r
    PROVE  (d + r) % r = d /\ d % r = d
  OBVIOUS

(* The recursive function of Encode. *)
EncodeBody(f, n, r) ==
    IF n < r THEN <<n>> ELSE <<(n % r) + r>> \o f[n \div r]

(* It has values up to a number. *)
EncodesUpTo(f, n, r) ==
    /\ f \in [0 .. n -> Seq(Nat)]
    /\ \A m \in 0 .. n : f[m] = EncodeBody(f, m, r)

(* A step of the recursion looks at smaller numbers only. *)
LEMMA EncodeBodyLocal ==
    ASSUME NEW r \in Nat \ {0, 1}, NEW n \in Nat, NEW f, NEW g,
           \A k \in 0 .. n - 1 : f[k] = g[k]
    PROVE  EncodeBody(f, n, r) = EncodeBody(g, n, r)
<1>1. CASE n < r
  BY <1>1 DEF EncodeBody
<1>2. CASE ~(n < r)
  <2>0. n \in Nat \ {0}
    BY <1>2
  <2>1. n \div r \in 0 .. n - 1
    BY <2>0, DivSmaller
  <2>2. f[n \div r] = g[n \div r]
    BY <2>1
  <2> QED
    BY <1>2, <2>2 DEF EncodeBody
<1> QED
  BY <1>1, <1>2

(* A step of the recursion gives a sequence of numbers. *)
LEMMA EncodeBodyTyped ==
    ASSUME NEW r \in Nat \ {0, 1}, NEW n \in Nat, NEW f,
           \A k \in 0 .. n - 1 : f[k] \in Seq(Nat)
    PROVE  EncodeBody(f, n, r) \in Seq(Nat)
<1>1. CASE n < r
  BY <1>1 DEF EncodeBody
<1>2. CASE ~(n < r)
  <2>0. n \in Nat \ {0}
    BY <1>2
  <2>1. n \div r \in 0 .. n - 1
    BY <2>0, DivSmaller
  <2>2. f[n \div r] \in Seq(Nat)
    BY <2>1
  <2>3. n % r \in 0 .. r - 1
    BY DivMod
  <2>4. (n % r) + r \in Nat
    BY <2>3
  <2>5. <<(n % r) + r>> \in Seq(Nat)
    BY <2>4
  <2>6. EncodeBody(f, n, r) = <<(n % r) + r>> \o f[n \div r]
    BY <1>2 DEF EncodeBody
  <2> QED
    BY <2>2, <2>5, <2>6, ConcatProperties
<1> QED
  BY <1>1, <1>2

(* The recursion has a solution up to every number. *)
LEMMA EncodesSome ==
    ASSUME NEW r \in Nat \ {0, 1}, NEW n \in Nat
    PROVE  \E f : EncodesUpTo(f, n, r)
<1> DEFINE Missing == {k \in Nat : ~\E f : EncodesUpTo(f, k, r)}
<1> SUFFICES ASSUME Missing # {} PROVE FALSE
  OBVIOUS
<1>1. PICK k \in Missing : \A j \in Missing : k <= j
  <2>1. Missing \in SUBSET Nat
    OBVIOUS
  <2> HIDE DEF Missing
  <2> QED
    BY <2>1, LeastNumber
<1>2. CASE k = 0
  <2> DEFINE f == [m \in 0 .. 0 |-> <<0>>]
  <2>1. EncodeBody(f, 0, r) = <<0>>
    BY DEF EncodeBody
  <2>2. f \in [0 .. 0 -> Seq(Nat)] /\ f[0] = <<0>> /\ \A m \in 0 .. 0 : m = 0
    OBVIOUS
  <2> HIDE DEF f
  <2>3. EncodesUpTo(f, 0, r)
    BY <2>1, <2>2 DEF EncodesUpTo
  <2> QED
    BY <1>1, <1>2, <2>3
<1>3. CASE k # 0
  <2>1. k - 1 \in Nat /\ k - 1 \notin Missing
    BY <1>1, <1>3
  <2>2. PICK g : EncodesUpTo(g, k - 1, r)
    BY <2>1
  <2>3. g \in [0 .. k - 1 -> Seq(Nat)] /\ \A m \in 0 .. k - 1 : g[m] = EncodeBody(g, m, r)
    BY <2>2 DEF EncodesUpTo
  <2>4. EncodeBody(g, k, r) \in Seq(Nat)
    BY <1>1, <2>3, EncodeBodyTyped
  <2> DEFINE f == [m \in 0 .. k |-> IF m < k THEN g[m] ELSE EncodeBody(g, k, r)]
  <2>5. f \in [0 .. k -> Seq(Nat)]
    BY <1>1, <2>3, <2>4
  <2>6. (\A m \in 0 .. k - 1 : f[m] = g[m]) /\ f[k] = EncodeBody(g, k, r)
    BY <1>1
  <2> HIDE DEF f
  <2>7. ASSUME NEW m \in 0 .. k PROVE f[m] = EncodeBody(f, m, r)
    <3>1. m \in Nat /\ \A j \in 0 .. m - 1 : f[j] = g[j]
      BY <1>1, <2>6
    <3>2. EncodeBody(f, m, r) = EncodeBody(g, m, r)
      BY <3>1, EncodeBodyLocal
    <3>3. CASE m = k
      BY <2>6, <3>2, <3>3
    <3>4. CASE m # k
      <4>1. m \in 0 .. k - 1
        BY <1>1, <3>4
      <4> QED
        BY <2>3, <2>6, <3>2, <4>1
    <3> QED
      BY <3>3, <3>4
  <2>8. EncodesUpTo(f, k, r)
    BY <2>5, <2>7 DEF EncodesUpTo
  <2> QED
    BY <1>1, <2>8
<1> QED
  BY <1>2, <1>3

(* Two solutions agree where both are defined. *)
LEMMA EncodesSame ==
    ASSUME NEW r \in Nat \ {0, 1}, NEW n \in Nat, NEW k \in Nat, NEW f, NEW g,
           EncodesUpTo(f, n, r), EncodesUpTo(g, k, r), NEW m \in Nat, m <= n, m <= k
    PROVE  f[m] = g[m]
<1> DEFINE Differ == {j \in 0 .. m : f[j] # g[j]}
<1> SUFFICES ASSUME Differ # {} PROVE FALSE
  OBVIOUS
<1>1. PICK j \in Differ : \A i \in Differ : j <= i
  <2>1. Differ \in SUBSET Nat
    OBVIOUS
  <2> HIDE DEF Differ
  <2> QED
    BY <2>1, LeastNumber
<1>2. j \in Nat /\ j \in 0 .. n /\ j \in 0 .. k /\ f[j] # g[j]
  BY <1>1
<1>3. \A i \in 0 .. j - 1 : f[i] = g[i]
  BY <1>1
<1>4. f[j] = EncodeBody(f, j, r) /\ g[j] = EncodeBody(g, j, r)
  BY <1>2 DEF EncodesUpTo
<1>5. EncodeBody(f, j, r) = EncodeBody(g, j, r)
  BY <1>2, <1>3, EncodeBodyLocal
<1> QED
  BY <1>2, <1>4, <1>5

(* What MQTTPacket_encode writes: the last digit, or a digit with the mark that *)
(* more follow and what the rest of the length gives.                           *)
LEMMA EncodeUnfolds ==
    ASSUME NEW r \in Nat \ {0, 1}, NEW n \in Nat
    PROVE  /\ Encode(n, r) \in Seq(Nat)
           /\ n < r => Encode(n, r) = <<n>>
           /\ n >= r => Encode(n, r) = <<(n % r) + r>> \o Encode(n \div r, r)
<1> DEFINE Some(k) == CHOOSE f : EncodesUpTo(f, k, r)
           whole == [k \in Nat |-> Some(k)[k]]
           IsDigits(f) == f = [k \in Nat |-> EncodeBody(f, k, r)]
           digits == CHOOSE f : IsDigits(f)
<1>1. \A k \in Nat : EncodesUpTo(Some(k), k, r)
  BY EncodesSome
<1>2. IsDigits(whole)
  <2>1. ASSUME NEW k \in Nat PROVE whole[k] = EncodeBody(whole, k, r)
    <3> HIDE DEF Some
    <3>1. k \in 0 .. k /\ Some(k)[k] = EncodeBody(Some(k), k, r)
      BY <1>1 DEF EncodesUpTo
    <3>2. ASSUME NEW j \in 0 .. k - 1 PROVE Some(k)[j] = whole[j]
      <4>1. j \in Nat /\ j <= k /\ j <= j
        OBVIOUS
      <4>2. EncodesUpTo(Some(k), k, r) /\ EncodesUpTo(Some(j), j, r)
        BY <1>1, <4>1
      <4>3. Some(k)[j] = Some(j)[j]
        BY <4>1, <4>2, EncodesSame
      <4> QED
        BY <4>1, <4>3
    <3>3. whole[k] = Some(k)[k]
      OBVIOUS
    <3> HIDE DEF whole
    <3>4. EncodeBody(Some(k), k, r) = EncodeBody(whole, k, r)
      BY <3>2, EncodeBodyLocal
    <3> QED
      BY <3>1, <3>3, <3>4
  <2>2. whole = [k \in Nat |-> whole[k]]
    OBVIOUS
  <2> HIDE DEF whole
  <2> QED
    BY <2>1, <2>2
<1>3. IsDigits(digits)
  <2> HIDE DEF IsDigits, whole
  <2> QED
    BY <1>2
<1>4. \A k \in Nat : Encode(k, r) = digits[k]
  BY DEF Encode, EncodeBody
<1> HIDE DEF digits
<1>5. \A k \in Nat : digits[k] = EncodeBody(digits, k, r)
  BY <1>3
<1>6. \A k \in Nat : digits[k] \in Seq(Nat)
  <2> DEFINE Untyped == {k \in Nat : digits[k] \notin Seq(Nat)}
  <2> SUFFICES ASSUME Untyped # {} PROVE FALSE
    OBVIOUS
  <2>1. PICK k \in Untyped : \A j \in Untyped : k <= j
    <3>1. Untyped \in SUBSET Nat
      OBVIOUS
    <3> HIDE DEF Untyped
    <3> QED
      BY <3>1, LeastNumber
  <2>2. \A j \in 0 .. k - 1 : digits[j] \in Seq(Nat)
    BY <2>1
  <2>3. digits[k] \in Seq(Nat)
    BY <1>5, <2>1, <2>2, EncodeBodyTyped
  <2> QED
    BY <2>1, <2>3
<1>7. n \div r \in Nat
  BY DivMod
<1>8. Encode(n, r) = IF n < r THEN <<n>> ELSE <<(n % r) + r>> \o Encode(n \div r, r)
  BY <1>4, <1>5, <1>7 DEF EncodeBody
<1>9. n >= r => ~(n < r)
  OBVIOUS
<1> QED
  BY <1>4, <1>6, <1>8, <1>9

(* The place where MQTTPacket_decode stops. *)
StopsAt(b, r) == Min({Len(b), MaxLengthBytes} \cup {i \in 1..Len(b) : b[i] < r})

(* The length after so many bytes, up to four. *)
Sum(b, k, r) ==
    CASE k = 1 -> b[1] % r
      [] k = 2 -> (b[1] % r) + (b[2] % r) * r
      [] k = 3 -> (b[1] % r) + (b[2] % r) * r + (b[3] % r) * (r * r)
      [] k = 4 -> (b[1] % r) + (b[2] % r) * r + (b[3] % r) * (r * r) + (b[4] % r) * (r * r * r)

(* What Decode returns, by the place where it stops. *)
LEMMA DecodeStops ==
    ASSUME NEW b, NEW r
    PROVE  /\ Decode(b, r).used = StopsAt(b, r)
           /\ Decode(b, r).rc = IF StopsAt(b, r) > 0 /\ b[StopsAt(b, r)] < r THEN "complete"
                                ELSE IF StopsAt(b, r) = MaxLengthBytes THEN "error" ELSE "interrupted"
<1> DEFINE n == StopsAt(b, r)
           read == CHOOSE f : f = [i \in 0..n |-> LengthRead(f, i, b, r)]
<1>1. Decode(b, r) = [rc |-> IF n > 0 /\ b[n] < r THEN "complete"
                             ELSE IF n = MaxLengthBytes THEN "error" ELSE "interrupted",
                      used |-> n,
                      length |-> read[n].value]
  BY DEF Decode, StopsAt
<1> HIDE DEF n, read
<1> QED
  BY <1>1 DEF n

(* It ends with the first byte that says no more follow, and adds the digits up. *)
LEMMA DecodeCompletes ==
    ASSUME NEW b \in Seq(Nat), NEW r \in Nat \ {0}, NEW k \in 1 .. 4, k <= Len(b),
           \A i \in 1 .. k - 1 : b[i] >= r, b[k] < r
    PROVE  Decode(b, r) = [rc |-> "complete", used |-> k, length |-> Sum(b, k, r)]
<1> DEFINE n == StopsAt(b, r)
           IsRead(f) == f = [i \in 0..n |-> LengthRead(f, i, b, r)]
           read == CHOOSE f : IsRead(f)
<1>1. Decode(b, r) = [rc |-> IF n > 0 /\ b[n] < r THEN "complete"
                             ELSE IF n = MaxLengthBytes THEN "error" ELSE "interrupted",
                      used |-> n,
                      length |-> read[n].value]
  BY DEF Decode, StopsAt
<1>2. n = k
  <2> DEFINE S == {Len(b), MaxLengthBytes} \cup {i \in 1..Len(b) : b[i] < r}
  <2>1. Len(b) \in Nat /\ MaxLengthBytes = 4
    BY DEF MaxLengthBytes
  <2>2. k \in S
    BY <2>1
  <2>3. \A j \in S : j \in Int /\ k <= j
    <3>1. \A i \in 1 .. Len(b) : b[i] \in Nat
      OBVIOUS
    <3>2. ASSUME NEW i \in 1 .. Len(b), b[i] < r PROVE k <= i
      <4> SUFFICES ASSUME i < k PROVE FALSE
        BY <2>1
      <4>1. i \in 1 .. k - 1
        BY <2>1
      <4> QED
        BY <3>1, <3>2, <4>1
    <3> QED
      BY <2>1, <3>2
  <2> HIDE DEF S
  <2>4. Min(S) = k
    BY <2>2, <2>3, MinIs
  <2> QED
    BY <2>4 DEF StopsAt, S
<1> HIDE DEF n
<1> DEFINE R0 == [value |-> 0, multiplier |-> 1]
           R1 == [value |-> R0.value + (b[1] % r) * R0.multiplier, multiplier |-> R0.multiplier * r]
           R2 == [value |-> R1.value + (b[2] % r) * R1.multiplier, multiplier |-> R1.multiplier * r]
           R3 == [value |-> R2.value + (b[3] % r) * R2.multiplier, multiplier |-> R2.multiplier * r]
           R4 == [value |-> R3.value + (b[4] % r) * R3.multiplier, multiplier |-> R3.multiplier * r]
           f == [i \in 0 .. n |-> IF i = 0 THEN R0 ELSE IF i = 1 THEN R1 ELSE IF i = 2 THEN R2
                                  ELSE IF i = 3 THEN R3 ELSE R4]
<1>3. IsRead(f)
  <2> HIDE DEF R0, R1, R2, R3, R4
  <2>1. /\ f[0] = R0
        /\ n >= 1 => f[1] = R1
        /\ n >= 2 => f[2] = R2
        /\ n >= 3 => f[3] = R3
        /\ n >= 4 => f[4] = R4
    BY <1>2
  <2>2. f = [i \in 0 .. n |-> f[i]]
    OBVIOUS
  <2> HIDE DEF f
  <2>3. ASSUME NEW i \in 0 .. n PROVE f[i] = LengthRead(f, i, b, r)
    <3>1. CASE i = 0
      BY <2>1, <3>1 DEF LengthRead, R0
    <3>2. CASE i = 1
      <4>1. i - 1 = 0 /\ f[1] = R1 /\ i # 0
        BY <1>2, <2>1, <3>2
      <4> QED
        BY <2>1, <3>2, <4>1 DEF LengthRead, R1
    <3>3. CASE i = 2
      <4>1. i - 1 = 1 /\ f[1] = R1 /\ f[2] = R2 /\ i # 0
        BY <1>2, <2>1, <3>3
      <4> QED
        BY <3>3, <4>1 DEF LengthRead, R2
    <3>4. CASE i = 3
      <4>1. i - 1 = 2 /\ f[2] = R2 /\ f[3] = R3 /\ i # 0
        BY <1>2, <2>1, <3>4
      <4> QED
        BY <3>4, <4>1 DEF LengthRead, R3
    <3>5. CASE i = 4
      <4>1. i - 1 = 3 /\ f[3] = R3 /\ f[4] = R4 /\ i # 0
        BY <1>2, <2>1, <3>5
      <4> QED
        BY <3>5, <4>1 DEF LengthRead, R4
    <3> QED
      BY <1>2, <3>1, <3>2, <3>3, <3>4, <3>5
  <2> QED
    BY <2>2, <2>3
<1>4. IsRead(read)
  <2> HIDE DEF IsRead, f
  <2> QED
    BY <1>3
<1> HIDE DEF read, f
<1>5. \A i \in 0 .. n : read[i] = LengthRead(read, i, b, r)
  BY <1>4
<1>6. /\ read[0] = R0
      /\ n >= 1 => read[1] = R1
      /\ n >= 2 => read[2] = R2
      /\ n >= 3 => read[3] = R3
      /\ n >= 4 => read[4] = R4
  <2> HIDE DEF R0, R1, R2, R3, R4
  <2>0. read[0] = R0
    <3>1. 0 \in 0 .. n
      BY <1>2
    <3>2. read[0] = LengthRead(read, 0, b, r)
      BY <1>5, <3>1
    <3> QED
      BY <3>2 DEF LengthRead, R0
  <2>1. n >= 1 => read[1] = R1
    <3>1. n >= 1 => read[1] = LengthRead(read, 1, b, r)
      BY <1>2, <1>5
    <3>2. LengthRead(read, 1, b, r) = [value |-> read[0].value + (b[1] % r) * read[0].multiplier,
                                       multiplier |-> read[0].multiplier * r]
      <4>1. 1 - 1 = 0
        OBVIOUS
      <4> QED
        BY <4>1 DEF LengthRead
    <3> QED
      BY <2>0, <3>1, <3>2 DEF R1
  <2>2. n >= 2 => read[2] = R2
    <3>1. n >= 2 => read[2] = LengthRead(read, 2, b, r) /\ n >= 1
      BY <1>2, <1>5
    <3>2. LengthRead(read, 2, b, r) = [value |-> read[1].value + (b[2] % r) * read[1].multiplier,
                                       multiplier |-> read[1].multiplier * r]
      <4>1. 2 - 1 = 1
        OBVIOUS
      <4> QED
        BY <4>1 DEF LengthRead
    <3> QED
      BY <2>1, <3>1, <3>2 DEF R2
  <2>3. n >= 3 => read[3] = R3
    <3>1. n >= 3 => read[3] = LengthRead(read, 3, b, r) /\ n >= 2
      BY <1>2, <1>5
    <3>2. LengthRead(read, 3, b, r) = [value |-> read[2].value + (b[3] % r) * read[2].multiplier,
                                       multiplier |-> read[2].multiplier * r]
      <4>1. 3 - 1 = 2
        OBVIOUS
      <4> QED
        BY <4>1 DEF LengthRead
    <3> QED
      BY <2>2, <3>1, <3>2 DEF R3
  <2>4. n >= 4 => read[4] = R4
    <3>1. n >= 4 => read[4] = LengthRead(read, 4, b, r) /\ n >= 3
      BY <1>2, <1>5
    <3>2. LengthRead(read, 4, b, r) = [value |-> read[3].value + (b[4] % r) * read[3].multiplier,
                                       multiplier |-> read[3].multiplier * r]
      <4>1. 4 - 1 = 3
        OBVIOUS
      <4> QED
        BY <4>1 DEF LengthRead
    <3> QED
      BY <2>3, <3>1, <3>2 DEF R4
  <2> QED
    BY <2>0, <2>1, <2>2, <2>3, <2>4
<1>7. ASSUME NEW i \in 1 .. k PROVE b[i] \in Nat /\ b[i] % r \in Int
  <2>1. b[i] \in Nat
    OBVIOUS
  <2>2. b[i] % r \in 0 .. r - 1
    BY <2>1, DivMod
  <2> QED
    BY <2>1, <2>2
<1>8. /\ R0.value = 0 /\ R0.multiplier = 1
      /\ R1.value = R0.value + (b[1] % r) * R0.multiplier /\ R1.multiplier = R0.multiplier * r
      /\ R2.value = R1.value + (b[2] % r) * R1.multiplier /\ R2.multiplier = R1.multiplier * r
      /\ R3.value = R2.value + (b[3] % r) * R2.multiplier /\ R3.multiplier = R2.multiplier * r
      /\ R4.value = R3.value + (b[4] % r) * R3.multiplier
  <2>1. R0.value = 0 /\ R0.multiplier = 1
    OBVIOUS
  <2> HIDE DEF R0
  <2>2. R1.value = R0.value + (b[1] % r) * R0.multiplier /\ R1.multiplier = R0.multiplier * r
    OBVIOUS
  <2> HIDE DEF R1
  <2>3. R2.value = R1.value + (b[2] % r) * R1.multiplier /\ R2.multiplier = R1.multiplier * r
    OBVIOUS
  <2> HIDE DEF R2
  <2>4. R3.value = R2.value + (b[3] % r) * R2.multiplier /\ R3.multiplier = R2.multiplier * r
    OBVIOUS
  <2> HIDE DEF R3
  <2>5. R4.value = R3.value + (b[4] % r) * R3.multiplier
    OBVIOUS
  <2> QED
    BY <2>1, <2>2, <2>3, <2>4, <2>5
<1>9. read[n].value = Sum(b, k, r)
  <2> HIDE DEF R0, R1, R2, R3, R4
  <2>1. CASE k = 1
    <3>1. read[n] = R1 /\ b[1] % r \in Int
      BY <1>2, <1>6, <1>7, <2>1
    <3>2. R1.value = b[1] % r
      BY <1>8, <3>1
    <3> QED
      BY <2>1, <3>1, <3>2 DEF Sum
  <2>2. CASE k = 2
    <3>1. read[n] = R2 /\ b[1] % r \in Int /\ b[2] % r \in Int
      BY <1>2, <1>6, <1>7, <2>2
    <3>2. R1.value = b[1] % r /\ R1.multiplier = r
      BY <1>8, <3>1
    <3>3. R2.value = (b[1] % r) + (b[2] % r) * r
      BY <1>8, <3>1, <3>2
    <3> QED
      BY <2>2, <3>1, <3>3 DEF Sum
  <2>3. CASE k = 3
    <3>1. read[n] = R3 /\ b[1] % r \in Int /\ b[2] % r \in Int /\ b[3] % r \in Int
      BY <1>2, <1>6, <1>7, <2>3
    <3>2. R1.value = b[1] % r /\ R1.multiplier = r
      BY <1>8, <3>1
    <3>3. R2.value = (b[1] % r) + (b[2] % r) * r /\ R2.multiplier = r * r
      BY <1>8, <3>1, <3>2
    <3>4. R3.value = (b[1] % r) + (b[2] % r) * r + (b[3] % r) * (r * r)
      BY <1>8, <3>1, <3>3
    <3> QED
      BY <2>3, <3>1, <3>4 DEF Sum
  <2>4. CASE k = 4
    <3>1. read[n] = R4 /\ b[1] % r \in Int /\ b[2] % r \in Int /\ b[3] % r \in Int /\ b[4] % r \in Int
      BY <1>2, <1>6, <1>7, <2>4
    <3>2. R1.value = b[1] % r /\ R1.multiplier = r
      BY <1>8, <3>1
    <3>3. R2.value = (b[1] % r) + (b[2] % r) * r /\ R2.multiplier = r * r
      BY <1>8, <3>1, <3>2
    <3>4. R3.value = (b[1] % r) + (b[2] % r) * r + (b[3] % r) * (r * r) /\ R3.multiplier = r * r * r
      BY <1>8, <3>1, <3>3
    <3>5. R4.value = (b[1] % r) + (b[2] % r) * r + (b[3] % r) * (r * r) + (b[4] % r) * (r * r * r)
      BY <1>8, <3>1, <3>4
    <3> QED
      BY <2>4, <3>1, <3>5 DEF Sum
  <2> QED
    BY <2>1, <2>2, <2>3, <2>4
<1> QED
  BY <1>1, <1>2, <1>9

(* The bytes end before the length does. *)
LEMMA DecodeInterrupted ==
    ASSUME NEW b \in Seq(Nat), NEW r \in Nat \ {0}, Len(b) < 4,
           \A i \in 1 .. Len(b) : b[i] >= r
    PROVE  Decode(b, r).rc = "interrupted" /\ Decode(b, r).used = Len(b)
<1> DEFINE S == {Len(b), MaxLengthBytes} \cup {i \in 1..Len(b) : b[i] < r}
<1>1. Len(b) \in Nat /\ MaxLengthBytes = 4 /\ \A i \in 1 .. Len(b) : b[i] \in Nat
  BY DEF MaxLengthBytes
<1>2. \A i \in 1 .. Len(b) : ~(b[i] < r)
  BY <1>1
<1>3. Len(b) \in S /\ \A j \in S : j \in Int /\ Len(b) <= j
  BY <1>1, <1>2
<1>4. StopsAt(b, r) = Len(b)
  <2> HIDE DEF S
  <2>1. Min(S) = Len(b)
    BY <1>3, MinIs
  <2> QED
    BY <2>1 DEF StopsAt, S
<1>5. ~(Len(b) > 0 /\ b[Len(b)] < r) /\ Len(b) # MaxLengthBytes
  <2>1. Len(b) > 0 => Len(b) \in 1 .. Len(b)
    BY <1>1
  <2>2. Len(b) # MaxLengthBytes
    <3>1. \A n \in Nat : n < 4 => n # 4
      OBVIOUS
    <3> QED
      BY <1>1, <3>1, Zenon
  <2> QED
    BY <1>2, <2>1, <2>2
<1> QED
  BY <1>4, <1>5, DecodeStops

(* More digits follow the fourth. *)
LEMMA DecodeFails ==
    ASSUME NEW b \in Seq(Nat), NEW r \in Nat \ {0}, Len(b) >= 4,
           \A i \in 1 .. 4 : b[i] >= r
    PROVE  Decode(b, r).rc = "error"
<1> DEFINE S == {Len(b), MaxLengthBytes} \cup {i \in 1..Len(b) : b[i] < r}
<1>1. Len(b) \in Nat /\ MaxLengthBytes = 4 /\ \A i \in 1 .. Len(b) : b[i] \in Nat
  BY DEF MaxLengthBytes
<1>2. \A i \in 1 .. 4 : ~(b[i] < r)
  BY <1>1, SMTT(60)
<1>3. 4 \in S /\ \A j \in S : j \in Int /\ 4 <= j
  <2>1. ASSUME NEW i \in 1 .. Len(b), b[i] < r PROVE i \in Int /\ 4 <= i
    <3> SUFFICES ASSUME i < 4 PROVE FALSE
      BY <1>1
    <3>1. i \in 1 .. 4
      BY <1>1
    <3> QED
      BY <1>2, <2>1, <3>1
  <2> QED
    BY <1>1, <2>1
<1>4. StopsAt(b, r) = 4
  <2> HIDE DEF S
  <2>1. Min(S) = 4
    BY <1>3, MinIs
  <2> QED
    BY <2>1 DEF StopsAt, S
<1>5. ~(b[4] < r) /\ MaxLengthBytes = 4
  BY <1>1, <1>2
<1> QED
  BY <1>4, <1>5, DecodeStops

(* A number in front of a sequence. *)
LEMMA Prepended ==
    ASSUME NEW x \in Nat, NEW t \in Seq(Nat), NEW s, s = <<x>> \o t
    PROVE  /\ s \in Seq(Nat)
           /\ Len(s) = Len(t) + 1
           /\ s[1] = x
           /\ \A i \in 1 .. Len(t) : s[i + 1] = t[i]
<1>1. <<x>> \in Seq(Nat) /\ Len(<<x>>) = 1 /\ <<x>>[1] = x /\ Len(t) \in Nat
  OBVIOUS
<1>2. /\ s \in Seq(Nat)
      /\ Len(s) = 1 + Len(t)
      /\ \A i \in 1 .. 1 + Len(t) : s[i] = IF i <= 1 THEN <<x>>[i] ELSE t[i - 1]
  BY <1>1, ConcatProperties
<1>3. s[1] = x
  BY <1>1, <1>2
<1>4. ASSUME NEW i \in 1 .. Len(t) PROVE s[i + 1] = t[i]
  <2>1. i + 1 \in 1 .. 1 + Len(t) /\ ~(i + 1 <= 1) /\ (i + 1) - 1 = i
    BY <1>1
  <2> QED
    BY <1>2, <2>1
<1> QED
  BY <1>1, <1>2, <1>3, <1>4

(* The length after one, two, three and four bytes. *)
LEMMA Sums ==
    ASSUME NEW b, NEW r
    PROVE  /\ Sum(b, 1, r) = b[1] % r
           /\ Sum(b, 2, r) = (b[1] % r) + (b[2] % r) * r
           /\ Sum(b, 3, r) = (b[1] % r) + (b[2] % r) * r + (b[3] % r) * (r * r)
           /\ Sum(b, 4, r) = (b[1] % r) + (b[2] % r) * r + (b[3] % r) * (r * r) + (b[4] % r) * (r * r * r)
  BY DEF Sum

(* A length field: every byte but the last says that more follow. *)
Field(s, n, r) ==
    /\ s \in Seq(Nat)
    /\ Len(s) \in 1 .. 4
    /\ \A i \in 1 .. Len(s) - 1 : s[i] >= r
    /\ s[Len(s)] < r
    /\ Sum(s, Len(s), r) = n

(* A length below the radix has one byte. *)
LEMMA EncodeOne ==
    ASSUME NEW r \in Nat \ {0, 1}, NEW n \in Nat, n < r
    PROVE  Field(Encode(n, r), n, r) /\ Len(Encode(n, r)) = 1
<1>1. PICK s : s = Encode(n, r)
  OBVIOUS
<1>2. s = <<n>>
  BY <1>1, EncodeUnfolds
<1>3. s \in Seq(Nat) /\ Len(s) = 1 /\ s[1] = n
  BY <1>2
<1>4. Sum(s, 1, r) = n
  BY <1>3, LastDigit, Sums
<1>5. \A i \in 1 .. Len(s) - 1 : FALSE
  BY <1>3
<1>6. Field(s, n, r)
  BY <1>3, <1>4, <1>5 DEF Field
<1> QED
  BY <1>1, <1>3, <1>6

(* Any other length has a byte with its last digit, and then the bytes of the rest. *)
LEMMA EncodeMore ==
    ASSUME NEW r \in Nat \ {0, 1}, NEW n \in Nat, n >= r
    PROVE  LET s == Encode(n, r)
               t == Encode(n \div r, r)
           IN  /\ s \in Seq(Nat) /\ t \in Seq(Nat)
               /\ Len(s) = Len(t) + 1
               /\ s[1] >= r /\ s[1] % r = n % r
               /\ \A i \in 1 .. Len(t) : s[i + 1] = t[i]
<1> DEFINE s == Encode(n, r)
           t == Encode(n \div r, r)
<1>1. n \div r \in Nat /\ n % r \in 0 .. r - 1
  BY DivMod
<1>2. s = <<(n % r) + r>> \o t /\ s \in Seq(Nat) /\ t \in Seq(Nat)
  BY <1>1, EncodeUnfolds
<1>3. (n % r) + r \in Nat /\ (n % r) + r >= r /\ ((n % r) + r) % r = n % r
  <2>1. PICK d \in 0 .. r - 1 : d = n % r
    BY <1>1
  <2>2. d + r \in Nat /\ d + r >= r /\ (d + r) % r = d
    BY LastDigit
  <2> QED
    BY <2>1, <2>2
<1> HIDE DEF s, t
<1>4. /\ Len(s) = Len(t) + 1 /\ s[1] = (n % r) + r
      /\ \A i \in 1 .. Len(t) : s[i + 1] = t[i]
  BY <1>2, <1>3, Prepended
<1> QED
  BY <1>2, <1>3, <1>4 DEF s, t

(* The field of a length is that of the quotient with a digit before it. *)
LEMMA FieldMore ==
    ASSUME NEW r \in Nat \ {0, 1}, NEW n \in Nat, n >= r,
           Field(Encode(n \div r, r), n \div r, r), Len(Encode(n \div r, r)) < 4
    PROVE  Field(Encode(n, r), n, r) /\ Len(Encode(n, r)) = Len(Encode(n \div r, r)) + 1
<1>1. PICK s, t, q, m : s = Encode(n, r) /\ t = Encode(n \div r, r) /\ q = n \div r /\ m = n % r
  OBVIOUS
<1>2. q \in Nat /\ m \in 0 .. r - 1 /\ n = r * q + m
  BY <1>1, DivMod
<1>3. /\ s \in Seq(Nat) /\ t \in Seq(Nat) /\ Len(s) = Len(t) + 1
      /\ s[1] >= r /\ s[1] % r = m
      /\ \A i \in 1 .. Len(t) : s[i + 1] = t[i]
  BY <1>1, EncodeMore
<1>0. PICK k : k = Len(t)
  OBVIOUS
<1>4. /\ k \in 1 .. 3 /\ Len(s) = k + 1 /\ k \in 1 .. k
      /\ \A i \in 1 .. k - 1 : t[i] >= r
      /\ t[k] < r
      /\ Sum(t, k, r) = q
      /\ \A i \in 1 .. k : s[i + 1] = t[i]
      /\ \A i \in 1 .. k : t[i] \in Nat
  <2>1. Field(t, q, r) /\ k < 4
    BY <1>0, <1>1, Zenon
  <2>2. /\ k \in 1 .. 4
        /\ \A i \in 1 .. k - 1 : t[i] >= r
        /\ t[k] < r
        /\ Sum(t, k, r) = q
    BY <1>0, <2>1, Zenon DEF Field
  <2>3. k \in 1 .. 3 /\ k \in 1 .. k
    BY <2>1, <2>2
  <2>4. Len(s) = k + 1 /\ \A i \in 1 .. k : s[i + 1] = t[i]
    BY <1>0, <1>3, Zenon
  <2>5. \A i \in 1 .. Len(t) : t[i] \in Nat
    <3>1. t \in Seq(Nat)
      BY <1>3
    <3> QED
      BY <3>1, ElementOfSeq
  <2>6. \A i \in 1 .. k : t[i] \in Nat
    BY <1>0, <2>5, Zenon
  <2> QED
    BY <2>2, <2>3, <2>4, <2>6
<1>5. ASSUME NEW i \in 1 .. k PROVE s[i] >= r
  <2>1. CASE i = 1
    BY <1>3, <2>1
  <2>2. CASE i # 1
    <3>1. i - 1 \in 1 .. k - 1 /\ i - 1 \in 1 .. k /\ (i - 1) + 1 = i
      BY <1>4, <2>2
    <3> QED
      BY <1>4, <3>1
  <2> QED
    BY <2>1, <2>2
<1>6. s[k + 1] < r
  BY <1>4
<1>7. ASSUME NEW i \in 1 .. k PROVE t[i] % r \in Int
  <2>1. t[i] \in Nat
    BY <1>4
  <2>2. t[i] % r \in 0 .. r - 1
    BY <2>1, DivMod
  <2> QED
    BY <2>2
<1>8. Sum(s, k + 1, r) = n
  <2>1. CASE k = 1
    <3>1. s[2] = t[1] /\ k + 1 = 2 /\ t[1] % r \in Int
      <4>1. 1 \in 1 .. k /\ 1 + 1 = 2
        BY <2>1
      <4> QED
        BY <1>4, <1>7, <2>1, <4>1
    <3>2. PICK a : a = t[1] % r
      OBVIOUS
    <3>3. q = a
      BY <1>4, <2>1, <3>1, <3>2, Sums
    <3>4. Sum(s, k + 1, r) = m + a * r
      <4>1. Sum(s, 2, r) = (s[1] % r) + (s[2] % r) * r
        BY Sums
      <4>2. Sum(s, k + 1, r) = Sum(s, 2, r)
        BY <3>1, Zenon
      <4>3. s[1] % r = m
        BY <1>3
      <4> QED
        BY <3>1, <3>2, <4>1, <4>2, <4>3, Zenon
    <3> QED
      BY <1>2, <3>3, <3>4
  <2>2. CASE k = 2
    <3>1. s[2] = t[1] /\ s[3] = t[2] /\ k + 1 = 3 /\ t[1] % r \in Int /\ t[2] % r \in Int
      <4>1. 1 \in 1 .. k /\ 1 + 1 = 2 /\ 2 \in 1 .. k /\ 2 + 1 = 3
        BY <2>2
      <4> QED
        BY <1>4, <1>7, <2>2, <4>1
    <3>2. PICK a, b : a = t[1] % r /\ b = t[2] % r
      OBVIOUS
    <3>3. q = a + b * r /\ a \in Int /\ b \in Int
      BY <1>4, <2>2, <3>1, <3>2, Sums
    <3>4. Sum(s, k + 1, r) = m + a * r + b * (r * r)
      <4>1. Sum(s, 3, r) = (s[1] % r) + (s[2] % r) * r + (s[3] % r) * (r * r)
        BY Sums
      <4>2. Sum(s, k + 1, r) = Sum(s, 3, r)
        BY <3>1, Zenon
      <4>3. s[1] % r = m
        BY <1>3
      <4> QED
        BY <3>1, <3>2, <4>1, <4>2, <4>3, Zenon
    <3> QED
      BY <1>2, <3>3, <3>4
  <2>3. CASE k = 3
    <3>1. /\ s[2] = t[1] /\ s[3] = t[2] /\ s[4] = t[3] /\ k + 1 = 4
          /\ t[1] % r \in Int /\ t[2] % r \in Int /\ t[3] % r \in Int
      <4>1. 1 \in 1 .. k /\ 1 + 1 = 2 /\ 2 \in 1 .. k /\ 2 + 1 = 3 /\ 3 \in 1 .. k /\ 3 + 1 = 4
        BY <2>3
      <4> QED
        BY <1>4, <1>7, <2>3, <4>1
    <3>2. PICK a, b, c : a = t[1] % r /\ b = t[2] % r /\ c = t[3] % r
      OBVIOUS
    <3>3. q = a + b * r + c * (r * r) /\ a \in Int /\ b \in Int /\ c \in Int
      BY <1>4, <2>3, <3>1, <3>2, Sums
    <3>4. Sum(s, k + 1, r) = m + a * r + b * (r * r) + c * (r * r * r)
      <4>1. Sum(s, 4, r) = (s[1] % r) + (s[2] % r) * r + (s[3] % r) * (r * r) + (s[4] % r) * (r * r * r)
        BY Sums
      <4>2. Sum(s, k + 1, r) = Sum(s, 4, r)
        BY <3>1, Zenon
      <4>3. s[1] % r = m
        BY <1>3
      <4> QED
        BY <3>1, <3>2, <4>1, <4>2, <4>3, Zenon
    <3> QED
      BY <1>2, <3>3, <3>4
  <2> QED
    BY <1>4, <2>1, <2>2, <2>3
<1>9. Len(s) \in 1 .. 4 /\ Len(s) - 1 = k
  BY <1>4
<1>10. Field(s, n, r)
  <2>1. \A i \in 1 .. Len(s) - 1 : s[i] >= r
    BY <1>5, <1>9, Zenon
  <2>2. s[Len(s)] < r /\ Sum(s, Len(s), r) = n
    BY <1>4, <1>6, <1>8, Zenon
  <2> QED
    BY <1>3, <1>9, <2>1, <2>2, Zenon DEF Field
<1> QED
  BY <1>0, <1>1, <1>4, <1>10, Zenon

(* A division keeps the order to the multiples of the divisor. *)
LEMMA Quotient ==
    ASSUME NEW r \in Nat \ {0, 1}, NEW n \in Nat, NEW c \in Nat
    PROVE  /\ n \div r \in Nat
           /\ n < r * c => n \div r < c
           /\ n >= r * c => n \div r >= c
<1>1. PICK q, m : q = n \div r /\ m = n % r
  OBVIOUS
<1>2. q \in Nat /\ m \in 0 .. r - 1 /\ n = r * q + m
  BY <1>1, DivMod
<1>3. ASSUME n < r * c PROVE q < c
  <2> SUFFICES ASSUME q >= c PROVE FALSE
    BY <1>2
  <2>1. r * q >= r * c
    BY <1>2
  <2> QED
    BY <1>2, <1>3, <2>1
<1>4. ASSUME n >= r * c PROVE q >= c
  <2> SUFFICES ASSUME q + 1 <= c PROVE FALSE
    BY <1>2
  <2>1. r * (q + 1) <= r * c
    BY <1>2
  <2>2. r * (q + 1) = r * q + r
    BY <1>2
  <2> QED
    BY <1>2, <1>4, <2>1, <2>2
<1> QED
  BY <1>1, <1>2, <1>3, <1>4

(* The length field is as long as it has to be. *)
LEMMA EncodeTwo ==
    ASSUME NEW r \in Nat \ {0, 1}, NEW n \in Nat, n < r * r
    PROVE  /\ Field(Encode(n, r), n, r)
           /\ Len(Encode(n, r)) = IF n < r THEN 1 ELSE 2
<1>1. CASE n < r
  BY <1>1, EncodeOne
<1>2. CASE n >= r
  <2>1. n \div r \in Nat /\ n \div r < r
    BY Quotient
  <2>2. PICK q : q = n \div r
    OBVIOUS
  <2>3. Field(Encode(q, r), q, r) /\ Len(Encode(q, r)) = 1
    BY <2>1, <2>2, EncodeOne
  <2>4. Field(Encode(n, r), n, r) /\ Len(Encode(n, r)) = 1 + 1
    <3>1. /\ Field(Encode(n \div r, r), n \div r, r)
          /\ Len(Encode(n \div r, r)) = 1
      BY <2>2, <2>3, Zenon
    <3>2. Len(Encode(n \div r, r)) < 4
      <4>1. 1 < 4
        OBVIOUS
      <4> QED
        BY <3>1, <4>1, Zenon
    <3>3. Field(Encode(n, r), n, r) /\ Len(Encode(n, r)) = Len(Encode(n \div r, r)) + 1
      BY <1>2, <3>1, <3>2, FieldMore
    <3> QED
      BY <3>1, <3>3, Zenon
  <2> QED
    BY <1>2, <2>4
<1> QED
  BY <1>1, <1>2

(* The same for up to three bytes. *)
LEMMA EncodeThree ==
    ASSUME NEW r \in Nat \ {0, 1}, NEW n \in Nat, n < r * r * r
    PROVE  /\ Field(Encode(n, r), n, r)
           /\ Len(Encode(n, r)) = IF n < r THEN 1 ELSE IF n < r * r THEN 2 ELSE 3
<1>0. r * r \in Nat /\ r <= r * r
  OBVIOUS
<1>1. CASE n < r * r
  BY <1>1, EncodeTwo
<1>2. CASE n >= r * r
  <2>0. n >= r
    BY <1>0, <1>2
  <2>1. n \div r \in Nat /\ n \div r < r * r /\ n \div r >= r
    <3>1. r * r * r = r * (r * r)
      OBVIOUS
    <3> QED
      BY <1>0, <1>2, <3>1, Quotient
  <2>2. PICK q : q = n \div r
    OBVIOUS
  <2>3. Field(Encode(q, r), q, r) /\ Len(Encode(q, r)) = 2
    BY <2>1, <2>2, EncodeTwo
  <2>4. Field(Encode(n, r), n, r) /\ Len(Encode(n, r)) = 2 + 1
    <3>1. /\ Field(Encode(n \div r, r), n \div r, r)
          /\ Len(Encode(n \div r, r)) = 2
      BY <2>2, <2>3, Zenon
    <3>2. Len(Encode(n \div r, r)) < 4
      <4>1. 2 < 4
        OBVIOUS
      <4> QED
        BY <3>1, <4>1, Zenon
    <3>3. Field(Encode(n, r), n, r) /\ Len(Encode(n, r)) = Len(Encode(n \div r, r)) + 1
      BY <2>0, <3>1, <3>2, FieldMore
    <3> QED
      BY <3>1, <3>3, Zenon
  <2> QED
    BY <1>2, <2>0, <2>4
<1> QED
  BY <1>0, <1>1, <1>2

(* The same for every length that four bytes hold. *)
LEMMA EncodeFour ==
    ASSUME NEW r \in Nat \ {0, 1}, NEW n \in Nat, n < r * r * r * r
    PROVE  /\ Field(Encode(n, r), n, r)
           /\ Len(Encode(n, r)) = IF n < r THEN 1 ELSE IF n < r * r THEN 2 ELSE IF n < r * r * r THEN 3 ELSE 4
<1>0. r * r \in Nat /\ r * r * r \in Nat /\ r <= r * r /\ r * r <= r * r * r
  OBVIOUS
<1>1. CASE n < r * r * r
  BY <1>1, EncodeThree
<1>2. CASE n >= r * r * r
  <2>0. n >= r /\ n >= r * r
    BY <1>0, <1>2
  <2>1. n \div r \in Nat /\ n \div r < r * r * r /\ n \div r >= r * r
    <3>1. r * r * r * r = r * (r * r * r) /\ r * r * r = r * (r * r)
      OBVIOUS
    <3> QED
      BY <1>0, <1>2, <3>1, Quotient
  <2>2. PICK q : q = n \div r
    OBVIOUS
  <2>3. q \in Nat /\ q < r * r * r /\ q >= r * r /\ q >= r
    BY <1>0, <2>1, <2>2
  <2>4. Field(Encode(q, r), q, r) /\ Len(Encode(q, r)) = 3
    <3>1. /\ Field(Encode(q, r), q, r)
          /\ Len(Encode(q, r)) = IF q < r THEN 1 ELSE IF q < r * r THEN 2 ELSE 3
      BY <2>3, EncodeThree
    <3>2. ~(q < r) /\ ~(q < r * r)
      BY <1>0, <2>3
    <3> QED
      BY <3>1, <3>2
  <2>5. Field(Encode(n, r), n, r) /\ Len(Encode(n, r)) = 3 + 1
    <3>1. /\ Field(Encode(n \div r, r), n \div r, r)
          /\ Len(Encode(n \div r, r)) = 3
      BY <2>2, <2>4, Zenon
    <3>2. Len(Encode(n \div r, r)) < 4
      <4>1. 3 < 4
        OBVIOUS
      <4> QED
        BY <3>1, <4>1, Zenon
    <3>3. Field(Encode(n, r), n, r) /\ Len(Encode(n, r)) = Len(Encode(n \div r, r)) + 1
      BY <2>0, <3>1, <3>2, FieldMore
    <3> QED
      BY <3>1, <3>3, Zenon
  <2>6. ~(n < r) /\ ~(n < r * r) /\ ~(n < r * r * r)
    BY <1>0, <1>2, <2>0
  <2> QED
    BY <2>5, <2>6
<1> QED
  BY <1>0, <1>1, <1>2

(* A length that four digits cannot hold has four and more follow. *)
LEMMA EncodeTooLong ==
    ASSUME NEW r \in Nat \ {0, 1}, NEW n \in Nat, n >= r * r * r * r
    PROVE  LET s == Encode(n, r)
           IN  s \in Seq(Nat) /\ Len(s) >= 4 /\ \A i \in 1 .. 4 : s[i] >= r
<1>0. /\ r * r \in Nat /\ r * r * r \in Nat /\ r * r * r * r = r * (r * r * r) /\ r * r * r = r * (r * r)
      /\ r <= r * r /\ r * r <= r * r * r /\ r * r * r <= r * r * r * r
  OBVIOUS
<1>1. PICK q1 : q1 = n \div r
  OBVIOUS
<1>2. q1 \in Nat /\ q1 >= r * r * r
  BY <1>0, <1>1, Quotient
<1>3. PICK q2 : q2 = q1 \div r
  OBVIOUS
<1>4. q2 \in Nat /\ q2 >= r * r
  BY <1>0, <1>2, <1>3, Quotient
<1>5. PICK q3 : q3 = q2 \div r
  OBVIOUS
<1>6. q3 \in Nat /\ q3 >= r
  BY <1>4, <1>5, Quotient
<1>7. PICK s, s1, s2, s3, s4 : /\ s = Encode(n, r) /\ s1 = Encode(q1, r) /\ s2 = Encode(q2, r)
                               /\ s3 = Encode(q3, r) /\ s4 = Encode(q3 \div r, r)
  OBVIOUS
<1>8. n >= r /\ q1 >= r /\ q2 >= r
  BY <1>0, <1>2, <1>4
<1>9. /\ s \in Seq(Nat) /\ Len(s) = Len(s1) + 1 /\ s[1] >= r /\ \A i \in 1 .. Len(s1) : s[i + 1] = s1[i]
  BY <1>1, <1>7, <1>8, EncodeMore
<1>10. /\ s1 \in Seq(Nat) /\ Len(s1) = Len(s2) + 1 /\ s1[1] >= r /\ \A i \in 1 .. Len(s2) : s1[i + 1] = s2[i]
  BY <1>2, <1>3, <1>7, <1>8, EncodeMore
<1>11. /\ s2 \in Seq(Nat) /\ Len(s2) = Len(s3) + 1 /\ s2[1] >= r /\ \A i \in 1 .. Len(s3) : s2[i + 1] = s3[i]
  BY <1>4, <1>5, <1>7, <1>8, EncodeMore
<1>12. s3 \in Seq(Nat) /\ s4 \in Seq(Nat) /\ Len(s3) = Len(s4) + 1 /\ s3[1] >= r
  BY <1>6, <1>7, EncodeMore
<1>13. PICK k \in Nat : Len(s3) = k + 1
  <2>1. Len(s4) \in Nat
    BY <1>12
  <2> QED
    BY <1>12, <2>1
<1>14. Len(s2) = k + 2 /\ Len(s1) = k + 3 /\ Len(s) = k + 4
  <2>1. Len(s2) = (k + 1) + 1
    BY <1>11, <1>13, Zenon
  <2>2. Len(s1) = ((k + 1) + 1) + 1
    BY <1>10, <2>1, Zenon
  <2>3. Len(s) = (((k + 1) + 1) + 1) + 1
    BY <1>9, <2>2, Zenon
  <2> QED
    BY <2>1, <2>2, <2>3
<1>15. s[2] = s1[1] /\ s[3] = s1[2] /\ s[4] = s1[3]
  <2>1. 1 \in 1 .. Len(s1) /\ 2 \in 1 .. Len(s1) /\ 3 \in 1 .. Len(s1) /\ 1 + 1 = 2 /\ 2 + 1 = 3 /\ 3 + 1 = 4
    BY <1>14
  <2> QED
    BY <1>9, <2>1
<1>16. s1[2] = s2[1] /\ s1[3] = s2[2]
  <2>1. 1 \in 1 .. Len(s2) /\ 2 \in 1 .. Len(s2) /\ 1 + 1 = 2 /\ 2 + 1 = 3
    BY <1>14
  <2> QED
    BY <1>10, <2>1
<1>17. s2[2] = s3[1]
  <2>1. 1 \in 1 .. Len(s3) /\ 1 + 1 = 2
    BY <1>13
  <2> QED
    BY <1>11, <2>1
<1>18. s[1] >= r /\ s[2] >= r /\ s[3] >= r /\ s[4] >= r
  BY <1>9, <1>10, <1>11, <1>12, <1>15, <1>16, <1>17, Zenon
<1>19. Len(s) >= 4 /\ \A i \in 1 .. 4 : s[i] >= r
  BY <1>14, <1>18
<1> QED
  BY <1>7, <1>9, <1>19

LengthSpec == LengthInit /\ [][MQTTPacket_encode]_lengthVars

(* The length field is what MQTTPacket_encode made of the length. *)
LengthInv == packetLength \in Nat /\ (encoded # <<>> => encoded = Encode(packetLength, 128))

(* The length of every packet MQTT allows survives MQTTPacket_encode and       *)
(* MQTTPacket_decode in the fewest bytes, and a longer one is refused.         *)
THEOREM LengthSurvives == LengthSpec => []LengthRoundTrip
<1>1. LengthInit => LengthInv
  BY DEF LengthInit, LengthInv
<1>2. LengthInv /\ [MQTTPacket_encode]_lengthVars => LengthInv'
  BY PacketAssumption DEF LengthInv, MQTTPacket_encode, lengthVars
<1>3. LengthInv => LengthRoundTrip
  <2> SUFFICES ASSUME LengthInv, encoded # <<>>
               PROVE  IF packetLength < 128 * 128 * 128 * 128
                      THEN /\ Decode(encoded, 128) = [rc |-> "complete", used |-> Len(encoded), length |-> packetLength]
                           /\ packetLength >= <<0, 128, 128 * 128, 128 * 128 * 128>>[Len(encoded)]
                      ELSE Decode(encoded, 128).rc = "error"
    BY DEF LengthRoundTrip
  <2>1. PICK n, s, r : n = packetLength /\ s = encoded /\ r = 128
    OBVIOUS
  <2>2. n \in Nat /\ s = Encode(n, r) /\ r \in Nat \ {0, 1}
    BY <2>1 DEF LengthInv
  <2>3. ASSUME n < r * r * r * r
        PROVE  /\ Decode(s, r) = [rc |-> "complete", used |-> Len(s), length |-> n]
               /\ n >= <<0, r, r * r, r * r * r>>[Len(s)]
    <3>1. /\ Field(s, n, r)
          /\ Len(s) = IF n < r THEN 1 ELSE IF n < r * r THEN 2 ELSE IF n < r * r * r THEN 3 ELSE 4
      BY <2>2, <2>3, EncodeFour
    <3>2. PICK k : k = Len(s)
      OBVIOUS
    <3>3. s \in Seq(Nat) /\ k \in 1 .. 4 /\ (\A i \in 1 .. k - 1 : s[i] >= r) /\ s[k] < r /\ Sum(s, k, r) = n
      BY <3>1, <3>2, Zenon DEF Field
    <3>4. Decode(s, r) = [rc |-> "complete", used |-> k, length |-> Sum(s, k, r)]
      <4>1. k <= Len(s) /\ r \in Nat \ {0}
        BY <2>2, <3>2, <3>3
      <4> QED
        BY <3>3, <4>1, DecodeCompletes
    <3>5. n >= <<0, r, r * r, r * r * r>>[k]
      <4>1. /\ k = 1 => n >= 0
            /\ k = 2 => n >= r
            /\ k = 3 => n >= r * r
            /\ k = 4 => n >= r * r * r
        BY <2>2, <3>1, <3>2
      <4> QED
        BY <3>3, <4>1
    <3> QED
      BY <3>2, <3>3, <3>4, <3>5, Zenon
  <2>4. ASSUME n >= r * r * r * r PROVE Decode(s, r).rc = "error"
    <3>1. s \in Seq(Nat) /\ Len(s) >= 4 /\ \A i \in 1 .. 4 : s[i] >= r
      BY <2>2, <2>4, EncodeTooLong
    <3> QED
      BY <2>2, <3>1, DecodeFails
  <2>5. n < r * r * r * r \/ n >= r * r * r * r
    BY <2>2
  <2>6. IF n < r * r * r * r
        THEN /\ Decode(s, r) = [rc |-> "complete", used |-> Len(s), length |-> n]
             /\ n >= <<0, r, r * r, r * r * r>>[Len(s)]
        ELSE Decode(s, r).rc = "error"
    BY <2>3, <2>4, <2>5
  <2> QED
    BY <2>1, <2>6, Zenon
<1> QED
  BY <1>1, <1>2, <1>3, PTL DEF LengthSpec

-----------------------------------------------------------------------------
(* Packets *)

(* A stream of bytes is one piece and then another. *)
Joined(a, b, s) == a \in Seq(Nat) /\ b \in Seq(Nat) /\ s = a \o b

(* Two pieces can be joined. *)
LEMMA Join ==
    ASSUME NEW a \in Seq(Nat), NEW b \in Seq(Nat)
    PROVE  \E s \in Seq(Nat) : Joined(a, b, s)
<1>1. a \o b \in Seq(Nat)
  BY ConcatProperties
<1> QED
  BY <1>1 DEF Joined

(* The types and the lengths of the pieces. *)
LEMMA JoinedLengths ==
    ASSUME NEW a, NEW b, NEW s, Joined(a, b, s)
    PROVE  /\ a \in Seq(Nat) /\ b \in Seq(Nat) /\ s \in Seq(Nat)
           /\ Len(a) \in Nat /\ Len(b) \in Nat /\ Len(s) \in Nat /\ Len(s) = Len(a) + Len(b)
<1>1. a \in Seq(Nat) /\ b \in Seq(Nat) /\ s = a \o b
  BY DEF Joined
<1>2. s \in Seq(Nat) /\ Len(s) = Len(a) + Len(b)
  BY <1>1, ConcatProperties
<1> QED
  BY <1>1, <1>2, LenProperties

(* The empty piece. *)
LEMMA JoinedEmpty ==
    ASSUME NEW a, NEW b, NEW s, Joined(a, b, s)
    PROVE  /\ a = <<>> => s = b
           /\ b = <<>> => s = a
           /\ s = <<>> => a = <<>> /\ b = <<>>
<1>1. a \in Seq(Nat) /\ b \in Seq(Nat) /\ s = a \o b
  BY DEF Joined
<1>2. a \o <<>> = a /\ <<>> \o b = b
  BY <1>1, ConcatEmptySeq
<1>3. a \o b = <<>> => a = <<>> /\ b = <<>>
  BY <1>1, ConcatEqualIffEmpty
<1> QED
  BY <1>1, <1>2, <1>3, Zenon

(* Nothing can be joined to a piece on either side. *)
LEMMA JoinEmpty ==
    ASSUME NEW a \in Seq(Nat)
    PROVE  Joined(<<>>, a, a) /\ Joined(a, <<>>, a)
<1>1. a \o <<>> = a /\ <<>> \o a = a /\ <<>> \in Seq(Nat)
  BY ConcatEmptySeq, EmptySeq
<1> QED
  BY <1>1, Zenon DEF Joined

(* Three pieces of a stream, put together in either order. *)
LEMMA Concatenated ==
    ASSUME NEW a \in Seq(Nat), NEW b \in Seq(Nat), NEW c \in Seq(Nat),
           NEW s, s = a \o b, NEW t, t = b \o c
    PROVE  s \in Seq(Nat) /\ t \in Seq(Nat) /\ s \o c = a \o t /\ a \o t \in Seq(Nat)
<1>1. s \in Seq(Nat) /\ Len(s) = Len(a) + Len(b) /\ t \in Seq(Nat) /\ Len(t) = Len(b) + Len(c)
  BY ConcatProperties
<1>2. PICK i, j, k : i = Len(a) /\ j = Len(b) /\ k = Len(c)
  OBVIOUS
<1>3. i \in Nat /\ j \in Nat /\ k \in Nat /\ Len(s) = i + j /\ Len(t) = j + k
  BY <1>1, <1>2, LenProperties
<1>4. /\ s \o c \in Seq(Nat) /\ Len(s \o c) = i + j + k
      /\ \A n \in 1 .. i + j + k : (s \o c)[n] = IF n <= i + j THEN s[n] ELSE c[n - (i + j)]
  BY <1>1, <1>2, <1>3, ConcatProperties
<1>5. /\ a \o t \in Seq(Nat) /\ Len(a \o t) = i + (j + k)
      /\ \A n \in 1 .. i + (j + k) : (a \o t)[n] = IF n <= i THEN a[n] ELSE t[n - i]
  BY <1>1, <1>2, <1>3, ConcatProperties
<1>6. \A n \in 1 .. i + j : s[n] = IF n <= i THEN a[n] ELSE b[n - i]
  BY <1>2, ConcatProperties
<1>7. \A n \in 1 .. j + k : t[n] = IF n <= j THEN b[n] ELSE c[n - j]
  BY <1>2, ConcatProperties
<1>8. ASSUME NEW n \in 1 .. i + j + k PROVE (s \o c)[n] = (a \o t)[n]
  <2>0. n \in 1 .. i + (j + k) /\ n \in Int
    BY <1>3
  <2>1. CASE n <= i
    <3>1. n \in 1 .. i + j /\ n <= i + j
      BY <1>3, <2>1
    <3> QED
      BY <1>4, <1>5, <1>6, <2>0, <2>1, <3>1
  <2>2. CASE n > i /\ n <= i + j
    <3>1. n \in 1 .. i + j /\ ~(n <= i) /\ n - i \in 1 .. j + k /\ n - i <= j
      BY <1>3, <2>2
    <3> QED
      BY <1>4, <1>5, <1>6, <1>7, <2>0, <2>2, <3>1
  <2>3. CASE n > i + j
    <3>1. ~(n <= i) /\ ~(n <= i + j) /\ n - i \in 1 .. j + k /\ ~(n - i <= j) /\ (n - i) - j = n - (i + j)
      BY <1>3, <2>3
    <3> QED
      BY <1>4, <1>5, <1>7, <2>0, <3>1
  <2>4. n <= i \/ (n > i /\ n <= i + j) \/ n > i + j
    BY <1>3, <2>0
  <2> QED
    BY <2>1, <2>2, <2>3, <2>4, Zenon
<1>9. i + j + k = i + (j + k)
  BY <1>3
<1>10. PICK u, v : u = s \o c /\ v = a \o t
  OBVIOUS
<1>11. u = v
  <2>1. u \in Seq(Nat) /\ v \in Seq(Nat) /\ Len(u) = Len(v) /\ Len(u) = i + j + k
    BY <1>4, <1>5, <1>9, <1>10, Zenon
  <2>2. \A n \in 1 .. Len(u) : u[n] = v[n]
    BY <1>8, <1>10, <2>1, Zenon
  <2> QED
    BY <2>1, <2>2, SeqEqual
<1> QED
  BY <1>1, <1>5, <1>10, <1>11, Zenon

(* If the first two of three pieces were joined first, the last two could have been. *)
LEMMA JoinedLeft ==
    ASSUME NEW a, NEW b, NEW c, NEW s, NEW t, NEW u,
           Joined(a, b, s), Joined(b, c, t), Joined(s, c, u)
    PROVE  Joined(a, t, u)
<1>1. /\ a \in Seq(Nat) /\ b \in Seq(Nat) /\ c \in Seq(Nat)
      /\ s = a \o b /\ t = b \o c /\ u = s \o c
  BY DEF Joined
<1>2. s \in Seq(Nat) /\ t \in Seq(Nat) /\ s \o c = a \o t
  BY <1>1, Concatenated, SMTT(60)
<1> QED
  BY <1>1, <1>2, Zenon DEF Joined

(* The other way round. *)
LEMMA JoinedRight ==
    ASSUME NEW a, NEW b, NEW c, NEW s, NEW t, NEW u,
           Joined(a, b, s), Joined(b, c, t), Joined(a, t, u)
    PROVE  Joined(s, c, u)
<1>1. /\ a \in Seq(Nat) /\ b \in Seq(Nat) /\ c \in Seq(Nat)
      /\ s = a \o b /\ t = b \o c /\ u = a \o t
  BY DEF Joined
<1>2. s \in Seq(Nat) /\ t \in Seq(Nat) /\ s \o c = a \o t
  BY <1>1, Concatenated, SMTT(60)
<1> QED
  BY <1>1, <1>2, Zenon DEF Joined

(* Where two ways to cut a stream into two agree. *)
LEMMA CutEqual ==
    ASSUME NEW a \in Seq(Nat), NEW b \in Seq(Nat), NEW c \in Seq(Nat), NEW d \in Seq(Nat),
           a \o b = c \o d, Len(a) = Len(c)
    PROVE  a = c /\ b = d
<1>1. PICK m, x, y : m = Len(a) /\ x = Len(b) /\ y = Len(d)
  OBVIOUS
<1>2. m \in Nat /\ x \in Nat /\ y \in Nat /\ Len(c) = m
  BY <1>1, LenProperties
<1>3. PICK s : s = a \o b /\ s = c \o d
  OBVIOUS
<1>4. /\ Len(s) = m + x
      /\ \A i \in 1 .. m + x : s[i] = IF i <= m THEN a[i] ELSE b[i - m]
  <2>1. /\ Len(a \o b) = Len(a) + Len(b)
        /\ \A i \in 1 .. Len(a) + Len(b) : (a \o b)[i] = IF i <= Len(a) THEN a[i] ELSE b[i - Len(a)]
    BY ONLY a \in Seq(Nat), b \in Seq(Nat), ConcatProperties
  <2> QED
    BY <1>1, <1>3, <2>1
<1>5. /\ Len(s) = m + y
      /\ \A i \in 1 .. m + y : s[i] = IF i <= m THEN c[i] ELSE d[i - m]
  BY <1>1, <1>2, <1>3, ConcatProperties
<1>6. x = y
  BY <1>2, <1>4, <1>5
<1>7. \A i \in 1 .. m : a[i] = c[i]
  <2> SUFFICES ASSUME NEW i \in 1 .. m PROVE a[i] = c[i]
    OBVIOUS
  <2>1. i \in 1 .. m + x /\ i \in 1 .. m + y /\ i <= m
    BY <1>2
  <2> QED
    BY <1>4, <1>5, <2>1
<1>8. \A i \in 1 .. x : b[i] = d[i]
  <2> SUFFICES ASSUME NEW i \in 1 .. x PROVE b[i] = d[i]
    OBVIOUS
  <2>1. m + i \in 1 .. m + x /\ m + i \in 1 .. m + y /\ ~(m + i <= m) /\ (m + i) - m = i
    BY <1>2, <1>6
  <2> QED
    BY <1>4, <1>5, <2>1
<1>9. a = c
  BY <1>1, <1>2, <1>7, SeqEqual
<1>10. b = d
  BY <1>1, <1>6, <1>8, SeqEqual
<1> QED
  BY <1>9, <1>10

(* The same for pieces that are joined. *)
LEMMA SamePieces ==
    ASSUME NEW a, NEW b, NEW c, NEW d, NEW s,
           Joined(a, b, s), Joined(c, d, s), Len(a) = Len(c)
    PROVE  a = c /\ b = d
<1>1. /\ a \in Seq(Nat) /\ b \in Seq(Nat) /\ c \in Seq(Nat) /\ d \in Seq(Nat)
      /\ a \o b = c \o d
  BY Zenon DEF Joined
<1> QED
  BY <1>1, CutEqual

(* A stream can be cut anywhere. *)
LEMMA CutAt ==
    ASSUME NEW s \in Seq(Nat), NEW m \in 0 .. Len(s)
    PROVE  /\ SubSeq(s, 1, m) \in Seq(Nat) /\ Len(SubSeq(s, 1, m)) = m
           /\ SubSeq(s, m + 1, Len(s)) \in Seq(Nat) /\ Len(SubSeq(s, m + 1, Len(s))) = Len(s) - m
           /\ s = SubSeq(s, 1, m) \o SubSeq(s, m + 1, Len(s))
<1>1. PICK n : n = Len(s)
  OBVIOUS
<1>2. n \in Nat /\ m \in Nat /\ m <= n
  BY <1>1, LenProperties
<1>3. \A i \in 1 .. n : s[i] \in Nat
  BY <1>1, ElementOfSeq
<1>4. SubSeq(s, 1, m) \in Seq(Nat) /\ Len(SubSeq(s, 1, m)) = m
  <2>1. \A i \in 1 .. m : s[i] \in Nat
    BY <1>2, <1>3
  <2>2. /\ SubSeq(s, 1, m) \in Seq(Nat)
        /\ Len(SubSeq(s, 1, m)) = IF 1 <= m THEN m - 1 + 1 ELSE 0
    BY <1>2, <2>1, SubSeqProperties
  <2> QED
    BY <1>2, <2>2
<1>5. SubSeq(s, m + 1, n) \in Seq(Nat) /\ Len(SubSeq(s, m + 1, n)) = n - m
  <2>1. \A i \in m + 1 .. n : s[i] \in Nat
    BY <1>2, <1>3
  <2>2. /\ SubSeq(s, m + 1, n) \in Seq(Nat)
        /\ Len(SubSeq(s, m + 1, n)) = IF m + 1 <= n THEN n - (m + 1) + 1 ELSE 0
    <3>1. m + 1 \in Int /\ n \in Int
      BY <1>2
    <3> QED
      BY <2>1, <3>1, SubSeqProperties
  <2> QED
    BY <1>2, <2>2
<1>6. s = SubSeq(s, 1, m) \o SubSeq(s, m + 1, n)
  <2>1. SubSeq(s, 1, m) \o SubSeq(s, m + 1, n) = SubSeq(s, 1, n)
    <3>1. 1 \in 1 .. Len(s) + 1 /\ m \in 1 - 1 .. Len(s) /\ n \in m .. Len(s)
      BY <1>1, <1>2
    <3> QED
      BY <3>1, ConcatAdjacentSubSeq
  <2>2. SubSeq(s, 1, n) = s
    BY <1>1, SubSeqFull
  <2> QED
    BY <2>1, <2>2, Zenon
<1> QED
  BY <1>1, <1>4, <1>5, <1>6, Zenon

(* The shorter of two first pieces is the beginning of the longer one. *)
LEMMA CutAfter ==
    ASSUME NEW a, NEW b, NEW c, NEW d, NEW s,
           Joined(a, b, s), Joined(c, d, s), Len(a) <= Len(c)
    PROVE  \E e : Joined(a, e, c) /\ Joined(e, d, b)
<1>0. a \in Seq(Nat) /\ c \in Seq(Nat) /\ d \in Seq(Nat) /\ Len(a) \in Nat /\ Len(c) \in Nat
  BY JoinedLengths
<1>1. PICK m : m = Len(a)
  OBVIOUS
<1>2. m \in 0 .. Len(c)
  BY <1>0, <1>1
<1>3. PICK x, e : x = SubSeq(c, 1, m) /\ e = SubSeq(c, m + 1, Len(c))
  OBVIOUS
<1>4. Joined(x, e, c) /\ Len(x) = m
  <2>1. x \in Seq(Nat) /\ Len(x) = m /\ e \in Seq(Nat) /\ c = x \o e
    BY <1>0, <1>2, <1>3, CutAt, Zenon
  <2> QED
    BY <2>1, Zenon DEF Joined
<1>5. PICK t : Joined(e, d, t)
  BY <1>0, <1>4, JoinedLengths, Join, Zenon
<1>6. Joined(x, t, s)
  BY <1>4, <1>5, JoinedLeft
<1>7. a = x /\ b = t
  BY <1>1, <1>4, <1>6, SamePieces, Zenon
<1> QED
  BY <1>4, <1>5, <1>7, Zenon

(* SubSeq gives the pieces back. *)
LEMMA CutBack ==
    ASSUME NEW a, NEW b, NEW s, Joined(a, b, s)
    PROVE  SubSeq(s, 1, Len(a)) = a /\ SubSeq(s, Len(a) + 1, Len(s)) = b
<1>1. a \in Seq(Nat) /\ s \in Seq(Nat) /\ Len(a) \in Nat /\ Len(b) \in Nat /\ Len(s) = Len(a) + Len(b)
  BY JoinedLengths
<1>2. PICK m : m = Len(a)
  OBVIOUS
<1>3. m \in 0 .. Len(s)
  BY <1>1, <1>2
<1>4. PICK x, e : x = SubSeq(s, 1, m) /\ e = SubSeq(s, m + 1, Len(s))
  OBVIOUS
<1>5. Joined(x, e, s) /\ Len(x) = m
  <2>1. x \in Seq(Nat) /\ Len(x) = m /\ e \in Seq(Nat) /\ s = x \o e
    BY <1>1, <1>3, <1>4, CutAt, Zenon
  <2> QED
    BY <2>1, Zenon DEF Joined
<1>6. x = a /\ e = b
  BY <1>2, <1>5, SamePieces, Zenon
<1> QED
  BY <1>2, <1>4, <1>6, Zenon

(* Tail drops the first byte. *)
LEMMA TailBehind ==
    ASSUME NEW h \in Nat, NEW x \in Seq(Nat)
    PROVE  Tail(<<h>> \o x) = x
<1>1. PICK s : s = <<h>> \o x
  OBVIOUS
<1>2. s \in Seq(Nat) /\ Len(s) = Len(x) + 1 /\ \A i \in 1 .. Len(x) : s[i + 1] = x[i]
  BY <1>1, Prepended
<1>3. Len(x) \in Nat /\ s # <<>>
  BY <1>2, LenProperties, EmptySeq
<1>4. /\ Tail(s) \in Seq(Nat)
      /\ Len(Tail(s)) = Len(s) - 1
      /\ \A i \in 1 .. Len(Tail(s)) : Tail(s)[i] = s[i + 1]
  BY <1>2, <1>3, HeadTailProperties
<1>5. Len(Tail(s)) = Len(x)
  <2>1. \A n \in Nat : (n + 1) - 1 = n
    OBVIOUS
  <2> QED
    BY <1>2, <1>3, <1>4, <2>1, Zenon
<1>6. Tail(s) = x
  BY <1>2, <1>4, <1>5, SeqEqual
<1> QED
  BY <1>1, <1>6

(* The byte of the header is followed by the rest. *)
LEMMA HeaderFirst ==
    ASSUME NEW h \in Nat, NEW x, NEW s, Joined(<<h>>, x, s)
    PROVE  Tail(s) = x /\ s[1] = h
<1>1. x \in Seq(Nat) /\ s = <<h>> \o x
  BY DEF Joined
<1> QED
  BY <1>1, TailBehind, Prepended

(* The elements of two pieces. *)
LEMMA JoinedElements ==
    ASSUME NEW a, NEW b, NEW s, Joined(a, b, s)
    PROVE  \A i \in 1 .. Len(a) : s[i] = a[i]
<1>1. a \in Seq(Nat) /\ b \in Seq(Nat) /\ s = a \o b
  BY DEF Joined
<1>2. PICK m, n : m = Len(a) /\ n = Len(b)
  OBVIOUS
<1>3. m \in Nat /\ n \in Nat
  BY <1>1, <1>2, LenProperties
<1>4. \A i \in 1 .. m + n : s[i] = IF i <= m THEN a[i] ELSE b[i - m]
  BY <1>1, <1>2, ConcatProperties
<1>5. \A i \in 1 .. m : i \in 1 .. m + n /\ i <= m
  BY <1>3
<1> QED
  BY <1>2, <1>4, <1>5

(* MQTTPacket_decode finds the end of a length field in what is readable.      *)
LEMMA FieldDecodes ==
    ASSUME NEW r \in Nat \ {0, 1}, NEW n, NEW s, NEW x, NEW b, Field(s, n, r), Joined(s, x, b)
    PROVE  Decode(b, r) = [rc |-> "complete", used |-> Len(s), length |-> n]
<1>1. PICK k : k = Len(s)
  OBVIOUS
<1>2. /\ k \in 1 .. 4 /\ (\A i \in 1 .. k - 1 : s[i] >= r) /\ s[k] < r /\ Sum(s, k, r) = n
  BY <1>1, Zenon DEF Field
<1>3. b \in Seq(Nat) /\ k <= Len(b)
  <2>1. b \in Seq(Nat) /\ Len(s) \in Nat /\ Len(x) \in Nat /\ Len(b) = Len(s) + Len(x)
    BY JoinedLengths
  <2> QED
    BY <1>1, <2>1
<1>4. \A i \in 1 .. k : b[i] = s[i]
  BY <1>1, JoinedElements, Zenon
<1>5. (\A i \in 1 .. k - 1 : b[i] >= r) /\ b[k] < r
  <2>1. k \in 1 .. k /\ \A i \in 1 .. k - 1 : i \in 1 .. k
    BY <1>2
  <2> QED
    BY <1>2, <1>4, <2>1, Zenon
<1>6. Sum(b, k, r) = Sum(s, k, r)
  <2>1. CASE k = 1
    <3>1. b[1] = s[1]
      BY <1>4, <2>1
    <3> QED
      BY <2>1, <3>1, Sums
  <2>2. CASE k = 2
    <3>1. b[1] = s[1] /\ b[2] = s[2]
      BY <1>4, <2>2
    <3> QED
      BY <2>2, <3>1, Sums
  <2>3. CASE k = 3
    <3>1. b[1] = s[1] /\ b[2] = s[2] /\ b[3] = s[3]
      BY <1>4, <2>3
    <3> QED
      BY <2>3, <3>1, Sums
  <2>4. CASE k = 4
    <3>1. b[1] = s[1] /\ b[2] = s[2] /\ b[3] = s[3] /\ b[4] = s[4]
      BY <1>4, <2>4
    <3> QED
      BY <2>4, <3>1, Sums
  <2> QED
    BY <1>2, <2>1, <2>2, <2>3, <2>4
<1>7. Decode(b, r) = [rc |-> "complete", used |-> k, length |-> Sum(b, k, r)]
  <2>1. r \in Nat \ {0}
    OBVIOUS
  <2> QED
    BY <1>2, <1>3, <1>5, <2>1, DecodeCompletes
<1> QED
  BY <1>1, <1>2, <1>6, <1>7, Zenon

(* In a part of a length field it finds no end. *)
LEMMA FieldCut ==
    ASSUME NEW r \in Nat \ {0, 1}, NEW n, NEW s, NEW b, NEW x, Field(s, n, r), Joined(b, x, s), x # <<>>
    PROVE  Decode(b, r).rc = "interrupted" /\ Decode(b, r).used = Len(b)
<1>1. PICK k : k = Len(s)
  OBVIOUS
<1>2. k \in 1 .. 4 /\ \A i \in 1 .. k - 1 : s[i] >= r
  BY <1>1, Zenon DEF Field
<1>3. b \in Seq(Nat) /\ Len(b) \in Nat /\ Len(b) < k
  <2>1. b \in Seq(Nat) /\ x \in Seq(Nat) /\ Len(b) \in Nat /\ Len(x) \in Nat /\ Len(s) = Len(b) + Len(x)
    BY JoinedLengths
  <2>2. Len(x) # 0
    BY <2>1, EmptySeq
  <2> QED
    BY <1>1, <2>1, <2>2
<1>4. \A i \in 1 .. Len(b) : b[i] >= r
  <2>1. \A i \in 1 .. Len(b) : s[i] = b[i]
    BY JoinedElements
  <2>2. \A i \in 1 .. Len(b) : i \in 1 .. k - 1
    BY <1>2, <1>3
  <2> QED
    BY <1>2, <2>1, <2>2, Zenon
<1>5. Len(b) < 4 /\ r \in Nat \ {0}
  BY <1>2, <1>3
<1> QED
  BY <1>3, <1>4, <1>5, DecodeInterrupted

(* The length field of a packet, and its bytes as they are sent. *)
LengthField(p) == Encode(Len(p.data), Radix)

(* A packet is sent as its header, a length field for its data, and the data. *)
LEMMA PacketBytes ==
    ASSUME NEW p \in Packets
    PROVE  /\ p.header \in Nat /\ p.data \in Seq(Nat) /\ p = [header |-> p.header, data |-> p.data]
           /\ Field(LengthField(p), Len(p.data), Radix)
           /\ \E head \in Seq(Nat) : Joined(<<p.header>>, LengthField(p), head) /\ Joined(head, p.data, Bytes(p))
<1>1. p \in [header : Nat, data : Seq(Nat)] /\ Len(p.data) < Radix * Radix * Radix * Radix /\ Radix \in Nat \ {0, 1}
  BY PacketAssumption
<1>2. p.header \in Nat /\ p.data \in Seq(Nat) /\ p = [header |-> p.header, data |-> p.data]
  BY <1>1
<1>3. Field(LengthField(p), Len(p.data), Radix)
  <2>1. PICK n : n = Len(p.data)
    OBVIOUS
  <2>2. n \in Nat /\ n < Radix * Radix * Radix * Radix
    BY <1>1, <1>2, <2>1, LenProperties
  <2>3. Field(Encode(n, Radix), n, Radix)
    BY <1>1, <2>2, EncodeFour
  <2> QED
    BY <2>1, <2>3, Zenon DEF LengthField
<1>4. PICK h, e, d : h = p.header /\ e = LengthField(p) /\ d = p.data
  OBVIOUS
<1>5. h \in Nat /\ <<h>> \in Seq(Nat) /\ e \in Seq(Nat) /\ d \in Seq(Nat)
  <2>1. e \in Seq(Nat)
    BY <1>3, <1>4, Zenon DEF Field
  <2>2. h \in Nat /\ d \in Seq(Nat)
    BY <1>2, <1>4, Zenon
  <2>3. <<h>> \in Seq(Nat)
    BY <2>2
  <2> QED
    BY <2>1, <2>2, <2>3
<1>6. PICK head \in Seq(Nat) : head = <<h>> \o e
  <2>1. <<h>> \o e \in Seq(Nat)
    BY <1>5, ConcatProperties
  <2> QED
    BY <2>1
<1>7. Joined(<<h>>, e, head)
  BY <1>5, <1>6, Zenon DEF Joined
<1>8. Bytes(p) = head \o d
  BY <1>4, <1>6, Zenon DEF Bytes, LengthField
<1>9. Joined(head, d, Bytes(p))
  BY <1>5, <1>8, Zenon DEF Joined
<1> QED
  BY <1>2, <1>3, <1>4, <1>7, <1>9, Zenon

(* What the socket's queue holds of a packet that was not read to its end:     *)
(* part of the header, or the header and part of the data.                     *)
Held(f, q, p) ==
    \/ q = <<>> /\ Len(f) < 1 + Len(LengthField(p))
    \/ Len(f) = 1 + Len(LengthField(p)) /\ Len(q) < Len(p.data)

(* The smaller of two numbers. *)
LEMMA MinOfTwo ==
    ASSUME NEW a \in Nat, NEW b \in Nat
    PROVE  Min({a, b}) \in Nat /\ Min({a, b}) <= a /\ Min({a, b}) <= b /\ (Min({a, b}) = a \/ Min({a, b}) = b)
<1>1. CASE a <= b
  <2>1. Min({a, b}) = a
    BY <1>1, MinIs
  <2> QED
    BY <1>1, <2>1
<1>2. CASE b <= a
  <2>1. Min({a, b}) = b
    BY <1>2, MinIs
  <2> QED
    BY <1>2, <2>1
<1> QED
  BY <1>1, <1>2

(* What a read gives when head and then e are readable and z is left to read.  *)
DataRead(h, field, head, d, q, net, e, z, bytes) ==
    LET length == Decode(Tail(bytes), Radix)
        got == Socket_getdata(q, SubSeq(bytes, 2 + length.used, Len(bytes)), length.length)
    IN  /\ length = [rc |-> "complete", used |-> Len(field), length |-> Len(d)]
        /\ bytes[1] = h
        /\ SubSeq(bytes, 1, 1 + length.used) = head
        /\ SubSeq(bytes, 2 + length.used, Len(bytes)) = e
        /\ got \in Seq(Nat)
        /\ \E left, u : /\ left = SubSeq(e, 1 + Len(got) - Len(q), Len(e))
                        /\ Joined(left, net, u)
                        /\ Joined(got, u, z)
        /\ Len(got) = Len(d) => got = d
        /\ Len(got) # Len(d) => Len(got) < Len(d)

(* The header is readable: Socket_getdata adds what it can to the data.        *)
LEMMA ReadData ==
    ASSUME NEW h \in Nat, NEW field, NEW head, NEW d \in Seq(Nat), NEW rest, NEW q, NEW net,
           NEW e, NEW y, NEW z, NEW bytes,
           Radix \in Nat \ {0, 1},
           Joined(<<h>>, field, head), Field(field, Len(d), Radix),
           Joined(head, e, bytes), Joined(e, net, y), Joined(q, y, z), Joined(d, rest, z), Len(q) <= Len(d)
    PROVE  DataRead(h, field, head, d, q, net, e, z, bytes)
<1>1. PICK t : Joined(field, e, t) /\ Joined(<<h>>, t, bytes)
  <2>1. field \in Seq(Nat) /\ e \in Seq(Nat)
    BY JoinedLengths, Zenon
  <2>2. PICK t : Joined(field, e, t)
    BY <2>1, Join, Zenon
  <2>3. Joined(<<h>>, t, bytes)
    BY <2>2, JoinedLeft
  <2> QED
    BY <2>2, <2>3
<1>2. Tail(bytes) = t /\ bytes[1] = h
  BY <1>1, HeaderFirst
<1>3. Decode(Tail(bytes), Radix) = [rc |-> "complete", used |-> Len(field), length |-> Len(d)]
  <2>1. Decode(t, Radix) = [rc |-> "complete", used |-> Len(field), length |-> Len(d)]
    BY <1>1, FieldDecodes
  <2> QED
    BY <1>2, <2>1, Zenon
<1>4. PICK length : length = Decode(Tail(bytes), Radix)
  OBVIOUS
<1>5. length.rc = "complete" /\ length.used = Len(field) /\ length.length = Len(d)
  BY <1>3, <1>4
<1>6. Len(head) = 1 + length.used /\ Len(head) + 1 = 2 + length.used /\ Len(head) \in Nat
  <2>1. Len(<<h>>) = 1
    OBVIOUS
  <2>2. Len(field) \in Nat /\ Len(head) = Len(<<h>>) + Len(field)
    BY JoinedLengths, Zenon
  <2>3. PICK k \in Nat : k = Len(field)
    BY <2>2
  <2>4. Len(head) = 1 + k /\ length.used = k
    BY <1>5, <2>1, <2>2, <2>3, Zenon
  <2> QED
    BY <2>4
<1>7. SubSeq(bytes, 1, 1 + length.used) = head /\ SubSeq(bytes, 2 + length.used, Len(bytes)) = e
  <2>1. SubSeq(bytes, 1, Len(head)) = head /\ SubSeq(bytes, Len(head) + 1, Len(bytes)) = e
    BY CutBack
  <2> QED
    BY <1>6, <2>1, Zenon
<1>8. PICK got : got = Socket_getdata(q, SubSeq(bytes, 2 + length.used, Len(bytes)), length.length)
  OBVIOUS
<1>9. /\ q \in Seq(Nat) /\ e \in Seq(Nat) /\ net \in Seq(Nat)
      /\ Len(q) \in Nat /\ Len(e) \in Nat /\ Len(d) \in Nat
  BY JoinedLengths, Zenon
<1>10. PICK m : m = Min({Len(d) - Len(q), Len(e)})
  OBVIOUS
<1>11. m \in 0 .. Len(e) /\ Len(q) + m <= Len(d)
  <2>1. PICK a, b : a = Len(d) - Len(q) /\ b = Len(e)
    OBVIOUS
  <2>2. a \in Nat /\ b \in Nat
    BY <1>9, <2>1
  <2>3. m = Min({a, b})
    BY <1>10, <2>1, Zenon
  <2>4. m \in Nat /\ m <= a /\ m <= b
    BY <2>2, <2>3, MinOfTwo
  <2> QED
    BY <1>9, <2>1, <2>4
<1>12. PICK e1, e2 : e1 = SubSeq(e, 1, m) /\ e2 = SubSeq(e, m + 1, Len(e))
  OBVIOUS
<1>13. Joined(e1, e2, e) /\ Len(e1) = m
  <2>1. e1 \in Seq(Nat) /\ Len(e1) = m /\ e2 \in Seq(Nat) /\ e = e1 \o e2
    BY <1>9, <1>11, <1>12, CutAt, Zenon
  <2> QED
    BY <2>1, Zenon DEF Joined
<1>14. Joined(q, e1, got)
  <2>1. got = q \o e1
    <3>1. got = Socket_getdata(q, e, Len(d))
      BY <1>5, <1>7, <1>8, Zenon
    <3> QED
      BY <1>10, <1>12, <3>1, Zenon DEF Socket_getdata
  <2>2. e1 \in Seq(Nat)
    BY <1>13, JoinedLengths, Zenon
  <2> QED
    BY <1>9, <2>1, <2>2, Zenon DEF Joined
<1>15. got \in Seq(Nat) /\ Len(got) = Len(q) + m
  BY <1>13, <1>14, JoinedLengths, Zenon
<1>16. e2 = SubSeq(e, 1 + Len(got) - Len(q), Len(e))
  <2>2. m \in Nat
    BY <1>9, <1>11
  <2>3. 1 + Len(got) - Len(q) = m + 1
    <3>1. PICK j \in Nat : j = Len(q)
      BY <1>9
    <3>2. PICK g : g = Len(got)
      OBVIOUS
    <3>3. g = j + m
      BY <1>15, <3>1, <3>2, Zenon
    <3>4. 1 + g - j = m + 1
      BY <2>2, <3>3
    <3> QED
      BY <3>1, <3>2, <3>4, Zenon
  <2> QED
    BY <1>12, <2>3, Zenon
<1>17. PICK u : Joined(e2, net, u) /\ Joined(got, u, z)
  <2>1. e2 \in Seq(Nat)
    BY <1>13, JoinedLengths, Zenon
  <2>2. PICK u : Joined(e2, net, u)
    BY <1>9, <2>1, Join, Zenon
  <2>3. Joined(e1, u, y)
    BY <1>13, <2>2, JoinedLeft
  <2>4. Joined(got, u, z)
    BY <1>14, <2>3, JoinedRight
  <2> QED
    BY <2>2, <2>4
<1>18. Len(got) = Len(d) => got = d
  BY <1>17, SamePieces, Zenon
<1>19. Len(got) # Len(d) => Len(got) < Len(d)
  <2>1. PICK g, k : g = Len(got) /\ k = Len(d)
    OBVIOUS
  <2>2. g \in Nat /\ k \in Nat /\ g <= k
    BY <1>9, <1>11, <1>15, <2>1
  <2>3. g # k => g < k
    BY <2>2
  <2> QED
    BY <2>1, <2>3, Zenon
<1> HIDE DEF Socket_getdata
<1>20. /\ length = [rc |-> "complete", used |-> Len(field), length |-> Len(d)]
       /\ bytes[1] = h
       /\ SubSeq(bytes, 1, 1 + length.used) = head
       /\ SubSeq(bytes, 2 + length.used, Len(bytes)) = e
       /\ got \in Seq(Nat)
       /\ \E left, v : /\ left = SubSeq(e, 1 + Len(got) - Len(q), Len(e))
                       /\ Joined(left, net, v)
                       /\ Joined(got, v, z)
       /\ Len(got) = Len(d) => got = d
       /\ Len(got) # Len(d) => Len(got) < Len(d)
  BY <1>2, <1>3, <1>4, <1>7, <1>15, <1>16, <1>17, <1>18, <1>19, Zenon
<1> QED
  BY <1>4, <1>8, <1>20, Zenon DEF DataRead

(* A call of MQTTPacket_Factory while the next packet is p: it is interrupted  *)
(* in the header and keeps what it read, or it has the header and adds to the  *)
(* data, and returns the packet when that is all of it.                        *)
Reads(p, q, net, w, rest, bytes) ==
    LET length == Decode(Tail(bytes), Radix)
        behind == SubSeq(bytes, 2 + length.used, Len(bytes))
        got == Socket_getdata(q, behind, length.length)
        left == SubSeq(behind, 1 + Len(got) - Len(q), Len(behind))
        head == SubSeq(bytes, 1, 1 + length.used)
    IN  \/ /\ length.rc = "interrupted" /\ q = <<>>
           /\ head = bytes /\ Joined(bytes, net, w)
           /\ Held(bytes, <<>>, p)
        \/ /\ length.rc = "complete" /\ Len(got) = length.length
           /\ [header |-> bytes[1], data |-> got] = p
           /\ Joined(left, net, rest)
        \/ /\ length.rc = "complete" /\ Len(got) # length.length
           /\ Held(head, got, p)
           /\ \E u2, v2 : Joined(left, net, u2) /\ Joined(got, u2, v2) /\ Joined(head, v2, w)

(* That is what MQTTPacket_Factory does, wherever the bytes end that are readable. *)
LEMMA ReadMore ==
    ASSUME NEW p \in Packets, NEW f, NEW q, NEW ker, NEW net, NEW u, NEW v, NEW w, NEW rest, NEW bytes,
           Joined(ker, net, u), Joined(q, u, v), Joined(f, v, w), Joined(Bytes(p), rest, w),
           Joined(f, ker, bytes), ker # <<>>, Held(f, q, p)
    PROVE  Reads(p, q, net, w, rest, bytes)
<1>1. PICK h, d, field : h = p.header /\ d = p.data /\ field = LengthField(p)
  OBVIOUS
<1>2. h \in Nat /\ d \in Seq(Nat) /\ p = [header |-> h, data |-> d] /\ Field(field, Len(d), Radix)
  BY <1>1, PacketBytes, Zenon
<1>3. PICK head \in Seq(Nat) : Joined(<<h>>, field, head) /\ Joined(head, d, Bytes(p))
  BY <1>1, PacketBytes, Zenon
<1>4. PICK z : Joined(d, rest, z) /\ Joined(head, z, w)
  <2>1. rest \in Seq(Nat)
    BY JoinedLengths, Zenon
  <2>2. PICK z : Joined(d, rest, z)
    BY <1>2, <2>1, Join, Zenon
  <2>3. Joined(head, z, w)
    BY <1>3, <2>2, JoinedLeft
  <2> QED
    BY <2>2, <2>3
<1>5. Len(head) = 1 + Len(field) /\ Len(head) \in Nat /\ Len(field) \in Nat
  <2>1. Len(<<h>>) = 1
    OBVIOUS
  <2>2. Len(field) \in Nat /\ Len(head) = Len(<<h>>) + Len(field) /\ Len(head) \in Nat
    BY <1>3, JoinedLengths, Zenon
  <2> QED
    BY <2>1, <2>2, Zenon
<1>6. Radix \in Nat \ {0, 1}
  BY PacketAssumption
<1>7. /\ Len(bytes) = Len(f) + Len(ker) /\ Len(f) \in Nat /\ Len(ker) \in Nat /\ Len(bytes) \in Nat
      /\ Len(bytes) >= 1 /\ f \in Seq(Nat) /\ bytes \in Seq(Nat)
  <2>1. /\ Len(bytes) = Len(f) + Len(ker) /\ Len(f) \in Nat /\ Len(ker) \in Nat /\ Len(bytes) \in Nat
        /\ ker \in Seq(Nat) /\ f \in Seq(Nat) /\ bytes \in Seq(Nat)
    BY JoinedLengths, Zenon
  <2>2. Len(ker) # 0
    BY <2>1, EmptySeq
  <2> QED
    BY <2>1, <2>2
<1>8. PICK length : length = Decode(Tail(bytes), Radix)
  OBVIOUS
<1>9. PICK behind : behind = SubSeq(bytes, 2 + length.used, Len(bytes))
  OBVIOUS
<1>10. PICK got : got = Socket_getdata(q, behind, length.length)
  OBVIOUS
<1>11. PICK left : left = SubSeq(behind, 1 + Len(got) - Len(q), Len(behind))
  OBVIOUS
<1> DEFINE Interrupted == /\ length.rc = "interrupted" /\ q = <<>>
                          /\ SubSeq(bytes, 1, 1 + length.used) = bytes /\ Joined(bytes, net, w)
                          /\ Held(bytes, <<>>, p)
           Complete == /\ length.rc = "complete" /\ Len(got) = length.length
                       /\ [header |-> bytes[1], data |-> got] = p
                       /\ Joined(left, net, rest)
           Partial == /\ length.rc = "complete" /\ Len(got) # length.length
                      /\ Held(SubSeq(bytes, 1, 1 + length.used), got, p)
                      /\ \E u2, v2 : /\ Joined(left, net, u2) /\ Joined(got, u2, v2)
                                     /\ Joined(SubSeq(bytes, 1, 1 + length.used), v2, w)
<1> SUFFICES Interrupted \/ Complete \/ Partial
  BY <1>8, <1>9, <1>10, <1>11, Zenon DEF Reads
<1> HIDE DEF Interrupted, Complete, Partial
<1>12. ASSUME NEW e, NEW y, Joined(head, e, bytes), Joined(e, net, y), Joined(q, y, z), Len(q) <= Len(d)
       PROVE  Complete \/ Partial
  <2>1. /\ length = [rc |-> "complete", used |-> Len(field), length |-> Len(d)]
        /\ bytes[1] = h
        /\ SubSeq(bytes, 1, 1 + length.used) = head
        /\ behind = e
        /\ got \in Seq(Nat)
        /\ \E a, b : /\ a = SubSeq(e, 1 + Len(got) - Len(q), Len(e))
                     /\ Joined(a, net, b)
                     /\ Joined(got, b, z)
        /\ Len(got) = Len(d) => got = d
        /\ Len(got) # Len(d) => Len(got) < Len(d)
    <3>1. DataRead(h, field, head, d, q, net, e, z, bytes)
      BY <1>2, <1>3, <1>4, <1>6, <1>12, ReadData, Zenon
    <3> QED
      BY <1>8, <1>9, <1>10, <3>1, Zenon DEF DataRead
  <2>2. length.rc = "complete" /\ length.length = Len(d)
    BY <2>1
  <2>3. PICK b : Joined(left, net, b) /\ Joined(got, b, z)
    BY <1>11, <2>1, Zenon
  <2>4. CASE Len(got) = Len(d)
    <3>1. got = d
      BY <2>1, <2>4, Zenon
    <3>2. b = rest
      BY <1>4, <2>3, <2>4, SamePieces, Zenon
    <3>3. [header |-> bytes[1], data |-> got] = p
      BY <1>2, <2>1, <3>1, Zenon
    <3>4. Joined(left, net, rest)
      BY <2>3, <3>2, Zenon
    <3> QED
      BY <2>2, <2>4, <3>3, <3>4, Zenon DEF Complete
  <2>5. CASE Len(got) # Len(d)
    <3>1. Len(got) < Len(d)
      BY <2>1, <2>5, Zenon
    <3>2. Len(head) = 1 + Len(LengthField(p)) /\ Len(got) < Len(p.data)
      BY <1>1, <1>5, <3>1, Zenon
    <3>3. Held(head, got, p)
      BY <3>2, Zenon DEF Held
    <3>4. Held(SubSeq(bytes, 1, 1 + length.used), got, p) /\ Joined(SubSeq(bytes, 1, 1 + length.used), z, w)
      BY <1>4, <2>1, <3>3, Zenon
    <3> QED
      BY <2>2, <2>3, <2>5, <3>4, Zenon DEF Partial
  <2> QED
    BY <2>4, <2>5
<1>13. CASE Len(f) = 1 + Len(LengthField(p)) /\ Len(q) < Len(p.data)
  <2>1. Len(f) = Len(head) /\ Len(q) < Len(d)
    BY <1>1, <1>5, <1>13, Zenon
  <2>2. f = head /\ v = z
    BY <1>4, <2>1, SamePieces, Zenon
  <2>3. Joined(head, ker, bytes) /\ Joined(q, u, z)
    BY <2>2, Zenon
  <2>4. Len(q) <= Len(d)
    <3>1. Len(q) \in Nat /\ Len(d) \in Nat
      BY <1>2, JoinedLengths, LenProperties
    <3> QED
      BY <2>1, <3>1
  <2> QED
    BY <1>12, <2>3, <2>4, Zenon
<1>14. CASE q = <<>> /\ Len(f) < 1 + Len(LengthField(p))
  <2>1. v = u
    BY <1>14, JoinedEmpty, Zenon
  <2>2. Joined(bytes, net, w)
    BY <2>1, JoinedRight
  <2>3. CASE Len(head) <= Len(bytes)
    <3>1. PICK e : Joined(head, e, bytes) /\ Joined(e, net, z)
      BY <1>4, <2>2, <2>3, CutAfter, Zenon
    <3>2. z \in Seq(Nat)
      BY <1>4, JoinedLengths, Zenon
    <3>3. Joined(q, z, z)
      BY <1>14, <3>2, JoinEmpty, Zenon
    <3>4. Len(q) <= Len(d)
      <4>1. Len(q) = 0
        BY <1>14
      <4>2. Len(d) \in Nat
        BY <1>2, LenProperties
      <4> QED
        BY <4>1, <4>2
    <3> QED
      BY <1>12, <3>1, <3>3, <3>4, Zenon
  <2>4. CASE Len(bytes) < Len(head)
    <3>1. Len(bytes) <= Len(head)
      BY <1>5, <1>7, <2>4
    <3>2. PICK e : Joined(bytes, e, head)
      BY <1>4, <2>2, <3>1, CutAfter, Zenon
    <3>3. e # <<>>
      <4> SUFFICES ASSUME e = <<>> PROVE FALSE
        OBVIOUS
      <4>1. head = bytes
        BY <3>2, JoinedEmpty, Zenon
      <4> QED
        BY <1>5, <2>4, <4>1
    <3>4. Len(<<h>>) <= Len(bytes)
      <4>1. Len(<<h>>) = 1
        OBVIOUS
      <4> QED
        BY <1>7, <4>1
    <3>5. PICK b : Joined(<<h>>, b, bytes) /\ Joined(b, e, field)
      BY <1>3, <3>2, <3>4, CutAfter, Zenon
    <3>6. Tail(bytes) = b
      BY <1>2, <3>5, HeaderFirst
    <3>7. length.rc = "interrupted" /\ length.used = Len(b)
      <4>1. Decode(b, Radix).rc = "interrupted" /\ Decode(b, Radix).used = Len(b)
        BY <1>2, <1>6, <3>3, <3>5, FieldCut
      <4> QED
        BY <1>8, <3>6, <4>1, Zenon
    <3>8. 1 + length.used = Len(bytes)
      <4>1. Len(<<h>>) = 1
        OBVIOUS
      <4>2. Len(bytes) = Len(<<h>>) + Len(b)
        BY <3>5, JoinedLengths, Zenon
      <4> QED
        BY <3>7, <4>1, <4>2, Zenon
    <3>9. SubSeq(bytes, 1, 1 + length.used) = bytes
      <4>1. SubSeq(bytes, 1, Len(bytes)) = bytes
        BY <1>7, SubSeqFull
      <4> QED
        BY <3>8, <4>1, Zenon
    <3>10. Held(bytes, <<>>, p)
      <4>1. Len(bytes) < 1 + Len(LengthField(p))
        BY <1>1, <1>5, <2>4, Zenon
      <4> QED
        BY <4>1, Zenon DEF Held
    <3>11. Interrupted
      BY <1>14, <2>2, <3>7, <3>9, <3>10, Zenon DEF Interrupted
    <3> QED
      BY <3>11
  <2> QED
    BY <1>5, <1>7, <2>3, <2>4
<1> QED
  BY <1>13, <1>14, Zenon DEF Held

(* w is the bytes of the packets of ps from the k-th on. *)
Spells(w, ps, k) ==
    \E piece \in [Nat -> Seq(Nat)] :
        /\ piece[k] = w
        /\ piece[Len(ps) + 1] = <<>>
        /\ \A j \in k .. Len(ps) : Joined(Bytes(ps[j]), piece[j + 1], piece[j])

(* The first packet can be taken off. *)
LEMMA SpellsNext ==
    ASSUME NEW ps \in Seq(Packets), NEW k \in 1 .. Len(ps), NEW w, Spells(w, ps, k)
    PROVE  \E rest : Joined(Bytes(ps[k]), rest, w) /\ Spells(rest, ps, k + 1)
<1>1. PICK n \in Nat : n = Len(ps)
  BY LenProperties
<1>2. PICK piece \in [Nat -> Seq(Nat)] :
        /\ piece[k] = w
        /\ piece[n + 1] = <<>>
        /\ \A j \in k .. n : Joined(Bytes(ps[j]), piece[j + 1], piece[j])
  BY <1>1, Zenon DEF Spells
<1>3. k \in k .. n /\ \A j \in k + 1 .. n : j \in k .. n
  BY <1>1
<1>4. Joined(Bytes(ps[k]), piece[k + 1], w)
  BY <1>2, <1>3, Zenon
<1>5. Spells(piece[k + 1], ps, k + 1)
  BY <1>1, <1>2, <1>3, Zenon DEF Spells
<1> QED
  BY <1>4, <1>5, Zenon

(* Behind the last packet there is nothing. *)
LEMMA SpellsAll ==
    ASSUME NEW ps, NEW w
    PROVE  Spells(w, ps, Len(ps) + 1) => w = <<>>
  BY Zenon DEF Spells

(* No packets have no bytes. *)
LEMMA SpellsNone == Spells(<<>>, <<>>, 1)
<1>1. PICK piece : piece = [j \in Nat |-> <<>>]
  OBVIOUS
<1>2. <<>> \in Seq(Nat) /\ Len(<<>>) = 0 /\ 0 + 1 = 1 /\ 1 \in Nat /\ 1 .. 0 = {}
  OBVIOUS
<1>3. piece \in [Nat -> Seq(Nat)] /\ piece[1] = <<>>
  BY <1>1, <1>2
<1> QED
  BY <1>2, <1>3 DEF Spells

(* A packet behind the others. *)
LEMMA AppendedPacket ==
    ASSUME NEW ps \in Seq(Packets), NEW p \in Packets
    PROVE  /\ Append(ps, p) \in Seq(Packets) /\ Len(Append(ps, p)) = Len(ps) + 1
           /\ \A j \in 1 .. Len(ps) : Append(ps, p)[j] = ps[j]
           /\ Append(ps, p)[Len(ps) + 1] = p
  BY AppendProperties

(* The bytes of a packet behind the bytes of the others. *)
LEMMA SpellsMore ==
    ASSUME NEW ps \in Seq(Packets), NEW k \in 1 .. Len(ps) + 1, NEW w, Spells(w, ps, k), NEW p \in Packets,
           NEW w2, Joined(w, Bytes(p), w2)
    PROVE  Spells(w2, Append(ps, p), k)
<1>1. PICK n \in Nat : n = Len(ps)
  BY LenProperties
<1>2. PICK piece \in [Nat -> Seq(Nat)] :
        /\ piece[k] = w
        /\ piece[n + 1] = <<>>
        /\ \A j \in k .. n : Joined(Bytes(ps[j]), piece[j + 1], piece[j])
  BY <1>1, Zenon DEF Spells
<1>3. PICK more, b : more = Append(ps, p) /\ b = Bytes(p)
  OBVIOUS
<1>4. Len(more) = n + 1 /\ (\A j \in 1 .. n : more[j] = ps[j]) /\ more[n + 1] = p
  BY <1>1, <1>3, AppendedPacket, Zenon
<1>5. b \in Seq(Nat) /\ Joined(w, b, w2)
  BY <1>3, JoinedLengths, Zenon
<1>6. PICK long : long = [j \in Nat |-> IF j <= n + 1 THEN piece[j] \o b ELSE <<>>]
  OBVIOUS
<1>7. /\ long \in [Nat -> Seq(Nat)]
      /\ \A j \in Nat : j <= n + 1 => Joined(piece[j], b, long[j])
      /\ long[(n + 1) + 1] = <<>>
  <2>1. \A j \in Nat : piece[j] \o b \in Seq(Nat) /\ piece[j] \in Seq(Nat)
    BY <1>5, ConcatProperties
  <2>2. <<>> \in Seq(Nat)
    OBVIOUS
  <2>3. \A j \in Nat : long[j] = IF j <= n + 1 THEN piece[j] \o b ELSE <<>>
    BY <1>6
  <2>4. long \in [Nat -> Seq(Nat)]
    BY <1>6, <2>1, <2>2
  <2>5. \A j \in Nat : j <= n + 1 => long[j] = piece[j] \o b
    BY <2>3
  <2>6. \A j \in Nat : j <= n + 1 => Joined(piece[j], b, long[j])
    BY <1>5, <2>1, <2>5, Zenon DEF Joined
  <2>7. (n + 1) + 1 \in Nat /\ ~((n + 1) + 1 <= n + 1)
    OBVIOUS
  <2>8. long[(n + 1) + 1] = <<>>
    BY <2>3, <2>7
  <2> QED
    BY <2>4, <2>6, <2>8
<1>8. long[k] = w2
  <2>1. k \in Nat /\ k <= n + 1
    BY <1>1
  <2>2. Joined(w, b, long[k])
    BY <1>2, <1>7, <2>1, Zenon
  <2> QED
    BY <1>5, <2>2, Zenon DEF Joined
<1>9. ASSUME NEW j \in k .. n + 1 PROVE Joined(Bytes(more[j]), long[j + 1], long[j])
  <2>1. j \in Nat /\ j <= n + 1
    BY <1>1
  <2>2. Joined(piece[j], b, long[j])
    BY <1>7, <2>1
  <2>3. CASE j = n + 1
    <3>1. long[j] = b
      BY <1>2, <2>2, <2>3, JoinedEmpty, ZenonT(60)
    <3>2. more[j] = p /\ long[j + 1] = <<>>
      BY <1>4, <1>7, <2>3
    <3>3. Joined(b, <<>>, b)
      BY <1>5, JoinEmpty
    <3> QED
      BY <1>3, <3>1, <3>2, <3>3, Zenon
  <2>4. CASE j # n + 1
    <3>1. j \in k .. n /\ j \in 1 .. n /\ j + 1 \in Nat /\ j + 1 <= n + 1
      <4>1. k \in 1 .. n + 1
        BY <1>1, Zenon
      <4>2. j \in k .. n + 1
        OBVIOUS
      <4> QED
        BY ONLY <4>1, <4>2, <2>4, n \in Nat
    <3>2. Joined(Bytes(ps[j]), piece[j + 1], piece[j]) /\ Joined(piece[j + 1], b, long[j + 1])
      BY <1>2, <1>7, <3>1, Zenon
    <3>3. PICK x, y, z, t, u : x = Bytes(ps[j]) /\ y = piece[j + 1] /\ z = piece[j] /\ t = long[j + 1] /\ u = long[j]
      OBVIOUS
    <3>4. Joined(x, y, z) /\ Joined(y, b, t) /\ Joined(z, b, u)
      BY <2>2, <3>2, <3>3, Zenon
    <3>5. Joined(x, t, u)
      BY <3>4, JoinedLeft
    <3>6. more[j] = ps[j]
      BY <1>4, <3>1
    <3> QED
      BY <3>3, <3>5, <3>6, Zenon
  <2> QED
    BY <2>3, <2>4
<1>10. Spells(w2, more, k)
  <2>1. long[Len(more) + 1] = <<>>
    BY <1>4, <1>7, Zenon
  <2>2. \A j \in k .. Len(more) : Joined(Bytes(more[j]), long[j + 1], long[j])
    BY <1>4, <1>9, Zenon
  <2> QED
    BY <1>7, <1>8, <2>1, <2>2, Zenon DEF Spells
<1> QED
  BY <1>3, <1>10, Zenon

(* Before a packet is read the queue is empty. *)
LEMMA HeldNothing ==
    ASSUME NEW p \in Packets
    PROVE  Held(<<>>, <<>>, p)
<1>1. Len(LengthField(p)) \in 1 .. 4
  BY PacketBytes, Zenon DEF Field
<1>2. Len(<<>>) = 0
  OBVIOUS
<1>3. 0 < 1 + Len(LengthField(p))
  BY <1>1
<1> QED
  BY <1>2, <1>3, Zenon DEF Held

(* The bytes that were sent and not yet returned in a packet are, in this      *)
(* order, in the socket's queue, in the kernel and on their way.               *)
Pending(net, ker, f, q, ps, k) ==
    \E u, v, w : Joined(ker, net, u) /\ Joined(q, u, v) /\ Joined(f, v, w) /\ Spells(w, ps, k)

(* The packets that were returned are the first ones that were sent; the rest  *)
(* is pending, and the queue holds less than a packet.                         *)
StreamKept(ps, net, ker, f, q, pk) ==
    /\ ps \in Seq(Packets) /\ pk \in Seq(Packets)
    /\ Len(pk) <= Len(ps)
    /\ \A i \in 1 .. Len(pk) : pk[i] = ps[i]
    /\ Pending(net, ker, f, q, ps, Len(pk) + 1)
    /\ Len(pk) < Len(ps) => Held(f, q, ps[Len(pk) + 1])

(* At the start nothing was sent. *)
LEMMA StreamStarts == StreamKept(<<>>, <<>>, <<>>, <<>>, <<>>, <<>>)
<1>1. Joined(<<>>, <<>>, <<>>)
  <2>1. <<>> \in Seq(Nat)
    OBVIOUS
  <2> QED
    BY <2>1, JoinEmpty
<1>2. Pending(<<>>, <<>>, <<>>, <<>>, <<>>, 1)
  BY <1>1, SpellsNone, Zenon DEF Pending
<1>3. /\ <<>> \in Seq(Packets) /\ Len(<<>>) = 0 /\ 0 + 1 = 1 /\ 0 <= 0 /\ 1 .. 0 = {} /\ ~(0 < 0)
  OBVIOUS
<1> QED
  BY <1>2, <1>3 DEF StreamKept

(* With every packet returned nothing is pending. *)
LEMMA NothingPending ==
    ASSUME NEW ps, NEW net, NEW ker, NEW f, NEW q, NEW k, k = Len(ps) + 1, Pending(net, ker, f, q, ps, k)
    PROVE  net = <<>> /\ ker = <<>> /\ f = <<>> /\ q = <<>>
<1>1. PICK u, v, w : Joined(ker, net, u) /\ Joined(q, u, v) /\ Joined(f, v, w) /\ Spells(w, ps, k)
  BY Zenon DEF Pending
<1>2. w = <<>>
  BY <1>1, SpellsAll, Zenon
<1>3. f = <<>> /\ v = <<>>
  BY <1>1, <1>2, JoinedEmpty, Zenon
<1>4. q = <<>> /\ u = <<>>
  BY <1>1, <1>3, JoinedEmpty, Zenon
<1> QED
  BY <1>1, <1>3, <1>4, JoinedEmpty, Zenon

(* PeerSends puts the bytes of a packet behind what is pending. *)
LEMMA StreamSends ==
    ASSUME NEW ps, NEW net, NEW ker, NEW f, NEW q, NEW pk, StreamKept(ps, net, ker, f, q, pk), NEW p \in Packets
    PROVE  StreamKept(Append(ps, p), net \o Bytes(p), ker, f, q, pk)
<1>1. /\ ps \in Seq(Packets) /\ pk \in Seq(Packets)
      /\ Len(pk) <= Len(ps)
      /\ \A i \in 1 .. Len(pk) : pk[i] = ps[i]
      /\ Pending(net, ker, f, q, ps, Len(pk) + 1)
      /\ Len(pk) < Len(ps) => Held(f, q, ps[Len(pk) + 1])
  BY Zenon DEF StreamKept
<1>2. PICK n, m : n = Len(ps) /\ m = Len(pk)
  OBVIOUS
<1>3. n \in Nat /\ m \in Nat /\ m <= n
  BY <1>1, <1>2, LenProperties
<1>4. PICK more, b, net2 : more = Append(ps, p) /\ b = Bytes(p) /\ net2 = net \o b
  OBVIOUS
<1>5. /\ more \in Seq(Packets) /\ Len(more) = n + 1 /\ (\A j \in 1 .. n : more[j] = ps[j]) /\ more[n + 1] = p
  BY <1>1, <1>2, <1>4, AppendedPacket, Zenon
<1>6. PICK u, v, w : Joined(ker, net, u) /\ Joined(q, u, v) /\ Joined(f, v, w) /\ Spells(w, ps, m + 1)
  BY <1>1, <1>2, Zenon DEF Pending
<1>7. b \in Seq(Nat)
  BY <1>4, PacketBytes, JoinedLengths, Zenon
<1>8. Joined(net, b, net2) /\ net2 \in Seq(Nat)
  <2>1. net \in Seq(Nat)
    BY <1>6, JoinedLengths, Zenon
  <2>2. Joined(net, b, net2)
    BY <1>4, <1>7, <2>1, Zenon DEF Joined
  <2> QED
    BY <2>2, JoinedLengths, Zenon
<1>9. PICK u2, v2, w2 : Joined(u, b, u2) /\ Joined(v, b, v2) /\ Joined(w, b, w2)
  <2>1. u \in Seq(Nat) /\ v \in Seq(Nat) /\ w \in Seq(Nat)
    BY <1>6, JoinedLengths, Zenon
  <2> QED
    BY <1>7, <2>1, Join, Zenon
<1>10. Joined(ker, net2, u2)
  BY <1>6, <1>8, <1>9, JoinedLeft
<1>11. Joined(q, u2, v2)
  BY <1>6, <1>9, JoinedLeft
<1>12. Joined(f, v2, w2)
  BY <1>6, <1>9, JoinedLeft
<1>13. Spells(w2, more, m + 1)
  <2>1. m + 1 \in 1 .. n + 1
    BY <1>3
  <2>2. m + 1 \in 1 .. Len(ps) + 1 /\ Joined(w, Bytes(p), w2)
    BY <1>2, <1>4, <1>9, <2>1, Zenon
  <2>3. Spells(w2, Append(ps, p), m + 1)
    BY <1>1, <1>6, <2>2, SpellsMore
  <2> QED
    BY <1>4, <2>3, Zenon
<1>14. Pending(net2, ker, f, q, more, m + 1)
  BY <1>10, <1>11, <1>12, <1>13, Zenon DEF Pending
<1>15. m <= Len(more) /\ \A i \in 1 .. m : pk[i] = more[i]
  <2>1. m <= n + 1 /\ \A i \in 1 .. m : i \in 1 .. n
    BY <1>3
  <2>2. \A i \in 1 .. m : pk[i] = ps[i]
    BY <1>1, <1>2, Zenon
  <2> QED
    BY <1>5, <2>1, <2>2, Zenon
<1>16. Held(f, q, more[m + 1])
  <2>1. CASE m < n
    <3>1. m + 1 \in 1 .. n
      BY <1>3, <2>1
    <3>2. Held(f, q, ps[m + 1])
      BY <1>1, <1>2, <2>1, Zenon
    <3> QED
      BY <1>5, <3>1, <3>2, Zenon
  <2>2. CASE m = n
    <3>1. m + 1 = Len(ps) + 1 /\ Pending(net, ker, f, q, ps, m + 1)
      BY <1>1, <1>2, <2>2, Zenon
    <3>2. f = <<>> /\ q = <<>>
      BY <3>1, NothingPending
    <3>3. more[m + 1] = p
      BY <1>5, <2>2, Zenon
    <3> QED
      BY <3>2, <3>3, HeldNothing, Zenon
  <2>3. m < n \/ m = n
    BY <1>3
  <2> QED
    BY <2>1, <2>2, <2>3, Zenon
<1>17. StreamKept(more, net2, ker, f, q, pk)
  BY <1>1, <1>2, <1>5, <1>14, <1>15, <1>16, Zenon DEF StreamKept
<1> QED
  BY <1>4, <1>17, Zenon

(* BytesArrive moves the cut between the network and the kernel. *)
LEMMA StreamArrives ==
    ASSUME NEW ps, NEW net, NEW ker, NEW f, NEW q, NEW pk, StreamKept(ps, net, ker, f, q, pk), NEW n \in 1 .. Len(net)
    PROVE  StreamKept(ps, SubSeq(net, n + 1, Len(net)), ker \o SubSeq(net, 1, n), f, q, pk)
<1>1. PICK u, v, w : Joined(ker, net, u) /\ Joined(q, u, v) /\ Joined(f, v, w) /\ Spells(w, ps, Len(pk) + 1)
  BY Zenon DEF StreamKept, Pending
<1>2. PICK a, b : a = SubSeq(net, 1, n) /\ b = SubSeq(net, n + 1, Len(net))
  OBVIOUS
<1>3. PICK ker2 : ker2 = ker \o a
  OBVIOUS
<1>4. net \in Seq(Nat) /\ ker \in Seq(Nat) /\ Len(net) \in Nat
  BY <1>1, JoinedLengths, Zenon
<1>5. n \in 0 .. Len(net)
  BY <1>4
<1>6. Joined(a, b, net)
  <2>1. a \in Seq(Nat) /\ b \in Seq(Nat) /\ net = a \o b
    BY <1>2, <1>4, <1>5, CutAt, Zenon
  <2> QED
    BY <2>1, Zenon DEF Joined
<1>7. Joined(ker, a, ker2)
  <2>1. a \in Seq(Nat)
    BY <1>6, JoinedLengths, Zenon
  <2> QED
    BY <1>3, <1>4, <2>1, Zenon DEF Joined
<1>8. Joined(ker2, b, u)
  BY <1>1, <1>6, <1>7, JoinedRight
<1>9. Pending(b, ker2, f, q, ps, Len(pk) + 1)
  BY <1>1, <1>8, Zenon DEF Pending
<1>10. StreamKept(ps, b, ker2, f, q, pk)
  BY <1>9, Zenon DEF StreamKept
<1> QED
  BY <1>2, <1>3, <1>10, Zenon

(* What MQTTPacket_Factory leaves of the stream. *)
LEMMA StreamReads ==
    ASSUME NEW ps, NEW net, NEW ker, NEW f, NEW q, NEW pk, StreamKept(ps, net, ker, f, q, pk), ker # <<>>
    PROVE  LET bytes == f \o ker
               length == Decode(Tail(bytes), Radix)
               rest == SubSeq(bytes, 2 + length.used, Len(bytes))
               got == Socket_getdata(q, rest, length.length)
               complete == length.rc = "complete" /\ Len(got) = length.length
           IN  /\ length.rc # "error"
               /\ StreamKept(ps, net,
                             IF length.rc = "complete" THEN SubSeq(rest, 1 + Len(got) - Len(q), Len(rest)) ELSE <<>>,
                             IF complete THEN <<>> ELSE SubSeq(bytes, 1, 1 + length.used),
                             IF complete \/ length.rc # "complete" THEN <<>> ELSE got,
                             IF complete THEN Append(pk, [header |-> bytes[1], data |-> got]) ELSE pk)
<1>1. /\ ps \in Seq(Packets) /\ pk \in Seq(Packets)
      /\ Len(pk) <= Len(ps)
      /\ \A i \in 1 .. Len(pk) : pk[i] = ps[i]
      /\ Pending(net, ker, f, q, ps, Len(pk) + 1)
      /\ Len(pk) < Len(ps) => Held(f, q, ps[Len(pk) + 1])
  BY Zenon DEF StreamKept
<1>2. PICK n, m : n = Len(ps) /\ m = Len(pk)
  OBVIOUS
<1>3. n \in Nat /\ m \in Nat /\ m <= n
  BY <1>1, <1>2, LenProperties
<1>4. m < n
  <2> SUFFICES ASSUME m = n PROVE FALSE
    BY <1>3
  <2>1. m + 1 = Len(ps) + 1 /\ Pending(net, ker, f, q, ps, m + 1)
    BY <1>1, <1>2, Zenon
  <2> QED
    BY <2>1, NothingPending
<1>5. PICK u, v, w : Joined(ker, net, u) /\ Joined(q, u, v) /\ Joined(f, v, w) /\ Spells(w, ps, m + 1)
  BY <1>1, <1>2, Zenon DEF Pending
<1>6. PICK p : p = ps[m + 1]
  OBVIOUS
<1>7. m + 1 \in 1 .. n /\ p \in Packets /\ Held(f, q, p)
  <2>1. m + 1 \in 1 .. n
    BY <1>3, <1>4
  <2>2. p \in Packets
    BY <1>1, <1>2, <1>6, <2>1, ElementOfSeq
  <2>3. Held(f, q, p)
    BY <1>1, <1>2, <1>4, <1>6, Zenon
  <2> QED
    BY <2>1, <2>2, <2>3
<1>8. PICK r : Joined(Bytes(p), r, w) /\ Spells(r, ps, (m + 1) + 1)
  <2>1. m + 1 \in 1 .. Len(ps)
    BY <1>2, <1>7, Zenon
  <2>2. \E r : Joined(Bytes(ps[m + 1]), r, w) /\ Spells(r, ps, (m + 1) + 1)
    BY <1>1, <1>5, <2>1, SpellsNext
  <2> QED
    BY <1>6, <2>2, Zenon
<1>9. PICK bytes : bytes = f \o ker
  OBVIOUS
<1>10. Joined(f, ker, bytes) /\ net \in Seq(Nat) /\ bytes \in Seq(Nat)
  <2>1. f \in Seq(Nat) /\ ker \in Seq(Nat) /\ net \in Seq(Nat)
    BY <1>5, JoinedLengths, Zenon
  <2>2. Joined(f, ker, bytes)
    BY <1>9, <2>1, Zenon DEF Joined
  <2> QED
    BY <2>1, <2>2, JoinedLengths, Zenon
<1>11. Reads(p, q, net, w, r, bytes)
  BY <1>5, <1>7, <1>8, <1>10, ReadMore, Zenon
<1>12. PICK length : length = Decode(Tail(bytes), Radix)
  OBVIOUS
<1>13. PICK rest : rest = SubSeq(bytes, 2 + length.used, Len(bytes))
  OBVIOUS
<1>14. PICK got : got = Socket_getdata(q, rest, length.length)
  OBVIOUS
<1>15. PICK left, head, item : /\ left = SubSeq(rest, 1 + Len(got) - Len(q), Len(rest))
                               /\ head = SubSeq(bytes, 1, 1 + length.used)
                               /\ item = [header |-> bytes[1], data |-> got]
  OBVIOUS
<1>16. PICK complete \in BOOLEAN : complete = (length.rc = "complete" /\ Len(got) = length.length)
  OBVIOUS
<1> DEFINE Kept == /\ length.rc # "error"
                   /\ StreamKept(ps, net,
                                 IF length.rc = "complete" THEN left ELSE <<>>,
                                 IF complete THEN <<>> ELSE head,
                                 IF complete \/ length.rc # "complete" THEN <<>> ELSE got,
                                 IF complete THEN Append(pk, item) ELSE pk)
<1> SUFFICES Kept
  BY <1>9, <1>12, <1>13, <1>14, <1>15, <1>16, Zenon
<1>17. \/ /\ length.rc = "interrupted"
          /\ head = bytes /\ Joined(bytes, net, w)
          /\ Held(bytes, <<>>, p)
       \/ /\ length.rc = "complete" /\ Len(got) = length.length
          /\ item = p
          /\ Joined(left, net, r)
       \/ /\ length.rc = "complete" /\ Len(got) # length.length
          /\ Held(head, got, p)
          /\ \E u2, v2 : Joined(left, net, u2) /\ Joined(got, u2, v2) /\ Joined(head, v2, w)
  BY <1>11, <1>12, <1>13, <1>14, <1>15, Zenon DEF Reads
<1>18. <<>> \in Seq(Nat)
  OBVIOUS
<1>19. CASE length.rc = "interrupted" /\ head = bytes /\ Joined(bytes, net, w) /\ Held(bytes, <<>>, p)
  <2>1. length.rc # "error" /\ length.rc # "complete" /\ ~complete
    BY <1>16, <1>19
  <2>2. Joined(<<>>, net, net)
    BY <1>10, JoinEmpty, Zenon
  <2>3. Pending(net, <<>>, bytes, <<>>, ps, m + 1)
    BY <1>5, <1>19, <2>2, Zenon DEF Pending
  <2>4. StreamKept(ps, net, <<>>, bytes, <<>>, pk)
    BY <1>1, <1>2, <1>6, <1>19, <2>3, Zenon DEF StreamKept
  <2> QED
    BY <1>19, <2>1, <2>4, Zenon
<1>20. CASE length.rc = "complete" /\ Len(got) = length.length /\ item = p /\ Joined(left, net, r)
  <2>1. length.rc # "error" /\ complete
    BY <1>16, <1>20
  <2>2. r \in Seq(Nat)
    BY <1>20, JoinedLengths, Zenon
  <2>3. Joined(<<>>, r, r)
    BY <2>2, JoinEmpty, Zenon
  <2>4. PICK pk2 : pk2 = Append(pk, p)
    OBVIOUS
  <2>5. pk2 \in Seq(Packets) /\ Len(pk2) = m + 1 /\ (\A i \in 1 .. m : pk2[i] = pk[i]) /\ pk2[m + 1] = p
    BY <1>1, <1>2, <1>7, <2>4, AppendedPacket, Zenon
  <2>6. Pending(net, left, <<>>, <<>>, ps, Len(pk2) + 1)
    BY <1>8, <1>20, <2>3, <2>5, Zenon DEF Pending
  <2>7. Len(pk2) <= Len(ps)
    <3>1. m + 1 <= n
      BY <1>3, <1>4
    <3> QED
      BY <1>2, <2>5, <3>1, Zenon
  <2>8. \A i \in 1 .. Len(pk2) : pk2[i] = ps[i]
    <3> SUFFICES ASSUME NEW i \in 1 .. m + 1 PROVE pk2[i] = ps[i]
      BY <2>5, Zenon
    <3>1. i \in 1 .. m \/ i = m + 1
      BY <1>3
    <3>2. \A j \in 1 .. m : pk[j] = ps[j]
      BY <1>1, <1>2, Zenon
    <3> QED
      BY <1>6, <2>5, <3>1, <3>2, Zenon
  <2>9. Len(pk2) < Len(ps) => Held(<<>>, <<>>, ps[Len(pk2) + 1])
    <3>1. ASSUME m + 1 < n PROVE Held(<<>>, <<>>, ps[(m + 1) + 1])
      <4>1. (m + 1) + 1 \in 1 .. n
        BY <1>3, <3>1
      <4>2. ps[(m + 1) + 1] \in Packets
        BY <1>1, <1>2, <4>1, ElementOfSeq
      <4> QED
        BY <4>2, HeldNothing
    <3> QED
      BY <1>2, <2>5, <3>1, Zenon
  <2>10. StreamKept(ps, net, left, <<>>, <<>>, pk2)
    BY <1>1, <2>5, <2>6, <2>7, <2>8, <2>9, Zenon DEF StreamKept
  <2> QED
    BY <1>20, <2>1, <2>4, <2>10, Zenon
<1>21. CASE /\ length.rc = "complete" /\ Len(got) # length.length
            /\ Held(head, got, p)
            /\ \E u2, v2 : Joined(left, net, u2) /\ Joined(got, u2, v2) /\ Joined(head, v2, w)
  <2>1. length.rc # "error" /\ ~complete
    BY <1>16, <1>21
  <2>2. Pending(net, left, head, got, ps, m + 1)
    BY <1>5, <1>21, Zenon DEF Pending
  <2>3. StreamKept(ps, net, left, head, got, pk)
    BY <1>1, <1>2, <1>6, <1>21, <2>2, Zenon DEF StreamKept
  <2> QED
    BY <1>21, <2>1, <2>3, Zenon
<1> QED
  BY <1>17, <1>19, <1>20, <1>21, Zenon

ReaderSpec == ReaderInit /\ [][ReaderNext]_readerVars

(* The inductive invariant of the reader. *)
ReaderInv ==
    /\ failed = FALSE
    /\ StreamKept(sent, network, kernel, fixed_header, data, packets)

(* Every step keeps the invariant. *)
LEMMA ReaderStep == ReaderInv /\ [ReaderNext]_readerVars => ReaderInv'
<1> SUFFICES ASSUME ReaderInv, [ReaderNext]_readerVars PROVE ReaderInv'
  OBVIOUS
<1>0. failed = FALSE /\ StreamKept(sent, network, kernel, fixed_header, data, packets)
  BY Zenon DEF ReaderInv
<1>1. CASE PeerSends
  <2>1. PICK p \in Packets : sent' = Append(sent, p) /\ network' = network \o Bytes(p)
    BY <1>1 DEF PeerSends
  <2>2. StreamKept(Append(sent, p), network \o Bytes(p), kernel, fixed_header, data, packets)
    BY <1>0, <2>1, StreamSends, Zenon
  <2>3. /\ kernel' = kernel /\ fixed_header' = fixed_header /\ data' = data
        /\ packets' = packets /\ failed' = failed
    BY <1>1 DEF PeerSends
  <2> QED
    BY <1>0, <2>1, <2>2, <2>3, Zenon DEF ReaderInv
<1>2. CASE BytesArrive
  <2>1. PICK n \in 1 .. Len(network) : /\ kernel' = kernel \o SubSeq(network, 1, n)
                                       /\ network' = SubSeq(network, n + 1, Len(network))
    BY <1>2, Zenon DEF BytesArrive
  <2>2. StreamKept(sent, SubSeq(network, n + 1, Len(network)), kernel \o SubSeq(network, 1, n),
                   fixed_header, data, packets)
    BY <1>0, <2>1, StreamArrives, Zenon
  <2>3. /\ sent' = sent /\ fixed_header' = fixed_header /\ data' = data
        /\ packets' = packets /\ failed' = failed
    BY <1>2 DEF BytesArrive
  <2> QED
    BY <1>0, <2>1, <2>2, <2>3, Zenon DEF ReaderInv
<1>3. CASE MQTTPacket_Factory
  <2>1. kernel # <<>>
    BY <1>3, Zenon DEF MQTTPacket_Factory
  <2>2. LET bytes == fixed_header \o kernel
            length == Decode(Tail(bytes), Radix)
            rest == SubSeq(bytes, 2 + length.used, Len(bytes))
            got == Socket_getdata(data, rest, length.length)
            complete == length.rc = "complete" /\ Len(got) = length.length
        IN  /\ length.rc # "error"
            /\ StreamKept(sent, network,
                          IF length.rc = "complete" THEN SubSeq(rest, 1 + Len(got) - Len(data), Len(rest)) ELSE <<>>,
                          IF complete THEN <<>> ELSE SubSeq(bytes, 1, 1 + length.used),
                          IF complete \/ length.rc # "complete" THEN <<>> ELSE got,
                          IF complete THEN Append(packets, [header |-> bytes[1], data |-> got]) ELSE packets)
    BY <1>0, <2>1, StreamReads
  <2>3. failed' = FALSE /\ StreamKept(sent, network, kernel', fixed_header', data', packets')
    BY <1>3, <2>2, Zenon DEF MQTTPacket_Factory
  <2>4. sent' = sent /\ network' = network
    BY <1>3 DEF MQTTPacket_Factory
  <2> QED
    BY <2>3, <2>4, Zenon DEF ReaderInv
<1>4. CASE UNCHANGED readerVars
  <2>1. /\ sent' = sent /\ network' = network /\ kernel' = kernel /\ fixed_header' = fixed_header
        /\ data' = data /\ packets' = packets /\ failed' = failed
    BY <1>4 DEF readerVars
  <2> QED
    BY <1>0, <2>1, Zenon DEF ReaderInv
<1> QED
  BY <1>1, <1>2, <1>3, <1>4 DEF ReaderNext

(* Packets are read as they were sent, wherever the network cuts the stream    *)
(* and however the calls of MQTTPacket_Factory fall, whatever is sent.         *)
THEOREM PacketsArrive == ReaderSpec => []PacketsReassembled
<1>1. ReaderInit => ReaderInv
  <2> SUFFICES ASSUME ReaderInit PROVE ReaderInv
    OBVIOUS
  <2>1. /\ sent = <<>> /\ network = <<>> /\ kernel = <<>> /\ fixed_header = <<>> /\ data = <<>>
        /\ packets = <<>> /\ failed = FALSE
    BY Zenon DEF ReaderInit
  <2> QED
    BY <2>1, StreamStarts, Zenon DEF ReaderInv
<1>2. ReaderInv => PacketsReassembled
  <2> SUFFICES ASSUME ReaderInv PROVE PacketsReassembled
    OBVIOUS
  <2>1. PICK ps, pk, net, ker, f, q : /\ ps = sent /\ pk = packets /\ net = network /\ ker = kernel
                                      /\ f = fixed_header /\ q = data
    OBVIOUS
  <2>2. /\ ps \in Seq(Packets) /\ pk \in Seq(Packets)
        /\ Len(pk) <= Len(ps)
        /\ \A i \in 1 .. Len(pk) : pk[i] = ps[i]
        /\ Pending(net, ker, f, q, ps, Len(pk) + 1)
        /\ Len(pk) < Len(ps) => Held(f, q, ps[Len(pk) + 1])
    BY <2>1, Zenon DEF ReaderInv, StreamKept
  <2>3. PICK n, m : n = Len(ps) /\ m = Len(pk)
    OBVIOUS
  <2>4. n \in Nat /\ m \in Nat /\ m <= n
    BY <2>2, <2>3, LenProperties
  <2>5. SubSeq(pk, 1, m) = pk
    BY <2>2, <2>3, SubSeqFull
  <2>6. SubSeq(ps, 1, m) = pk
    <3>1. \A i \in 1 .. m : ps[i] \in Packets
      <4>1. \A i \in 1 .. m : i \in 1 .. n
        BY <2>4
      <4> QED
        BY <2>2, <2>3, <4>1, ElementOfSeq
    <3>2. PICK s : s = SubSeq(ps, 1, m)
      OBVIOUS
    <3>3. /\ s \in Seq(Packets)
          /\ Len(s) = IF 1 <= m THEN m - 1 + 1 ELSE 0
          /\ \A i \in 1 .. m - 1 + 1 : s[i] = ps[1 + i - 1]
      BY <2>4, <3>1, <3>2, SubSeqProperties
    <3>4. Len(s) = m
      BY <2>4, <3>3
    <3>5. ASSUME NEW i \in 1 .. m PROVE s[i] = pk[i]
      <4>1. i \in 1 .. m - 1 + 1 /\ 1 + i - 1 = i
        BY <2>4
      <4>2. s[i] = ps[i]
        BY <3>3, <4>1
      <4> QED
        BY <2>2, <2>3, <4>2, Zenon
    <3>6. \A i \in 1 .. Len(s) : s[i] = pk[i]
      BY <3>4, <3>5, Zenon
    <3>7. Len(s) = Len(pk)
      BY <2>3, <3>4, Zenon
    <3>8. s = pk
      BY <2>2, <3>3, <3>6, <3>7, SeqEqual
    <3> QED
      BY <3>2, <3>8, Zenon
  <2>7. IsPrefix(pk, ps)
    BY <2>2, <2>3, <2>5, <2>6, Zenon DEF IsPrefix
  <2>8. ASSUME net = <<>>, ker = <<>> PROVE pk = ps
    <3>1. CASE m = n
      <4>1. \A i \in 1 .. Len(pk) : pk[i] = ps[i]
        BY <2>2
      <4>2. Len(pk) = Len(ps)
        BY <2>3, <3>1, Zenon
      <4> QED
        BY <2>2, <4>1, <4>2, SeqEqual
    <3>2. CASE m < n
      <4>1. PICK p : p = ps[m + 1]
        OBVIOUS
      <4>2. m + 1 \in 1 .. n
        BY <2>4, <3>2
      <4>3. p \in Packets
        BY <2>2, <2>3, <4>1, <4>2, ElementOfSeq
      <4>4. Held(f, q, p)
        BY <2>2, <2>3, <3>2, <4>1, Zenon
      <4>5. PICK u, v, w : Joined(ker, net, u) /\ Joined(q, u, v) /\ Joined(f, v, w) /\ Spells(w, ps, m + 1)
        BY <2>2, <2>3, Zenon DEF Pending
      <4>6. PICK r : Joined(Bytes(p), r, w)
        <5>1. m + 1 \in 1 .. Len(ps)
          BY <2>3, <4>2, Zenon
        <5>2. \E r : Joined(Bytes(ps[m + 1]), r, w) /\ Spells(r, ps, (m + 1) + 1)
          BY <2>2, <4>5, <5>1, SpellsNext
        <5> QED
          BY <4>1, <5>2, Zenon
      <4>7. Joined(f, q, w)
        <5>1. u = <<>>
          BY <2>8, <4>5, JoinedEmpty, Zenon
        <5>2. v = q
          BY <4>5, <5>1, JoinedEmpty, Zenon
        <5> QED
          BY <4>5, <5>2, Zenon
      <4>8. PICK head : Joined(<<p.header>>, LengthField(p), head) /\ Joined(head, p.data, Bytes(p))
        BY <4>3, PacketBytes, Zenon
      <4>9. Len(w) = Len(Bytes(p)) + Len(r) /\ Len(r) \in Nat
        BY <4>6, JoinedLengths, Zenon
      <4>10. /\ Len(Bytes(p)) = Len(head) + Len(p.data) /\ Len(p.data) \in Nat
             /\ Len(head) = Len(<<p.header>>) + Len(LengthField(p)) /\ Len(LengthField(p)) \in Nat
        BY <4>8, JoinedLengths, Zenon
      <4>11. Len(<<p.header>>) = 1
        OBVIOUS
      <4>12. Len(w) = Len(f) + Len(q) /\ Len(f) \in Nat /\ Len(q) \in Nat
        BY <4>7, JoinedLengths, Zenon
      <4>13. PICK a, b, c, d, e : /\ a = Len(LengthField(p)) /\ b = Len(p.data) /\ c = Len(r)
                                  /\ d = Len(f) /\ e = Len(q)
        OBVIOUS
      <4>14. a \in Nat /\ b \in Nat /\ c \in Nat /\ d \in Nat /\ e \in Nat
        BY <4>9, <4>10, <4>12, <4>13, Zenon
      <4>15. d + e = ((1 + a) + b) + c
        BY <4>9, <4>10, <4>11, <4>12, <4>13, Zenon
      <4>16. (e = 0 /\ d < 1 + a) \/ (d = 1 + a /\ e < b)
        <5>1. (q = <<>> /\ d < 1 + a) \/ (d = 1 + a /\ e < b)
          BY <4>4, <4>13, Zenon DEF Held
        <5>2. Len(<<>>) = 0
          OBVIOUS
        <5> QED
          BY <4>13, <5>1, <5>2, Zenon
      <4> QED
        BY <4>14, <4>15, <4>16
    <3> QED
      BY <2>4, <3>1, <3>2
  <2>9. failed = FALSE
    BY Zenon DEF ReaderInv
  <2> QED
    BY <2>1, <2>7, <2>8, <2>9, Zenon DEF PacketsReassembled
<1> QED
  BY <1>1, <1>2, ReaderStep, PTL DEF ReaderSpec

=============================================================================
