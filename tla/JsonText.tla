------------------------------- MODULE JsonText -------------------------------
(***************************************************************************)
(* The texts a provider prints: the two JSON writers of the SDK (config.cpp *)
(* for the schema, host_check.cpp for the host check), their checks of      *)
(* UTF-8, and what a reader makes of the result.                           *)
(*                                                                         *)
(* A text is a sequence of bytes.  A number above 255 in it is a Word: a    *)
(* fixed piece of plain ASCII, such as a key of an envelope.  A document    *)
(* has no white space, which only its layout differs by.                   *)
(***************************************************************************)
EXTENDS Integers, SequencesExt

(* A loop over a text: from position i it goes on to i + step[i], and it stops *)
(* where step is 0.  Where it stops, and what it joins on the way there, by    *)
(* where it starts.                                                            *)
Positions(s) == 1..(Len(s) + 1)
Stop(step) ==
  LET from[i \in DOMAIN step] ==
        LET n == step[i] IN IF n = 0 THEN i ELSE from[i + n]
  IN  from
Joined(step, piece) ==
  LET from[i \in DOMAIN step] ==
        LET n == step[i] IN IF n = 0 THEN <<>> ELSE piece[i] \o from[i + n]
  IN  from

Each(s) == [i \in Positions(s) |-> IF i <= Len(s) THEN 1 ELSE 0]

Ascii(c) == c < 128 \/ c > 255

-----------------------------------------------------------------------------
(* UTF-8 by its definition: the encodings of the scalar values. *)

IsScalarValue(code) == 0 <= code /\ code <= 1114111 /\ (code < 55296 \/ code > 57343)
TailByte(code) == 128 + (code % 64)
TwoBytes(code) == <<192 + code \div 64, TailByte(code)>>
ThreeBytes(code) == <<224 + code \div 4096, TailByte(code \div 64), TailByte(code)>>
FourBytes(code) ==
  <<240 + code \div 262144, TailByte(code \div 4096), TailByte(code \div 64), TailByte(code)>>
Encoded(code) ==
  IF code < 128 THEN <<code>>
  ELSE IF code < 2048 THEN TwoBytes(code)
  ELSE IF code < 65536 THEN ThreeBytes(code) ELSE FourBytes(code)

(* The number that n bytes at i can only encode, and how many bytes of a   *)
(* text are a character at i, 0 if none are.                               *)
Guess(s, i, n) ==
  LET tail(k) == s[i + k] - 128 IN
  CASE n = 2 -> 64 * (s[i] - 192) + tail(1)
    [] n = 3 -> 4096 * (s[i] - 224) + 64 * tail(1) + tail(2)
    [] n = 4 -> 262144 * (s[i] - 240) + 4096 * tail(1) + 64 * tail(2) + tail(3)
IsChar(s, i, n) ==
  /\ i + n - 1 <= Len(s)
  /\ IsScalarValue(Guess(s, i, n))
  /\ Encoded(Guess(s, i, n)) = SubSeq(s, i, i + n - 1)
CharAt(s, i) ==
  CASE Ascii(s[i]) -> 1
    [] ~Ascii(s[i]) /\ (\E n \in 2..4 : IsChar(s, i, n)) -> CHOOSE n \in 2..4 : IsChar(s, i, n)
    [] OTHER -> 0

Chars(s) == [i \in Positions(s) |-> IF i <= Len(s) THEN CharAt(s, i) ELSE 0]
IsText(s) == Stop(Chars(s))[1] > Len(s)

(* A text with U+FFFD for each byte that belongs to no character. *)
Repaired(s) ==
  LET bad(i) == i <= Len(s) /\ CharAt(s, i) = 0 IN
  Joined([i \in Positions(s) |-> IF bad(i) THEN 1 ELSE Chars(s)[i]],
         [i \in Positions(s) |-> IF bad(i) THEN Encoded(65533)
                                 ELSE SubSeq(s, i, i + Chars(s)[i] - 1)])[1]

-----------------------------------------------------------------------------
(* is_valid_utf8 (config.cpp): the length a lead byte announces, and what  *)
(* the byte after it may be; the loop stops at what is no sequence.        *)
LeadLength(lead) ==
  CASE lead \in 194..223 -> 2 [] lead \in 224..239 -> 3 [] lead \in 240..244 -> 4
    [] OTHER -> 0
SurrogatesToo(lead) ==  \* a slip
  CASE lead = 224 -> 160..191 [] lead = 240 -> 144..191 [] lead = 244 -> 128..143
    [] OTHER -> 128..191
SecondBytes(lead) ==
  CASE lead = 224 -> 160..191 [] lead = 237 -> 128..159 [] lead = 240 -> 144..191
    [] lead = 244 -> 128..143 [] OTHER -> 128..191

SequenceAt(s, i) ==
  LET n == LeadLength(s[i]) IN
  CASE Ascii(s[i]) -> 1
    [] /\ ~Ascii(s[i]) /\ n > 0 /\ i + n - 1 <= Len(s)
       /\ s[i + 1] \in SecondBytes(s[i])
       /\ \A k \in 2..(n - 1) : s[i + k] \in 128..191 -> n
    [] OTHER -> 0

is_valid_utf8(s) ==
  Stop([i \in Positions(s) |-> IF i <= Len(s) THEN SequenceAt(s, i) ELSE 0])[1] > Len(s)

(* utf8_sequence_length (host_check.cpp) computes the code and looks at it. *)
LeastCode(n) == CASE n = 2 -> 128 [] n = 3 -> 2048 [] n = 4 -> 65536
NotOutOfRange(code, n) == code <= 1114111 /\ (code < 55296 \/ code > 57343)  \* a slip
InRange(code, n) ==
  code >= LeastCode(n) /\ code <= 1114111 /\ (code < 55296 \/ code > 57343)

utf8_sequence_length(s, i) ==
  LET n == LeadLength(s[i])
      tail(k) == s[i + k] % 64
      code == CASE n = 2 -> 64 * (s[i] % 32) + tail(1)
                [] n = 3 -> 64 * (64 * (s[i] % 16) + tail(1)) + tail(2)
                [] n = 4 -> 64 * (64 * (64 * (s[i] % 8) + tail(1)) + tail(2)) + tail(3)
  IN  IF /\ n > 0 /\ i + n - 1 <= Len(s)
         /\ \A k \in 1..(n - 1) : s[i + k] \in 128..191
         /\ InRange(code, n)
      THEN n ELSE 0

-----------------------------------------------------------------------------
(* String literals. *)

HexDigit(d) == IF d < 10 THEN 48 + d ELSE 87 + d
UnicodeEscape(c) == <<92, 117, 48, 48, HexDigit(c \div 16), HexDigit(c % 16)>>

BackslashForgotten(c) ==  \* a slip
  CASE c = 34 -> <<92, c>> [] c < 32 -> UnicodeEscape(c) [] OTHER -> <<c>>

(* escape_json has letters for five control characters, json_string for three. *)
ConfigEscape(c) ==
  CASE c \in {34, 92} -> <<92, c>>
    [] c = 8 -> <<92, 98>> [] c = 12 -> <<92, 102>> [] c = 10 -> <<92, 110>>
    [] c = 13 -> <<92, 114>> [] c = 9 -> <<92, 116>>
    [] c \in (0..31) \ {8, 9, 10, 12, 13} -> UnicodeEscape(c)
    [] OTHER -> <<c>>
HostEscape(c) == IF c \in {8, 12} THEN UnicodeEscape(c) ELSE ConfigEscape(c)

escape_json(s) ==
  <<34>> \o Joined(Each(s), [i \in Positions(s) |-> IF i <= Len(s) THEN ConfigEscape(s[i]) ELSE <<>>])[1]
    \o <<34>>

(* What json_string copies, escapes or replaces at i. *)
HostLength(s, i) ==
  IF Ascii(s[i]) \/ utf8_sequence_length(s, i) = 0 THEN 1 ELSE utf8_sequence_length(s, i)
HostPiece(s, i) ==
  CASE Ascii(s[i]) -> HostEscape(s[i])
    [] ~Ascii(s[i]) /\ utf8_sequence_length(s, i) = 0 -> <<92, 117, 102, 102, 102, 100>>
    [] OTHER -> SubSeq(s, i, i + utf8_sequence_length(s, i) - 1)
json_string(s) ==
  <<34>> \o Joined([i \in Positions(s) |-> IF i <= Len(s) THEN HostLength(s, i) ELSE 0],
                   [i \in Positions(s) |-> IF i <= Len(s) THEN HostPiece(s, i) ELSE <<>>])[1]
    \o <<34>>

-----------------------------------------------------------------------------
(* write_json of an object and of an array, from the texts of the values; a  *)
(* number or a boolean is a Word outside a string.                           *)
Commas(parts) ==
  Joined(Each(parts),
         [k \in Positions(parts) |->
            CASE k < Len(parts) -> parts[k] \o <<44>> [] k = Len(parts) -> parts[k] [] OTHER -> <<>>])[1]

write_object(entries) ==
  <<123>> \o Commas([k \in DOMAIN entries |-> escape_json(entries[k][1]) \o <<58>> \o entries[k][2]])
    \o <<125>>
write_array(items) == <<91>> \o Commas(items) \o <<93>>

-----------------------------------------------------------------------------
(* A JSON parser: at position i, a value and the position behind it, or     *)
(* position 0.  Values are texts, numbers, arrays, and objects as lists of  *)
(* entries <<key, value>>, no key twice.                                    *)
JText(s) == [json |-> "string", text |-> s]
JNumber(n) == [json |-> "number", number |-> n]
JArray(items) == [json |-> "array", items |-> items]
JObject(entries) == [json |-> "object", entries |-> entries]
Read(value, next) == [value |-> value, next |-> next]
Fails == Read(JText(<<>>), 0)
HexValue(c) == CASE c \in 48..57 -> c - 48 [] c \in 97..102 -> c - 87 [] OTHER -> -1

Letters == {34, 92, 98, 102, 110, 114, 116}
Meant(letter) ==
  CASE letter = 98 -> 8 [] letter = 102 -> 12 [] letter = 110 -> 10 [] letter = 114 -> 13
    [] letter = 116 -> 9 [] OTHER -> letter
EscapedChar(s, i) ==  \* at the letter of an escape: bytes, and how far it goes
  LET digits == [k \in 1..4 |-> IF i + k > Len(s) THEN -1 ELSE HexValue(s[i + k])]
      code == 4096 * digits[1] + 256 * digits[2] + 16 * digits[3] + digits[4]
  IN  CASE s[i] \in Letters -> [bytes |-> <<Meant(s[i])>>, length |-> 1]
        [] s[i] = 117 /\ (\A k \in 1..4 : digits[k] >= 0) /\ IsScalarValue(code) ->
             [bytes |-> Encoded(code), length |-> 5]
        [] OTHER -> [bytes |-> <<>>, length |-> 0]

(* A string goes on to its quote, or fails on the way. *)
StringStep(s, i) ==
  CASE i > Len(s) -> 0
    [] i <= Len(s) /\ (s[i] < 32 \/ s[i] = 34) -> 0
    [] i <= Len(s) /\ s[i] = 92 ->
         IF i < Len(s) /\ EscapedChar(s, i + 1).length > 0 THEN 1 + EscapedChar(s, i + 1).length ELSE 0
    [] OTHER -> CharAt(s, i)
StringPiece(s, i) ==
  IF s[i] = 92 THEN EscapedChar(s, i + 1).bytes ELSE SubSeq(s, i, i + CharAt(s, i) - 1)
StringSteps(s) == [i \in Positions(s) |-> StringStep(s, i)]
StringPieces(s) ==
  [i \in Positions(s) |-> IF StringStep(s, i) > 0 THEN StringPiece(s, i) ELSE <<>>]

At(s, i, c) == i \in DOMAIN s /\ s[i] = c
ReadString(s, start) ==
  LET quote == Stop(StringSteps(s))[start + 1] IN
  IF At(s, quote, 34)
  THEN Read(JText(Joined(StringSteps(s), StringPieces(s))[start + 1]), quote + 1)
  ELSE Fails

(* A list of what `item` reads, from i up to its closing bracket. *)
ListSteps(s, item) ==
  [i \in Positions(s) |-> LET next == item[i].next IN
                          IF next > i /\ At(s, next, 44) THEN next + 1 - i ELSE 0]
ReadList(s, i, item, close) ==
  LET steps == ListSteps(s, item)
      last == item[Stop(steps)[i]]
  IN  IF last.next > 0 /\ At(s, last.next, close)
      THEN Read(Joined(steps, [j \in Positions(s) |-> <<item[j].value>>])[i] \o <<last.value>>,
                last.next + 1)
      ELSE Fails
KeysDiffer(entries) == \A i, j \in DOMAIN entries : entries[i][1] = entries[j][1] => i = j

(* An entry and a value, where `inner` reads the values inside it. *)
AfterKey(s, key, inner) ==
  IF key.next > 0 /\ At(s, key.next, 58) THEN inner[key.next + 1] ELSE Fails
EntryOf(key, value) ==
  IF value.next > 0 THEN Read(<<key.value.text, value.value>>, value.next) ELSE Fails
ReadEntry(s, i, inner) ==
  LET key == IF At(s, i, 34) THEN ReadString(s, i) ELSE Fails
  IN  EntryOf(key, AfterKey(s, key, inner))

ObjectOf(list) ==
  IF list.next > 0 /\ KeysDiffer(list.value) THEN Read(JObject(list.value), list.next) ELSE Fails
ArrayOf(list) == IF list.next > 0 THEN Read(JArray(list.value), list.next) ELSE Fails
ReadValue(s, i, inner) ==
  LET entry == [j \in Positions(s) |-> ReadEntry(s, j, inner)] IN
  CASE At(s, i, 34) -> ReadString(s, i)
    [] At(s, i, 123) /\ At(s, i + 1, 125) -> Read(JObject(<<>>), i + 2)
    [] At(s, i, 123) /\ ~At(s, i + 1, 125) -> ObjectOf(ReadList(s, i + 1, entry, 125))
    [] At(s, i, 91) /\ At(s, i + 1, 93) -> Read(JArray(<<>>), i + 2)
    [] At(s, i, 91) /\ ~At(s, i + 1, 93) -> ArrayOf(ReadList(s, i + 1, inner, 93))
    [] i \in DOMAIN s /\ s[i] > 255 -> Read(JNumber(s[i]), i + 1)
    [] OTHER -> Fails

(* Values that are nested up to n deep: in all of s, no deeper than Len(s). *)
Reading(s) ==
  LET deep[n \in 0..Len(s)] ==
        [i \in Positions(s) |->
           ReadValue(s, i, IF n = 0 THEN [j \in Positions(s) |-> Fails] ELSE deep[n - 1])]
  IN  deep

(* The document is one value. *)
Whole(s) == Reading(s)[Len(s)][1]
IsDocument(s) == Whole(s).next = Len(s) + 1
Document(s) == Whole(s).value
=============================================================================
