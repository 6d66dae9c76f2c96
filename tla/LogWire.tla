------------------------------- MODULE LogWire -------------------------------
(***************************************************************************)
(* plugins/trace/lpstring.h and lpstring.c: the fields of a log become     *)
(* characters.  stream.c writes them behind a header of their lengths,     *)
(* and LogEntry_get, Log_get find a field again by its key; file.c and     *)
(* syslog.c write them as a line.                                          *)
(*                                                                         *)
(* A text is a sequence of characters.  A word of the machine has the      *)
(* values 0 .. 2 * Half - 1, of which those from Half on are negative when *)
(* it is signed.  The double of a float field is given in units of 1/10000.*)
(* Which functions are called, and on which buffer, is in LogFrontend; how *)
(* the bytes travel is in ChunkStream.                                     *)
(***************************************************************************)
EXTENDS Integers, Sequences

CONSTANTS Chars,  \* the characters
          Logs,   \* [trace : a text, fields : a sequence of
                  \*  [key, type, num, text]]: a type uses num or text
          Wanted, \* the keys a reader asks for
          Half,   \* 2^63
          Half32, \* 2^31
          NULL

Types == {"string", "unsigned", "int", "bool", "float", "hex", "null", "raw"}

Quote   == "'"
Comma   == ","
Newline == "\n"

\* The characters of the code's own literals.
Printed == {"0", "1", "2", "3", "4", "5", "6", "7", "8", "9", "a", "b", "c", "d",
            "e", "f", "l", "n", "r", "s", "t", "u", "x", "T", "I", "D",
            "-", ".", Comma, Quote, Newline, "NUL"}

\* strlen ends at NUL, so that a name, a key and a value hold none.
IsText(s) == s \in Seq(Chars) /\ \A k \in DOMAIN s : s[k] # "NUL"

ASSUME WordAssumption == Half \in Nat \ {0} /\ Half32 \in 1..Half
ASSUME CharsAssumption == Printed \subseteq Chars
ASSUME LogsAssumption ==
    \A log \in Logs :
      /\ IsText(log.trace)
      /\ log.fields \in Seq([key : Seq(Chars), type : Types, num : Int, text : Seq(Chars)])
      /\ \A i \in DOMAIN log.fields :
           LET f == log.fields[i]
           IN  /\ IsText(f.key) /\ IsText(f.text)
               /\ f.type \in {"unsigned", "hex"} => f.num \in 0..(2 * Half - 1)
               /\ f.type = "int" => f.num \in (-Half)..(Half - 1)
ASSUME WantedAssumption == \A key \in Wanted : IsText(key)
ASSUME NullAssumption   ==
    NULL \notin Seq(Chars) /\ NULL \notin [info : Seq(Nat), data : Seq(Chars)]

VARIABLES format, \* where the log goes: stream, file or syslog
          log,    \* the log that is flushed
          buf,    \* the buffer
          info,   \* the lengths in the header
          texts,  \* history: the text of each value that was written
          sent,   \* what was handed on, NULL before that
          want,   \* the key of the LogEntry_get that runs, NULL: none
          idx,    \* its i
          data,   \* its data, as an offset
          result  \* what it returned

writer == <<format, log, buf, info, texts, sent>>
finder == <<want, idx, data, result>>
wireVars == <<writer, finder>>

WireInit == /\ format \in {"stream", "file", "syslog"}
            /\ log \in Logs
            /\ buf = <<>>
            /\ info = <<>>
            /\ texts = <<>>
            /\ sent = NULL
            /\ want = NULL
            /\ idx = 0
            /\ data = 0
            /\ result = NULL

-----------------------------------------------------------------------------
\* Numbers.

Digits == <<"0", "1", "2", "3", "4", "5", "6", "7", "8", "9",
            "a", "b", "c", "d", "e", "f">>
Digit(d) == Digits[d + 1]

\* v, and what is left of it after each division by b.
Quotients(v, b) ==
    LET q[i \in 0..(v + 1)] == IF i = 0 THEN v ELSE q[i - 1] \div b
    IN  q

\* How often v is divided by b until nothing is left, once for 0.
Places(v, b) ==
    CHOOSE n \in 1..(v + 1) : /\ Quotients(v, b)[n] = 0
                              /\ \A m \in 1..(n - 1) : Quotients(v, b)[m] # 0

\* put_hex: the nibble at v >> i, from i = ALIGN(BITS - CLZ(v), 4) - 4, where the
\* highest one is that is not zero, down to 0.
PutHex(v) ==
    LET n == Places(v, 16)
    IN  [k \in 1..n |-> Digit(Quotients(v, 16)[n - k] % 16)]

\* Mutation: the loop ends one pair before the middle.
ReversedShort(s) ==
    LET m == Len(s) \div 2
    IN  [k \in DOMAIN s |-> IF k < m \/ Len(s) + 1 - k < m THEN s[Len(s) + 1 - k] ELSE s[k]]

\* reverse: s and e are swapped as long as s is before the middle.
Reversed(s) ==
    LET m == Len(s) \div 2
    IN  [k \in DOMAIN s |-> IF k <= m \/ Len(s) + 1 - k <= m THEN s[Len(s) + 1 - k] ELSE s[k]]

\* The loop of put_d
FromLeast(v) == [k \in 1..Places(v, 10) |-> Digit(Quotients(v, 10)[k - 1] % 10)]

PutD(v) == Reversed(FromLeast(v))

\* (int64_t) of a word, and a word of an integer
Signed(v)   == IF v >= Half THEN v - 2 * Half ELSE v
Unsigned(v) == v % (2 * Half)

\* put_i.  The least integer has no opposite: - leaves it as it is.
PutI(v) == IF v < 0 THEN <<"-">> \o PutD(Unsigned(-v)) ELSE PutD(v)

\* (int32_t)
Int32(v) == ((v + Half32) % (2 * Half32)) - Half32

\* The point, and the thousandths r behind it
Fraction(r) ==
    LET s3 == r % 100
        s2 == (s3 * 205) \div 2048
        s1 == s3 - 10 * s2
    IN  <<".", Digit(r \div 100), Digit(s2), Digit(s1)>>

\* put_f: what is less than a 1000th is cut off, the integer part is an int32_t.
PutF(v) ==
    LET value == (IF v < 0 THEN -v ELSE v) \div 10
    IN  (IF v < 0 /\ value > 0 THEN <<"-">> ELSE <<>>)
          \o (PutD(Unsigned(Int32(value \div 1000))) \o Fraction(value % 1000))

-----------------------------------------------------------------------------
\* The values.  logpool_record gives a length to the value of a LOG_s only.

TrueText  == <<"t", "r", "u", "e">>
FalseText == <<"f", "a", "l", "s", "e">>
NullText  == <<"n", "u", "l", "l">>

\* logpool_io_string, logpool_string_string: the latter puts it in quotes.
PutString(s) == IF format = "stream" THEN s ELSE <<Quote>> \o s \o <<Quote>>

\* The functions of STREAM_API, FILE_API and SYSLOG_API, by logfn_index.
\* logpool_string_null writes the end of its literal, too.
PutValue(f) ==
    CASE f.type = "string"   -> PutString(f.text)
      [] f.type = "unsigned" -> PutI(Signed(f.num))
      [] f.type = "int"      -> PutI(f.num)
      [] f.type = "bool"     -> IF f.num # 0 THEN TrueText ELSE FalseText
      [] f.type = "float"    -> PutF(f.num)
      [] f.type = "hex"      -> <<"0", "x">> \o PutHex(f.num)
      [] f.type = "null"     -> Append(NullText, "NUL")
      [] f.type = "raw"      -> <<>>

-----------------------------------------------------------------------------
\* logpool_io_flush, logpool_format_flush

TraceID == <<"T", "r", "a", "c", "e", "I", "D">>

Emitted == Len(texts)

\* emit_header and logpool_key_string
FlushKey ==
    /\ sent = NULL
    /\ info = <<>>
    /\ buf' = buf \o TraceID \o log.trace
    /\ info' = <<Len(TraceID), Len(log.trace)>>
    /\ UNCHANGED <<format, log, texts, sent, finder>>

\* logpool_io_delim, logpool_string_delim
Delim == IF format = "stream" THEN <<>> ELSE <<Comma>>

\* fmt->fn of the next field, whose length is what the buffer has grown by.
FlushField ==
    /\ sent = NULL
    /\ info # <<>>
    /\ Emitted < Len(log.fields)
    /\ LET f    == log.fields[Emitted + 1]
           text == PutValue(f)
           grown == Len(f.key) + Len(text)
       IN  /\ buf' = buf \o Delim \o f.key \o text
           /\ info' = info \o <<Len(f.key), grown - Len(f.key)>>
           /\ texts' = Append(texts, text)
    /\ UNCHANGED <<format, log, sent, finder>>

\* A text as printf takes it.
CString(s) ==
    LET ends == {k \in DOMAIN s : s[k] = "NUL"}
    IN  IF ends = {} THEN s
        ELSE SubSeq(s, 1, (CHOOSE k \in ends : \A l \in ends : k <= l) - 1)

\* Mutation: the file is given its text as syslog is.
HandedOnCut == CASE format = "stream" -> [info |-> info, data |-> buf]
                 [] OTHER             -> Append(CString(buf), Newline)

\* io_write, fwrite, syslog.  In the file a newline takes the place of the
\* terminating character.
HandedOn == CASE format = "stream" -> [info |-> info, data |-> buf]
              [] format = "file"   -> Append(buf, Newline)
              [] format = "syslog" -> CString(Append(buf, "NUL"))

FlushEnd ==
    /\ sent = NULL
    /\ info # <<>>
    /\ Emitted = Len(log.fields)
    /\ sent' = HandedOn
    /\ buf' = <<>>
    /\ UNCHANGED <<format, log, info, texts, finder>>

-----------------------------------------------------------------------------
\* LogEntry_get, Log_get

LogSize == Len(sent.info) \div 2

\* log_get_length
LengthAt(i) == sent.info[i + 1]

Get ==
    /\ sent # NULL
    /\ format = "stream"
    /\ want = NULL
    /\ want' \in Wanted
    /\ idx' = 0
    /\ data' = 0
    /\ UNCHANGED <<writer, result>>

\* Mutation: the iterator adds the length of the key only.
IteratorShort(at, i) == at + LengthAt(2 * i)

\* log_iterator
Iterator(at, i) == at + LengthAt(2 * i) + LengthAt(2 * i + 1)

Matches == /\ Len(want) = LengthAt(2 * idx)
           /\ SubSeq(sent.data, data + 1, data + Len(want)) = want

GetStep ==
    /\ want # NULL
    /\ result = NULL
    /\ idx < LogSize
    /\ IF Matches
       THEN /\ result' = SubSeq(sent.data, data + Len(want) + 1,
                             data + Len(want) + LengthAt(2 * idx + 1))
            /\ UNCHANGED <<idx, data>>
       ELSE /\ data' = Iterator(data, idx)
            /\ idx' = idx + 1
            /\ UNCHANGED result
    /\ UNCHANGED <<writer, want>>

WireNext == FlushKey \/ FlushField \/ FlushEnd \/ Get \/ GetStep

WireSpec == WireInit /\ [][WireNext]_wireVars

-----------------------------------------------------------------------------
\* Properties.

Base == [unsigned |-> 10, int |-> 10, float |-> 10, hex |-> 16]

DigitValue(d, b) == CHOOSE n \in 0..(b - 1) : Digit(n) = d

\* What the first k digits of t say to base b.
Reading(t, b) ==
    LET val[k \in 0..Len(t)] ==
          IF k = 0 THEN 0 ELSE val[k - 1] * b + DigitValue(t[k], b)
    IN  val

\* t is v to base b, as one writes it.
Numeral(t, v, b) ==
    /\ t # <<>>
    /\ \A k \in DOMAIN t : \E n \in 0..(b - 1) : Digit(n) = t[k]
    /\ Len(t) > 1 => t[1] # "0"
    /\ Reading(t, b)[Len(t)] = v

\* t is the integer v.
Decimal(t, v) == IF v < 0 THEN t # <<>> /\ t[1] = "-" /\ Numeral(Tail(t), -v, 10)
                 ELSE Numeral(t, v, 10)

\* t is v / 10000 up to three digits behind the point, without -0.000.
Point(t, v) ==
    LET milli == (IF v < 0 THEN -v ELSE v) \div 10
        abs   == IF v < 0 /\ milli > 0 THEN Tail(t) ELSE t
        n     == Len(abs)
    IN  /\ v < 0 /\ milli > 0 => t # <<>> /\ t[1] = "-"
        /\ n >= 5 /\ abs[n - 3] = "."
        /\ Numeral(SubSeq(abs, 1, n - 4), milli \div 1000, 10)
        /\ Numeral(<<"1">> \o SubSeq(abs, n - 2, n), 1000 + (milli % 1000), 10)

(* Every number is written as one reads it, the least integer and a negative *)
(* fraction included; an unsigned number is one as long as its sign bit is   *)
(* not set, and a float as long as its integer part is an int32_t.           *)
Denotes ==
    \A i \in DOMAIN texts :
      LET f == log.fields[i]
          t == texts[i]
      IN  /\ f.type = "int" => Decimal(t, f.num)
          /\ f.type = "unsigned" /\ f.num < Half => Decimal(t, f.num)
          /\ f.type = "hex" => SubSeq(t, 1, 2) = <<"0", "x">>
                               /\ Numeral(SubSeq(t, 3, Len(t)), f.num, 16)
          /\ f.type = "float" /\ f.num < 10000 * Half32 /\ f.num > -10000 * Half32 =>
               Point(t, f.num)

(* A reader of the message gets the value that was written with its key, of  *)
(* the first field with that key, whatever the texts before it hold, the     *)
(* trace name as TraceID; and nothing for a key that is not in the log.      *)
GetsFirst ==
    (want # NULL /\ (result # NULL \/ idx = LogSize)) =>
      LET keys  == <<TraceID>> \o [i \in DOMAIN log.fields |-> log.fields[i].key]
          vals  == <<log.trace>> \o texts
          found == {i \in DOMAIN keys : keys[i] = want}
      IN  IF found = {} THEN result = NULL
          ELSE result = vals[CHOOSE i \in found : \A j \in found : i <= j]

\* The line of a log up to its first i fields.
Lines ==
    LET line[i \in 0..Len(texts)] ==
          IF i = 0 THEN TraceID \o log.trace
          ELSE line[i - 1] \o <<Comma>> \o log.fields[i].key \o texts[i]
    IN  line

(* A line of a file holds the trace name and every field of its log, in      *)
(* order; syslog shows the same line as long as no field is null.            *)
LineWhole ==
    (sent # NULL /\ format # "stream") =>
      LET whole == Lines[Len(texts)]
      IN  IF format = "file" THEN sent = Append(whole, Newline)
          ELSE (\A i \in DOMAIN log.fields : log.fields[i].type # "null") => sent = whole
=============================================================================
