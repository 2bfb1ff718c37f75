-------------------------------- MODULE Wire --------------------------------
(***************************************************************************)
(* A message from a command line to a line of the log: minilog-send        *)
(* (src/src/send), the datagram, parseSyslog() (src/src/server/parser) and *)
(* what the sinks make of it, escapeControlChars() and sanitizeUtf8()      *)
(* (src/src/server/output/log_file.cpp).  Datagrams of other senders are   *)
(* any bytes.                                                              *)
(*                                                                         *)
(* A text is a sequence of bytes and, above 255, of symbols that stand for *)
(* a longer piece of text: a PRI, a version, the name of a month, a time   *)
(* of day, the hexadecimal digits of a number.  The sink writes malformed  *)
(* messages too (include_malformed).                                       *)
(***************************************************************************)
EXTENDS Integers, Sequences, FiniteSets

CONSTANTS
    MaxField,       \* the limit of a header field of RFC 5424
    MaxTag,         \* the limit of APP[PID] in RFC 3164
    KMaxDatagramBytes,
    OptionSets,     \* the command lines, with what is on stdin and the day
    HostNames,      \* the names this machine may have
    RawDatagrams    \* the datagrams of other senders

LF == 10
CR == 13
TAB == 9
SP == 32
DASH == 45
COLON == 58
OPEN == 91
CLOSE == 93
BACKSLASH == 92
Hex2(c) == 256 + c
Hex4(c) == 512 + c
Pri(p) == 1000 + p
Version(v) == 2000 + v
Month == 3000
Clock == 3001       \* HH:MM:SS within its limits
BadClock == 3002    \* and past them
Stamp5424 == 3003   \* rfc5424Timestamp(): one word
OwnPid == <<52>>
Replacement == <<239, 191, 189>>

Nil == <<-1>>       \* std::nullopt

Texts == Seq(Nat)
CommandLines ==
    [help: BOOLEAN, host: STRING, port: Nat, facility: Nat, severity: Nat,
     hostname: Texts \cup {Nil}, app: Texts, pid: Texts \cup {Nil}, msgid: Texts \cup {Nil},
     rfc3164: BOOLEAN, words: Seq(Texts), stdin: Texts, day: 1..31]
ASSUME TextsAssumption ==
    /\ RawDatagrams \subseteq Texts /\ HostNames \subseteq Texts
    /\ OptionSets \subseteq CommandLines /\ OptionSets # {}

VARIABLES
    opts,           \* the command line
    pc,             \* where main() of minilog-send is, then its exit code
    lines,          \* the messages that are left to send
    sent,           \* the datagrams sent, each with the fields it was built of
    got             \* the datagrams received: what was parsed and written

vars == <<opts, pc, lines, sent, got>>

\* The position of the first c in s, past the end if there is none.
Find(s, c) ==
    LET at == {i \in DOMAIN s : s[i] = c}
    IN IF at = {} THEN Len(s) + 1 ELSE CHOOSE i \in at : \A j \in at : i <= j
From(s, i) == SubSeq(s, i, Len(s))
SkipSpace(s) == IF s # <<>> /\ s[1] = SP THEN Tail(s) ELSE s
Has(s, c) == \E i \in DOMAIN s : s[i] = c

\* A text read piece by piece: what is made of the piece at i, and how long
\* that piece is.
Scan(piece, step) ==
    LET from[i \in Nat] ==
            IF i >= Len(piece) THEN <<>> ELSE piece[i + 1] \o from[i + step[i + 1]]
    IN from[0]
-----------------------------------------------------------------------------
(***************************************************************************)
(* minilog-send.                                                           *)
(***************************************************************************)

\* isPrintableAsciiToken().
IsPrintableAsciiToken(s) == s # <<>> /\ \A i \in DOMAIN s : s[i] \in 33..126

Tag(f) == IF f.pid = Nil THEN f.app ELSE f.app \o <<OPEN>> \o f.pid \o <<CLOSE>>

\* Mutant: the characters that end a tag or its pid are let through.
TagCharactersAny(f) == TRUE

\* requireNoneOf().
TagCharacters(f) ==
    \A c \in {OPEN, CLOSE, COLON} : ~Has(f.app, c) /\ (f.pid = Nil \/ ~Has(f.pid, c))

\* validateFields().
ValidateFields(f) ==
    /\ f.facility \in 0..23 /\ f.severity \in 0..7
    /\ IsPrintableAsciiToken(f.hostname) /\ IsPrintableAsciiToken(f.app)
    /\ f.pid = Nil \/ IsPrintableAsciiToken(f.pid)
    /\ IF f.rfc3164 THEN TagCharacters(f) /\ f.msgid = Nil /\ Len(Tag(f)) <= MaxTag
       ELSE /\ \A v \in {f.hostname, f.app, f.pid, f.msgid} : Len(v) <= MaxField
            /\ f.msgid = Nil \/ IsPrintableAsciiToken(f.msgid)
    /\ f.message # <<>>

Nilable(v) == IF v = Nil THEN <<DASH>> ELSE v

\* formatRfc5424().
FormatRfc5424(f) ==
    <<Pri(f.facility * 8 + f.severity), Version(1), SP, Stamp5424, SP>> \o f.hostname \o <<SP>>
        \o f.app \o <<SP>> \o Nilable(f.pid) \o <<SP>> \o Nilable(f.msgid)
        \o <<SP, DASH, SP>> \o f.message

\* rfc3164Timestamp(): the day is padded with a space.
Rfc3164Timestamp(day) ==
    <<Month, SP>> \o (IF day < 10 THEN <<SP, 48 + day>> ELSE <<48 + (day \div 10), 48 + (day % 10)>>)
        \o <<SP, Clock>>

\* formatRfc3164().
FormatRfc3164(f) ==
    <<Pri(f.facility * 8 + f.severity)>> \o Rfc3164Timestamp(opts.day) \o <<SP>> \o f.hostname \o <<SP>>
        \o Tag(f) \o <<COLON, SP>> \o f.message

\* buildDatagram(): empty where it throws.
BuildDatagram(f) ==
    LET datagram == IF f.rfc3164 THEN FormatRfc3164(f) ELSE FormatRfc5424(f)
    IN IF ValidateFields(f) /\ Len(datagram) <= KMaxDatagramBytes THEN {datagram} ELSE {}

\* splitLines().
SplitLines(text) ==
    LET step == [i \in DOMAIN text |-> Find(From(text, i), LF)]
        line(i) == SubSeq(text, i, i + step[i] - 2)
        cut(i) == IF line(i) # <<>> /\ line(i)[Len(line(i))] = CR
                  THEN SubSeq(line(i), 1, Len(line(i)) - 1) ELSE line(i)
    IN Scan([i \in DOMAIN text |-> IF cut(i) = <<>> THEN <<>> ELSE <<cut(i)>>], step)

\* nameOrNumber() and parsePort(): a number within its limits.
NameOrNumber(value, max) == value \in 0..max
ParsePort(value) == value \in 1..65535

\* The words of the command line as one message.
Join(words) ==
    Scan([i \in DOMAIN words |-> IF \A j \in 1..(i - 1) : words[j] = <<>> THEN words[i]
                                 ELSE <<SP>> \o words[i]],
         [i \in DOMAIN words |-> 1])

\* parseSendOptions(): whether it returns.
ParseSendOptions ==
    \/ opts.help
    \/ /\ opts.host # "" /\ ParsePort(opts.port)
       /\ NameOrNumber(opts.facility, 23) /\ NameOrNumber(opts.severity, 7)
       /\ opts.words # <<>> => Join(opts.words) # <<>>

Fields(message) ==
    [facility |-> opts.facility, severity |-> opts.severity, hostname |-> opts.hostname,
     app |-> opts.app, pid |-> IF opts.pid = Nil THEN OwnPid ELSE opts.pid,
     msgid |-> opts.msgid, rfc3164 |-> opts.rfc3164, message |-> message]

Exit(code) == pc' = code
ToUsage == Exit("exit 2")

\* main() as far as the hostname.
Options ==
    /\ pc = "options"
    /\ CASE ~ParseSendOptions -> ToUsage /\ UNCHANGED opts
         [] ParseSendOptions /\ opts.help -> Exit("exit 0") /\ UNCHANGED opts
         [] OTHER -> \/ opts.hostname # Nil /\ pc' = "fields" /\ UNCHANGED opts
                     \/ opts.hostname = Nil /\ Exit("exit 1") /\ UNCHANGED opts
                     \/ /\ opts.hostname = Nil /\ pc' = "fields"
                        /\ \E name \in HostNames : opts' = [opts EXCEPT !.hostname = name]
    /\ UNCHANGED <<lines, sent, got>>

\* The fields, and a message of the command line, are checked before anything
\* is resolved.
CheckFields ==
    /\ pc = "fields"
    /\ IF IF opts.words # <<>> THEN BuildDatagram(Fields(Join(opts.words))) # {}
          ELSE ValidateFields(Fields(<<120>>))
       THEN pc' = "resolve" ELSE ToUsage
    /\ UNCHANGED <<opts, lines, sent, got>>

\* The constructor of Sender, and the messages.
Resolve ==
    /\ pc = "resolve"
    /\ \/ Exit("exit 1") /\ UNCHANGED lines
       \/ IF opts.words # <<>> THEN lines' = <<Join(opts.words)>> /\ pc' = "send"
          ELSE /\ lines' = SplitLines(opts.stdin)
               /\ pc' = IF lines' = <<>> THEN "exit 2" ELSE "send"
    /\ UNCHANGED <<opts, sent, got>>

\* Mutant: a line that cannot be sent is skipped.
AfterBadLineGoOn == IF Len(lines) = 1 THEN "exit 0" ELSE "send"

\* A line that cannot be sent ends the run.
AfterBadLine == "exit 1"

\* One message of the loop: built and sent, or not.
SendLine ==
    /\ pc = "send"
    /\ LET f == Fields(Head(lines))
       IN \/ /\ pc' = AfterBadLine /\ UNCHANGED sent
          \/ \E datagram \in BuildDatagram(f) :
                /\ sent' = Append(sent, [fields |-> f, datagram |-> datagram])
                /\ pc' = IF Len(lines) = 1 THEN "exit 0" ELSE "send"
    /\ lines' = Tail(lines)
    /\ UNCHANGED <<opts, got>>
-----------------------------------------------------------------------------
(***************************************************************************)
(* parseSyslog().                                                          *)
(***************************************************************************)

\* parsePri(): -1 where there is none.
ParsePri(data) == IF data # <<>> /\ data[1] \in Pri(0)..Pri(191) THEN data[1] - Pri(0) ELSE -1

\* parseNilable(): the next field, and what is behind it.
ParseNilable(s) ==
    LET token == SubSeq(s, 1, Find(s, SP) - 1)
    IN IF s = <<>> \/ token = <<DASH>> THEN Nil ELSE token
Behind(s) == From(s, Find(s, SP) + 1)

\* applyPri() and the fields of a SyslogMessage.
Message(protocol, pri, ts, host, app, pid, msgid, text) ==
    [protocol |-> protocol, facility |-> IF pri < 0 THEN -1 ELSE pri \div 8,
     severity |-> IF pri < 0 THEN -1 ELSE pri % 8, timestamp |-> ts, hostname |-> host,
     app |-> app, pid |-> pid, msgid |-> msgid, message |-> text]

\* tryRfc5424(): empty where it is none.
TryRfc5424(data) ==
    LET pri == ParsePri(data)
        sv == From(data, 4)
        host == Behind(sv)
        app == Behind(host)
        pid == Behind(app)
        msgid == Behind(pid)
    IN IF \/ pri < 0 \/ Len(data) < 3 \/ data[2] # Version(1) \/ data[3] # SP
          \/ Cardinality({i \in DOMAIN sv : sv[i] = SP}) < 4
       THEN {}
       ELSE {Message("RFC5424", pri, ParseNilable(sv), ParseNilable(host), ParseNilable(app),
                     ParseNilable(pid), ParseNilable(msgid), Behind(msgid))}

\* parse3164Tag(): the tag, its pid, and the message behind them.
Parse3164Tag(sv) ==
    LET colon == Find(sv, COLON)
        tag == SubSeq(sv, 1, colon - 1)
        bracket == Find(tag, OPEN)
        opt(s) == IF s = <<>> THEN Nil ELSE s
        text == SkipSpace(From(sv, colon + 1))
    IN IF colon > Len(sv) \/ Find(sv, SP) < colon
       THEN [app |-> Nil, pid |-> Nil, text |-> sv]
       ELSE IF bracket <= Len(tag) /\ tag[Len(tag)] = CLOSE
       THEN [app |-> opt(SubSeq(tag, 1, bracket - 1)),
             pid |-> opt(SubSeq(tag, bracket + 1, Len(tag) - 1)), text |-> text]
       ELSE [app |-> opt(tag), pid |-> Nil, text |-> text]

\* parse3164Timestamp(): the length of a timestamp at the start, 0 for none.
Parse3164Timestamp(sv) ==
    LET past(i, set) == CHOOSE j \in i..(Len(sv) + 1) :
                            /\ \A k \in i..(j - 1) : sv[k] \in set
                            /\ j <= Len(sv) => sv[j] \notin set
        day0 == past(2, {SP})
        day1 == past(day0, 48..57)
        clock == past(day1, {SP})
        day == IF day1 = day0 + 1 THEN sv[day0] - 48
               ELSE (sv[day0] - 48) * 10 + sv[day0 + 1] - 48
    IN IF /\ sv # <<>> /\ sv[1] = Month /\ day0 > 2
          /\ day1 - day0 \in 1..2 /\ day \in 1..31
          /\ clock > day1 /\ clock <= Len(sv) /\ sv[clock] = Clock
       THEN clock ELSE 0

\* tryRfc3164(): empty where it is none.
TryRfc3164(data) ==
    LET pri == ParsePri(data)
        ts == Parse3164Timestamp(Tail(data))
        sv == SkipSpace(From(data, ts + 2))
        host == SubSeq(sv, 1, Find(sv, SP) - 1)
        tag == Parse3164Tag(Behind(sv))
    IN IF pri < 0 \/ ts = 0 THEN {}
       ELSE {Message("RFC3164", pri, SubSeq(data, 2, ts + 1), IF sv = <<>> THEN Nil ELSE host,
                     tag.app, tag.pid, Nil, tag.text)}

\* The CR and LF at the end of a datagram go.
Stripped(data) ==
    LET keep == {i \in DOMAIN data : data[i] \notin {CR, LF}}
    IN IF keep = {} THEN <<>> ELSE SubSeq(data, 1, CHOOSE i \in keep : \A j \in keep : j <= i)

ParseSyslog(datagram) ==
    LET data == Stripped(datagram)
        tries == IF TryRfc5424(data) # {} THEN TryRfc5424(data) ELSE TryRfc3164(data)
    IN IF tries = {} THEN Message("UNKNOWN", -1, Nil, Nil, Nil, Nil, Nil, data)
       ELSE CHOOSE msg \in tries : TRUE
-----------------------------------------------------------------------------
(***************************************************************************)
(* The sinks.                                                              *)
(***************************************************************************)

\* The length of a sequence by its first byte, 0 for an invalid one, and the
\* bounds of its second byte.
SequenceLength(c) ==
    CASE c \in 194..223 -> 2 [] c \in 224..239 -> 3 [] c \in 240..244 -> 4 [] OTHER -> 0
SecondByte(c) ==
    CASE c = 224 -> 160..191 [] c = 237 -> 128..159 [] c = 240 -> 144..191
      [] c = 244 -> 128..143 [] OTHER -> 128..191

\* Mutant: the continuation bytes are not looked at one by one.
SequenceAtLead(s, i) ==
    LET len == SequenceLength(s[i])
    IN len > 0 /\ i + len - 1 <= Len(s) /\ s[i + 1] \in SecondByte(s[i])

\* A valid sequence of more than one byte at i.
SequenceAt(s, i) ==
    LET len == SequenceLength(s[i])
    IN /\ len > 0 /\ i + len - 1 <= Len(s)
       /\ s[i + 1] \in SecondByte(s[i])
       /\ \A j \in 2..(len - 1) : s[i + j] \in 128..191

\* sanitizeUtf8().
Ascii(c) == c \in 0..127 \/ c > 255
SanitizeUtf8(s) ==
    LET step == [i \in DOMAIN s |->
                    IF ~Ascii(s[i]) /\ SequenceAt(s, i) THEN SequenceLength(s[i]) ELSE 1]
    IN Scan([i \in DOMAIN s |-> IF Ascii(s[i]) \/ SequenceAt(s, i)
                                THEN SubSeq(s, i, i + step[i] - 1) ELSE Replacement], step)

\* A C1 control as UTF-8 has it.
C1At(s, i) == s[i] = 194 /\ i < Len(s) /\ s[i + 1] \in 128..159

\* Mutant: the backslash is taken for an ordinary character.
EscapedNotBackslash(c) ==
    CASE c = LF -> <<BACKSLASH, 110>> [] c = CR -> <<BACKSLASH, 114>>
      [] (c \in 0..31 /\ c \notin {TAB, LF, CR}) \/ c = 127 -> <<BACKSLASH, 120, Hex2(c)>>
      [] OTHER -> <<c>>

\* One byte of escapeControlChars().
Escaped(c) ==
    CASE c = BACKSLASH -> <<BACKSLASH, BACKSLASH>>
      [] c = LF -> <<BACKSLASH, 110>> [] c = CR -> <<BACKSLASH, 114>>
      [] (c \in 0..31 /\ c \notin {TAB, LF, CR}) \/ c = 127 -> <<BACKSLASH, 120, Hex2(c)>>
      [] OTHER -> <<c>>

\* escapeControlChars().
EscapeControlChars(s) ==
    Scan([i \in DOMAIN s |-> IF C1At(s, i) THEN <<BACKSLASH, 117, Hex4(s[i + 1])>>
                             ELSE Escaped(s[i])],
         [i \in DOMAIN s |-> IF C1At(s, i) THEN 2 ELSE 1])

\* toJsonlRecord(): every text goes through sanitizeUtf8(), or is null.
ToJsonlRecord(msg) ==
    [k \in {"timestamp", "hostname", "app", "pid", "msgid", "message"} |->
        IF msg[k] = Nil THEN Nil ELSE SanitizeUtf8(msg[k])]

\* A datagram arrives, and is parsed and written to both files of a sink.
Received(datagram, from) ==
    [from |-> from, raw |-> Stripped(datagram), msg |-> ParseSyslog(datagram),
     text |-> EscapeControlChars(Stripped(datagram)),
     jsonl |-> ToJsonlRecord(ParseSyslog(datagram))]
Arrive(datagram, from) == got' = Append(got, Received(datagram, from))

\* From minilog-send: any of those sent, none or some, in any order.
Receive ==
    /\ Len(got) < Len(sent)
    /\ \E i \in DOMAIN sent : Arrive(sent[i].datagram, i)
    /\ UNCHANGED <<opts, pc, lines, sent>>

\* From another sender.
ReceiveRaw ==
    /\ pc = "other" /\ got = <<>>
    /\ \E datagram \in RawDatagrams : Arrive(datagram, 0)
    /\ UNCHANGED <<opts, pc, lines, sent>>
-----------------------------------------------------------------------------
\* minilog-send is about to run, or other programs send.
Init ==
    /\ \/ pc = "options" /\ opts \in OptionSets
       \/ pc = "other" /\ opts = CHOOSE o \in OptionSets : TRUE
    /\ lines = <<>> /\ sent = <<>> /\ got = <<>>

Next == Options \/ CheckFields \/ Resolve \/ SendLine \/ Receive \/ ReceiveRaw

Spec == Init /\ [][Next]_vars
-----------------------------------------------------------------------------
(***************************************************************************)
(* Properties.                                                             *)
(***************************************************************************)

\* What minilog-send agrees to send, minilog reads as it was given: no
\* character of a field moves text into another one.  In RFC 5424 a "-" reads
\* as no value and the message keeps the structured data in front of it; the
\* CR and LF at the end are cut.
RoundTrip ==
    \A i \in DOMAIN got : got[i].from > 0 =>
        LET f == sent[got[i].from].fields
            msg == got[i].msg
            read(v) == IF v = <<DASH>> /\ ~f.rfc3164 THEN Nil ELSE v
        IN /\ msg.protocol = (IF f.rfc3164 THEN "RFC3164" ELSE "RFC5424")
           /\ msg.facility = f.facility /\ msg.severity = f.severity
           /\ msg.hostname = read(f.hostname) /\ msg.app = read(f.app)
           /\ msg.pid = read(f.pid) /\ msg.msgid = read(f.msgid)
           /\ msg.message = Stripped(IF f.rfc3164 THEN f.message
                                     ELSE <<DASH, SP>> \o f.message)

\* The reading of a line of the text file back into bytes.
Unescape(line) ==
    LET short(i) == line[i] = BACKSLASH /\ i < Len(line) /\ line[i + 1] \in {BACKSLASH, 110, 114}
        long(i) == line[i] = BACKSLASH /\ i + 1 < Len(line) /\ line[i + 1] \in {120, 117}
        shortMeans(c) == IF c = 110 THEN <<LF>> ELSE IF c = 114 THEN <<CR>> ELSE <<BACKSLASH>>
        longMeans(c, d) == IF c = 120 THEN <<d - Hex2(0)>> ELSE <<194, d - Hex4(0)>>
    IN Scan([i \in DOMAIN line |-> IF short(i) THEN shortMeans(line[i + 1])
                                   ELSE IF long(i) THEN longMeans(line[i + 1], line[i + 2])
                                   ELSE <<line[i]>>],
            [i \in DOMAIN line |-> IF short(i) THEN 2 ELSE IF long(i) THEN 3 ELSE 1])

\* A datagram is exactly one line of the text file, without a control
\* character that a terminal would act on, and nothing of it is lost: the
\* bytes can be read back from the line.
OneLinePerDatagram ==
    \A i \in DOMAIN got :
        LET text == got[i].text
        IN /\ \A j \in DOMAIN text :
                (text[j] < 32 => text[j] = TAB) /\ text[j] # 127 /\ ~C1At(text, j)
           /\ Unescape(text) = got[i].raw

\* The well-formed sequence of len bytes at i (Table 3-7 of Unicode).
WellFormedAt(s, i, len) ==
    /\ i + len - 1 <= Len(s)
    /\ \A j \in 1..(len - 1) : s[i + j] \in 128..191
    /\ \/ len = 2 /\ s[i] \in 194..223
       \/ /\ len = 3 /\ s[i] \in 224..239
          /\ s[i] = 224 => s[i + 1] >= 160
          /\ s[i] = 237 => s[i + 1] < 160
       \/ /\ len = 4 /\ s[i] \in 240..244
          /\ s[i] = 240 => s[i + 1] >= 144
          /\ s[i] = 244 => s[i + 1] < 144

\* Every byte is ASCII or one of a well-formed sequence; since no first byte
\* can be a later one, the sequences do not overlap.
WellFormed(s) ==
    \A i \in DOMAIN s :
        \/ Ascii(s[i])
        \/ \E len \in 2..4 : \E k \in 0..(len - 1) : k < i /\ WellFormedAt(s, i - k, len)

\* Every text of a JSONL record is well-formed UTF-8 whatever the datagram
\* was, and one that was well-formed is unchanged.
JsonlIsUtf8 ==
    \A i \in DOMAIN got : \A k \in DOMAIN got[i].jsonl :
        got[i].jsonl[k] # Nil =>
            /\ WellFormed(got[i].jsonl[k])
            /\ WellFormed(got[i].msg[k]) => got[i].jsonl[k] = got[i].msg[k]

\* The messages a command line asks for.
Wanted == IF opts.words # <<>> THEN <<Join(opts.words)>> ELSE SplitLines(opts.stdin)

\* The exit status of minilog-send: 0 only if every message has been sent, in
\* order; 2 only if nothing has; and whatever it is, what was sent is the
\* messages up to the first that could not be.
ExitTruthful ==
    /\ Len(sent) <= Len(Wanted)
    /\ \A i \in DOMAIN sent : sent[i].fields.message = Wanted[i]
    /\ pc = "exit 0" /\ ~opts.help => Len(sent) = Len(Wanted)
    /\ pc = "exit 1" => Len(sent) < Len(Wanted) \/ sent = <<>>
    /\ pc = "exit 2" => sent = <<>>
=============================================================================
