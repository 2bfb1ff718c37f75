----------------------------- MODULE WireProofs -----------------------------
(***************************************************************************)
(* Proofs about module Wire: what minilog-send reports, what becomes of    *)
(* any datagram in the two files of a sink, and what the parser makes of   *)
(* the datagrams of minilog-send, for texts of any length.                 *)
(***************************************************************************)
EXTENDS Wire, SequenceTheorems, FiniteSetTheorems, WellFoundedInduction, TLAPS

(***************************************************************************)
(* Induction, and the reading of a text piece by piece.                    *)
(***************************************************************************)

\* A set of numbers has a least one.
LEMMA LeastNat ==
    ASSUME NEW T \in SUBSET Nat, T # {}
    PROVE  \E n \in T : \A m \in T : n <= m
<1> DEFINE R == {ss \in Nat \X Nat : ss[1] < ss[2]}
<1>1. IsWellFoundedOn(R, Nat)
  BY NatLessThanWellFounded DEF OpToRel
<1>2. \A x, y \in Nat : <<y, x>> \in R <=> y < x
  OBVIOUS
<1> HIDE DEF R
<1>3. PICK x \in T : \A y \in T : ~(<<y, x>> \in R)
  BY <1>1, WFMin
<1>4. \A y \in T : ~(y < x)
  BY <1>2, <1>3
<1> QED
  BY <1>4

\* A set with 0 and every successor has every number.
LEMMA NatInd ==
    ASSUME NEW T, 0 \in T, \A n \in Nat : n \in T => n + 1 \in T
    PROVE  Nat \subseteq T
<1> DEFINE C == Nat \ T
<1> SUFFICES ASSUME C # {} PROVE FALSE
  OBVIOUS
<1>1. PICK n \in C : \A m \in C : n <= m
  BY LeastNat
<1> QED
  BY <1>1

\* The function that Scan() runs through: what is made of a text from i on.
Walk(f, piece, step) ==
    \A i \in Nat : f[i] = IF i >= Len(piece) THEN <<>> ELSE piece[i + 1] \o f[i + step[i + 1]]

\* The same as one equation, which defines it.
WalkOf(f, piece, step) ==
    f = [i \in Nat |-> IF i >= Len(piece) THEN <<>> ELSE piece[i + 1] \o f[i + step[i + 1]]]

\* The pieces of a text and their lengths.
Pieces(piece, step) ==
    /\ Len(piece) \in Nat
    /\ \A i \in 1..Len(piece) : step[i] \in Nat \ {0}

\* There is such a function: it is built up from the end of the text.
LEMMA WalkExists ==
    ASSUME NEW piece, NEW step, Pieces(piece, step)
    PROVE  \E f : WalkOf(f, piece, step)
<1> DEFINE n == Len(piece)
           Made(i, rest) == piece[i + 1] \o rest
           Sat(g, m) == g = [i \in {k \in Nat : k + m >= n} |->
                               IF i >= n THEN <<>> ELSE Made(i, g[i + step[i + 1]])]
           T == {m \in Nat : \E g : Sat(g, m)}
<1>0. n \in Nat /\ \A i \in 1..n : step[i] \in Nat \ {0}
  BY DEF Pieces
<1> SUFFICES \E f : f = [i \in Nat |-> IF i >= n THEN <<>> ELSE Made(i, f[i + step[i + 1]])]
  BY Zenon DEF WalkOf
<1> HIDE DEF n, Made
<1>1. 0 \in T
  <2>1. Sat([i \in {k \in Nat : k + 0 >= n} |-> <<>>], 0)
    BY <1>0
  <2> QED
    BY <2>1
<1>2. ASSUME NEW m \in Nat, m \in T
      PROVE  m + 1 \in T
  <2>1. PICK g : Sat(g, m)
    BY <1>2
  <2> DEFINE D == {k \in Nat : k + (m + 1) >= n}
             h == [i \in D |-> IF i + m >= n THEN g[i] ELSE Made(i, g[i + step[i + 1]])]
  <2>2. \A i \in Nat : i + m >= n =>
            g[i] = IF i >= n THEN <<>> ELSE Made(i, g[i + step[i + 1]])
    BY <2>1
  <2>3. ASSUME NEW i \in D
        PROVE  h[i] = IF i >= n THEN <<>> ELSE Made(i, h[i + step[i + 1]])
    <3>1. CASE i >= n
      BY <1>0, <2>2, <3>1
    <3>2. CASE i < n
      <4>1. step[i + 1] \in Nat \ {0}
        BY <1>0, <3>2
      <4> DEFINE j == i + step[i + 1]
      <4>2. j \in D /\ j + m >= n
        BY <1>0, <4>1
      <4> HIDE DEF j
      <4>3. h[j] = g[j]
        BY <4>2
      <4>4. h[i] = Made(i, g[j])
        BY <1>0, <2>2, <3>2 DEF j
      <4> QED
        BY <1>0, <3>2, <4>3, <4>4 DEF j
    <3> QED
      BY <1>0, <3>1, <3>2
  <2>4. Sat(h, m + 1)
    BY <2>3
  <2> HIDE DEF h, Sat
  <2> QED
    BY <2>4
<1> HIDE DEF T
<1>3. n \in T
  BY <1>0, <1>1, <1>2, NatInd
<1>4. PICK g : Sat(g, n)
  BY <1>3 DEF T
<1>5. g = [i \in Nat |-> IF i >= n THEN <<>> ELSE Made(i, g[i + step[i + 1]])]
  <2>1. {k \in Nat : k + n >= n} = Nat
    BY <1>0
  <2> QED
    BY <1>4, <2>1
<1> QED
  BY <1>5

\* Scan() is the value of that function for the whole text.
LEMMA ScanWalks ==
    ASSUME NEW piece, NEW step, Pieces(piece, step)
    PROVE  \E f : Walk(f, piece, step) /\ Scan(piece, step) = f[0]
<1> DEFINE from == CHOOSE g : WalkOf(g, piece, step)
<1>2. Scan(piece, step) = from[0]
  BY Zenon DEF Scan, WalkOf
<1>3. WalkOf(from, piece, step)
  BY WalkExists, Zenon
<1> HIDE DEF from
<1>4. Walk(from, piece, step)
  BY <1>3, Zenon DEF Walk, WalkOf
<1> QED
  BY <1>2, <1>4, Zenon

\* Induction along the pieces: Q relates a position to what is made of the
\* text from there on.
LEMMA WalkInd ==
    ASSUME NEW piece, NEW step, Pieces(piece, step), NEW f, Walk(f, piece, step), NEW Q,
           \A i \in Nat : i >= Len(piece) => <<i, <<>>>> \in Q,
           \A i \in 0..(Len(piece) - 1) :
               \A rest : <<i + step[i + 1], rest>> \in Q => <<i, piece[i + 1] \o rest>> \in Q
    PROVE  \A i \in Nat : <<i, f[i]>> \in Q
<1> DEFINE n == Len(piece)
           Made(i, rest) == piece[i + 1] \o rest
           T == {m \in Nat : \A i \in Nat : i + m >= n => <<i, f[i]>> \in Q}
<1>0. /\ n \in Nat /\ \A i \in 1..n : step[i] \in Nat \ {0}
      /\ \A i \in Nat : f[i] = IF i >= n THEN <<>> ELSE Made(i, f[i + step[i + 1]])
      /\ \A i \in Nat : i >= n => <<i, <<>>>> \in Q
      /\ \A i \in 0..(n - 1) :
            \A rest : <<i + step[i + 1], rest>> \in Q => <<i, Made(i, rest)>> \in Q
  BY Zenon DEF Pieces, Walk
<1> HIDE DEF n, Made
<1>1. 0 \in T
  BY <1>0
<1>2. ASSUME NEW m \in Nat, m \in T
      PROVE  m + 1 \in T
  <2>1. ASSUME NEW i \in Nat, i + (m + 1) >= n
        PROVE  <<i, f[i]>> \in Q
    <3>1. CASE i >= n
      BY <1>0, <3>1
    <3>2. CASE i < n
      <4>1. step[i + 1] \in Nat \ {0}
        BY <1>0, <3>2
      <4> DEFINE j == i + step[i + 1]
      <4>2. j \in Nat /\ j + m >= n
        BY <1>0, <2>1, <4>1
      <4> HIDE DEF j
      <4>3. <<j, f[j]>> \in Q
        BY <1>2, <4>2
      <4>4. f[i] = Made(i, f[j])
        BY <1>0, <3>2 DEF j
      <4>5. i \in 0..(n - 1)
        BY <1>0, <3>2
      <4> QED
        BY <1>0, <4>3, <4>4, <4>5, Zenon DEF j
    <3> QED
      BY <1>0, <3>1, <3>2
  <2> QED
    BY <2>1
<1> HIDE DEF T
<1>3. n \in T
  BY <1>0, <1>1, <1>2, NatInd
<1> QED
  BY <1>0, <1>3 DEF T

\* What is made of a text is a sequence when each piece is.
LEMMA ScanIsSeq ==
    ASSUME NEW piece, NEW step, Pieces(piece, step), NEW S,
           \A i \in 1..Len(piece) : piece[i] \in Seq(S)
    PROVE  Scan(piece, step) \in Seq(S)
<1> DEFINE Q == {p \in Nat \X Seq(S) : TRUE}
<1>1. PICK f : Walk(f, piece, step) /\ Scan(piece, step) = f[0]
  BY ScanWalks
<1>2. ASSUME NEW i \in Nat, i >= Len(piece)
      PROVE  <<i, <<>>>> \in Q
  BY EmptySeq
<1>3. ASSUME NEW i \in 0..(Len(piece) - 1), NEW rest, <<i + step[i + 1], rest>> \in Q
      PROVE  <<i, piece[i + 1] \o rest>> \in Q
  <2>1. Len(piece) \in Nat
    BY DEF Pieces
  <2>2. i \in Nat /\ i + 1 \in 1..Len(piece)
    BY <2>1
  <2>3. rest \in Seq(S)
    BY <1>3
  <2>4. piece[i + 1] \o rest \in Seq(S)
    BY <2>2, <2>3, ConcatProperties
  <2> QED
    BY <2>2, <2>4
<1> HIDE DEF Q
<1>4. <<0, f[0]>> \in Q
  BY <1>1, <1>2, <1>3, WalkInd
<1> QED
  BY <1>1, <1>4 DEF Q
-----------------------------------------------------------------------------
(***************************************************************************)
(* minilog-send.                                                           *)
(***************************************************************************)

\* Find() is the first place of a character, or the one past the end.
LEMMA FindIs ==
    ASSUME NEW S, NEW s \in Seq(S), NEW c
    PROVE  /\ Find(s, c) \in 1..(Len(s) + 1)
           /\ Find(s, c) <= Len(s) => s[Find(s, c)] = c
           /\ \A i \in 1..Len(s) : i < Find(s, c) => s[i] # c
<1> DEFINE at == {i \in DOMAIN s : s[i] = c}
<1>0. Len(s) \in Nat /\ DOMAIN s = 1..Len(s)
  BY LenProperties
<1>1. CASE at = {}
  BY <1>0, <1>1 DEF Find
<1>2. CASE at # {}
  <2>1. \E i \in at : \A j \in at : i <= j
    <3>1. at \in SUBSET Nat
      BY <1>0
    <3> HIDE DEF at
    <3> QED
      BY <1>2, <3>1, LeastNat
  <2>2. Find(s, c) = CHOOSE i \in at : \A j \in at : i <= j
    BY <1>2 DEF Find
  <2>3. Find(s, c) \in at /\ \A j \in at : Find(s, c) <= j
    BY <2>1, <2>2
  <2> QED
    BY <1>0, <2>3
<1> QED
  BY <1>1, <1>2

\* A part of a text is a text.
LEMMA SubText ==
    ASSUME NEW s \in Texts, NEW m \in 1..(Len(s) + 1), NEW n \in 0..Len(s)
    PROVE  SubSeq(s, m, n) \in Texts /\ Len(SubSeq(s, m, n)) = IF m <= n THEN n - m + 1 ELSE 0
<1>0. Len(s) \in Nat
  BY LenProperties DEF Texts
<1>1. \A i \in m..n : s[i] \in Nat
  BY <1>0, ElementOfSeq DEF Texts
<1> QED
  BY <1>0, <1>1, SubSeqProperties DEF Texts

\* splitLines() makes texts of a text.
LEMMA SplitLinesIsSeq ==
    ASSUME NEW text \in Texts
    PROVE  SplitLines(text) \in Seq(Texts)
<1> DEFINE step == [i \in DOMAIN text |-> Find(From(text, i), LF)]
           line(i) == SubSeq(text, i, i + step[i] - 2)
           cut(i) == IF line(i) # <<>> /\ line(i)[Len(line(i))] = CR
                     THEN SubSeq(line(i), 1, Len(line(i)) - 1) ELSE line(i)
           piece == [i \in DOMAIN text |-> IF cut(i) = <<>> THEN <<>> ELSE <<cut(i)>>]
<1>0. Len(text) \in Nat /\ DOMAIN text = 1..Len(text)
  BY LenProperties DEF Texts
<1>1. ASSUME NEW i \in 1..Len(text)
      PROVE  step[i] \in 1..(Len(text) - i + 2)
  <2>1. From(text, i) \in Texts /\ Len(From(text, i)) = Len(text) - i + 1
    BY <1>0, SubText DEF From
  <2>2. Find(From(text, i), LF) \in 1..(Len(From(text, i)) + 1)
    BY <2>1, FindIs DEF Texts
  <2> QED
    BY <1>0, <2>1, <2>2
<1> HIDE DEF step
<1>2. ASSUME NEW i \in 1..Len(text)
      PROVE  cut(i) \in Texts
  <2>1. line(i) \in Texts
    BY <1>0, <1>1, SubText
  <2> HIDE DEF line
  <2>2. Len(line(i)) \in Nat /\ (line(i) # <<>> => Len(line(i)) >= 1)
    BY <2>1, LenProperties, EmptySeq DEF Texts
  <2>3. line(i) # <<>> => SubSeq(line(i), 1, Len(line(i)) - 1) \in Texts
    BY <2>1, <2>2, SubText
  <2> QED
    BY <2>1, <2>3
<1> HIDE DEF cut
<1>3. Len(piece) = Len(text)
  BY <1>0
<1>4. ASSUME NEW i \in 1..Len(piece)
      PROVE  piece[i] \in Seq(Texts)
  <2>1. piece[i] = IF cut(i) = <<>> THEN <<>> ELSE <<cut(i)>>
    BY <1>0, <1>3
  <2>2. cut(i) \in Texts
    BY <1>2, <1>3
  <2> QED
    BY <2>1, <2>2
<1>5. SplitLines(text) = Scan(piece, step)
  BY Zenon DEF SplitLines, step, piece, cut, line
<1>6. Pieces(piece, step)
  BY <1>0, <1>1, <1>3 DEF Pieces
<1> HIDE DEF piece
<1> QED
  BY <1>4, <1>5, <1>6, ScanIsSeq

\* The words of a command line make a text.
LEMMA JoinIsText ==
    ASSUME NEW words \in Seq(Texts)
    PROVE  Join(words) \in Texts
<1> DEFINE piece == [i \in DOMAIN words |->
                       IF \A j \in 1..(i - 1) : words[j] = <<>> THEN words[i]
                       ELSE <<SP>> \o words[i]]
           step == [i \in DOMAIN words |-> 1]
<1>0. Len(words) \in Nat /\ DOMAIN words = 1..Len(words)
  BY LenProperties
<1>1. ASSUME NEW i \in 1..Len(words)
      PROVE  piece[i] \in Texts
  <2>1. words[i] \in Texts /\ <<SP>> \in Texts
    BY ElementOfSeq DEF Texts, SP
  <2>2. <<SP>> \o words[i] \in Texts
    BY <2>1, ConcatProperties DEF Texts
  <2>3. piece[i] = words[i] \/ piece[i] = <<SP>> \o words[i]
    BY <1>0
  <2> QED
    BY <2>1, <2>2, <2>3
<1>2. Len(piece) = Len(words) /\ \A i \in 1..Len(words) : step[i] = 1
  BY <1>0
<1>3. Join(words) = Scan(piece, step)
  BY DEF Join
<1> HIDE DEF piece, step
<1>4. Pieces(piece, step)
  BY <1>0, <1>2 DEF Pieces
<1> QED
  BY <1>1, <1>2, <1>3, <1>4, ScanIsSeq DEF Texts

\* The messages of a command line.
LEMMA WantedIsSeq == opts \in CommandLines => Wanted \in Seq(Texts)
<1> SUFFICES ASSUME opts \in CommandLines PROVE Wanted \in Seq(Texts)
  OBVIOUS
<1>1. opts.words \in Seq(Texts) /\ opts.stdin \in Texts
  BY DEF CommandLines
<1>2. SplitLines(opts.stdin) \in Seq(Texts)
  BY <1>1, SplitLinesIsSeq
<1>3. <<Join(opts.words)>> \in Seq(Texts)
  BY <1>1, JoinIsText
<1> QED
  BY <1>2, <1>3 DEF Wanted

\* The fields of a datagram, as main() puts them together, are texts.
FieldSets ==
    [facility: Nat, severity: Nat, hostname: Texts \cup {Nil}, app: Texts,
     pid: Texts \cup {Nil}, msgid: Texts \cup {Nil}, rfc3164: BOOLEAN, message: Texts]
Places == {"options", "fields", "resolve", "send", "exit 0", "exit 1", "exit 2", "other"}

\* What has been sent is the first of the messages, and the lines are the
\* others.
Told == Len(sent) <= Len(Wanted) /\ \A i \in 1..Len(sent) : sent[i].fields.message = Wanted[i]
Left ==
    /\ lines \in Seq(Texts) /\ Len(lines) > 0
    /\ Len(sent) + Len(lines) = Len(Wanted)
    /\ \A i \in 1..Len(lines) : lines[i] = Wanted[Len(sent) + i]

\* Where minilog-send is, and how the messages divide into those sent and
\* those left to send.
SendInv ==
    /\ opts \in CommandLines /\ pc \in Places
    /\ sent \in Seq([fields: FieldSets, datagram: Texts])
    /\ pc \in {"options", "fields", "resolve", "other", "exit 2"} => Len(sent) = 0
    /\ pc = "send" => Left
    /\ pc = "exit 1" => Len(sent) < Len(Wanted) \/ Len(sent) = 0
    /\ pc = "exit 0" /\ ~opts.help => Len(sent) = Len(Wanted)
    /\ Told

\* The two formats give texts.
LEMMA FormatsAreTexts ==
    ASSUME NEW f \in FieldSets, opts \in CommandLines, f.hostname # Nil
    PROVE  FormatRfc5424(f) \in Texts /\ FormatRfc3164(f) \in Texts
<1>1. /\ f.facility \in Nat /\ f.severity \in Nat /\ f.hostname \in Texts /\ f.app \in Texts
      /\ f.pid \in Texts \cup {Nil} /\ f.msgid \in Texts \cup {Nil} /\ f.message \in Texts
      /\ opts.day \in 1..31
  <2>1. opts.day \in 1..31
    BY DEF CommandLines
  <2>2. f.facility \in Nat /\ f.severity \in Nat /\ f.hostname \in Texts \cup {Nil}
        /\ f.app \in Texts /\ f.pid \in Texts \cup {Nil} /\ f.msgid \in Texts \cup {Nil}
        /\ f.message \in Texts
    BY DEF FieldSets
  <2> HIDE DEF Nil
  <2> QED
    BY <2>1, <2>2
<1>2. \A s, t \in Texts : s \o t \in Texts
  BY ConcatProperties DEF Texts
<1> HIDE DEF Nil
<1>a. f.facility * 8 + f.severity \in Nat
  BY <1>1
<1>b. \A n \in Nat : Pri(n) \in Nat
  BY DEF Pri
<1>c. 48 + opts.day \in Nat /\ 48 + (opts.day \div 10) \in Nat /\ 48 + (opts.day % 10) \in Nat
  BY <1>1
<1>d. /\ \A a \in Nat : <<a>> \in Texts
      /\ \A a, b \in Nat : <<a, b>> \in Texts
      /\ \A a, b, c \in Nat : <<a, b, c>> \in Texts
      /\ \A a, b, c, d, e \in Nat : <<a, b, c, d, e>> \in Texts
  BY DEF Texts
<1>e. /\ SP \in Nat /\ DASH \in Nat /\ COLON \in Nat /\ OPEN \in Nat /\ CLOSE \in Nat
      /\ Month \in Nat /\ Clock \in Nat /\ Stamp5424 \in Nat /\ Version(1) \in Nat
  BY DEF SP, DASH, COLON, OPEN, CLOSE, Month, Clock, Stamp5424, Version
<1>3. /\ <<SP>> \in Texts /\ <<SP, DASH, SP>> \in Texts /\ <<COLON, SP>> \in Texts
      /\ <<OPEN>> \in Texts /\ <<CLOSE>> \in Texts /\ <<DASH>> \in Texts
      /\ <<Month, SP>> \in Texts /\ <<SP, Clock>> \in Texts
      /\ <<Pri(f.facility * 8 + f.severity)>> \in Texts
      /\ <<Pri(f.facility * 8 + f.severity), Version(1), SP, Stamp5424, SP>> \in Texts
      /\ <<SP, 48 + opts.day>> \in Texts
      /\ <<48 + (opts.day \div 10), 48 + (opts.day % 10)>> \in Texts
  BY <1>a, <1>b, <1>c, <1>d, <1>e, Zenon
<1>4. Nilable(f.pid) \in Texts /\ Nilable(f.msgid) \in Texts
  BY <1>1, <1>3 DEF Nilable
<1>5. Tag(f) \in Texts
  BY <1>1, <1>2, <1>3, Zenon DEF Tag
<1>6. Rfc3164Timestamp(opts.day) \in Texts
  BY <1>2, <1>3, Zenon DEF Rfc3164Timestamp
<1> QED
  BY <1>1, <1>2, <1>3, <1>4, <1>5, <1>6, Zenon DEF FormatRfc5424, FormatRfc3164

\* What is built of the fields of a command line is a text.
LEMMA BuiltIsText ==
    ASSUME NEW f \in FieldSets, opts \in CommandLines, NEW datagram \in BuildDatagram(f)
    PROVE  datagram \in Texts /\ ValidateFields(f)
<1>1. /\ ValidateFields(f)
      /\ datagram = IF f.rfc3164 THEN FormatRfc3164(f) ELSE FormatRfc5424(f)
  BY Zenon DEF BuildDatagram
<1>2. f.hostname # Nil
  <2>1. IsPrintableAsciiToken(f.hostname)
    BY <1>1, Zenon DEF ValidateFields
  <2>2. ~IsPrintableAsciiToken(Nil)
    BY DEF IsPrintableAsciiToken, Nil
  <2> QED
    BY <2>1, <2>2
<1> QED
  BY <1>1, <1>2, FormatsAreTexts

\* Fields(): main() puts texts together, with the message among them.
LEMMA FieldsAreFields ==
    ASSUME opts \in CommandLines, NEW m \in Texts
    PROVE  Fields(m) \in FieldSets /\ Fields(m).message = m
<1>1. OwnPid \in Texts
  BY DEF OwnPid, Texts
<1>2. (IF opts.pid = Nil THEN OwnPid ELSE opts.pid) \in Texts \cup {Nil}
  BY <1>1 DEF CommandLines
<1> DEFINE pid == IF opts.pid = Nil THEN OwnPid ELSE opts.pid
<1> HIDE DEF pid
<1>3. Fields(m) = [facility |-> opts.facility, severity |-> opts.severity,
                   hostname |-> opts.hostname, app |-> opts.app, pid |-> pid,
                   msgid |-> opts.msgid, rfc3164 |-> opts.rfc3164, message |-> m]
  BY Zenon DEF Fields, pid
<1>4. pid \in Texts \cup {Nil}
  BY <1>2 DEF pid
<1> QED
  BY <1>3, <1>4 DEF CommandLines, FieldSets

\* The account of minilog-send holds when it starts.
LEMMA SendInit == Init => SendInv
<1> SUFFICES ASSUME Init PROVE SendInv
  OBVIOUS
<1>1. /\ sent = <<>> /\ pc \in {"options", "other"} /\ opts \in OptionSets
  BY TextsAssumption DEF Init
<1>2. opts \in CommandLines
  BY <1>1, TextsAssumption
<1>3. Len(Wanted) \in Nat
  BY <1>2, WantedIsSeq, LenProperties
<1>4. Len(sent) = 0 /\ sent \in Seq([fields: FieldSets, datagram: Texts])
  BY <1>1, EmptySeq
<1>5. Told
  BY <1>3, <1>4 DEF Told
<1> QED
  BY <1>1, <1>2, <1>4, <1>5 DEF SendInv, Places

\* Every step of main(), and every datagram that arrives, keeps it.
LEMMA SendStep == SendInv /\ [Next]_vars => SendInv'
<1> SUFFICES ASSUME SendInv, [Next]_vars PROVE SendInv'
  OBVIOUS
<1>0. /\ opts \in CommandLines /\ Wanted \in Seq(Texts) /\ Len(Wanted) \in Nat
  BY WantedIsSeq, LenProperties DEF SendInv
<1>1. CASE Options
  <2>1. /\ pc = "options" /\ sent' = sent /\ lines' = lines
        /\ \/ opts' = opts
           \/ \E name \in HostNames : opts' = [opts EXCEPT !.hostname = name]
        /\ pc' \in {"exit 0", "exit 1", "exit 2", "fields"}
        /\ pc' = "exit 0" => opts.help
    BY <1>1, Zenon DEF Options, ToUsage, Exit
  <2>2. /\ opts' \in CommandLines /\ opts'.words = opts.words /\ opts'.stdin = opts.stdin
        /\ opts'.help = opts.help
    <3>1. CASE opts' = opts
      BY <1>0, <3>1
    <3>2. ASSUME NEW name \in HostNames, opts' = [opts EXCEPT !.hostname = name]
          PROVE  /\ opts' \in CommandLines /\ opts'.words = opts.words /\ opts'.stdin = opts.stdin
                 /\ opts'.help = opts.help
      <4>1. name \in Texts
        BY TextsAssumption
      <4> QED
        BY <1>0, <3>2, <4>1 DEF CommandLines
    <3> QED
      BY <2>1, <3>1, <3>2
  <2>3. Wanted' = Wanted
    BY <2>2, Zenon DEF Wanted
  <2> QED
    BY <1>0, <2>1, <2>2, <2>3 DEF SendInv, Places, Told
<1>2. CASE CheckFields
  <2>1. pc = "fields" /\ pc' \in {"resolve", "exit 2"} /\ UNCHANGED <<opts, lines, sent>>
    BY <1>2, Zenon DEF CheckFields, ToUsage, Exit
  <2>2. Wanted' = Wanted
    BY <2>1, Zenon DEF Wanted
  <2> QED
    BY <1>0, <2>1, <2>2 DEF SendInv, Places, Told
<1>3. CASE Resolve
  <2>1. /\ pc = "resolve" /\ UNCHANGED <<opts, sent>>
        /\ \/ pc' = "exit 1"
           \/ lines' = Wanted /\ pc' = "send" /\ Wanted # <<>>
           \/ pc' = "exit 2"
    <3>1. CASE opts.words # <<>>
      <4>1. Wanted = <<Join(opts.words)>>
        BY <3>1 DEF Wanted
      <4> QED
        BY <1>3, <3>1, <4>1 DEF Resolve, Exit
    <3>2. CASE opts.words = <<>>
      <4>1. Wanted = SplitLines(opts.stdin)
        BY <3>2 DEF Wanted
      <4> QED
        BY <1>3, <3>2, <4>1, Zenon DEF Resolve, Exit
    <3> QED
      BY <3>1, <3>2
  <2>2. Wanted' = Wanted
    BY <2>1, Zenon DEF Wanted
  <2>3. Len(sent) = 0
    BY <2>1 DEF SendInv
  <2> QED
    <3>1. Told'
      BY <2>1, <2>2 DEF SendInv, Told
    <3>2. pc' = "send" => Left'
      <4>1. Len(sent) = 0 /\ sent' = sent
        BY <2>1, <2>3
      <4>2. Wanted # <<>> => Len(Wanted) > 0
        BY <1>0, EmptySeq
      <4> QED
        BY <1>0, <2>1, <2>2, <4>1, <4>2 DEF Left
    <3> QED
      BY <1>0, <2>1, <2>2, <3>1, <3>2 DEF SendInv, Places
<1>4. CASE SendLine
  <2>1. /\ pc = "send" /\ lines' = Tail(lines) /\ opts' = opts
        /\ \/ pc' = "exit 1" /\ sent' = sent
           \/ \E datagram \in BuildDatagram(Fields(Head(lines))) :
                /\ sent' = Append(sent, [fields |-> Fields(Head(lines)), datagram |-> datagram])
                /\ pc' = IF Len(lines) = 1 THEN "exit 0" ELSE "send"
    BY <1>4, Zenon DEF SendLine, AfterBadLine
  <2>2. Wanted' = Wanted
    BY <2>1, Zenon DEF Wanted
  <2>3. /\ lines \in Seq(Texts) /\ Len(lines) \in Nat \ {0} /\ Len(sent) \in Nat
        /\ Len(sent) + Len(lines) = Len(Wanted)
        /\ \A i \in 1..Len(lines) : lines[i] = Wanted[Len(sent) + i]
    <3>1. Left /\ sent \in Seq([fields: FieldSets, datagram: Texts])
      BY <2>1, Zenon DEF SendInv
    <3>2. Len(sent) \in Nat
      BY <3>1, LenProperties
    <3> QED
      BY <3>1, <3>2, LenProperties DEF Left
  <2>4. CASE pc' = "exit 1" /\ sent' = sent
    <3>1. Told'
      BY <2>2, <2>4 DEF SendInv, Told
    <3>2. opts' \in CommandLines /\ sent' \in Seq([fields: FieldSets, datagram: Texts])
      BY <1>0, <2>1, <2>4, Zenon DEF SendInv
    <3>3. Len(sent') < Len(Wanted')
      <4>1. Len(sent) < Len(Wanted)
        BY <2>3
      <4> QED
        BY <2>2, <2>4, <4>1, Zenon
    <3> QED
      <4>1. pc' \in Places /\ pc' \notin {"options", "fields", "resolve", "other", "exit 2"}
            /\ pc' # "send" /\ pc' # "exit 0"
        BY <2>4 DEF Places
      <4> QED
        BY <3>1, <3>2, <3>3, <4>1, Zenon DEF SendInv
  <2>5. ASSUME NEW datagram \in BuildDatagram(Fields(Head(lines))),
               sent' = Append(sent, [fields |-> Fields(Head(lines)), datagram |-> datagram]),
               pc' = IF Len(lines) = 1 THEN "exit 0" ELSE "send"
        PROVE  SendInv'
    <3>1. Head(lines) \in Texts /\ Head(lines) = lines[1]
      <4>1. lines # <<>>
        BY <2>3
      <4> QED
        BY <2>3, <4>1, HeadTailProperties
    <3>2. Fields(Head(lines)) \in FieldSets /\ Fields(Head(lines)).message = Head(lines)
      BY <1>0, <3>1, FieldsAreFields
    <3>3. datagram \in Texts
      BY <1>0, <2>5, <3>2, BuiltIsText
    <3> DEFINE e == [fields |-> Fields(Head(lines)), datagram |-> datagram]
    <3>4. e \in [fields: FieldSets, datagram: Texts] /\ e.fields.message = lines[1]
      BY <3>1, <3>2, <3>3
    <3> HIDE DEF e
    <3>5. /\ sent' \in Seq([fields: FieldSets, datagram: Texts]) /\ Len(sent') = Len(sent) + 1
          /\ \A i \in 1..Len(sent) : sent'[i] = sent[i]
          /\ sent'[Len(sent) + 1] = e
      <4>1. sent \in Seq([fields: FieldSets, datagram: Texts]) /\ sent' = Append(sent, e)
        BY <2>5, Zenon DEF SendInv, e
      <4> QED
        BY <3>4, <4>1, AppendProperties
    <3>6. Told'
      <4>1. ASSUME NEW i \in 1..Len(sent')
            PROVE  sent'[i].fields.message = Wanted[i]
        <5>1. CASE i = Len(sent) + 1
          BY <2>3, <3>4, <3>5, <5>1
        <5>2. CASE i \in 1..Len(sent)
          BY <3>5, <5>2 DEF SendInv, Told
        <5> QED
          BY <2>3, <3>5, <5>1, <5>2
      <4> QED
        BY <1>0, <2>2, <2>3, <3>5, <4>1 DEF Told
    <3>7. /\ Tail(lines) \in Seq(Texts) /\ Len(Tail(lines)) = Len(lines) - 1
          /\ \A i \in 1..Len(Tail(lines)) : Tail(lines)[i] = lines[i + 1]
      <4>1. lines # <<>>
        BY <2>3
      <4> QED
        BY <2>3, <4>1, HeadTailProperties
    <3>8. pc' = "send" => Left'
      <4> DEFINE r == Tail(lines)
      <4> HIDE DEF r
      <4>1. /\ r \in Seq(Texts) /\ Len(r) = Len(lines) - 1 /\ lines' = r
            /\ \A i \in 1..Len(r) : r[i] = lines[i + 1]
        BY <2>1, <3>7 DEF r
      <4>2. ASSUME NEW i \in 1..Len(r)
            PROVE  r[i] = Wanted[Len(sent) + 1 + i]
        <5>1. i + 1 \in 1..Len(lines) /\ r[i] = lines[i + 1]
          BY <2>3, <4>1
        <5>2. lines[i + 1] = Wanted[Len(sent) + (i + 1)]
          BY <2>3, <5>1
        <5>3. Len(sent) + (i + 1) = Len(sent) + 1 + i
          BY <2>3, <5>1
        <5> QED
          BY <5>1, <5>2, <5>3
      <4>3. pc' = "send" => Len(lines) # 1
        BY <2>5
      <4> QED
        <5>1. Len(r) \in Nat /\ Len(sent') + Len(r) = Len(Wanted)
          <6>1. /\ Len(sent') = Len(sent) + 1 /\ Len(r) = Len(lines) - 1 /\ Len(sent) \in Nat
                /\ Len(lines) \in Nat \ {0} /\ Len(sent) + Len(lines) = Len(Wanted)
            BY <2>3, <3>5, <4>1, Zenon
          <6> QED
            BY <6>1
        <5>2. pc' = "send" => Len(r) > 0
          BY <2>3, <4>1, <4>3
        <5>3. \A i \in 1..Len(r) : r[i] = Wanted[Len(sent') + i]
          BY <3>5, <4>2, Zenon
        <5> QED
          BY <2>2, <4>1, <5>1, <5>2, <5>3, Zenon DEF Left
    <3> QED
      BY <1>0, <2>1, <2>2, <2>3, <2>5, <3>5, <3>6, <3>8 DEF SendInv, Places
  <2> QED
    BY <2>1, <2>4, <2>5
<1>5. CASE Receive \/ ReceiveRaw \/ UNCHANGED vars
  <2>1. UNCHANGED <<opts, pc, lines, sent>>
    BY <1>5, Zenon DEF Receive, ReceiveRaw, vars
  <2>2. Wanted' = Wanted
    BY <2>1, Zenon DEF Wanted
  <2> QED
    BY <2>1, <2>2 DEF SendInv, Told, Left
<1> QED
  BY <1>1, <1>2, <1>3, <1>4, <1>5 DEF Next

\* The exit status of minilog-send is true of what it has sent: for any
\* command line, any input and any failures of its sends.
THEOREM ExitAlwaysTruthful == Spec => []ExitTruthful
<1>1. ASSUME SendInv PROVE ExitTruthful
  <2>1. sent \in Seq([fields: FieldSets, datagram: Texts]) /\ Told
    BY <1>1, Zenon DEF SendInv
  <2>2. Len(sent) = 0 => sent = <<>>
    BY <2>1, EmptySeq
  <2>3. DOMAIN sent = 1..Len(sent)
    BY <2>1, LenProperties
  <2>4. /\ Len(sent) <= Len(Wanted)
        /\ \A i \in DOMAIN sent : sent[i].fields.message = Wanted[i]
    BY <2>1, <2>3, Zenon DEF Told
  <2>5. /\ pc = "exit 0" /\ ~opts.help => Len(sent) = Len(Wanted)
        /\ pc = "exit 1" => Len(sent) < Len(Wanted) \/ Len(sent) = 0
        /\ pc = "exit 2" => Len(sent) = 0
    BY <1>1, Zenon DEF SendInv
  <2> QED
    BY <2>2, <2>4, <2>5, Zenon DEF ExitTruthful
<1> QED
  BY SendInit, SendStep, <1>1, PTL DEF Spec
-----------------------------------------------------------------------------
(***************************************************************************)
(* A line of the text file.                                                *)
(***************************************************************************)

\* The pieces of a text with one more in front of them, which is k long.
Shifted(more, stride, k, piece, step) ==
    /\ Pieces(piece, step) /\ Pieces(more, stride)
    /\ k \in Nat \ {0} /\ stride[1] = k /\ Len(more) = k + Len(piece)
    /\ \A i \in 1..Len(piece) : more[k + i] = piece[i] /\ stride[k + i] = step[i]

\* What is made of a text with one more piece in front of it.
LEMMA ScanShift ==
    ASSUME NEW piece, NEW step, NEW more, NEW stride, NEW k, Shifted(more, stride, k, piece, step)
    PROVE  Scan(more, stride) = more[1] \o Scan(piece, step)
<1>0. /\ Pieces(piece, step) /\ Pieces(more, stride)
      /\ k \in Nat \ {0} /\ stride[1] = k /\ Len(more) = k + Len(piece)
      /\ \A i \in 1..Len(piece) : more[k + i] = piece[i] /\ stride[k + i] = step[i]
  BY Zenon DEF Shifted
<1>1. PICK f : Walk(f, piece, step) /\ Scan(piece, step) = f[0]
  BY <1>0, ScanWalks
<1>2. PICK g : Walk(g, more, stride) /\ Scan(more, stride) = g[0]
  BY <1>0, ScanWalks
<1> DEFINE Q == {<<i, g[k + i]>> : i \in Nat}
           Made(p, rest) == p \o rest
<1>3. Len(piece) \in Nat /\ \A i \in 1..Len(piece) : step[i] \in Nat \ {0}
  BY <1>0 DEF Pieces
<1>4. \A i \in Nat : g[i] = IF i >= Len(more) THEN <<>> ELSE Made(more[i + 1], g[i + stride[i + 1]])
  BY <1>2, Zenon DEF Walk
<1>5. ASSUME NEW i \in Nat, i >= Len(piece)
      PROVE  <<i, <<>>>> \in Q
  <2>1. k + i \in Nat /\ k + i >= Len(more)
    BY <1>0, <1>3, <1>5
  <2>2. g[k + i] = <<>>
    BY <1>4, <2>1
  <2> QED
    BY <2>2
<1> HIDE DEF Made
<1>6. ASSUME NEW i \in 0..(Len(piece) - 1), NEW rest, <<i + step[i + 1], rest>> \in Q
      PROVE  <<i, Made(piece[i + 1], rest)>> \in Q
  <2>1. i \in Nat /\ i + 1 \in 1..Len(piece) /\ k + i \in Nat /\ ~(k + i >= Len(more))
    BY <1>0, <1>3
  <2>2. more[k + (i + 1)] = piece[i + 1] /\ stride[k + (i + 1)] = step[i + 1]
    BY <1>0, <2>1
  <2>3. k + (i + 1) = (k + i) + 1 /\ (k + i) + step[i + 1] = k + (i + step[i + 1])
    BY <1>0, <1>3, <2>1
  <2>4. g[k + i] = Made(piece[i + 1], g[k + (i + step[i + 1])])
    BY <1>4, <2>1, <2>2, <2>3
  <2>5. rest = g[k + (i + step[i + 1])]
    BY <1>6
  <2> QED
    BY <2>1, <2>4, <2>5
<1> HIDE DEF Q
<1>7. <<0, f[0]>> \in Q
  <2>1. Pieces(piece, step)
    BY <1>0, Zenon
  <2>2. \A i \in Nat : <<i, f[i]>> \in Q
    BY <1>1, <1>5, <1>6, <2>1, WalkInd, Zenon DEF Made
  <2> QED
    BY <2>2
<1>8. f[0] = g[k]
  <2>1. k + 0 = k
    BY <1>0
  <2> QED
    BY <1>7, <2>1 DEF Q
<1>9. g[0] = Made(more[1], g[k])
  <2>1. 0 \in Nat /\ ~(0 >= Len(more)) /\ 0 + 1 = 1 /\ 0 + k = k
    BY <1>0, <1>3
  <2> QED
    BY <1>0, <1>4, <2>1
<1> QED
  BY <1>1, <1>2, <1>8, <1>9, Zenon DEF Made

\* Two texts in a row.
LEMMA Cat ==
    ASSUME NEW a \in Texts, NEW t \in Texts
    PROVE  /\ a \o t \in Texts /\ Len(a) \in Nat /\ Len(t) \in Nat
           /\ Len(a \o t) = Len(a) + Len(t) /\ DOMAIN (a \o t) = 1..(Len(a) + Len(t))
           /\ \A i \in 1..Len(a) : (a \o t)[i] = a[i]
           /\ \A i \in 1..Len(t) : (a \o t)[Len(a) + i] = t[i]
<1>1. a \in Seq(Nat) /\ t \in Seq(Nat)
  BY DEF Texts
<1> DEFINE x == a \o t
<1>2. /\ x \in Seq(Nat) /\ Len(x) = Len(a) + Len(t)
      /\ \A i \in 1..Len(a) + Len(t) : x[i] = IF i <= Len(a) THEN a[i] ELSE t[i - Len(a)]
  BY <1>1, ConcatProperties
<1>3. Len(a) \in Nat /\ Len(t) \in Nat
  BY <1>1, LenProperties
<1> HIDE DEF x
<1>4. DOMAIN x = 1..Len(x)
  BY <1>2, LenProperties
<1>5. ASSUME NEW i \in 1..Len(a) PROVE x[i] = a[i]
  BY <1>2, <1>3
<1>6. ASSUME NEW i \in 1..Len(t) PROVE x[Len(a) + i] = t[i]
  <2>1. Len(a) + i \in 1..Len(a) + Len(t) /\ ~(Len(a) + i <= Len(a)) /\ (Len(a) + i) - Len(a) = i
    BY <1>3
  <2> QED
    BY <1>2, <2>1
<1>7. x \in Texts /\ Len(x) = Len(a) + Len(t) /\ DOMAIN x = 1..(Len(a) + Len(t))
  BY <1>2, <1>4 DEF Texts
<1> QED
  BY <1>3, <1>5, <1>6, <1>7 DEF x

\* The pieces that Unescape() reads a line by.
ShortAt(line, i) == line[i] = BACKSLASH /\ i < Len(line) /\ line[i + 1] \in {BACKSLASH, 110, 114}
LongAt(line, i) == line[i] = BACKSLASH /\ i + 1 < Len(line) /\ line[i + 1] \in {120, 117}
ShortMeans(c) == IF c = 110 THEN <<LF>> ELSE IF c = 114 THEN <<CR>> ELSE <<BACKSLASH>>
LongMeans(c, d) == IF c = 120 THEN <<d - Hex2(0)>> ELSE <<194, d - Hex4(0)>>
MeansAt(line, i) ==
    IF ShortAt(line, i) THEN ShortMeans(line[i + 1])
    ELSE IF LongAt(line, i) THEN LongMeans(line[i + 1], line[i + 2]) ELSE <<line[i]>>
StepAt(line, i) == IF ShortAt(line, i) THEN 2 ELSE IF LongAt(line, i) THEN 3 ELSE 1

\* Unescape() in terms of them.
LEMMA UnescapeIs ==
    ASSUME NEW line
    PROVE  Unescape(line) = Scan([i \in DOMAIN line |-> MeansAt(line, i)],
                                 [i \in DOMAIN line |-> StepAt(line, i)])
BY Zenon DEF Unescape, ShortAt, LongAt, ShortMeans, LongMeans, MeansAt, StepAt

\* The lengths of the pieces.
LEMMA UnescapePieces ==
    ASSUME NEW line \in Texts
    PROVE  /\ Pieces([i \in DOMAIN line |-> MeansAt(line, i)], [i \in DOMAIN line |-> StepAt(line, i)])
           /\ Len([i \in DOMAIN line |-> MeansAt(line, i)]) = Len(line)
<1>1. DOMAIN line = 1..Len(line) /\ Len(line) \in Nat
  BY LenProperties DEF Texts
<1>2. \A i : StepAt(line, i) \in Nat \ {0}
  BY DEF StepAt
<1>3. Len([i \in DOMAIN line |-> MeansAt(line, i)]) = Len(line)
  BY <1>1
<1> QED
  BY <1>1, <1>2, <1>3 DEF Pieces

\* A line that begins with a piece.
LEMMA UnescapeFront ==
    ASSUME NEW a \in Texts, NEW t \in Texts, Len(a) > 0, StepAt(a \o t, 1) = Len(a)
    PROVE  Unescape(a \o t) = MeansAt(a \o t, 1) \o Unescape(t)
<1> DEFINE x == a \o t
           k == Len(a)
           piece == [i \in DOMAIN t |-> MeansAt(t, i)]
           step == [i \in DOMAIN t |-> StepAt(t, i)]
           more == [i \in DOMAIN x |-> MeansAt(x, i)]
           stride == [i \in DOMAIN x |-> StepAt(x, i)]
<1>1. /\ x \in Texts /\ k \in Nat \ {0} /\ Len(t) \in Nat /\ Len(x) = k + Len(t)
      /\ DOMAIN x = 1..(k + Len(t)) /\ \A i \in 1..Len(t) : x[k + i] = t[i]
  BY Cat
<1>2. DOMAIN t = 1..Len(t)
  BY LenProperties DEF Texts
<1> HIDE DEF x, k
<1>3. ASSUME NEW i \in 1..Len(t)
      PROVE  MeansAt(x, k + i) = MeansAt(t, i) /\ StepAt(x, k + i) = StepAt(t, i)
  <2>1. x[k + i] = t[i]
    BY <1>1
  <2>2. k + i < Len(x) <=> i < Len(t)
    BY <1>1
  <2>3. k + i + 1 < Len(x) <=> i + 1 < Len(t)
    BY <1>1
  <2>4. i < Len(t) => x[k + i + 1] = t[i + 1]
    <3>1. i < Len(t) => i + 1 \in 1..Len(t) /\ k + (i + 1) = k + i + 1
      BY <1>1
    <3> QED
      BY <1>1, <3>1
  <2>5. i + 1 < Len(t) => x[k + i + 2] = t[i + 2] /\ i < Len(t)
    <3>1. i + 1 < Len(t) => i + 2 \in 1..Len(t) /\ k + (i + 2) = k + i + 2 /\ i < Len(t)
      BY <1>1
    <3> QED
      BY <1>1, <3>1
  <2>6. ShortAt(x, k + i) <=> ShortAt(t, i)
    BY <2>1, <2>2, <2>4, Zenon DEF ShortAt
  <2>7. LongAt(x, k + i) <=> LongAt(t, i)
    BY <2>1, <2>3, <2>4, <2>5, Zenon DEF LongAt
  <2>8. (ShortAt(t, i) => i < Len(t)) /\ (LongAt(t, i) => i + 1 < Len(t))
    BY Zenon DEF ShortAt, LongAt
  <2> QED
    BY <2>1, <2>4, <2>5, <2>6, <2>7, <2>8, Zenon DEF MeansAt, StepAt
<1>4. Pieces(piece, step) /\ Len(piece) = Len(t) /\ Pieces(more, stride) /\ Len(more) = k + Len(t)
  BY <1>1, UnescapePieces
<1>5. \A i \in 1..Len(t) : k + i \in DOMAIN x
  BY <1>1
<1>6. \A i \in 1..Len(t) : more[k + i] = piece[i] /\ stride[k + i] = step[i]
  BY <1>2, <1>3, <1>5
<1>7. 1 \in DOMAIN x
  BY <1>1
<1>8. stride[1] = k /\ more[1] = MeansAt(x, 1)
  BY <1>7 DEF x, k
<1>9. Unescape(x) = Scan(more, stride) /\ Unescape(t) = Scan(piece, step)
  BY UnescapeIs
<1> HIDE DEF piece, step, more, stride
<1>10. Scan(more, stride) = more[1] \o Scan(piece, step)
  <2>1. Shifted(more, stride, k, piece, step)
    BY <1>1, <1>4, <1>6, <1>8, Zenon DEF Shifted
  <2> QED
    BY <2>1, ScanShift, Zenon
<1> QED
  BY <1>8, <1>9, <1>10, Zenon DEF x

\* A byte that is not the escape character stands for itself.
LEMMA UnescapePlain ==
    ASSUME NEW c \in Nat, c # BACKSLASH, NEW t \in Texts
    PROVE  Unescape(<<c>> \o t) = <<c>> \o Unescape(t)
<1> DEFINE a == <<c>>
           x == a \o t
<1>1. a \in Texts /\ Len(a) = 1 /\ a[1] = c
  BY DEF Texts
<1>2. x[1] = c
  BY <1>1, Cat
<1> HIDE DEF x
<1>3. ~ShortAt(x, 1) /\ ~LongAt(x, 1)
  BY <1>2 DEF ShortAt, LongAt
<1>4. StepAt(x, 1) = 1 /\ MeansAt(x, 1) = <<c>>
  BY <1>2, <1>3 DEF StepAt, MeansAt
<1> HIDE DEF a
<1>5. StepAt(a \o t, 1) = Len(a) /\ Len(a) > 0
  BY <1>1, <1>4 DEF x
<1>6. Unescape(a \o t) = MeansAt(a \o t, 1) \o Unescape(t)
  BY <1>1, <1>5, UnescapeFront, Zenon
<1> QED
  BY <1>4, <1>6, Zenon DEF x, a

\* An escape of two characters.
LEMMA UnescapeShort ==
    ASSUME NEW d \in {BACKSLASH, 110, 114}, NEW t \in Texts
    PROVE  Unescape(<<BACKSLASH, d>> \o t) = ShortMeans(d) \o Unescape(t)
<1> DEFINE a == <<BACKSLASH, d>>
           x == a \o t
<1>1. a \in Texts /\ Len(a) = 2 /\ a[1] = BACKSLASH /\ a[2] = d
  BY DEF Texts, BACKSLASH
<1> HIDE DEF a
<1>a. Len(x) = Len(a) + Len(t) /\ Len(t) \in Nat /\ \A i \in 1..Len(a) : x[i] = a[i]
  <2>1. a \in Texts
    BY <1>1
  <2> QED
    BY <2>1, Cat
<1> HIDE DEF x
<1>2. x[1] = BACKSLASH /\ x[2] = d /\ Len(x) = 2 + Len(t) /\ Len(t) \in Nat
  <2>1. 1 \in 1..Len(a) /\ 2 \in 1..Len(a)
    BY <1>1
  <2> QED
    BY <1>1, <1>a, <2>1
<1>3. ShortAt(x, 1)
  BY <1>2 DEF ShortAt
<1>4. StepAt(x, 1) = 2 /\ MeansAt(x, 1) = ShortMeans(d)
  BY <1>2, <1>3 DEF StepAt, MeansAt
<1>5. StepAt(a \o t, 1) = Len(a) /\ Len(a) > 0
  BY <1>1, <1>4 DEF x
<1>6. Unescape(a \o t) = MeansAt(a \o t, 1) \o Unescape(t)
  BY <1>1, <1>5, UnescapeFront, Zenon
<1> QED
  BY <1>4, <1>6, Zenon DEF x, a

\* An escape with hexadecimal digits.
LEMMA UnescapeLong ==
    ASSUME NEW d \in {120, 117}, NEW e \in Nat, NEW t \in Texts
    PROVE  Unescape(<<BACKSLASH, d, e>> \o t) = LongMeans(d, e) \o Unescape(t)
<1> DEFINE a == <<BACKSLASH, d, e>>
           x == a \o t
<1>1. a \in Texts /\ Len(a) = 3 /\ a[1] = BACKSLASH /\ a[2] = d /\ a[3] = e
  BY DEF Texts, BACKSLASH
<1> HIDE DEF a
<1>a. Len(x) = Len(a) + Len(t) /\ Len(t) \in Nat /\ \A i \in 1..Len(a) : x[i] = a[i]
  <2>1. a \in Texts
    BY <1>1
  <2> QED
    BY <2>1, Cat
<1> HIDE DEF x
<1>2. x[1] = BACKSLASH /\ x[2] = d /\ x[3] = e /\ Len(x) = 3 + Len(t) /\ Len(t) \in Nat
  <2>1. 1 \in 1..Len(a) /\ 2 \in 1..Len(a) /\ 3 \in 1..Len(a)
    BY <1>1
  <2> QED
    BY <1>1, <1>a, <2>1
<1>3. ~ShortAt(x, 1) /\ LongAt(x, 1)
  BY <1>2 DEF ShortAt, LongAt, BACKSLASH
<1>4. StepAt(x, 1) = 3 /\ MeansAt(x, 1) = LongMeans(d, e)
  BY <1>2, <1>3 DEF StepAt, MeansAt
<1>5. StepAt(a \o t, 1) = Len(a) /\ Len(a) > 0
  BY <1>1, <1>4 DEF x
<1>6. Unescape(a \o t) = MeansAt(a \o t, 1) \o Unescape(t)
  BY <1>1, <1>5, UnescapeFront, Zenon
<1> QED
  BY <1>4, <1>6, Zenon DEF x, a

\* A text without a control character.
Clean(t) ==
    \A j \in DOMAIN t : (t[j] < 32 => t[j] = TAB) /\ t[j] # 127 /\ ~C1At(t, j)

\* Two clean texts make a clean one if no C1 control comes to be where they meet.
LEMMA CleanCat ==
    ASSUME NEW a \in Texts, NEW t \in Texts, Clean(a), Clean(t), Len(a) > 0,
           a[Len(a)] = 194 /\ Len(t) > 0 => t[1] \notin 128..159
    PROVE  Clean(a \o t)
<1> DEFINE x == a \o t
           k == Len(a)
<1>1. /\ x \in Texts /\ k \in Nat /\ Len(t) \in Nat /\ Len(x) = k + Len(t) /\ DOMAIN x = 1..(k + Len(t))
      /\ \A i \in 1..k : x[i] = a[i]
      /\ \A i \in 1..Len(t) : x[k + i] = t[i]
  BY Cat
<1>2. DOMAIN t = 1..Len(t) /\ DOMAIN a = 1..k
  BY LenProperties DEF Texts
<1> HIDE DEF x, k
<1>3. ASSUME NEW j \in 1..(k + Len(t))
      PROVE  (x[j] < 32 => x[j] = TAB) /\ x[j] # 127 /\ ~C1At(x, j)
  <2>1. CASE j \in 1..k
    <3>1. (a[j] < 32 => a[j] = TAB) /\ a[j] # 127 /\ ~C1At(a, j) /\ x[j] = a[j]
      BY <1>1, <1>2, <2>1 DEF Clean
    <3>2. CASE j < k
      <4>1. x[j + 1] = a[j + 1]
        BY <1>1, <2>1, <3>2
      <4>2. C1At(x, j) => C1At(a, j)
        BY <1>1, <3>1, <3>2, <4>1 DEF C1At, k
      <4> QED
        BY <3>1, <4>2
    <3>3. CASE j = k
      <4>1. Len(t) > 0 => x[j + 1] = t[1]
        BY <1>1, <3>3
      <4>2. C1At(x, j) => Len(t) > 0
        BY <1>1, <3>3 DEF C1At
      <4>3. ~C1At(x, j)
        BY <3>1, <3>3, <4>1, <4>2 DEF C1At, k
      <4> QED
        BY <3>1, <4>3
    <3> QED
      BY <1>1, <2>1, <3>2, <3>3
  <2>2. CASE j \in (k + 1)..(k + Len(t))
    <3> DEFINE i == j - k
    <3>1. i \in 1..Len(t) /\ j = k + i
      BY <1>1, <2>2
    <3> HIDE DEF i
    <3>2. (t[i] < 32 => t[i] = TAB) /\ t[i] # 127 /\ ~C1At(t, i) /\ x[j] = t[i]
      BY <1>1, <1>2, <3>1 DEF Clean
    <3>3. i < Len(t) => x[j + 1] = t[i + 1]
      <4>1. i < Len(t) => i + 1 \in 1..Len(t) /\ k + (i + 1) = j + 1
        BY <1>1, <3>1
      <4> QED
        BY <1>1, <4>1
    <3>4. j < Len(x) => i < Len(t)
      BY <1>1, <3>1
    <3>5. C1At(x, j) => C1At(t, i)
      BY <3>2, <3>3, <3>4 DEF C1At
    <3> QED
      BY <3>2, <3>5
  <2> QED
    BY <1>1, <2>1, <2>2
<1> QED
  BY <1>1, <1>3 DEF Clean, x

\* What escapeControlChars() makes of one byte.
LEMMA EscapedIs ==
    ASSUME NEW c \in Nat
    PROVE  /\ c = BACKSLASH => Escaped(c) = <<BACKSLASH, BACKSLASH>>
           /\ c = LF => Escaped(c) = <<BACKSLASH, 110>>
           /\ c = CR => Escaped(c) = <<BACKSLASH, 114>>
           /\ (c < 32 /\ c # TAB /\ c # LF /\ c # CR) \/ c = 127 =>
                Escaped(c) = <<BACKSLASH, 120, Hex2(c)>>
           /\ c # BACKSLASH /\ c # 127 /\ (c < 32 => c = TAB) => Escaped(c) = <<c>>
<1> DEFINE ctl == (c \in 0..31 /\ c \notin {TAB, LF, CR}) \/ c = 127
<1>1. Escaped(c) =
        CASE c = BACKSLASH -> <<BACKSLASH, BACKSLASH>>
          [] c = LF -> <<BACKSLASH, 110>> [] c = CR -> <<BACKSLASH, 114>>
          [] ctl -> <<BACKSLASH, 120, Hex2(c)>>
          [] OTHER -> <<c>>
  BY Zenon DEF Escaped
<1>2. ctl <=> (c < 32 /\ c # TAB /\ c # LF /\ c # CR) \/ c = 127
  OBVIOUS
<1>3. /\ ctl => c # BACKSLASH /\ c # LF /\ c # CR
      /\ c = BACKSLASH => c # LF /\ c # CR
      /\ c = LF => c # CR
  BY DEF BACKSLASH, LF, CR, TAB
<1>4. c # BACKSLASH /\ c # 127 /\ (c < 32 => c = TAB) => c # LF /\ c # CR /\ ~ctl
  BY DEF LF, CR, TAB
<1> HIDE DEF ctl
<1>5. CASE c = BACKSLASH
  BY <1>1, <1>2, <1>3, <1>5, Zenon
<1>6. CASE c = LF
  BY <1>1, <1>2, <1>3, <1>4, <1>6, Zenon
<1>7. CASE c = CR
  BY <1>1, <1>2, <1>3, <1>4, <1>7, Zenon
<1>8. CASE ctl
  BY <1>1, <1>2, <1>3, <1>8, Zenon
<1>9. CASE c # BACKSLASH /\ c # LF /\ c # CR /\ ~ctl
  BY <1>1, <1>2, <1>4, <1>9, Zenon
<1> QED
  BY <1>5, <1>6, <1>7, <1>8, <1>9

\* The pieces that escapeControlChars() reads a text by.
EscapeAt(s, i) == IF C1At(s, i) THEN <<BACKSLASH, 117, Hex4(s[i + 1])>> ELSE Escaped(s[i])
EscapeStep(s, i) == IF C1At(s, i) THEN 2 ELSE 1

\* The rest of a text behind its first byte, and behind its first two.
LEMMA FromFirst ==
    ASSUME NEW s \in Texts, NEW i \in Nat, i < Len(s)
    PROVE  /\ From(s, i + 1) = <<s[i + 1]>> \o From(s, i + 2)
           /\ i + 1 < Len(s) => From(s, i + 1) = <<s[i + 1], s[i + 2]>> \o From(s, i + 3)
<1>1. Len(s) \in Nat /\ s \in Seq(Nat)
  BY LenProperties DEF Texts
<1>2. ASSUME NEW j \in Nat, j < Len(s)
      PROVE  From(s, j + 1) = <<s[j + 1]>> \o From(s, j + 2)
  <2>1. j + 1 \in 1..Len(s) /\ Len(s) \in (j + 1)..Len(s) /\ (j + 1) + 1 = j + 2
    BY <1>1, <1>2
  <2> QED
    BY <1>1, <2>1, SubSeqRecursiveFirst DEF From
<1>3. ASSUME i + 1 < Len(s)
      PROVE  From(s, i + 1) = <<s[i + 1], s[i + 2]>> \o From(s, i + 3)
  <2> DEFINE r == From(s, i + 3)
             a == s[i + 1]
             b == s[i + 2]
  <2>1. From(s, i + 1) = <<a>> \o From(s, i + 2)
    BY <1>2
  <2>2. From(s, i + 2) = <<b>> \o r
    <3>1. i + 1 \in Nat /\ (i + 1) + 1 = i + 2 /\ (i + 1) + 2 = i + 3
      OBVIOUS
    <3> QED
      BY <1>2, <1>3, <3>1
  <2>3. r \in Seq(Nat)
    <3>1. i + 3 \in 1..(Len(s) + 1) /\ Len(s) \in 0..Len(s)
      BY <1>1, <1>3
    <3> QED
      BY <3>1, SubText DEF From, Texts
  <2>4. a \in Nat /\ b \in Nat
    <3>1. i + 1 \in 1..Len(s) /\ i + 2 \in 1..Len(s)
      BY <1>1, <1>3
    <3> QED
      BY <1>1, <3>1, ElementOfSeq
  <2> HIDE DEF r, a, b
  <2>5. <<a>> \o (<<b>> \o r) = (<<a>> \o <<b>>) \o r
    <3>1. <<a>> \in Seq(Nat) /\ <<b>> \in Seq(Nat)
      BY <2>4
    <3> QED
      BY <2>3, <3>1, ConcatAssociative
  <2>6. <<a>> \o <<b>> = <<a, b>>
    <3> DEFINE u == <<a>>
               v == <<b>>
               w == <<a, b>>
               x == u \o v
    <3>1. /\ u \in Seq(Nat) /\ Len(u) = 1 /\ u[1] = a
          /\ v \in Seq(Nat) /\ Len(v) = 1 /\ v[1] = b
          /\ w \in Seq(Nat) /\ Len(w) = 2 /\ w[1] = a /\ w[2] = b
      BY <2>4
    <3> HIDE DEF u, v, w
    <3>2. /\ x \in Seq(Nat) /\ Len(x) = Len(u) + Len(v)
          /\ \A j \in 1..Len(u) + Len(v) : x[j] = IF j <= Len(u) THEN u[j] ELSE v[j - Len(u)]
      BY <3>1, ConcatProperties
    <3> HIDE DEF x
    <3>3. Len(x) = Len(w) /\ x[1] = w[1] /\ x[2] = w[2]
      BY <3>1, <3>2
    <3>4. \A j \in 1..Len(x) : x[j] = w[j]
      BY <3>1, <3>3
    <3>5. x = w
      BY <3>1, <3>2, <3>3, <3>4, SeqEqual
    <3> QED
      BY <3>5 DEF x, u, v, w
  <2>7. From(s, i + 1) = <<a, b>> \o r
    BY <2>1, <2>2, <2>5, <2>6, Zenon
  <2> QED
    BY <2>7, Zenon DEF a, b, r
<1> QED
  BY <1>2, <1>3

\* What is made of a text from i on: a clean text that begins with what the
\* text begins with there or with an escape, and that can be read back.
LineOf(s, i, t) ==
    /\ t \in Texts /\ Clean(t)
    /\ Len(t) > 0 => i < Len(s) /\ (t[1] = BACKSLASH \/ t[1] = s[i + 1])
    /\ Unescape(t) = From(s, i + 1)

\* An escape in front of a clean text.
LEMMA EscapeFront ==
    ASSUME NEW a \in Texts, NEW t \in Texts, Clean(t), Len(a) > 0, a[1] = BACKSLASH,
           \A j \in 1..Len(a) : a[j] >= 32 /\ a[j] # 127 /\ a[j] # 194
    PROVE  a \o t \in Texts /\ Clean(a \o t) /\ (a \o t)[1] = BACKSLASH
<1>1. DOMAIN a = 1..Len(a) /\ Len(a) \in Nat /\ \A j \in 1..Len(a) : a[j] \in Nat
  BY LenProperties, ElementOfSeq DEF Texts
<1>2. Clean(a)
  BY <1>1 DEF Clean, C1At
<1>3. a[Len(a)] # 194
  BY <1>1
<1>4. Clean(a \o t)
  BY <1>2, <1>3, CleanCat
<1>5. a \o t \in Texts /\ \A i \in 1..Len(a) : (a \o t)[i] = a[i]
  BY Cat
<1>6. 1 \in 1..Len(a)
  BY <1>1
<1> QED
  BY <1>4, <1>5, <1>6, Zenon

\* One piece of escapeControlChars().
LEMMA LineStep ==
    ASSUME NEW s \in Texts, NEW i \in Nat, i < Len(s), NEW t,
           LineOf(s, i + EscapeStep(s, i + 1), t)
    PROVE  LineOf(s, i, EscapeAt(s, i + 1) \o t)
<1> DEFINE c == s[i + 1]
           d == s[i + 2]
<1>0. Len(s) \in Nat /\ c \in Nat /\ (i + 1 < Len(s) => d \in Nat)
  <2>1. Len(s) \in Nat /\ s \in Seq(Nat)
    BY LenProperties DEF Texts
  <2>2. i + 1 \in 1..Len(s) /\ (i + 1 < Len(s) => i + 2 \in 1..Len(s))
    BY <2>1
  <2> QED
    BY <2>1, <2>2, ElementOfSeq
<1>1. t \in Texts /\ Clean(t)
  BY Zenon DEF LineOf
<1>2. C1At(s, i + 1) <=> c = 194 /\ i + 1 < Len(s) /\ d \in 128..159
  <2>1. (i + 1) + 1 = i + 2
    OBVIOUS
  <2> QED
    BY <2>1, Zenon DEF C1At
<1>3. /\ From(s, i + 1) = <<c>> \o From(s, i + 2)
      /\ i + 1 < Len(s) => From(s, i + 1) = <<c, d>> \o From(s, i + 3)
  BY FromFirst
<1> HIDE DEF c, d
<1>4. CASE C1At(s, i + 1)
  <2> DEFINE e == Hex4(d)
             a == <<BACKSLASH, 117, e>>
  <2>1. EscapeAt(s, i + 1) = a
    <3>1. (i + 1) + 1 = i + 2
      OBVIOUS
    <3> QED
      BY <1>4, <3>1, Zenon DEF EscapeAt, d
  <2>2. Unescape(t) = From(s, i + 3)
    <3>1. EscapeStep(s, i + 1) = 2 /\ (i + 2) + 1 = i + 3
      BY <1>4 DEF EscapeStep
    <3> QED
      BY <3>1, Zenon DEF LineOf
  <2>3. e \in Nat /\ e >= 640 /\ LongMeans(117, e) = <<194, d>>
    <3>1. d \in 128..159
      BY <1>2, <1>4, Zenon
    <3>2. e \in Nat /\ e >= 640 /\ e - Hex4(0) = d
      BY <3>1 DEF Hex4
    <3>3. 117 # 120
      OBVIOUS
    <3> QED
      BY <3>2, <3>3 DEF LongMeans
  <2> HIDE DEF e
  <2>4. /\ a \in Texts /\ Len(a) > 0 /\ a[1] = BACKSLASH
        /\ \A j \in 1..Len(a) : a[j] >= 32 /\ a[j] # 127 /\ a[j] # 194
    BY <2>3 DEF Texts, BACKSLASH
  <2>5. Unescape(a \o t) = LongMeans(117, e) \o Unescape(t)
    BY <1>1, <2>3, UnescapeLong, ZenonT(40)
  <2> HIDE DEF a
  <2>6. a \o t \in Texts /\ Clean(a \o t) /\ (a \o t)[1] = BACKSLASH
    BY <1>1, <2>4, EscapeFront
  <2>7. Unescape(a \o t) = From(s, i + 1)
    BY <1>2, <1>3, <1>4, <2>2, <2>3, <2>5, Zenon
  <2> QED
    BY <2>1, <2>6, <2>7, Zenon DEF LineOf
<1>5. CASE ~C1At(s, i + 1)
  <2>1. EscapeAt(s, i + 1) = Escaped(c)
    BY <1>5, Zenon DEF EscapeAt, c
  <2>2. /\ Unescape(t) = From(s, i + 2)
        /\ Len(t) > 0 => i + 1 < Len(s) /\ (t[1] = BACKSLASH \/ t[1] = d)
    <3>1. EscapeStep(s, i + 1) = 1 /\ (i + 1) + 1 = i + 2
      BY <1>5 DEF EscapeStep
    <3> QED
      BY <3>1, Zenon DEF LineOf, d
  <2>3. ASSUME NEW e \in {BACKSLASH, 110, 114}, Escaped(c) = <<BACKSLASH, e>>, ShortMeans(e) = <<c>>
        PROVE  LineOf(s, i, EscapeAt(s, i + 1) \o t)
    <3> DEFINE a == <<BACKSLASH, e>>
    <3>1. /\ a \in Texts /\ Len(a) > 0 /\ a[1] = BACKSLASH
          /\ \A j \in 1..Len(a) : a[j] >= 32 /\ a[j] # 127 /\ a[j] # 194
      BY DEF Texts, BACKSLASH
    <3>2. Unescape(a \o t) = ShortMeans(e) \o Unescape(t)
      BY <1>1, UnescapeShort, ZenonT(40)
    <3>3. EscapeAt(s, i + 1) = a
      BY <2>1, <2>3, Zenon
    <3> HIDE DEF a
    <3>4. a \o t \in Texts /\ Clean(a \o t) /\ (a \o t)[1] = BACKSLASH
      BY <1>1, <3>1, EscapeFront
    <3>5. Unescape(a \o t) = From(s, i + 1)
      BY <1>3, <2>2, <2>3, <3>2
    <3> QED
      BY <3>3, <3>4, <3>5 DEF LineOf
  <2>4. CASE c = BACKSLASH \/ c = LF \/ c = CR
    BY <1>0, <2>3, <2>4, EscapedIs DEF ShortMeans, BACKSLASH, LF, CR
  <2>5. CASE (c < 32 /\ c # TAB /\ c # LF /\ c # CR) \/ c = 127
    <3> DEFINE e == Hex2(c)
               a == <<BACKSLASH, 120, e>>
    <3>1. EscapeAt(s, i + 1) = a
      BY <1>0, <2>1, <2>5, EscapedIs
    <3>2. e \in Nat /\ e >= 256 /\ LongMeans(120, e) = <<c>>
      BY <1>0 DEF Hex2, LongMeans
    <3> HIDE DEF e
    <3>3. /\ a \in Texts /\ Len(a) > 0 /\ a[1] = BACKSLASH
          /\ \A j \in 1..Len(a) : a[j] >= 32 /\ a[j] # 127 /\ a[j] # 194
      BY <3>2 DEF Texts, BACKSLASH
    <3>4. Unescape(a \o t) = LongMeans(120, e) \o Unescape(t)
      <4>1. 120 \in {120, 117}
        OBVIOUS
      <4>2. e \in Nat /\ t \in Texts
        BY <1>1, <3>2, Zenon
      <4> QED
        BY <4>1, <4>2, UnescapeLong, ZenonT(40)
    <3> HIDE DEF a
    <3>5. a \o t \in Texts /\ Clean(a \o t) /\ (a \o t)[1] = BACKSLASH
      BY <1>1, <3>3, EscapeFront
    <3>6. Unescape(a \o t) = From(s, i + 1)
      BY <1>3, <2>2, <3>2, <3>4, Zenon
    <3> QED
      BY <3>1, <3>5, <3>6, Zenon DEF LineOf
  <2>6. CASE c # BACKSLASH /\ c # 127 /\ (c < 32 => c = TAB)
    <3> DEFINE a == <<c>>
    <3>1. EscapeAt(s, i + 1) = a
      BY <1>0, <2>1, <2>6, EscapedIs
    <3>2. Unescape(a \o t) = <<c>> \o Unescape(t)
      BY <1>0, <1>1, <2>6, UnescapePlain
    <3>3. a \in Texts /\ Len(a) = 1 /\ a[1] = c /\ Clean(a)
      BY <1>0, <2>6 DEF Texts, Clean, C1At
    <3> HIDE DEF a
    <3>4. a[Len(a)] = 194 /\ Len(t) > 0 => t[1] \notin 128..159
      <4>1. BACKSLASH \notin 128..159
        BY DEF BACKSLASH
      <4>2. c = 194 /\ Len(t) > 0 => t[1] \notin 128..159
        BY <1>2, <1>5, <2>2, <4>1, ZenonT(40)
      <4>3. a[Len(a)] = c
        BY <3>3
      <4> QED
        BY <4>2, <4>3
    <3>5. Clean(a \o t)
      <4>1. a \in Texts /\ t \in Texts /\ Clean(a) /\ Clean(t) /\ Len(a) > 0
        BY <1>1, <3>3
      <4> QED
        BY <3>4, <4>1, CleanCat
    <3>6. a \o t \in Texts /\ (a \o t)[1] = c
      <4>1. a \in Texts /\ t \in Texts
        BY <1>1, <3>3
      <4>2. a \o t \in Texts /\ \A j \in 1..Len(a) : (a \o t)[j] = a[j]
        BY <4>1, Cat
      <4>3. 1 \in 1..Len(a)
        BY <3>3
      <4> QED
        BY <3>3, <4>2, <4>3, Zenon
    <3>7. Unescape(a \o t) = From(s, i + 1)
      BY <1>3, <2>2, <3>2, Zenon
    <3> QED
      BY <3>1, <3>5, <3>6, <3>7, Zenon DEF LineOf, c
  <2> QED
    BY <1>0, <2>4, <2>5, <2>6
<1> QED
  BY <1>4, <1>5

\* An empty line is empty.
LEMMA UnescapeEmpty == Unescape(<<>>) = <<>>
<1> DEFINE piece == [i \in DOMAIN <<>> |-> MeansAt(<<>>, i)]
           step == [i \in DOMAIN <<>> |-> StepAt(<<>>, i)]
<1>1. <<>> \in Texts
  BY DEF Texts
<1>2. Pieces(piece, step) /\ Len(piece) = Len(<<>>) /\ Unescape(<<>>) = Scan(piece, step)
  BY <1>1, UnescapePieces, UnescapeIs
<1>3. Len(<<>>) = 0
  BY EmptySeq
<1> HIDE DEF piece, step
<1>4. PICK f : Walk(f, piece, step) /\ Scan(piece, step) = f[0]
  BY <1>2, ScanWalks
<1>5. f[0] = <<>>
  <2>1. 0 \in Nat /\ 0 >= Len(piece)
    BY <1>2, <1>3
  <2> QED
    BY <1>4, <2>1, Zenon DEF Walk
<1> QED
  BY <1>2, <1>4, <1>5, Zenon

\* escapeControlChars() makes a clean line, and Unescape() reads it back.
LEMMA EscapeLine ==
    ASSUME NEW s \in Texts
    PROVE  /\ EscapeControlChars(s) \in Texts /\ Clean(EscapeControlChars(s))
           /\ Unescape(EscapeControlChars(s)) = s
<1> DEFINE piece == [i \in DOMAIN s |-> EscapeAt(s, i)]
           step == [i \in DOMAIN s |-> EscapeStep(s, i)]
           Q == {p \in Nat \X Texts : LineOf(s, p[1], p[2])}
<1>1. EscapeControlChars(s) = Scan(piece, step)
  BY Zenon DEF EscapeControlChars, EscapeAt, EscapeStep
<1>2. Len(s) \in Nat /\ DOMAIN s = 1..Len(s)
  BY LenProperties DEF Texts
<1>3. /\ Len(piece) = Len(s)
      /\ \A i \in 1..Len(s) : piece[i] = EscapeAt(s, i) /\ step[i] = EscapeStep(s, i)
  BY <1>2
<1> HIDE DEF piece, step
<1>4. Pieces(piece, step)
  <2>1. \A i : EscapeStep(s, i) \in Nat \ {0}
    BY DEF EscapeStep
  <2> QED
    BY <1>2, <1>3, <2>1 DEF Pieces
<1>5. PICK f : Walk(f, piece, step) /\ Scan(piece, step) = f[0]
  BY <1>4, ScanWalks
<1>6. ASSUME NEW i \in Nat, i >= Len(piece)
      PROVE  <<i, <<>>>> \in Q
  <2>1. <<>> \in Texts /\ Len(<<>>) = 0 /\ DOMAIN <<>> = {}
    BY DEF Texts
  <2>2. From(s, i + 1) = <<>>
    <3>1. i + 1 \in Int /\ Len(s) \in Int /\ Len(s) < i + 1
      BY <1>2, <1>3, <1>6
    <3> QED
      BY <3>1, SubSeqEmpty DEF From
  <2>3. Clean(<<>>)
    BY <2>1 DEF Clean
  <2>4. LineOf(s, i, <<>>)
    BY <2>1, <2>2, <2>3, UnescapeEmpty DEF LineOf
  <2> QED
    BY <2>1, <2>4
<1>7. ASSUME NEW i \in 0..(Len(piece) - 1), NEW rest, <<i + step[i + 1], rest>> \in Q
      PROVE  <<i, piece[i + 1] \o rest>> \in Q
  <2>1. i \in Nat /\ i < Len(s) /\ i + 1 \in 1..Len(s)
    BY <1>2, <1>3
  <2>2. piece[i + 1] = EscapeAt(s, i + 1) /\ step[i + 1] = EscapeStep(s, i + 1)
    BY <1>3, <2>1
  <2>3. LineOf(s, i + EscapeStep(s, i + 1), rest)
    BY <1>7, <2>2
  <2> DEFINE t == EscapeAt(s, i + 1) \o rest
  <2>4. LineOf(s, i, t)
    BY <2>1, <2>3, LineStep
  <2> HIDE DEF t
  <2>5. t \in Texts
    BY <2>4, Zenon DEF LineOf
  <2>6. <<i, t>> \in Q
    BY <2>1, <2>4, <2>5
  <2> QED
    BY <2>2, <2>6, Zenon DEF t
<1> HIDE DEF Q
<1>8. \A i \in Nat : <<i, f[i]>> \in Q
  BY <1>4, <1>5, <1>6, <1>7, WalkInd, Zenon
<1>9. <<0, f[0]>> \in Q
  BY <1>8
<1>10. LineOf(s, 0, f[0])
  BY <1>9 DEF Q
<1>11. From(s, 0 + 1) = s
  BY SubSeqFull DEF From, Texts
<1> QED
  BY <1>1, <1>5, <1>10, <1>11, Zenon DEF LineOf

\* A set of positions of a text has a last one.
LEMMA LastPosition ==
    ASSUME NEW n \in Nat, NEW T \in SUBSET (1..n), T # {}
    PROVE  \E m \in T : \A j \in T : j <= m
<1> DEFINE D == {k \in Nat : n - k \in T}
<1>1. D # {} /\ D \in SUBSET Nat
  <2>1. PICK j \in T : TRUE
    OBVIOUS
  <2>2. n - j \in Nat /\ n - (n - j) = j
    BY <2>1
  <2> QED
    BY <2>1, <2>2
<1>2. PICK k \in D : \A x \in D : k <= x
  BY <1>1, LeastNat
<1>3. ASSUME NEW j \in T PROVE j <= n - k
  <2>1. n - j \in Nat /\ n - (n - j) = j
    OBVIOUS
  <2>2. n - j \in D
    BY <2>1
  <2> QED
    BY <1>2, <2>2
<1> QED
  BY <1>2, <1>3

\* What is left of a datagram without the line ends behind it.
LEMMA StrippedIs ==
    ASSUME NEW s \in Texts
    PROVE  \E n \in 0..Len(s) :
              /\ Stripped(s) = SubSeq(s, 1, n)
              /\ n > 0 => s[n] \notin {CR, LF}
              /\ \A i \in (n + 1)..Len(s) : s[i] \in {CR, LF}
<1> DEFINE keep == {i \in DOMAIN s : s[i] \notin {CR, LF}}
           last == CHOOSE i \in keep : \A j \in keep : j <= i
<1>1. Len(s) \in Nat /\ DOMAIN s = 1..Len(s)
  BY LenProperties DEF Texts
<1>2. Stripped(s) = IF keep = {} THEN <<>> ELSE SubSeq(s, 1, last)
  BY Zenon DEF Stripped
<1>3. CASE keep = {}
  <2>1. SubSeq(s, 1, 0) = <<>>
    BY SubSeqEmpty
  <2>2. \A i \in 1..Len(s) : s[i] \in {CR, LF}
    BY <1>1, <1>3
  <2>3. 0 \in 0..Len(s) /\ 0 + 1 = 1
    BY <1>1
  <2> QED
    BY <1>2, <1>3, <2>1, <2>2, <2>3
<1>4. CASE keep # {}
  <2>1. \E m \in keep : \A j \in keep : j <= m
    <3>1. keep \in SUBSET (1..Len(s))
      BY <1>1
    <3> HIDE DEF keep
    <3> QED
      BY <1>1, <1>4, <3>1, LastPosition
  <2>2. last \in keep /\ \A j \in keep : j <= last
    BY <2>1
  <2> HIDE DEF last
  <2>3. last \in 0..Len(s) /\ s[last] \notin {CR, LF}
    BY <1>1, <2>2
  <2>4. \A i \in (last + 1)..Len(s) : s[i] \in {CR, LF}
    BY <1>1, <2>2
  <2> HIDE DEF keep
  <2> QED
    BY <1>2, <1>4, <2>3, <2>4
<1> QED
  BY <1>3, <1>4

\* It is a text.
LEMMA StrippedIsText ==
    ASSUME NEW s \in Texts
    PROVE  Stripped(s) \in Texts
<1>1. PICK n \in 0..Len(s) : Stripped(s) = SubSeq(s, 1, n)
  BY StrippedIs
<1>2. Len(s) \in Nat
  BY LenProperties DEF Texts
<1>3. 1 \in 1..(Len(s) + 1)
  BY <1>2
<1> QED
  BY <1>1, <1>3, SubText

\* What has been received is what is made of some datagram.
Arrivals == {Received(p[1], p[2]) : p \in Texts \X Nat}
GotInv == got \in Seq(Arrivals)

\* Receive and ReceiveRaw make an arrival of any text; the others leave got alone.
LEMMA GotStep == SendInv /\ GotInv /\ [Next]_vars => GotInv'
<1> SUFFICES ASSUME SendInv, GotInv, [Next]_vars PROVE GotInv'
  OBVIOUS
<1>1. ASSUME NEW d \in Texts, NEW n \in Nat, got' = Append(got, Received(d, n))
      PROVE  GotInv'
  <2> DEFINE e == Received(d, n)
  <2>1. e \in Arrivals
    <3>1. <<d, n>> \in Texts \X Nat /\ <<d, n>>[1] = d /\ <<d, n>>[2] = n
      OBVIOUS
    <3> QED
      BY <3>1, Zenon DEF Arrivals
  <2> HIDE DEF e
  <2>2. got \in Seq(Arrivals) /\ got' = Append(got, e)
    BY <1>1, Zenon DEF GotInv, e
  <2>3. got' \in Seq(Arrivals)
    BY <2>1, <2>2, AppendProperties
  <2> QED
    BY <2>3 DEF GotInv
<1>2. CASE Receive
  <2>1. PICK i \in DOMAIN sent : got' = Append(got, Received(sent[i].datagram, i))
    BY <1>2, Zenon DEF Receive, Arrive
  <2>2. sent \in Seq([fields: FieldSets, datagram: Texts])
    BY Zenon DEF SendInv
  <2>3. i \in Nat /\ sent[i].datagram \in Texts
    <3>1. DOMAIN sent = 1..Len(sent) /\ Len(sent) \in Nat
      BY <2>2, LenProperties
    <3>2. sent[i] \in [fields: FieldSets, datagram: Texts]
      BY <2>2, <3>1, ElementOfSeq
    <3> QED
      BY <3>1, <3>2
  <2> QED
    BY <1>1, <2>1, <2>3, Zenon
<1>3. CASE ReceiveRaw
  <2>1. PICK d \in RawDatagrams : got' = Append(got, Received(d, 0))
    BY <1>3, Zenon DEF ReceiveRaw, Arrive
  <2>2. d \in Texts
    BY TextsAssumption
  <2>3. 0 \in Nat
    OBVIOUS
  <2> QED
    BY <1>1, <2>1, <2>2, <2>3, Zenon
<1>4. CASE Options \/ CheckFields \/ Resolve \/ SendLine \/ UNCHANGED vars
  <2>1. got' = got
    BY <1>4, Zenon DEF Options, CheckFields, Resolve, SendLine, vars
  <2> QED
    BY <2>1, Zenon DEF GotInv
<1> QED
  BY <1>2, <1>3, <1>4 DEF Next

\* The two invariants hold throughout.
LEMMA WireInvariant == Spec => [](SendInv /\ GotInv)
<1>1. Init => GotInv
  <2>1. <<>> \in Seq(Arrivals)
    BY EmptySeq
  <2> QED
    BY <2>1, Zenon DEF Init, GotInv
<1> QED
  BY <1>1, SendInit, SendStep, GotStep, PTL DEF Spec

\* A received datagram, by what was made of it.
LEMMA GotIs ==
    ASSUME GotInv, NEW i \in DOMAIN got
    PROVE  \E d \in Texts, n \in Nat : got[i] = Received(d, n)
<1>1. got \in Seq(Arrivals)
  BY Zenon DEF GotInv
<1>2. got[i] \in Arrivals
  BY <1>1, LenProperties, ElementOfSeq
<1>3. PICK p \in Texts \X Nat : got[i] = Received(p[1], p[2])
  BY <1>2, Zenon DEF Arrivals
<1>4. p[1] \in Texts /\ p[2] \in Nat
  OBVIOUS
<1> QED
  BY <1>3, <1>4, Zenon

\* A datagram of any bytes is one line of the text file, no control character
\* of it reaches a terminal, and its bytes can be read back from the line.
THEOREM AlwaysOneLinePerDatagram == Spec => []OneLinePerDatagram
<1>1. ASSUME GotInv PROVE OneLinePerDatagram
  <2>1. ASSUME NEW i \in DOMAIN got
        PROVE  Clean(got[i].text) /\ Unescape(got[i].text) = got[i].raw
    <3>1. PICK d \in Texts, n \in Nat : got[i] = Received(d, n)
      BY <1>1, GotIs
    <3>2. got[i].text = EscapeControlChars(Stripped(d)) /\ got[i].raw = Stripped(d)
      BY <3>1 DEF Received
    <3>3. Stripped(d) \in Texts
      BY StrippedIsText
    <3> QED
      BY <3>2, <3>3, EscapeLine, Zenon
  <2> QED
    BY <2>1 DEF OneLinePerDatagram, Clean
<1> QED
  BY WireInvariant, <1>1, PTL
-----------------------------------------------------------------------------
(***************************************************************************)
(* The texts of a JSONL record.                                            *)
(***************************************************************************)

\* A first byte and the length of its sequence.
LEMMA LengthIs ==
    ASSUME NEW c \in Nat
    PROVE  SequenceLength(c) = IF c \in 194..223 THEN 2 ELSE IF c \in 224..239 THEN 3
                               ELSE IF c \in 240..244 THEN 4 ELSE 0
<1> DEFINE two == c \in 194..223
           three == c \in 224..239
           four == c \in 240..244
<1>1. SequenceLength(c) = CASE two -> 2 [] three -> 3 [] four -> 4 [] OTHER -> 0
  BY Zenon DEF SequenceLength
<1>2. ~(two /\ three) /\ ~(two /\ four) /\ ~(three /\ four)
  OBVIOUS
<1> HIDE DEF two, three, four
<1>3. SequenceLength(c) = IF two THEN 2 ELSE IF three THEN 3 ELSE IF four THEN 4 ELSE 0
  <2>1. CASE two
    BY <1>1, <1>2, <2>1, Zenon
  <2>2. CASE three
    BY <1>1, <1>2, <2>2, Zenon
  <2>3. CASE four
    BY <1>1, <1>2, <2>3, Zenon
  <2>4. CASE ~two /\ ~three /\ ~four
    BY <1>1, <2>4, Zenon
  <2> QED
    BY <2>1, <2>2, <2>3, <2>4, Zenon
<1> QED
  BY <1>3, Zenon DEF two, three, four

\* A first byte and the bounds of the second one.
LEMMA SecondIs ==
    ASSUME NEW c \in Nat, NEW x \in Nat
    PROVE  x \in SecondByte(c) <=>
              /\ x \in 128..191
              /\ c = 224 => x >= 160
              /\ c = 237 => x < 160
              /\ c = 240 => x >= 144
              /\ c = 244 => x < 144
<1>1. SecondByte(c) =
        CASE c = 224 -> 160..191 [] c = 237 -> 128..159 [] c = 240 -> 144..191
          [] c = 244 -> 128..143 [] OTHER -> 128..191
  BY Zenon DEF SecondByte
<1>2. 224 # 237 /\ 224 # 240 /\ 224 # 244 /\ 237 # 240 /\ 237 # 244 /\ 240 # 244
  OBVIOUS
<1> DEFINE A == 224
           B == 237
           C == 240
           D == 244
           SA == 160..191
           SB == 128..159
           SC == 144..191
           SD == 128..143
           SE == 128..191
<1>3. SecondByte(c) = CASE c = A -> SA [] c = B -> SB [] c = C -> SC [] c = D -> SD [] OTHER -> SE
  BY <1>1, Zenon
<1>4. A # B /\ A # C /\ A # D /\ B # C /\ B # D /\ C # D
  BY <1>2
<1> HIDE DEF A, B, C, D, SA, SB, SC, SD, SE
<1>5. c = A => SecondByte(c) = SA
  BY <1>3, <1>4, Zenon
<1>6. c = B => SecondByte(c) = SB
  BY <1>3, <1>4, Zenon
<1>7. c = C => SecondByte(c) = SC
  BY <1>3, <1>4, Zenon
<1>8. c = D => SecondByte(c) = SD
  BY <1>3, <1>4, Zenon
<1>9. c # A /\ c # B /\ c # C /\ c # D => SecondByte(c) = SE
  BY <1>3, <1>4, Zenon
<1> QED
  BY <1>5, <1>6, <1>7, <1>8, <1>9 DEF A, B, C, D, SA, SB, SC, SD, SE

\* The bytes of a well-formed sequence.
LEMMA WellFormedBytes ==
    ASSUME NEW s \in Texts, NEW p \in Nat \ {0}, NEW len \in 2..4, WellFormedAt(s, p, len)
    PROVE  /\ p + len - 1 <= Len(s) /\ s[p] \in 194..244
           /\ \A j \in 1..(len - 1) : s[p + j] \in 128..191
           /\ len = SequenceLength(s[p])
<1>1. s[p] \in 194..244
  BY DEF WellFormedAt
<1>2. len = SequenceLength(s[p])
  <2> DEFINE c == s[p]
  <2>1. c \in Nat
    BY <1>1
  <2>2. \/ len = 2 /\ c \in 194..223
        \/ len = 3 /\ c \in 224..239
        \/ len = 4 /\ c \in 240..244
    BY Zenon DEF WellFormedAt
  <2> HIDE DEF c
  <2>3. len = SequenceLength(c)
    BY <2>1, <2>2, LengthIs
  <2> QED
    BY <2>3 DEF c
<1> QED
  BY <1>1, <1>2 DEF WellFormedAt

\* What sanitizeUtf8() takes for a sequence is a well-formed one, ...
LEMMA SequenceIsWellFormed ==
    ASSUME NEW s \in Texts, NEW i \in 1..Len(s), SequenceAt(s, i)
    PROVE  SequenceLength(s[i]) \in 2..4 /\ WellFormedAt(s, i, SequenceLength(s[i]))
<1> DEFINE len == SequenceLength(s[i])
<1>0. Len(s) \in Nat /\ \A j \in 1..Len(s) : s[j] \in Nat
  BY LenProperties, ElementOfSeq DEF Texts
<1>1. len = IF s[i] \in 194..223 THEN 2 ELSE IF s[i] \in 224..239 THEN 3
            ELSE IF s[i] \in 240..244 THEN 4 ELSE 0
  BY <1>0, LengthIs
<1>2. /\ len > 0 /\ i + len - 1 <= Len(s) /\ s[i + 1] \in SecondByte(s[i])
      /\ \A j \in 2..(len - 1) : s[i + j] \in 128..191
  BY Zenon DEF SequenceAt
<1> HIDE DEF len
<1>3. len \in 2..4
  BY <1>1, <1>2
<1>4. i + 1 \in 1..Len(s)
  BY <1>0, <1>2, <1>3
<1>5. /\ s[i + 1] \in 128..191
      /\ s[i] = 224 => s[i + 1] >= 160
      /\ s[i] = 237 => s[i + 1] < 160
      /\ s[i] = 240 => s[i + 1] >= 144
      /\ s[i] = 244 => s[i + 1] < 144
  <2> DEFINE c == s[i]
             x == s[i + 1]
  <2>1. c \in Nat /\ x \in Nat /\ x \in SecondByte(c)
    BY <1>0, <1>2, <1>4
  <2> HIDE DEF c, x
  <2>2. /\ x \in 128..191
        /\ c = 224 => x >= 160
        /\ c = 237 => x < 160
        /\ c = 240 => x >= 144
        /\ c = 244 => x < 144
    BY <2>1, SecondIs
  <2> QED
    BY <2>2 DEF c, x
<1>6. \A j \in 1..(len - 1) : s[i + j] \in 128..191
  <2>1. ASSUME NEW j \in 1..(len - 1) PROVE s[i + j] \in 128..191
    <3>1. CASE j = 1
      <4>1. s[i + j] = s[i + 1]
        BY <3>1
      <4> QED
        BY <1>5, <4>1, Zenon
    <3>2. CASE j # 1
      <4>1. j \in 2..(len - 1)
        BY <1>3, <3>2
      <4> QED
        BY <1>2, <4>1, Zenon
    <3> QED
      BY <3>1, <3>2
  <2> QED
    BY <2>1
<1>7. WellFormedAt(s, i, len)
  BY <1>1, <1>2, <1>3, <1>5, <1>6 DEF WellFormedAt
<1> QED
  BY <1>3, <1>7 DEF len

\* ... and it takes every well-formed one.
LEMMA WellFormedIsSequence ==
    ASSUME NEW s \in Texts, NEW i \in 1..Len(s), NEW len \in 2..4, WellFormedAt(s, i, len)
    PROVE  SequenceAt(s, i) /\ SequenceLength(s[i]) = len
<1>0. Len(s) \in Nat /\ \A j \in 1..Len(s) : s[j] \in Nat
  BY LenProperties, ElementOfSeq DEF Texts
<1>1. /\ i + len - 1 <= Len(s) /\ s[i] \in 194..244
      /\ \A j \in 1..(len - 1) : s[i + j] \in 128..191
      /\ len = SequenceLength(s[i])
  <2>1. i \in Nat \ {0}
    BY <1>0
  <2> QED
    BY <2>1, WellFormedBytes
<1> DEFINE Later == 128..191
<1>a. \A j \in 1..(len - 1) : s[i + j] \in Later
  BY <1>1
<1> HIDE DEF Later
<1>2. i + 1 \in 1..Len(s) /\ s[i + 1] \in 128..191
  <2>1. 1 \in 1..(len - 1) /\ i + 1 \in 1..Len(s)
    <3>1. i + len - 1 <= Len(s)
      BY <1>1, Zenon
    <3> QED
      BY <1>0, <3>1
  <2> QED
    BY <1>a, <2>1 DEF Later
<1>3. /\ s[i] = 224 => s[i + 1] >= 160
      /\ s[i] = 237 => s[i + 1] < 160
      /\ s[i] = 240 => s[i + 1] >= 144
      /\ s[i] = 244 => s[i + 1] < 144
  <2> DEFINE c == s[i]
             x == s[i + 1]
  <2>1. \/ len = 2 /\ c \in 194..223
        \/ /\ len = 3 /\ c \in 224..239
           /\ c = 224 => x >= 160
           /\ c = 237 => x < 160
        \/ /\ len = 4 /\ c \in 240..244
           /\ c = 240 => x >= 144
           /\ c = 244 => x < 144
    BY Zenon DEF WellFormedAt
  <2>a. c \in Nat /\ x \in Nat
    BY <1>0, <1>2
  <2> HIDE DEF c, x
  <2>2. /\ c = 224 => x >= 160
        /\ c = 237 => x < 160
        /\ c = 240 => x >= 144
        /\ c = 244 => x < 144
    <3>1. CASE len = 2 /\ c \in 194..223
      BY <3>1
    <3>2. CASE len = 3 /\ c \in 224..239 /\ (c = 224 => x >= 160) /\ (c = 237 => x < 160)
      BY <3>2
    <3>3. CASE len = 4 /\ c \in 240..244 /\ (c = 240 => x >= 144) /\ (c = 244 => x < 144)
      BY <3>3
    <3> QED
      BY <2>1, <3>1, <3>2, <3>3, Zenon
  <2> QED
    BY <2>2 DEF c, x
<1>4. s[i + 1] \in SecondByte(s[i])
  <2> DEFINE c == s[i]
             x == s[i + 1]
  <2>1. c \in Nat /\ x \in Nat /\ x \in 128..191
    BY <1>0, <1>2
  <2>2. /\ c = 224 => x >= 160
        /\ c = 237 => x < 160
        /\ c = 240 => x >= 144
        /\ c = 244 => x < 144
    BY <1>3
  <2> HIDE DEF c, x
  <2>3. x \in SecondByte(c)
    BY <2>1, <2>2, SecondIs
  <2> QED
    BY <2>3 DEF c, x
<1>5. len > 0 /\ \A j \in 2..(len - 1) : s[i + j] \in 128..191
  <2>1. ASSUME NEW j \in 2..(len - 1) PROVE s[i + j] \in 128..191
    <3>1. j \in 1..(len - 1)
      OBVIOUS
    <3> QED
      BY <1>a, <3>1 DEF Later
  <2>2. len > 0
    OBVIOUS
  <2> QED
    BY <2>1, <2>2, Zenon
<1> QED
  BY <1>1, <1>4, <1>5, Zenon DEF SequenceAt

\* A well-formed sequence of a part of a text is one of the text.
LEMMA WellFormedMoves ==
    ASSUME NEW s \in Texts, NEW x \in Texts, NEW m \in Nat, NEW p \in Nat \ {0}, NEW len \in 2..4,
           WellFormedAt(s, p, len), m + Len(s) <= Len(x),
           \A j \in 1..Len(s) : x[m + j] = s[j]
    PROVE  WellFormedAt(x, m + p, len)
<1>0. Len(s) \in Nat /\ Len(x) \in Nat
  BY LenProperties DEF Texts
<1>1. p + len - 1 <= Len(s)
  BY WellFormedBytes
<1>2. ASSUME NEW j \in 0..(len - 1) PROVE x[(m + p) + j] = s[p + j]
  <2>1. p + j \in 1..Len(s) /\ m + (p + j) = (m + p) + j
    BY <1>0, <1>1
  <2> QED
    BY <2>1
<1>3. x[m + p] = s[p] /\ x[(m + p) + 1] = s[p + 1]
  <2>1. 0 \in 0..(len - 1) /\ 1 \in 0..(len - 1) /\ (m + p) + 0 = m + p /\ p + 0 = p
    OBVIOUS
  <2> QED
    BY <1>2, <2>1
<1>4. (m + p) + len - 1 <= Len(x)
  BY <1>0, <1>1
<1>5. \A j \in 1..(len - 1) : x[(m + p) + j] = s[p + j]
  BY <1>2
<1> DEFINE Later == 128..191
<1>6. \A j \in 1..(len - 1) : x[(m + p) + j] \in Later
  <2>1. \A j \in 1..(len - 1) : s[p + j] \in Later
    BY Zenon DEF WellFormedAt
  <2> HIDE DEF Later
  <2> QED
    BY <1>5, <2>1
<1> DEFINE c == s[p]
           d == s[p + 1]
<1>7. \/ len = 2 /\ c \in 194..223
      \/ /\ len = 3 /\ c \in 224..239
         /\ c = 224 => d >= 160
         /\ c = 237 => d < 160
      \/ /\ len = 4 /\ c \in 240..244
         /\ c = 240 => d >= 144
         /\ c = 244 => d < 144
  BY Zenon DEF WellFormedAt
<1> HIDE DEF c, d
<1>8. x[m + p] = c /\ x[(m + p) + 1] = d
  BY <1>3 DEF c, d
<1> QED
  BY <1>4, <1>6, <1>7, <1>8, ZenonT(40) DEF WellFormedAt

\* Every byte of a text is ASCII or within a well-formed sequence.
Formed(s, i) ==
    \/ Ascii(s[i])
    \/ \E len \in 2..4 : \E k \in 0..(len - 1) : k < i /\ WellFormedAt(s, i - k, len)

\* A position is well formed in a part of a text when it is in the whole.
LEMMA FormedMoves ==
    ASSUME NEW s \in Texts, NEW x \in Texts, NEW m \in Nat, NEW i \in 1..Len(s), Formed(s, i),
           m + Len(s) <= Len(x), \A j \in 1..Len(s) : x[m + j] = s[j]
    PROVE  Formed(x, m + i)
<1>1. CASE Ascii(s[i])
  BY <1>1 DEF Formed
<1>2. CASE ~Ascii(s[i])
  <2>1. PICK len \in 2..4 : \E k \in 0..(len - 1) : k < i /\ WellFormedAt(s, i - k, len)
    BY <1>2, Zenon DEF Formed
  <2>2. PICK k \in 0..(len - 1) : k < i /\ WellFormedAt(s, i - k, len)
    BY <2>1, Zenon
  <2> DEFINE p == i - k
  <2>3. p \in Nat \ {0} /\ m + p = (m + i) - k /\ k < m + i
    BY <2>2
  <2>4. WellFormedAt(s, p, len)
    BY <2>2
  <2> HIDE DEF p
  <2>5. WellFormedAt(x, m + p, len)
    BY <2>3, <2>4, WellFormedMoves
  <2>6. WellFormedAt(x, (m + i) - k, len)
    BY <2>3, <2>5
  <2> QED
    BY <2>3, <2>6, Zenon DEF Formed
<1> QED
  BY <1>1, <1>2

\* Two well-formed texts in a row are well-formed.
LEMMA WellFormedCat ==
    ASSUME NEW a \in Texts, NEW t \in Texts, WellFormed(a), WellFormed(t)
    PROVE  WellFormed(a \o t)
<1> DEFINE x == a \o t
           k == Len(a)
<1>1. /\ x \in Texts /\ k \in Nat /\ Len(t) \in Nat /\ Len(x) = k + Len(t) /\ DOMAIN x = 1..(k + Len(t))
      /\ \A i \in 1..k : x[i] = a[i]
      /\ \A i \in 1..Len(t) : x[k + i] = t[i]
  BY Cat
<1>2. DOMAIN t = 1..Len(t) /\ DOMAIN a = 1..k
  BY LenProperties DEF Texts
<1> HIDE DEF x, k
<1>3. (\A i \in 1..k : Formed(a, i)) /\ (\A i \in 1..Len(t) : Formed(t, i))
  BY <1>2, Zenon DEF WellFormed, Formed
<1>4. ASSUME NEW i \in 1..(k + Len(t)) PROVE Formed(x, i)
  <2>1. CASE i \in 1..k
    <3>1. 0 + k <= Len(x) /\ (\A j \in 1..k : x[0 + j] = a[j]) /\ 0 + i = i
      BY <1>1
    <3>2. Formed(x, 0 + i)
      BY <1>1, <1>3, <2>1, <3>1, FormedMoves DEF k
    <3> QED
      BY <3>1, <3>2
  <2>2. CASE i \notin 1..k
    <3> DEFINE j == i - k
    <3>1. j \in 1..Len(t) /\ k + j = i
      BY <1>1, <2>2
    <3> HIDE DEF j
    <3>2. Formed(x, k + j)
      BY <1>1, <1>3, <3>1, FormedMoves
    <3> QED
      BY <3>1, <3>2
  <2> QED
    BY <2>1, <2>2
<1>5. WellFormed(x)
  BY <1>1, <1>4, Zenon DEF WellFormed, Formed
<1> QED
  BY <1>5 DEF x

\* The pieces that sanitizeUtf8() reads a text by.
SanitizeStep(s, i) == IF ~Ascii(s[i]) /\ SequenceAt(s, i) THEN SequenceLength(s[i]) ELSE 1
SanitizeAt(s, i) ==
    IF Ascii(s[i]) \/ SequenceAt(s, i) THEN SubSeq(s, i, i + SanitizeStep(s, i) - 1) ELSE Replacement

\* sanitizeUtf8() in terms of them.
LEMMA SanitizeIs ==
    ASSUME NEW s \in Texts
    PROVE  SanitizeUtf8(s) = Scan([i \in DOMAIN s |-> SanitizeAt(s, i)],
                                  [i \in DOMAIN s |-> SanitizeStep(s, i)])
<1> DEFINE step == [i \in DOMAIN s |->
                      IF ~Ascii(s[i]) /\ SequenceAt(s, i) THEN SequenceLength(s[i]) ELSE 1]
           piece == [i \in DOMAIN s |-> IF Ascii(s[i]) \/ SequenceAt(s, i)
                                        THEN SubSeq(s, i, i + step[i] - 1) ELSE Replacement]
<1>1. SanitizeUtf8(s) = Scan(piece, step)
  BY Zenon DEF SanitizeUtf8
<1>2. step = [i \in DOMAIN s |-> SanitizeStep(s, i)]
  BY Zenon DEF SanitizeStep
<1>3. \A i \in DOMAIN s : step[i] = SanitizeStep(s, i)
  BY Zenon DEF SanitizeStep
<1> HIDE DEF step
<1>4. piece = [i \in DOMAIN s |-> SanitizeAt(s, i)]
  BY <1>3, Zenon DEF SanitizeAt
<1> HIDE DEF piece
<1> QED
  BY <1>1, <1>2, <1>4, Zenon

\* A piece ends within the text.
LEMMA SanitizeSteps ==
    ASSUME NEW s \in Texts, NEW i \in 1..Len(s)
    PROVE  /\ SanitizeStep(s, i) \in 1..4 /\ i + SanitizeStep(s, i) - 1 <= Len(s)
           /\ ~Ascii(s[i]) /\ SequenceAt(s, i) =>
                /\ SanitizeStep(s, i) = SequenceLength(s[i])
                /\ SanitizeStep(s, i) \in 2..4 /\ WellFormedAt(s, i, SanitizeStep(s, i))
           /\ Ascii(s[i]) => SanitizeStep(s, i) = 1
<1>0. Len(s) \in Nat
  BY LenProperties DEF Texts
<1>1. CASE ~Ascii(s[i]) /\ SequenceAt(s, i)
  <2> DEFINE len == SequenceLength(s[i])
  <2>1. len \in 2..4 /\ WellFormedAt(s, i, len)
    BY <1>1, SequenceIsWellFormed
  <2>2. SanitizeStep(s, i) = len
    BY <1>1, Zenon DEF SanitizeStep
  <2> HIDE DEF len
  <2>3. i + len - 1 <= Len(s)
    BY <2>1, Zenon DEF WellFormedAt
  <2>4. len \in 1..4
    BY <2>1
  <2> QED
    BY <1>1, <2>1, <2>2, <2>3, <2>4, Zenon DEF len
<1>2. CASE ~(~Ascii(s[i]) /\ SequenceAt(s, i))
  <2>1. SanitizeStep(s, i) = 1
    BY <1>2, Zenon DEF SanitizeStep
  <2>2. 1 \in 1..4 /\ i + 1 - 1 <= Len(s)
    BY <1>0
  <2> QED
    BY <1>2, <2>1, <2>2, Zenon
<1> QED
  BY <1>1, <1>2

\* U+FFFD is well-formed, ...
LEMMA ReplacementFormed == Replacement \in Texts /\ WellFormed(Replacement)
<1> DEFINE r == <<239, 191, 189>>
<1>1. r \in Texts /\ Len(r) = 3 /\ DOMAIN r = 1..3 /\ r[1] = 239 /\ r[2] = 191 /\ r[3] = 189
  BY DEF Texts
<1> HIDE DEF r
<1>2. WellFormedAt(r, 1, 3)
  <2>1. \A j \in 1..(3 - 1) : r[1 + j] \in 128..191
    BY <1>1
  <2> QED
    BY <1>1, <2>1 DEF WellFormedAt
<1>3. ASSUME NEW i \in 1..3 PROVE Formed(r, i)
  <2>1. i - 1 \in 0..(3 - 1) /\ i - 1 < i /\ i - (i - 1) = 1 /\ 3 \in 2..4
    OBVIOUS
  <2>2. WellFormedAt(r, i - (i - 1), 3)
    BY <1>2, <2>1
  <2> HIDE DEF WellFormedAt
  <2> QED
    BY <2>1, <2>2 DEF Formed
<1>4. WellFormed(r)
  BY <1>1, <1>3, Zenon DEF WellFormed, Formed
<1> QED
  BY <1>1, <1>4 DEF r, Replacement

\* ... and so is every piece.
LEMMA PieceFormed ==
    ASSUME NEW s \in Texts, NEW i \in 1..Len(s)
    PROVE  SanitizeAt(s, i) \in Texts /\ WellFormed(SanitizeAt(s, i))
<1> DEFINE len == SanitizeStep(s, i)
           a == SubSeq(s, i, i + len - 1)
<1>0. Len(s) \in Nat
  BY LenProperties DEF Texts
<1>1. len \in 1..4 /\ i + len - 1 <= Len(s)
  BY SanitizeSteps
<1>2. CASE Ascii(s[i]) \/ SequenceAt(s, i)
  <2>1. SanitizeAt(s, i) = a
    BY <1>2, Zenon DEF SanitizeAt
  <2>2. (Ascii(s[i]) /\ len = 1) \/ (len \in 2..4 /\ WellFormedAt(s, i, len))
    BY <1>2, SanitizeSteps, Zenon
  <2> HIDE DEF len
  <2>3. i + len - 1 \in 0..Len(s) /\ i \in 1..(Len(s) + 1) /\ i <= i + len - 1
    BY <1>0, <1>1
  <2>4. a \in Texts /\ Len(a) = len
    <3>1. a \in Texts /\ Len(a) = IF i <= i + len - 1 THEN (i + len - 1) - i + 1 ELSE 0
      BY <2>3, SubText
    <3> QED
      BY <1>1, <2>3, <3>1
  <2>5. ASSUME NEW j \in 1..len PROVE a[j] = s[i + j - 1]
    <3>1. \A m \in i..(i + len - 1) : s[m] \in Nat
      BY <1>0, <1>1, ElementOfSeq DEF Texts
    <3>2. \A m \in 1..((i + len - 1) - i + 1) : a[m] = s[i + m - 1]
      BY <1>1, <3>1, SubSeqProperties
    <3>3. j \in 1..((i + len - 1) - i + 1)
      BY <1>1
    <3> QED
      BY <3>2, <3>3, Zenon
  <2>6. DOMAIN a = 1..len
    BY <2>4, LenProperties DEF Texts
  <2> HIDE DEF a
  <2>7. CASE Ascii(s[i]) /\ len = 1
    <3>1. a[1] = s[i]
      BY <2>5, <2>7
    <3> QED
      BY <2>1, <2>4, <2>6, <2>7, <3>1 DEF WellFormed
  <2>8. CASE len \in 2..4 /\ WellFormedAt(s, i, len)
    <3>1. ASSUME NEW j \in 0..(len - 1) PROVE a[1 + j] = s[i + j]
      <4>1. 1 + j \in 1..len /\ i + (1 + j) - 1 = i + j
        BY <1>1
      <4> QED
        BY <2>5, <4>1
    <3>2. WellFormedAt(a, 1, len)
      <4> DEFINE c == s[i]
                 d == s[i + 1]
      <4>1. \/ len = 2 /\ c \in 194..223
            \/ /\ len = 3 /\ c \in 224..239
               /\ c = 224 => d >= 160
               /\ c = 237 => d < 160
            \/ /\ len = 4 /\ c \in 240..244
               /\ c = 240 => d >= 144
               /\ c = 244 => d < 144
        BY <2>8, Zenon DEF WellFormedAt
      <4>2. a[1] = c /\ a[1 + 1] = d
        <5>1. 0 \in 0..(len - 1) /\ 1 \in 0..(len - 1) /\ 1 + 0 = 1 /\ i + 0 = i
          BY <2>8
        <5> QED
          BY <3>1, <5>1
      <4> HIDE DEF c, d
      <4> DEFINE Later == 128..191
      <4>3. \A j \in 1..(len - 1) : s[i + j] \in Later
        BY <2>8, Zenon DEF WellFormedAt
      <4> HIDE DEF Later
      <4>4. \A j \in 1..(len - 1) : a[1 + j] \in Later
        <5>1. \A j \in 1..(len - 1) : j \in 0..(len - 1)
          OBVIOUS
        <5> QED
          BY <3>1, <4>3, <5>1, Zenon
      <4>5. 1 + len - 1 <= Len(a)
        BY <1>1, <2>4
      <4> QED
        BY <4>1, <4>2, <4>4, <4>5, ZenonT(40) DEF WellFormedAt, Later
    <3>3. ASSUME NEW j \in 1..len PROVE Formed(a, j)
      <4>1. j - 1 \in 0..(len - 1) /\ j - 1 < j /\ j - (j - 1) = 1
        BY <1>1
      <4>2. WellFormedAt(a, j - (j - 1), len)
        BY <3>2, <4>1
      <4> QED
        BY <2>8, <4>1, <4>2, Zenon DEF Formed
    <3>4. WellFormed(a)
      BY <2>6, <3>3, Zenon DEF WellFormed, Formed
    <3> QED
      BY <2>1, <2>4, <3>4
  <2> QED
    BY <2>2, <2>7, <2>8
<1>3. CASE ~(Ascii(s[i]) \/ SequenceAt(s, i))
  <2>1. SanitizeAt(s, i) = Replacement
    BY <1>3, Zenon DEF SanitizeAt
  <2> QED
    BY <2>1, ReplacementFormed, Zenon
<1> QED
  BY <1>2, <1>3

\* sanitizeUtf8() as a walk through its pieces.
SanitizeWalk(s, piece, step, f) ==
    /\ Pieces(piece, step) /\ Walk(f, piece, step) /\ SanitizeUtf8(s) = f[0]
    /\ Len(piece) = Len(s)
    /\ \A i \in 1..Len(s) : piece[i] = SanitizeAt(s, i) /\ step[i] = SanitizeStep(s, i)

\* There is such a walk.
LEMMA SanitizePieces ==
    ASSUME NEW s \in Texts
    PROVE  \E piece, step, f : SanitizeWalk(s, piece, step, f)
<1> DEFINE piece == [i \in DOMAIN s |-> SanitizeAt(s, i)]
           step == [i \in DOMAIN s |-> SanitizeStep(s, i)]
<1>1. Len(s) \in Nat /\ DOMAIN s = 1..Len(s)
  BY LenProperties DEF Texts
<1>2. /\ Len(piece) = Len(s)
      /\ \A i \in 1..Len(s) : piece[i] = SanitizeAt(s, i) /\ step[i] = SanitizeStep(s, i)
  BY <1>1
<1>3. SanitizeUtf8(s) = Scan(piece, step)
  BY SanitizeIs
<1> HIDE DEF piece, step
<1>4. \A i \in 1..Len(s) : SanitizeStep(s, i) \in 1..4
  BY SanitizeSteps
<1>5. Pieces(piece, step)
  BY <1>1, <1>2, <1>4 DEF Pieces
<1>6. PICK f : Walk(f, piece, step) /\ Scan(piece, step) = f[0]
  BY <1>5, ScanWalks
<1>7. SanitizeWalk(s, piece, step, f)
  BY <1>2, <1>3, <1>5, <1>6, Zenon DEF SanitizeWalk
<1> QED
  BY <1>7, Zenon

\* sanitizeUtf8() makes well-formed UTF-8 of any bytes.
LEMMA SanitizedFormed ==
    ASSUME NEW s \in Texts
    PROVE  SanitizeUtf8(s) \in Texts /\ WellFormed(SanitizeUtf8(s))
<1> DEFINE Q == {p \in Nat \X Texts : WellFormed(p[2])}
<1>w. PICK piece, step, f : SanitizeWalk(s, piece, step, f)
  BY SanitizePieces
<1>1. /\ Pieces(piece, step) /\ Walk(f, piece, step) /\ SanitizeUtf8(s) = f[0]
      /\ Len(piece) = Len(s)
      /\ \A i \in 1..Len(s) : piece[i] = SanitizeAt(s, i) /\ step[i] = SanitizeStep(s, i)
  BY <1>w, Zenon DEF SanitizeWalk
<1>2. Len(s) \in Nat
  BY LenProperties DEF Texts
<1>3. ASSUME NEW i \in Nat, i >= Len(piece)
      PROVE  <<i, <<>>>> \in Q
  <2>1. <<>> \in Texts /\ DOMAIN <<>> = {}
    BY DEF Texts
  <2>2. WellFormed(<<>>)
    BY <2>1, Zenon DEF WellFormed
  <2> HIDE DEF WellFormed
  <2> QED
    BY <2>1, <2>2
<1>4. ASSUME NEW i \in 0..(Len(piece) - 1), NEW rest, <<i + step[i + 1], rest>> \in Q
      PROVE  <<i, piece[i + 1] \o rest>> \in Q
  <2>1. i \in Nat /\ i + 1 \in 1..Len(s)
    <3>1. i \in 0..(Len(s) - 1)
      BY <1>1
    <3> QED
      BY <1>2, <3>1
  <2> DEFINE a == piece[i + 1]
  <2>2. a \in Texts /\ WellFormed(a)
    BY <1>1, <2>1, PieceFormed
  <2>3. rest \in Texts /\ WellFormed(rest)
    BY <1>4
  <2> HIDE DEF a
  <2>4. a \o rest \in Texts
    BY <2>2, <2>3, Cat
  <2>5. WellFormed(a \o rest)
    BY <2>2, <2>3, WellFormedCat
  <2> DEFINE t == a \o rest
  <2> HIDE DEF t
  <2>6. <<i, t>> \in Q
    BY <2>1, <2>4, <2>5 DEF t
  <2> QED
    BY <2>6, Zenon DEF t, a
<1> HIDE DEF Q
<1>5. \A i \in Nat : <<i, f[i]>> \in Q
  BY <1>1, <1>3, <1>4, WalkInd, Zenon
<1>6. <<0, f[0]>> \in Q
  BY <1>5
<1>7. f[0] \in Texts /\ WellFormed(f[0])
  BY <1>6 DEF Q
<1> QED
  BY <1>1, <1>7, Zenon

\* A piece begins at i + 1: what is there is not a later byte of a sequence.
Begins(s, i) == i < Len(s) => s[i + 1] \notin 128..191

\* Two well-formed sequences do not overlap.
LEMMA Apart ==
    ASSUME NEW s \in Texts, NEW p \in Nat \ {0}, NEW q \in Nat \ {0}, NEW l \in 2..4, NEW m \in 2..4,
           WellFormedAt(s, p, l), WellFormedAt(s, q, m), p < q
    PROVE  q >= p + l
<1>1. s[q] \in 194..244
  BY WellFormedBytes
<1> DEFINE Later == 128..191
<1>2. \A j \in 1..(l - 1) : s[p + j] \in Later
  BY Zenon DEF WellFormedAt
<1>3. s[q] \notin Later
  BY <1>1
<1> HIDE DEF Later
<1>4. ASSUME q < p + l PROVE FALSE
  <2> DEFINE j == q - p
  <2>1. j \in 1..(l - 1) /\ p + j = q
    BY <1>4
  <2> HIDE DEF j
  <2> QED
    BY <1>2, <1>3, <2>1
<1> QED
  BY <1>4

\* A later byte is neither ASCII nor a first one.
LEMMA LaterByte ==
    ASSUME NEW c \in 128..191
    PROVE  ~Ascii(c) /\ c \notin 194..244
BY DEF Ascii

\* In a well-formed text, what follows a piece begins one.
LEMMA NextBegins ==
    ASSUME NEW s \in Texts, WellFormed(s), NEW i \in Nat, i < Len(s), Begins(s, i)
    PROVE  /\ Ascii(s[i + 1]) \/ SequenceAt(s, i + 1)
           /\ Begins(s, i + SanitizeStep(s, i + 1))
<1>0. Len(s) \in Nat /\ DOMAIN s = 1..Len(s) /\ \A j \in 1..Len(s) : s[j] \in Nat
  BY LenProperties, ElementOfSeq DEF Texts
<1>1. \A j \in 1..Len(s) : Formed(s, j)
  BY <1>0, Zenon DEF WellFormed, Formed
<1> DEFINE b == i + 1
           n == SanitizeStep(s, b)
<1>2. b \in 1..Len(s) /\ s[b] \notin 128..191
  BY <1>0 DEF Begins
<1>3. ASSUME NEW j \in 1..Len(s), ~Ascii(s[j])
      PROVE  \E len \in 2..4 : \E k \in 0..(len - 1) :
                /\ j - k \in Nat \ {0} /\ WellFormedAt(s, j - k, len)
                /\ k > 0 => s[j] \in 128..191
  <2>1. PICK len \in 2..4 : \E k \in 0..(len - 1) : k < j /\ WellFormedAt(s, j - k, len)
    BY <1>1, <1>3, Zenon DEF Formed
  <2>2. PICK k \in 0..(len - 1) : k < j /\ WellFormedAt(s, j - k, len)
    BY <2>1, Zenon
  <2> DEFINE p == j - k
  <2>3. p \in Nat \ {0} /\ p + k = j
    BY <2>2
  <2>4. WellFormedAt(s, p, len)
    BY <2>2
  <2> HIDE DEF p
  <2>5. k > 0 => s[j] \in 128..191
    <3> DEFINE Later == 128..191
    <3>1. \A x \in 1..(len - 1) : s[p + x] \in Later
      BY <2>4, Zenon DEF WellFormedAt
    <3> HIDE DEF Later
    <3>2. k > 0 => k \in 1..(len - 1)
      OBVIOUS
    <3>3. k > 0 => s[p + k] \in Later
      BY <3>1, <3>2, Zenon
    <3> QED
      BY <2>3, <3>3 DEF Later
  <2> QED
    BY <2>3, <2>4, <2>5 DEF p
<1> HIDE DEF b
<1>4. CASE Ascii(s[b])
  <2>1. n = 1
    BY <1>2, <1>4, SanitizeSteps
  <2>2. ASSUME i + 1 < Len(s), s[i + 1 + 1] \in 128..191 PROVE FALSE
    <3> DEFINE j == b + 1
    <3>1. j \in 1..Len(s) /\ s[j] \in 128..191 /\ ~Ascii(s[j])
      <4>1. j \in 1..Len(s) /\ j = i + 1 + 1
        BY <1>0, <2>2 DEF b
      <4> HIDE DEF j
      <4>2. s[j] \in 128..191
        BY <2>2, <4>1
      <4> QED
        BY <4>1, <4>2, LaterByte
    <3>2. PICK len \in 2..4 : \E k \in 0..(len - 1) :
                j - k \in Nat \ {0} /\ WellFormedAt(s, j - k, len)
      BY <1>3, <3>1, Zenon
    <3>3. PICK k \in 0..(len - 1) : j - k \in Nat \ {0} /\ WellFormedAt(s, j - k, len)
      BY <3>2, Zenon
    <3> DEFINE p == j - k
    <3> DEFINE Later == 128..191
    <3>4. /\ p \in Nat \ {0} /\ s[p] \in 194..244
          /\ \A x \in 1..(len - 1) : s[p + x] \in Later
      <4>1. p \in Nat \ {0} /\ WellFormedAt(s, p, len)
        BY <3>3
      <4> HIDE DEF p
      <4>2. s[p] \in 194..244
        BY <4>1, WellFormedBytes
      <4>3. \A x \in 1..(len - 1) : s[p + x] \in Later
        BY <4>1, Zenon DEF WellFormedAt
      <4> QED
        BY <4>1, <4>2, <4>3, Zenon
    <3>a. p + k = b + 1 /\ b \in Nat
      BY <1>0, <1>2
    <3>b. s[p] \notin 128..191 /\ ~Ascii(s[p])
      <4> DEFINE c == s[p]
      <4>1. c \in 194..244
        BY <3>4
      <4> HIDE DEF c
      <4>2. c \notin 128..191 /\ ~Ascii(c)
        BY <4>1 DEF Ascii
      <4> QED
        BY <4>2 DEF c
    <3> HIDE DEF p
    <3>5. k # 0
      <4>1. k = 0 => p = j
        BY <3>4, <3>a
      <4> QED
        BY <3>1, <3>b, <4>1, Zenon
    <3>6. CASE k = 1
      <4>1. p = b
        BY <3>4, <3>6, <3>a
      <4> QED
        BY <1>4, <3>b, <4>1, Zenon
    <3>7. CASE k > 1
      <4>1. k - 1 \in 1..(len - 1) /\ p + (k - 1) = b
        <5>1. p \in Nat
          BY <3>4
        <5> QED
          BY <3>7, <3>a, <5>1
      <4> HIDE DEF Later
      <4>a. s[p + (k - 1)] \in Later
        BY <3>4, <4>1, Zenon
      <4>2. s[b] \in 128..191
        BY <4>1, <4>a DEF Later
      <4> QED
        BY <1>2, <4>2, Zenon
    <3> QED
      BY <3>5, <3>6, <3>7
  <2> QED
    BY <1>0, <1>4, <2>1, <2>2 DEF Begins, b
<1>5. CASE ~Ascii(s[b])
  <2>1. PICK len \in 2..4 : \E k \in 0..(len - 1) :
                /\ b - k \in Nat \ {0} /\ WellFormedAt(s, b - k, len)
                /\ k > 0 => s[b] \in 128..191
    BY <1>2, <1>3, <1>5, Zenon
  <2>2. PICK k \in 0..(len - 1) :
                /\ b - k \in Nat \ {0} /\ WellFormedAt(s, b - k, len)
                /\ k > 0 => s[b] \in 128..191
    BY <2>1, Zenon
  <2>3. k = 0 /\ b - k = b
    BY <1>2, <2>2
  <2>4. WellFormedAt(s, b, len)
    BY <2>2, <2>3
  <2>5. SequenceAt(s, b) /\ SequenceLength(s[b]) = len
    BY <1>2, <2>4, WellFormedIsSequence
  <2>6. n = len
    BY <1>5, <2>5, Zenon DEF SanitizeStep
  <2>7. ASSUME i + len < Len(s), s[i + len + 1] \in 128..191 PROVE FALSE
    <3> DEFINE j == b + len
    <3>1. j \in 1..Len(s) /\ s[j] \in 128..191 /\ ~Ascii(s[j])
      <4>1. j \in 1..Len(s) /\ j = i + len + 1
        BY <1>0, <2>7 DEF b
      <4> HIDE DEF j
      <4>2. s[j] \in 128..191
        BY <2>7, <4>1
      <4> QED
        BY <4>1, <4>2, LaterByte
    <3>2. PICK m \in 2..4 : \E x \in 0..(m - 1) :
                j - x \in Nat \ {0} /\ WellFormedAt(s, j - x, m)
      BY <1>3, <3>1, Zenon
    <3>3. PICK x \in 0..(m - 1) : j - x \in Nat \ {0} /\ WellFormedAt(s, j - x, m)
      BY <3>2, Zenon
    <3> DEFINE q == j - x
    <3>4. q \in Nat \ {0} /\ WellFormedAt(s, q, m) /\ b \in Nat \ {0} /\ q + x = b + len
      BY <1>2, <3>3
    <3> HIDE DEF q
    <3>5. s[q] \in 194..244 /\ m = SequenceLength(s[q])
      BY <3>4, WellFormedBytes
    <3>6. x # 0
      <4>1. x = 0 => q = j
        BY <3>4
      <4>2. s[j] \notin 194..244
        <5> DEFINE c == s[j]
        <5>1. c \in 128..191
          BY <3>1, Zenon
        <5> HIDE DEF c
        <5>2. c \notin 194..244
          BY <5>1
        <5> QED
          BY <5>2 DEF c
      <4> QED
        BY <3>5, <4>1, <4>2, Zenon
    <3>7. CASE q < b
      <4>1. b >= q + m
        BY <2>4, <3>4, <3>7, Apart
      <4> QED
        BY <3>4, <4>1
    <3>8. CASE q = b
      <4>1. m = len
        BY <2>5, <3>5, <3>8
      <4> QED
        BY <3>4, <3>8, <4>1
    <3>9. CASE b < q
      <4>1. q >= b + len
        BY <2>4, <3>4, <3>9, Apart
      <4> QED
        BY <3>4, <3>6, <4>1
    <3> QED
      BY <3>4, <3>7, <3>8, <3>9
  <2> QED
    BY <1>0, <2>5, <2>6, <2>7 DEF Begins, b
<1> QED
  BY <1>4, <1>5

\* sanitizeUtf8() leaves a well-formed text as it is.
LEMMA SanitizedSame ==
    ASSUME NEW s \in Texts, WellFormed(s)
    PROVE  SanitizeUtf8(s) = s
<1> DEFINE Q == {p \in Nat \X Texts : Begins(s, p[1]) => p[2] = From(s, p[1] + 1)}
<1>w. PICK piece, step, f : SanitizeWalk(s, piece, step, f)
  BY SanitizePieces
<1>1. /\ Pieces(piece, step) /\ Walk(f, piece, step) /\ SanitizeUtf8(s) = f[0]
      /\ Len(piece) = Len(s)
      /\ \A i \in 1..Len(s) : piece[i] = SanitizeAt(s, i) /\ step[i] = SanitizeStep(s, i)
  BY <1>w, Zenon DEF SanitizeWalk
<1>2. Len(s) \in Nat /\ DOMAIN s = 1..Len(s) /\ s \in Seq(Nat)
  BY LenProperties DEF Texts
<1>3. ASSUME NEW i \in Nat, i >= Len(piece)
      PROVE  <<i, <<>>>> \in Q
  <2>1. <<>> \in Texts
    BY DEF Texts
  <2>2. From(s, i + 1) = <<>>
    <3>1. i >= Len(s)
      BY <1>1, <1>3
    <3>2. i + 1 \in Int /\ Len(s) \in Int /\ Len(s) < i + 1
      BY <1>2, <3>1
    <3> QED
      BY <3>2, SubSeqEmpty DEF From
  <2> QED
    BY <2>1, <2>2
<1>4. ASSUME NEW i \in 0..(Len(piece) - 1), NEW rest, <<i + step[i + 1], rest>> \in Q
      PROVE  <<i, piece[i + 1] \o rest>> \in Q
  <2> DEFINE n == SanitizeStep(s, i + 1)
             a == SanitizeAt(s, i + 1)
  <2>1. i \in Nat /\ i < Len(s) /\ i + 1 \in 1..Len(s)
    <3>1. i \in 0..(Len(s) - 1)
      BY <1>1
    <3> QED
      BY <1>2, <3>1
  <2>2. piece[i + 1] = a /\ step[i + 1] = n
    BY <1>1, <2>1
  <2>3. a \in Texts
    BY <2>1, PieceFormed
  <2>4. n \in 1..4 /\ (i + 1) + n - 1 <= Len(s)
    BY <2>1, SanitizeSteps
  <2>5. rest \in Texts /\ (Begins(s, i + n) => rest = From(s, (i + n) + 1))
    BY <1>4, <2>2
  <2>6. a \o rest \in Texts
    BY <2>3, <2>5, Cat
  <2>7. ASSUME Begins(s, i) PROVE a \o rest = From(s, i + 1)
    <3>1. (Ascii(s[i + 1]) \/ SequenceAt(s, i + 1)) /\ Begins(s, i + n)
      BY <2>1, <2>7, NextBegins
    <3>2. a = SubSeq(s, i + 1, (i + 1) + n - 1)
      BY <3>1, Zenon DEF SanitizeAt
    <3>3. rest = SubSeq(s, (i + n) + 1, Len(s))
      BY <2>5, <3>1, Zenon DEF From
    <3> HIDE DEF a, n
    <3>4. /\ i + 1 \in 1..(Len(s) + 1) /\ i + n \in ((i + 1) - 1)..Len(s) /\ Len(s) \in (i + n)..Len(s)
          /\ (i + 1) + n - 1 = i + n
      BY <1>2, <2>1, <2>4
    <3>5. SubSeq(s, i + 1, i + n) \o SubSeq(s, (i + n) + 1, Len(s)) = SubSeq(s, i + 1, Len(s))
      BY <1>2, <3>4, ConcatAdjacentSubSeq
    <3>6. a = SubSeq(s, i + 1, i + n)
      BY <3>2, <3>4
    <3> QED
      BY <3>3, <3>5, <3>6, Zenon DEF From
  <2> DEFINE t == a \o rest
  <2> HIDE DEF t
  <2>8. t \in Texts /\ (Begins(s, i) => t = From(s, i + 1))
    BY <2>6, <2>7, Zenon DEF t
  <2>9. <<i, t>> \in Q
    BY <2>1, <2>8
  <2> QED
    BY <2>2, <2>9, Zenon DEF t
<1> HIDE DEF Q
<1>5. \A i \in Nat : <<i, f[i]>> \in Q
  BY <1>1, <1>3, <1>4, WalkInd, Zenon
<1>6. <<0, f[0]>> \in Q
  BY <1>5
<1>7. Begins(s, 0) => f[0] = From(s, 0 + 1)
  BY <1>6 DEF Q
<1>8. From(s, 0 + 1) = s
  BY SubSeqFull DEF From, Texts
<1>9. Begins(s, 0)
  <2> SUFFICES ASSUME 0 < Len(s), s[0 + 1] \in 128..191 PROVE FALSE
    BY Zenon DEF Begins
  <2>1. 1 \in DOMAIN s /\ s[1] \in 128..191
    BY <1>2
  <2>2. Formed(s, 1)
    BY <2>1, Zenon DEF WellFormed, Formed
  <2>3. ~Ascii(s[1]) /\ s[1] \notin 194..244
    <3> DEFINE c == s[1]
    <3>1. c \in 128..191
      BY <2>1, Zenon
    <3> HIDE DEF c
    <3>2. ~Ascii(c) /\ c \notin 194..244
      BY <3>1 DEF Ascii
    <3> QED
      BY <3>2 DEF c
  <2>4. PICK len \in 2..4 : \E k \in 0..(len - 1) : k < 1 /\ WellFormedAt(s, 1 - k, len)
    BY <2>2, <2>3, Zenon DEF Formed
  <2>5. WellFormedAt(s, 1, len)
    <3>1. PICK k \in 0..(len - 1) : k < 1 /\ WellFormedAt(s, 1 - k, len)
      BY <2>4, Zenon
    <3>2. 1 - k = 1
      BY <3>1
    <3> QED
      BY <3>1, <3>2
  <2>6. s[1] \in 194..244
    BY <2>5, WellFormedBytes
  <2> QED
    BY <2>3, <2>6, Zenon
<1> QED
  BY <1>1, <1>7, <1>8, <1>9, Zenon

\* The parser makes texts, or nothing, of a text.
Fields6 == {"timestamp", "hostname", "app", "pid", "msgid", "message"}
Given == Texts \cup {Nil}

\* A part of a text is a text.
LEMMA PartIsText ==
    ASSUME NEW s \in Texts, NEW m \in Nat \ {0}, NEW n \in Int, n <= Len(s)
    PROVE  SubSeq(s, m, n) \in Texts
<1>0. Len(s) \in Nat
  BY LenProperties DEF Texts
<1>1. \A i \in m..n : s[i] \in Nat
  <2>1. ASSUME NEW i \in m..n PROVE s[i] \in Nat
    <3>1. i \in 1..Len(s)
      BY <1>0
    <3> QED
      BY <3>1, ElementOfSeq DEF Texts
  <2> QED
    BY <2>1
<1> QED
  BY <1>1, SubSeqProperties DEF Texts

\* The place of a character is within the text or just behind it.
LEMMA FindIn ==
    ASSUME NEW s \in Texts, NEW c
    PROVE  Find(s, c) \in Nat \ {0} /\ Find(s, c) <= Len(s) + 1 /\ Len(s) \in Nat
<1>1. Find(s, c) \in 1..(Len(s) + 1)
  BY FindIs DEF Texts
<1>2. Len(s) \in Nat
  BY LenProperties DEF Texts
<1> QED
  BY <1>1, <1>2

\* parseNilable(): a field and what is behind it are texts.
LEMMA FieldsParsed ==
    ASSUME NEW s \in Texts
    PROVE  /\ Behind(s) \in Texts /\ ParseNilable(s) \in Given
           /\ SubSeq(s, 1, Find(s, SP) - 1) \in Texts /\ SkipSpace(s) \in Texts
<1> DEFINE n == Find(s, SP)
           token == SubSeq(s, 1, n - 1)
<1>1. n \in Nat \ {0} /\ n <= Len(s) + 1 /\ Len(s) \in Nat
  BY FindIn
<1> HIDE DEF n
<1>2. token \in Texts
  <2>1. n - 1 \in Int /\ n - 1 <= Len(s) /\ 1 \in Nat \ {0}
    BY <1>1
  <2> QED
    BY <2>1, PartIsText
<1>3. Behind(s) \in Texts
  <2>1. n + 1 \in Nat \ {0} /\ Len(s) \in Int /\ Len(s) <= Len(s)
    BY <1>1
  <2> QED
    BY <2>1, PartIsText DEF Behind, From, n
<1> HIDE DEF token
<1>4. ParseNilable(s) \in Given
  <2>1. ParseNilable(s) = IF s = <<>> \/ token = <<DASH>> THEN Nil ELSE token
    BY Zenon DEF ParseNilable, token, n
  <2> QED
    BY <1>2, <2>1, Zenon DEF Given
<1>5. SkipSpace(s) \in Texts
  BY HeadTailProperties DEF SkipSpace, Texts
<1> QED
  BY <1>2, <1>3, <1>4, <1>5, Zenon DEF token, n

\* The fields that a message is put together of.
LEMMA MessageTexts ==
    ASSUME NEW protocol, NEW pri \in Int, NEW ts \in Given, NEW host \in Given, NEW app \in Given,
           NEW pid \in Given, NEW msgid \in Given, NEW text \in Given, NEW k \in Fields6
    PROVE  Message(protocol, pri, ts, host, app, pid, msgid, text)[k] \in Given
<1> DEFINE m == Message(protocol, pri, ts, host, app, pid, msgid, text)
<1>1. /\ m["timestamp"] = ts /\ m["hostname"] = host /\ m["app"] = app /\ m["pid"] = pid
      /\ m["msgid"] = msgid /\ m["message"] = text
  BY DEF Message
<1> HIDE DEF m
<1>2. m[k] \in Given
  BY <1>1 DEF Fields6
<1> QED
  BY <1>2 DEF m

\* parsePri(): a PRI that was found is the first symbol of the datagram.
LEMMA PriIsInt ==
    ASSUME NEW data \in Texts
    PROVE  ParsePri(data) \in Int /\ (ParsePri(data) >= 0 => data # <<>>)
<1> DEFINE c == data[1]
<1>1. ParsePri(data) = IF data # <<>> /\ c \in Pri(0)..Pri(191) THEN c - Pri(0) ELSE -1
  BY Zenon DEF ParsePri
<1>2. c \in Pri(0)..Pri(191) => c - Pri(0) \in 0..191
  <2> HIDE DEF c
  <2> QED
    BY DEF Pri
<1> HIDE DEF c
<1>3. CASE data # <<>> /\ c \in Pri(0)..Pri(191)
  <2>1. ParsePri(data) = c - Pri(0)
    BY <1>1, <1>3, Zenon
  <2> QED
    BY <1>2, <1>3, <2>1
<1>4. CASE ~(data # <<>> /\ c \in Pri(0)..Pri(191))
  <2>1. ParsePri(data) = -1
    BY <1>1, <1>4, Zenon
  <2> QED
    BY <2>1
<1> QED
  BY <1>3, <1>4

\* parse3164Tag() makes texts of a text.
LEMMA TagParsed ==
    ASSUME NEW sv \in Texts
    PROVE  Parse3164Tag(sv).app \in Given /\ Parse3164Tag(sv).pid \in Given /\ Parse3164Tag(sv).text \in Texts
<1> DEFINE colon == Find(sv, COLON)
           tag == SubSeq(sv, 1, colon - 1)
           bracket == Find(tag, OPEN)
           opt(s) == IF s = <<>> THEN Nil ELSE s
           text == SkipSpace(From(sv, colon + 1))
<1>1. colon \in Nat \ {0} /\ colon <= Len(sv) + 1 /\ Len(sv) \in Nat
  BY FindIn
<1>2. tag \in Texts
  <2> HIDE DEF colon
  <2>1. colon - 1 \in Int /\ colon - 1 <= Len(sv) /\ 1 \in Nat \ {0}
    BY <1>1
  <2> QED
    BY <2>1, PartIsText
<1>3. text \in Texts
  <2> HIDE DEF colon
  <2>1. colon + 1 \in Nat \ {0} /\ Len(sv) \in Int /\ Len(sv) <= Len(sv)
    BY <1>1
  <2>2. From(sv, colon + 1) \in Texts
    BY <2>1, PartIsText DEF From
  <2> QED
    BY <2>2, FieldsParsed
<1>4. bracket \in Nat \ {0} /\ bracket <= Len(tag) + 1 /\ Len(tag) \in Nat
  <2> HIDE DEF tag
  <2> QED
    BY <1>2, FindIn
<1> DEFINE front == SubSeq(tag, 1, bracket - 1)
           inside == SubSeq(tag, bracket + 1, Len(tag) - 1)
<1>5. Parse3164Tag(sv) =
        IF colon > Len(sv) \/ Find(sv, SP) < colon
        THEN [app |-> Nil, pid |-> Nil, text |-> sv]
        ELSE IF bracket <= Len(tag) /\ tag[Len(tag)] = CLOSE
        THEN [app |-> opt(front), pid |-> opt(inside), text |-> text]
        ELSE [app |-> opt(tag), pid |-> Nil, text |-> text]
  BY Zenon DEF Parse3164Tag
<1> HIDE DEF tag, text, bracket, colon
<1>6. front \in Texts /\ inside \in Texts
  <2>1. /\ bracket - 1 \in Int /\ bracket - 1 <= Len(tag) /\ 1 \in Nat \ {0}
        /\ bracket + 1 \in Nat \ {0} /\ Len(tag) - 1 \in Int /\ Len(tag) - 1 <= Len(tag)
    BY <1>4
  <2> QED
    BY <1>2, <2>1, PartIsText
<1> HIDE DEF front, inside
<1>7. opt(front) \in Given /\ opt(inside) \in Given /\ opt(tag) \in Given /\ Nil \in Given
  BY <1>2, <1>6, Zenon DEF Given
<1> HIDE DEF opt
<1> DEFINE r == Parse3164Tag(sv)
<1>8. \/ r = [app |-> Nil, pid |-> Nil, text |-> sv]
      \/ r = [app |-> opt(front), pid |-> opt(inside), text |-> text]
      \/ r = [app |-> opt(tag), pid |-> Nil, text |-> text]
  BY <1>5, Zenon
<1> HIDE DEF r
<1>9. r.app \in Given /\ r.pid \in Given /\ r.text \in Texts
  BY <1>3, <1>7, <1>8
<1> QED
  BY <1>9 DEF r

\* The first position from i on that is not in a set of characters.
Past(sv, i, set) ==
    CHOOSE j \in i..(Len(sv) + 1) :
        /\ \A k \in i..(j - 1) : sv[k] \in set
        /\ j <= Len(sv) => sv[j] \notin set

\* There is such a position.
LEMMA PastIs ==
    ASSUME NEW sv \in Texts, NEW i \in Nat \ {0}, i <= Len(sv) + 1, NEW set
    PROVE  /\ Past(sv, i, set) \in i..(Len(sv) + 1)
           /\ \A k \in i..(Past(sv, i, set) - 1) : sv[k] \in set
           /\ Past(sv, i, set) <= Len(sv) => sv[Past(sv, i, set)] \notin set
<1>0. Len(sv) \in Nat
  BY LenProperties DEF Texts
<1> DEFINE T == {j \in Nat : j >= i /\ (j <= Len(sv) => sv[j] \notin set)}
<1>1. T \in SUBSET Nat /\ T # {}
  <2>1. Len(sv) + 1 \in T
    BY <1>0
  <2> QED
    BY <2>1
<1>2. PICK j \in T : \A m \in T : j <= m
  BY <1>1, LeastNat
<1>3. j \in i..(Len(sv) + 1)
  <2>1. Len(sv) + 1 \in T
    BY <1>0
  <2> QED
    BY <1>0, <1>2, <2>1
<1>4. \A k \in i..(j - 1) : sv[k] \in set
  <2>1. ASSUME NEW k \in i..(j - 1), sv[k] \notin set PROVE FALSE
    <3>1. k \in T /\ k < j
      BY <1>3, <2>1
    <3> QED
      BY <1>2, <1>3, <3>1
  <2> QED
    BY <2>1
<1>5. j <= Len(sv) => sv[j] \notin set
  BY <1>2
<1> DEFINE Good(m) == (\A k \in i..(m - 1) : sv[k] \in set) /\ (m <= Len(sv) => sv[m] \notin set)
<1>6. Good(j)
  BY <1>4, <1>5
<1>7. Past(sv, i, set) = CHOOSE m \in i..(Len(sv) + 1) : Good(m)
  BY Zenon DEF Past
<1> HIDE DEF Good
<1>8. Past(sv, i, set) \in i..(Len(sv) + 1) /\ Good(Past(sv, i, set))
  BY <1>3, <1>6, <1>7, Zenon
<1> QED
  BY <1>8, Zenon DEF Good

\* The places that parse3164Timestamp() looks for.
DayAt(sv) == Past(sv, 2, {SP})
DayEnd(sv) == Past(sv, DayAt(sv), 48..57)
ClockAt(sv) == Past(sv, DayEnd(sv), {SP})
DayOf(sv) ==
    IF DayEnd(sv) = DayAt(sv) + 1 THEN sv[DayAt(sv)] - 48
    ELSE (sv[DayAt(sv)] - 48) * 10 + sv[DayAt(sv) + 1] - 48

\* parse3164Timestamp() in terms of them.
LEMMA TimestampIs ==
    ASSUME NEW sv
    PROVE  Parse3164Timestamp(sv) =
             IF /\ sv # <<>> /\ sv[1] = Month /\ DayAt(sv) > 2
                /\ DayEnd(sv) - DayAt(sv) \in 1..2 /\ DayOf(sv) \in 1..31
                /\ ClockAt(sv) > DayEnd(sv) /\ ClockAt(sv) <= Len(sv) /\ sv[ClockAt(sv)] = Clock
             THEN ClockAt(sv) ELSE 0
BY Zenon DEF Parse3164Timestamp, Past, DayAt, DayEnd, ClockAt, DayOf

\* The end of a timestamp is within the text.
LEMMA TimestampIn ==
    ASSUME NEW sv \in Texts
    PROVE  Parse3164Timestamp(sv) \in 0..Len(sv)
<1>0. Len(sv) \in Nat
  BY LenProperties DEF Texts
<1>1. CASE /\ sv # <<>> /\ sv[1] = Month /\ DayAt(sv) > 2
           /\ DayEnd(sv) - DayAt(sv) \in 1..2 /\ DayOf(sv) \in 1..31
           /\ ClockAt(sv) > DayEnd(sv) /\ ClockAt(sv) <= Len(sv) /\ sv[ClockAt(sv)] = Clock
  <2>1. Parse3164Timestamp(sv) = ClockAt(sv)
    BY <1>1, TimestampIs, Zenon
  <2>2. 2 \in Nat \ {0} /\ 2 <= Len(sv) + 1
    BY <1>0, <1>1, EmptySeq DEF Texts
  <2>3. DayAt(sv) \in 2..(Len(sv) + 1)
    BY <2>2, PastIs DEF DayAt
  <2>4. DayAt(sv) \in Nat \ {0} /\ DayAt(sv) <= Len(sv) + 1
    BY <1>0, <2>3
  <2>5. DayEnd(sv) \in DayAt(sv)..(Len(sv) + 1)
    BY <2>4, PastIs DEF DayEnd
  <2>6. DayEnd(sv) \in Nat \ {0} /\ DayEnd(sv) <= Len(sv) + 1
    BY <1>0, <2>4, <2>5
  <2>7. ClockAt(sv) \in DayEnd(sv)..(Len(sv) + 1)
    BY <2>6, PastIs DEF ClockAt
  <2>8. ClockAt(sv) <= Len(sv)
    BY <1>1, Zenon
  <2>9. ClockAt(sv) \in 0..Len(sv)
    BY <1>0, <2>6, <2>7, <2>8
  <2> QED
    BY <2>1, <2>9, Zenon
<1>2. CASE ~(/\ sv # <<>> /\ sv[1] = Month /\ DayAt(sv) > 2
             /\ DayEnd(sv) - DayAt(sv) \in 1..2 /\ DayOf(sv) \in 1..31
             /\ ClockAt(sv) > DayEnd(sv) /\ ClockAt(sv) <= Len(sv) /\ sv[ClockAt(sv)] = Clock)
  <2>1. Parse3164Timestamp(sv) = 0
    BY <1>2, TimestampIs, Zenon
  <2> QED
    BY <1>0, <2>1
<1> QED
  BY <1>1, <1>2

\* tryRfc5424(): every field is a text or absent.
LEMMA Texts5424 ==
    ASSUME NEW data \in Texts, NEW m \in TryRfc5424(data), NEW k \in Fields6
    PROVE  m[k] \in Given
<1> DEFINE pri == ParsePri(data)
           sv == From(data, 4)
           host == Behind(sv)
           app == Behind(host)
           pid == Behind(app)
           msgid == Behind(pid)
<1>1. m = Message("RFC5424", pri, ParseNilable(sv), ParseNilable(host), ParseNilable(app),
                  ParseNilable(pid), ParseNilable(msgid), Behind(msgid))
  BY Zenon DEF TryRfc5424
<1>2. pri \in Int
  BY PriIsInt
<1>3. sv \in Texts
  <2>1. 4 \in Nat \ {0} /\ Len(data) \in Int /\ Len(data) <= Len(data)
    BY LenProperties DEF Texts
  <2> QED
    BY <2>1, PartIsText DEF From
<1> HIDE DEF sv, pri
<1>4. host \in Texts
  BY <1>3, FieldsParsed
<1> HIDE DEF host
<1>5. app \in Texts
  BY <1>4, FieldsParsed
<1> HIDE DEF app
<1>6. pid \in Texts
  BY <1>5, FieldsParsed
<1> HIDE DEF pid
<1>7. msgid \in Texts
  BY <1>6, FieldsParsed
<1> HIDE DEF msgid
<1>8. /\ ParseNilable(sv) \in Given /\ ParseNilable(host) \in Given /\ ParseNilable(app) \in Given
      /\ ParseNilable(pid) \in Given /\ ParseNilable(msgid) \in Given /\ Behind(msgid) \in Given
  BY <1>3, <1>4, <1>5, <1>6, <1>7, FieldsParsed, Zenon DEF Given
<1> QED
  BY <1>1, <1>2, <1>8, MessageTexts, Zenon

\* tryRfc3164(): the same.
LEMMA Texts3164 ==
    ASSUME NEW data \in Texts, NEW m \in TryRfc3164(data), NEW k \in Fields6
    PROVE  m[k] \in Given
<1> DEFINE pri == ParsePri(data)
           ts == Parse3164Timestamp(Tail(data))
           sv == SkipSpace(From(data, ts + 2))
           host == SubSeq(sv, 1, Find(sv, SP) - 1)
           name == IF sv = <<>> THEN Nil ELSE host
           tag == Parse3164Tag(Behind(sv))
           stamp == SubSeq(data, 2, ts + 1)
<1>1. /\ m = Message("RFC3164", pri, stamp, name, tag.app, tag.pid, Nil, tag.text)
      /\ ~(pri < 0)
  BY Zenon DEF TryRfc3164
<1>2. pri \in Int /\ (pri >= 0 => data # <<>>)
  BY PriIsInt
<1>3. data # <<>>
  BY <1>1, <1>2
<1> HIDE DEF pri
<1>4. Tail(data) \in Texts /\ Len(Tail(data)) = Len(data) - 1 /\ Len(data) \in Nat
  BY <1>3, HeadTailProperties, LenProperties DEF Texts
<1>5. ts \in 0..(Len(data) - 1)
  <2> DEFINE u == Tail(data)
  <2> HIDE DEF u
  <2>1. Parse3164Timestamp(u) \in 0..Len(u)
    BY <1>4, TimestampIn DEF u
  <2> QED
    BY <1>4, <2>1 DEF u
<1> HIDE DEF ts
<1>6. stamp \in Texts
  <2>1. 2 \in Nat \ {0} /\ ts + 1 \in Int /\ ts + 1 <= Len(data)
    BY <1>4, <1>5
  <2> QED
    BY <2>1, PartIsText
<1>7. sv \in Texts
  <2>1. ts + 2 \in Nat \ {0} /\ Len(data) \in Int /\ Len(data) <= Len(data)
    BY <1>4, <1>5
  <2>2. From(data, ts + 2) \in Texts
    BY <2>1, PartIsText DEF From
  <2> QED
    BY <2>2, FieldsParsed
<1> HIDE DEF sv, stamp
<1>8. host \in Texts /\ Behind(sv) \in Texts
  BY <1>7, FieldsParsed
<1> HIDE DEF host
<1>9. name \in Given /\ Nil \in Given /\ stamp \in Given
  BY <1>6, <1>8, Zenon DEF Given
<1> HIDE DEF name
<1>10. tag.app \in Given /\ tag.pid \in Given /\ tag.text \in Texts
  BY <1>8, TagParsed
<1>11. tag.text \in Given
  BY <1>10, Zenon DEF Given
<1> HIDE DEF tag
<1> QED
  BY <1>1, <1>2, <1>9, <1>10, <1>11, MessageTexts, Zenon

\* parseSyslog(): the same, also for what neither format fits.
LEMMA ParsedTexts ==
    ASSUME NEW d \in Texts, NEW k \in Fields6
    PROVE  ParseSyslog(d)[k] \in Given
<1> DEFINE data == Stripped(d)
           none == Message("UNKNOWN", -1, Nil, Nil, Nil, Nil, Nil, data)
<1>1. data \in Texts
  BY StrippedIsText
<1>2. \/ ParseSyslog(d) = none
      \/ ParseSyslog(d) \in TryRfc5424(data)
      \/ ParseSyslog(d) \in TryRfc3164(data)
  BY Zenon DEF ParseSyslog
<1> HIDE DEF data
<1>3. none[k] \in Given
  <2>1. Nil \in Given /\ data \in Given
    BY <1>1, Zenon DEF Given
  <2>2. -1 \in Int
    OBVIOUS
  <2> QED
    BY <2>1, <2>2, MessageTexts, Zenon
<1> HIDE DEF none
<1> QED
  BY <1>1, <1>2, <1>3, Texts5424, Texts3164, Zenon

\* Every text of a JSONL record is well-formed UTF-8 whatever bytes came, and
\* what was well-formed is in it unchanged.
THEOREM JsonlAlwaysUtf8 == Spec => []JsonlIsUtf8
<1>1. ASSUME GotInv PROVE JsonlIsUtf8
  <2>1. ASSUME NEW i \in DOMAIN got, NEW k \in DOMAIN got[i].jsonl, got[i].jsonl[k] # Nil
        PROVE  /\ WellFormed(got[i].jsonl[k])
               /\ WellFormed(got[i].msg[k]) => got[i].jsonl[k] = got[i].msg[k]
    <3>1. PICK d \in Texts, n \in Nat : got[i] = Received(d, n)
      BY <1>1, GotIs
    <3> DEFINE msg == ParseSyslog(d)
               v == msg[k]
    <3>2. got[i].jsonl = ToJsonlRecord(msg) /\ got[i].msg = msg
      BY <3>1 DEF Received
    <3> HIDE DEF msg
    <3>3. DOMAIN ToJsonlRecord(msg) = Fields6
      BY Zenon DEF ToJsonlRecord, Fields6
    <3>4. k \in Fields6
      BY <2>1, <3>2, <3>3, Zenon
    <3>5. ToJsonlRecord(msg)[k] = IF v = Nil THEN Nil ELSE SanitizeUtf8(v)
      BY <3>4, Zenon DEF ToJsonlRecord, Fields6
    <3>6. v \in Given
      BY <3>4, ParsedTexts DEF msg
    <3> HIDE DEF v
    <3>7. v # Nil /\ got[i].jsonl[k] = SanitizeUtf8(v)
      BY <2>1, <3>2, <3>5, Zenon
    <3>8. v \in Texts
      BY <3>6, <3>7, Zenon DEF Given
    <3>9. WellFormed(SanitizeUtf8(v)) /\ (WellFormed(v) => SanitizeUtf8(v) = v)
      BY <3>8, SanitizedFormed, SanitizedSame, Zenon
    <3> QED
      BY <3>2, <3>7, <3>9, Zenon DEF v
  <2> QED
    BY <2>1, Zenon DEF JsonlIsUtf8
<1> QED
  BY WireInvariant, <1>1, PTL
-----------------------------------------------------------------------------
(***************************************************************************)
(* The datagrams of minilog-send in the parser.                            *)
(***************************************************************************)

\* A part of a text, element by element.
LEMMA PartIs ==
    ASSUME NEW s \in Texts, NEW a \in Texts, NEW m \in Nat \ {0}, NEW n \in Int, n <= Len(s),
           Len(a) = n - m + 1, \A i \in 1..Len(a) : s[m + i - 1] = a[i]
    PROVE  SubSeq(s, m, n) = a
<1> DEFINE x == SubSeq(s, m, n)
<1>0. Len(s) \in Nat /\ Len(a) \in Nat
  BY LenProperties DEF Texts
<1>1. \A i \in m..n : s[i] \in Nat
  <2>1. ASSUME NEW i \in m..n PROVE s[i] \in Nat
    <3>1. i \in 1..Len(s)
      BY <1>0
    <3> QED
      BY <3>1, ElementOfSeq DEF Texts
  <2> QED
    BY <2>1
<1>2. /\ x \in Seq(Nat) /\ Len(x) = IF m <= n THEN n - m + 1 ELSE 0
      /\ \A i \in 1..(n - m + 1) : x[i] = s[m + i - 1]
  BY <1>1, SubSeqProperties
<1> HIDE DEF x
<1>3. Len(x) = Len(a)
  BY <1>0, <1>2
<1>4. \A i \in 1..Len(x) : x[i] = a[i]
  BY <1>2, <1>3
<1>5. x = a
  BY <1>2, <1>3, <1>4, SeqEqual DEF Texts
<1> QED
  BY <1>5 DEF x

\* A text behind another one, and one behind a character.
LEMMA FromCat ==
    ASSUME NEW a \in Texts, NEW t \in Texts
    PROVE  From(a \o t, Len(a) + 1) = t
<1> DEFINE x == a \o t
           k == Len(a)
<1>1. /\ x \in Texts /\ k \in Nat /\ Len(t) \in Nat /\ Len(x) = k + Len(t)
      /\ \A i \in 1..Len(t) : x[k + i] = t[i]
  BY Cat
<1> HIDE DEF x, k
<1>2. \A i \in 1..Len(t) : x[(k + 1) + i - 1] = t[i]
  <2>1. \A i \in 1..Len(t) : (k + 1) + i - 1 = k + i
    BY <1>1
  <2> QED
    BY <1>1, <2>1
<1>3. k + 1 \in Nat \ {0} /\ Len(x) \in Int /\ Len(x) <= Len(x) /\ Len(t) = Len(x) - (k + 1) + 1
  BY <1>1
<1>4. SubSeq(x, k + 1, Len(x)) = t
  BY <1>1, <1>2, <1>3, PartIs
<1> QED
  BY <1>4, Zenon DEF From, x, k

\* A text without a character, and a word: a text, a character and the rest.
Without(a, c) == \A i \in 1..Len(a) : a[i] # c
Word(a, c, t) == a \o (<<c>> \o t)

\* A word symbol by symbol.
LEMMA WordIs ==
    ASSUME NEW a \in Texts, NEW c \in Nat, NEW t \in Texts
    PROVE  /\ Word(a, c, t) \in Texts /\ Len(a) \in Nat /\ Len(t) \in Nat
           /\ Len(Word(a, c, t)) = Len(a) + 1 + Len(t)
           /\ \A i \in 1..Len(a) : Word(a, c, t)[i] = a[i]
           /\ Word(a, c, t)[Len(a) + 1] = c
           /\ \A i \in 1..Len(t) : Word(a, c, t)[Len(a) + 1 + i] = t[i]
<1> DEFINE b == <<c>>
           u == b \o t
           x == a \o u
<1>1. b \in Texts /\ Len(b) = 1 /\ b[1] = c
  BY DEF Texts
<1> HIDE DEF b
<1>2. /\ u \in Texts /\ Len(t) \in Nat /\ Len(u) = Len(b) + Len(t)
      /\ (\A i \in 1..Len(b) : u[i] = b[i]) /\ \A i \in 1..Len(t) : u[Len(b) + i] = t[i]
  <2>1. b \in Texts
    BY <1>1
  <2> QED
    BY <2>1, Cat
<1> HIDE DEF u
<1>3. Len(u) = 1 + Len(t) /\ u[1] = c /\ \A i \in 1..Len(t) : u[1 + i] = t[i]
  <2>1. 1 \in 1..Len(b)
    BY <1>1
  <2> QED
    BY <1>1, <1>2, <2>1
<1>4. /\ x \in Texts /\ Len(a) \in Nat /\ Len(x) = Len(a) + Len(u)
      /\ (\A i \in 1..Len(a) : x[i] = a[i]) /\ \A i \in 1..Len(u) : x[Len(a) + i] = u[i]
  <2>1. u \in Texts
    BY <1>2
  <2> QED
    BY <2>1, Cat
<1> HIDE DEF x
<1>5. Len(x) = Len(a) + 1 + Len(t)
  BY <1>2, <1>3, <1>4
<1>6. x[Len(a) + 1] = c
  <2>1. 1 \in 1..Len(u)
    BY <1>2, <1>3
  <2> QED
    BY <1>3, <1>4, <2>1
<1>7. ASSUME NEW i \in 1..Len(t) PROVE x[Len(a) + 1 + i] = t[i]
  <2>1. 1 + i \in 1..Len(u) /\ Len(a) + (1 + i) = Len(a) + 1 + i
    BY <1>2, <1>3, <1>4
  <2>2. x[Len(a) + (1 + i)] = u[1 + i] /\ u[1 + i] = t[i]
    BY <1>3, <1>4, <2>1, Zenon
  <2> QED
    BY <2>1, <2>2
<1>8. Word(a, c, t) = x
  BY Zenon DEF Word, x, u, b
<1> QED
  BY <1>2, <1>4, <1>5, <1>6, <1>7, <1>8, Zenon

\* A word, found by the character behind it.
LEMMA WordSplit ==
    ASSUME NEW a \in Texts, NEW c \in Nat, NEW t \in Texts, Without(a, c)
    PROVE  /\ Find(Word(a, c, t), c) = Len(a) + 1
           /\ SubSeq(Word(a, c, t), 1, Len(a)) = a
           /\ From(Word(a, c, t), Len(a) + 1 + 1) = t
<1> DEFINE x == Word(a, c, t)
           k == Len(a)
<1>1. /\ x \in Texts /\ k \in Nat /\ Len(t) \in Nat /\ Len(x) = k + 1 + Len(t)
      /\ \A i \in 1..k : x[i] = a[i]
      /\ x[k + 1] = c
      /\ \A i \in 1..Len(t) : x[k + 1 + i] = t[i]
  BY WordIs
<1>a. \A i \in 1..k : x[i] # c
  BY <1>1, Zenon DEF Without
<1> HIDE DEF x, k
<1>2. Find(x, c) = k + 1
  <2> DEFINE n == Find(x, c)
  <2>1. /\ n \in 1..(Len(x) + 1)
        /\ n <= Len(x) => x[n] = c
        /\ \A i \in 1..Len(x) : i < n => x[i] # c
    BY <1>1, FindIs DEF Texts
  <2> HIDE DEF n
  <2>2. ~(k + 1 < n)
    BY <1>1, <2>1
  <2>3. ~(n < k + 1)
    BY <1>1, <1>a, <2>1
  <2>4. n = k + 1
    BY <1>1, <2>1, <2>2, <2>3
  <2> QED
    BY <2>4 DEF n
<1>3. SubSeq(x, 1, k) = a
  <2>1. /\ 1 \in Nat \ {0} /\ k \in Int /\ k <= Len(x) /\ Len(a) = k - 1 + 1
        /\ \A i \in 1..Len(a) : x[1 + i - 1] = a[i]
    BY <1>1 DEF k
  <2> QED
    BY <1>1, <2>1, PartIs
<1>4. From(x, k + 1 + 1) = t
  <2>1. k + 1 + 1 \in Nat \ {0} /\ Len(x) \in Int /\ Len(x) <= Len(x) /\ Len(t) = Len(x) - (k + 1 + 1) + 1
    BY <1>1
  <2>2. \A i \in 1..Len(t) : x[(k + 1 + 1) + i - 1] = t[i]
    <3>1. \A i \in 1..Len(t) : (k + 1 + 1) + i - 1 = k + 1 + i
      BY <1>1
    <3> QED
      BY <1>1, <3>1
  <2>3. SubSeq(x, k + 1 + 1, Len(x)) = t
    BY <1>1, <2>1, <2>2, PartIs
  <2> QED
    BY <2>3, Zenon DEF From
<1> QED
  BY <1>2, <1>3, <1>4 DEF x, k

\* Only the end of the second of two texts is stripped if the first does not
\* end in a line end.
LEMMA StrippedCat ==
    ASSUME NEW a \in Texts, NEW t \in Texts, Len(a) > 0, a[Len(a)] \notin {CR, LF}
    PROVE  Stripped(a \o t) = a \o Stripped(t)
<1> DEFINE x == a \o t
           k == Len(a)
           End == {CR, LF}
<1>1. /\ x \in Texts /\ k \in Nat \ {0} /\ Len(t) \in Nat /\ Len(x) = k + Len(t)
      /\ \A i \in 1..k : x[i] = a[i]
      /\ \A i \in 1..Len(t) : x[k + i] = t[i]
  BY Cat
<1>2. PICK p \in 0..Len(t) : /\ Stripped(t) = SubSeq(t, 1, p)
                             /\ p > 0 => t[p] \notin End
                             /\ \A i \in (p + 1)..Len(t) : t[i] \in End
  BY StrippedIs
<1>a. a[k] \notin End
  OBVIOUS
<1> HIDE DEF x, End
<1>3. PICK n \in 0..Len(x) : /\ Stripped(x) = SubSeq(x, 1, n)
                             /\ n > 0 => x[n] \notin End
                             /\ \A i \in (n + 1)..Len(x) : x[i] \in End
  BY <1>1, StrippedIs DEF End
<1> HIDE DEF k
<1>4. ~(n > k + p)
  <2> SUFFICES ASSUME n > k + p PROVE FALSE
    OBVIOUS
  <2> DEFINE i == n - k
  <2>1. i \in (p + 1)..Len(t) /\ i \in 1..Len(t) /\ k + i = n /\ n > 0
    BY <1>1
  <2> HIDE DEF i
  <2> QED
    BY <1>1, <1>2, <1>3, <2>1
<1>5. ~(n < k + p)
  <2> SUFFICES ASSUME n < k + p PROVE FALSE
    OBVIOUS
  <2>1. k + p \in (n + 1)..Len(x)
    BY <1>1
  <2>2. x[k + p] \in End
    BY <1>3, <2>1
  <2>3. CASE p = 0
    <3>1. x[k + p] = a[k]
      BY <1>1, <2>3
    <3> QED
      BY <1>a, <2>2, <3>1
  <2>4. CASE p > 0
    <3>1. x[k + p] = t[p]
      BY <1>1, <2>4
    <3> QED
      BY <1>2, <2>2, <2>4, <3>1
  <2> QED
    BY <2>3, <2>4
<1>6. n = k + p
  BY <1>1, <1>4, <1>5
<1> DEFINE u == SubSeq(t, 1, p)
           w == a \o u
<1>7. u \in Texts /\ Len(u) = p
  <2>1. 1 \in 1..(Len(t) + 1)
    BY <1>1
  <2>2. u \in Texts /\ Len(u) = IF 1 <= p THEN p - 1 + 1 ELSE 0
    BY <2>1, SubText
  <2> QED
    BY <2>2
<1>8. ASSUME NEW i \in 1..p PROVE u[i] = t[i]
  <2>1. \A j \in 1..p : t[j] \in Nat
    BY <1>1, ElementOfSeq, SMTT(30) DEF Texts
  <2>2. \A j \in 1..(p - 1 + 1) : u[j] = t[1 + j - 1]
    BY <2>1, SubSeqProperties
  <2>3. i \in 1..(p - 1 + 1) /\ 1 + i - 1 = i
    OBVIOUS
  <2> HIDE DEF u
  <2> QED
    BY <2>2, <2>3
<1> HIDE DEF u
<1>9. /\ w \in Texts /\ Len(w) = k + p
      /\ \A i \in 1..k : w[i] = a[i]
      /\ \A i \in 1..p : w[k + i] = u[i]
  <2>1. /\ w \in Texts /\ Len(w) = Len(a) + Len(u)
        /\ \A i \in 1..Len(a) : w[i] = a[i]
        /\ \A i \in 1..Len(u) : w[Len(a) + i] = u[i]
    BY <1>7, Cat
  <2> QED
    BY <1>7, <2>1 DEF k
<1> HIDE DEF w
<1>10. ASSUME NEW i \in 1..Len(w) PROVE x[1 + i - 1] = w[i]
  <2>1. i \in 1..(k + p) /\ 1 + i - 1 = i
    BY <1>1, <1>9
  <2>2. CASE i <= k
    <3>1. i \in 1..k
      BY <1>1, <2>1, <2>2
    <3> QED
      BY <1>1, <1>9, <2>1, <3>1
  <2>3. CASE i > k
    <3> DEFINE j == i - k
    <3>1. j \in 1..p /\ j \in 1..Len(t) /\ k + j = i
      BY <1>1, <2>1, <2>3
    <3> HIDE DEF j
    <3>2. x[k + j] = t[j] /\ w[k + j] = u[j] /\ u[j] = t[j]
      BY <1>1, <1>8, <1>9, <3>1, Zenon
    <3> QED
      BY <2>1, <3>1, <3>2
  <2> QED
    BY <1>1, <2>1, <2>2, <2>3
<1>11. SubSeq(x, 1, n) = w
  <2>1. 1 \in Nat \ {0} /\ n \in Int /\ n <= Len(x) /\ Len(w) = n - 1 + 1
    BY <1>1, <1>6, <1>9
  <2> QED
    BY <1>1, <1>9, <1>10, <2>1, PartIs
<1> QED
  BY <1>2, <1>3, <1>11, Zenon DEF x, w, u

\* A field of RFC 5424, and the rest of the header behind it.
LEMMA NilableWord ==
    ASSUME NEW a \in Texts, Len(a) > 0, Without(a, SP), NEW t \in Texts
    PROVE  /\ ParseNilable(Word(a, SP, t)) = IF a = <<DASH>> THEN Nil ELSE a
           /\ Behind(Word(a, SP, t)) = t
<1> DEFINE x == Word(a, SP, t)
           k == Len(a)
<1>0. SP \in Nat
  BY DEF SP
<1>1. Find(x, SP) = k + 1 /\ SubSeq(x, 1, k) = a /\ From(x, k + 1 + 1) = t
  BY <1>0, WordSplit
<1>2. x \in Texts /\ k \in Nat /\ Len(t) \in Nat /\ Len(x) = k + 1 + Len(t)
  BY <1>0, WordIs
<1> HIDE DEF x, k
<1>3. (k + 1) - 1 = k /\ Len(x) # 0
  BY <1>2
<1>4. x # <<>>
  BY <1>3, EmptySeq
<1>5. SubSeq(x, 1, Find(x, SP) - 1) = a
  BY <1>1, <1>3
<1>6. ParseNilable(x) = IF a = <<DASH>> THEN Nil ELSE a
  BY <1>4, <1>5, Zenon DEF ParseNilable
<1>7. Behind(x) = t
  BY <1>1, Zenon DEF Behind
<1> QED
  BY <1>6, <1>7, Zenon DEF x

\* Texts are put together in any order.
LEMMA CatInOrder ==
    ASSUME NEW a \in Texts, NEW b \in Texts, NEW c \in Texts
    PROVE  (a \o b) \o c = a \o (b \o c)
<1>1. a \in Seq(Nat) /\ b \in Seq(Nat) /\ c \in Seq(Nat)
  BY DEF Texts
<1> QED
  BY <1>1, ConcatAssociative, SMTT(30)

\* A word at the end of a text put together from the left.
LEMMA WordAtEnd ==
    ASSUME NEW x \in Texts, NEW a \in Texts, NEW c \in Nat, NEW t \in Texts
    PROVE  ((x \o a) \o <<c>>) \o t = x \o Word(a, c, t)
<1> DEFINE b == <<c>>
           p == x \o a
           q == b \o t
<1>1. b \in Texts
  BY DEF Texts
<1> HIDE DEF b
<1>2. p \in Texts
  BY Cat
<1>3. q \in Texts
  BY <1>1, Cat
<1> HIDE DEF p, q
<1>4. (p \o b) \o t = p \o (b \o t)
  BY <1>1, <1>2, CatInOrder
<1>5. (x \o a) \o q = x \o (a \o q)
  BY <1>3, CatInOrder
<1>6. (p \o b) \o t = x \o (a \o q)
  BY <1>4, <1>5 DEF p, q
<1> QED
  BY <1>6, Zenon DEF Word, p, q, b

\* Nothing but the end of the text behind a word is stripped.
LEMMA StrippedWord ==
    ASSUME NEW a \in Texts, NEW c \in Nat, c \notin {CR, LF}, NEW t \in Texts
    PROVE  Stripped(Word(a, c, t)) = Word(a, c, Stripped(t))
<1> DEFINE b == <<c>>
           p == a \o b
           u == Stripped(t)
<1>1. b \in Texts /\ Len(b) = 1 /\ b[1] = c
  BY DEF Texts
<1> HIDE DEF b
<1>2. /\ p \in Texts /\ Len(a) \in Nat /\ Len(p) = Len(a) + Len(b)
      /\ \A i \in 1..Len(b) : p[Len(a) + i] = b[i]
  <2>1. b \in Texts
    BY <1>1
  <2> QED
    BY <2>1, Cat
<1>3. u \in Texts
  BY StrippedIsText
<1>4. p \o t = a \o (b \o t)
  BY <1>1, CatInOrder
<1>5. p \o u = a \o (b \o u)
  <2>1. b \in Texts
    BY <1>1
  <2> HIDE DEF u
  <2> QED
    BY <1>3, <2>1, CatInOrder
<1> HIDE DEF p
<1>6. Len(p) > 0 /\ p[Len(p)] \notin {CR, LF}
  <2>1. 1 \in 1..Len(b)
    BY <1>1
  <2>2. p[Len(p)] = c
    BY <1>1, <1>2, <2>1
  <2> QED
    BY <1>1, <1>2, <2>2
<1>7. Stripped(p \o t) = p \o u
  BY <1>2, <1>6, StrippedCat
<1>8. Stripped(a \o (b \o t)) = a \o (b \o u)
  BY <1>4, <1>5, <1>7, Zenon
<1> QED
  BY <1>8, Zenon DEF Word, b, u

\* The positions of a character behind a word.
LEMMA BehindWord ==
    ASSUME NEW c \in Nat
    PROVE  \A a, t \in Texts : \A i \in 1..Len(t) :
              /\ Len(a) + 1 + i \in 1..Len(Word(a, c, t))
              /\ Word(a, c, t)[Len(a) + 1 + i] = t[i]
<1> TAKE a, t \in Texts
<1> TAKE i \in 1..Len(t)
<1> DEFINE x == Word(a, c, t)
<1>1. /\ x \in Texts /\ Len(a) \in Nat /\ Len(t) \in Nat /\ Len(x) = Len(a) + 1 + Len(t)
      /\ \A j \in 1..Len(t) : x[Len(a) + 1 + j] = t[j]
  BY WordIs, ZenonT(40)
<1> HIDE DEF x
<1>2. Len(a) + 1 + i \in 1..Len(x) /\ x[Len(a) + 1 + i] = t[i]
  BY <1>1
<1> QED
  BY <1>1, <1>2 DEF x

\* Four words have four characters between them.
LEMMA FourIn ==
    ASSUME NEW S, IsFiniteSet(S), NEW a \in S, NEW b \in S, NEW c \in S, NEW d \in S,
           a \in Int, b \in Int, c \in Int, d \in Int, a < b, b < c, c < d
    PROVE  ~(Cardinality(S) < 4)
<1> DEFINE T1 == {a}
           T2 == T1 \cup {b}
           T3 == T2 \cup {c}
           T4 == T3 \cup {d}
<1>1. IsFiniteSet(T1) /\ Cardinality(T1) = 1
  BY FS_Singleton
<1>2. b \notin T1 /\ c \notin T2 /\ d \notin T3 /\ T4 \subseteq S
  OBVIOUS
<1> HIDE DEF T1
<1>3. IsFiniteSet(T2) /\ Cardinality(T2) = 2
  BY <1>1, <1>2, FS_AddElement
<1> HIDE DEF T2
<1>4. IsFiniteSet(T3) /\ Cardinality(T3) = 3
  BY <1>2, <1>3, FS_AddElement
<1> HIDE DEF T3
<1>5. IsFiniteSet(T4) /\ Cardinality(T4) = 4
  BY <1>2, <1>4, FS_AddElement
<1> HIDE DEF T4
<1>6. Cardinality(T4) <= Cardinality(S) /\ Cardinality(S) \in Nat
  BY <1>2, FS_Subset, FS_CardinalityType
<1> QED
  BY <1>5, <1>6

\* The header of RFC 5424 in front of its words, and the structured data.
Head5424(pri) == <<Pri(pri), Version(1), SP>>
Words5424(host, app, pid, msgid, text) ==
    Word(<<Stamp5424>>, SP, Word(host, SP, Word(app, SP, Word(pid, SP, Word(msgid, SP, text)))))

\* The same for any texts at once.
LEMMA WordsAtEnd ==
    ASSUME NEW c \in Nat
    PROVE  \A x, a, u \in Texts : ((x \o a) \o <<c>>) \o u = x \o Word(a, c, u)
BY WordAtEnd

\* A text that begins with another one.
LEMMA TextAtEnd ==
    ASSUME NEW b \in Texts, NEW m \in Texts
    PROVE  \A x, s \in Texts : (x \o (s \o b)) \o m = (x \o s) \o (b \o m)
<1> TAKE x, s \in Texts
<1> DEFINE p == x \o s
<1>1. p \in Texts
  BY Cat
<1>2. (x \o s) \o b = x \o (s \o b)
  BY CatInOrder
<1> HIDE DEF p
<1>3. (p \o b) \o m = p \o (b \o m)
  BY <1>1, CatInOrder
<1> QED
  BY <1>2, <1>3, Zenon DEF p

\* The parts of a datagram of RFC 5424, and what formatRfc5424() makes of them.
AllTexts(h3, w, host, app, pid, msgid, d2, m, c) ==
    /\ h3 \in Texts /\ w \in Texts /\ host \in Texts /\ app \in Texts /\ pid \in Texts
    /\ msgid \in Texts /\ d2 \in Texts /\ m \in Texts /\ c \in Nat
Strung(h3, w, host, app, pid, msgid, d2, m, c) ==
    ((((((((((h3 \o w) \o <<c>>) \o host) \o <<c>>) \o app) \o <<c>>) \o pid) \o <<c>>) \o msgid)
        \o (<<c>> \o d2)) \o m

\* It is a row of words.
LEMMA LastWords ==
    ASSUME NEW h3, NEW w, NEW host, NEW app, NEW pid, NEW msgid, NEW d2, NEW m, NEW c,
           AllTexts(h3, w, host, app, pid, msgid, d2, m, c)
    PROVE  Strung(h3, w, host, app, pid, msgid, d2, m, c)
             = h3 \o Word(w, c, Word(host, c, Word(app, c, Word(pid, c, Word(msgid, c, d2 \o m)))))
<1> DEFINE s == <<c>>
           x1 == (h3 \o w) \o s
           x2 == (x1 \o host) \o s
           x3 == (x2 \o app) \o s
           x4 == (x3 \o pid) \o s
           x5 == x4 \o msgid
           t0 == d2 \o m
           t1 == Word(msgid, c, t0)
           t2 == Word(pid, c, t1)
           t3 == Word(app, c, t2)
           t4 == Word(host, c, t3)
<1>t. /\ h3 \in Texts /\ w \in Texts /\ host \in Texts /\ app \in Texts /\ pid \in Texts
      /\ msgid \in Texts /\ d2 \in Texts /\ m \in Texts /\ c \in Nat
  BY DEF AllTexts
<1> USE <1>t
<1>u. \A x, a \in Texts : (x \o (a \o d2)) \o m = (x \o a) \o (d2 \o m)
  BY TextAtEnd, Zenon
<1>0. s \in Texts
  BY DEF Texts
<1>w. \A x, a, u \in Texts : ((x \o a) \o s) \o u = x \o Word(a, c, u)
  BY WordsAtEnd, Zenon
<1> HIDE DEF s
<1>a. \A u \in Texts : x1 \o u = h3 \o Word(w, c, u)
  BY <1>w, Zenon DEF x1
<1>1. \A a, b \in Texts : a \o b \in Texts
  BY Cat
<1>2. x1 \in Texts
  BY <1>0, <1>1
<1> HIDE DEF x1
<1>3. x2 \in Texts
  BY <1>0, <1>1, <1>2
<1>b. \A u \in Texts : x2 \o u = x1 \o Word(host, c, u)
  BY <1>2, <1>w, Zenon DEF x2
<1> HIDE DEF x2
<1>4. x3 \in Texts
  BY <1>0, <1>1, <1>3
<1>c. \A u \in Texts : x3 \o u = x2 \o Word(app, c, u)
  BY <1>3, <1>w, Zenon DEF x3
<1> HIDE DEF x3
<1>5. x4 \in Texts
  BY <1>0, <1>1, <1>4
<1>d. \A u \in Texts : x4 \o u = x3 \o Word(pid, c, u)
  BY <1>4, <1>w, Zenon DEF x4
<1> HIDE DEF x4
<1>6. x5 \in Texts
  BY <1>1, <1>5
<1>e. \A u \in Texts : (x5 \o s) \o u = x4 \o Word(msgid, c, u)
  BY <1>5, <1>w, Zenon DEF x5
<1> HIDE DEF x5
<1>7. t0 \in Texts
  BY <1>1
<1>8. (x5 \o (s \o d2)) \o m = (x5 \o s) \o t0
  BY <1>0, <1>6, <1>u, Zenon DEF t0
<1> HIDE DEF t0
<1>9. \A a, u \in Texts : Word(a, c, u) \in Texts
  BY WordIs
<1>10. t1 \in Texts
  BY <1>7, <1>9
<1> HIDE DEF t1
<1>11. t2 \in Texts
  BY <1>9, <1>10
<1> HIDE DEF t2
<1>12. t3 \in Texts
  BY <1>9, <1>11
<1> HIDE DEF t3
<1>13. t4 \in Texts
  BY <1>9, <1>12
<1> HIDE DEF t4
<1>14. (x5 \o s) \o t0 = x4 \o t1
  BY <1>7, <1>e, Zenon DEF t1
<1>15. x4 \o t1 = x3 \o t2
  BY <1>10, <1>d, Zenon DEF t2
<1>16. x3 \o t2 = x2 \o t3
  BY <1>11, <1>c, Zenon DEF t3
<1>17. x2 \o t3 = x1 \o t4
  BY <1>12, <1>b, Zenon DEF t4
<1>18. x1 \o t4 = h3 \o Word(w, c, t4)
  BY <1>13, <1>a, Zenon
<1>19. (x5 \o (s \o d2)) \o m = h3 \o Word(w, c, t4)
  BY <1>8, <1>14, <1>15, <1>16, <1>17, <1>18, Zenon
<1> QED
  BY <1>19, Zenon DEF Strung, x5, x4, x3, x2, x1, s, t4, t3, t2, t1, t0

\* A field as the parser can find it, and what it reads.
Field(a) == a \in Texts /\ Len(a) > 0 /\ Without(a, SP)
ReadAs(a) == IF a = <<DASH>> THEN Nil ELSE a
Spaces(s) == {i \in DOMAIN s : s[i] = SP}

\* Five words have four spaces between them.
LEMMA FourSpaces ==
    ASSUME NEW w \in Texts, NEW host \in Texts, NEW app \in Texts, NEW pid \in Texts, NEW t \in Texts
    PROVE  ~(Cardinality(Spaces(Word(w, SP, Word(host, SP, Word(app, SP, Word(pid, SP, t)))))) < 4)
<1> DEFINE t1 == Word(pid, SP, t)
           t2 == Word(app, SP, t1)
           t3 == Word(host, SP, t2)
           t4 == Word(w, SP, t3)
           S == Spaces(t4)
<1>0. SP \in Nat
  BY DEF SP
<1>1. \A a, u \in Texts : /\ Word(a, SP, u) \in Texts /\ Len(a) \in Nat
                          /\ Len(a) + 1 \in 1..Len(Word(a, SP, u))
                          /\ Word(a, SP, u)[Len(a) + 1] = SP
  <2> SUFFICES ASSUME NEW a \in Texts, NEW u \in Texts
               PROVE  /\ Word(a, SP, u) \in Texts /\ Len(a) \in Nat
                      /\ Len(a) + 1 \in 1..Len(Word(a, SP, u))
                      /\ Word(a, SP, u)[Len(a) + 1] = SP
    OBVIOUS
  <2> DEFINE x == Word(a, SP, u)
  <2>1. /\ x \in Texts /\ Len(a) \in Nat /\ Len(u) \in Nat /\ Len(x) = Len(a) + 1 + Len(u)
        /\ x[Len(a) + 1] = SP
    BY <1>0, WordIs
  <2> HIDE DEF x
  <2>2. Len(a) + 1 \in 1..Len(x)
    BY <2>1
  <2> QED
    BY <2>1, <2>2 DEF x
<1>2. \A a, u \in Texts : \A i \in 1..Len(u) :
         /\ Len(a) + 1 + i \in 1..Len(Word(a, SP, u))
         /\ Word(a, SP, u)[Len(a) + 1 + i] = u[i]
  BY <1>0, BehindWord, Zenon
<1> DEFINE p1 == Len(pid) + 1
           p2 == Len(app) + 1
           q2 == Len(app) + 1 + p1
           p3 == Len(host) + 1
           q3 == Len(host) + 1 + p2
           r3 == Len(host) + 1 + q2
           p4 == Len(w) + 1
           q4 == Len(w) + 1 + p3
           r4 == Len(w) + 1 + q3
           s4 == Len(w) + 1 + r3
<1>a. Len(pid) \in Nat /\ Len(app) \in Nat /\ Len(host) \in Nat /\ Len(w) \in Nat
  BY LenProperties DEF Texts
<1>3. t1 \in Texts /\ p1 \in 1..Len(t1) /\ t1[p1] = SP
  BY <1>1, Zenon
<1> HIDE DEF t1, p1
<1>4. t2 \in Texts /\ p2 \in 1..Len(t2) /\ t2[p2] = SP
  BY <1>1, <1>3, Zenon
<1>5. q2 \in 1..Len(t2) /\ t2[q2] = SP
  BY <1>2, <1>3, Zenon
<1> HIDE DEF t2, p2, q2
<1>6. t3 \in Texts /\ p3 \in 1..Len(t3) /\ t3[p3] = SP
  BY <1>1, <1>4, Zenon
<1>7. q3 \in 1..Len(t3) /\ t3[q3] = SP
  BY <1>2, <1>4, Zenon
<1>8. r3 \in 1..Len(t3) /\ t3[r3] = SP
  BY <1>2, <1>4, <1>5, Zenon
<1> HIDE DEF t3, p3, q3, r3
<1>9. t4 \in Texts /\ p4 \in 1..Len(t4) /\ t4[p4] = SP
  BY <1>1, <1>6, Zenon
<1>10. q4 \in 1..Len(t4) /\ t4[q4] = SP
  BY <1>2, <1>6, Zenon
<1>11. r4 \in 1..Len(t4) /\ t4[r4] = SP
  BY <1>2, <1>6, <1>7, Zenon
<1>12. s4 \in 1..Len(t4) /\ t4[s4] = SP
  BY <1>2, <1>6, <1>8, Zenon
<1>b. p1 \in Nat /\ p1 > 0
  BY <1>a DEF p1
<1>c. p2 \in Nat /\ q2 \in Nat /\ 0 < p2 /\ p2 < q2
  BY <1>a, <1>b DEF p2, q2
<1>d. p3 \in Nat /\ q3 \in Nat /\ r3 \in Nat /\ 0 < p3 /\ p3 < q3 /\ q3 < r3
  BY <1>a, <1>c DEF p3, q3, r3
<1>e. /\ p4 \in Int /\ q4 \in Int /\ r4 \in Int /\ s4 \in Int
      /\ p4 < q4 /\ q4 < r4 /\ r4 < s4
  BY <1>a, <1>d
<1> HIDE DEF t4, p4, q4, r4, s4
<1>13. DOMAIN t4 = 1..Len(t4) /\ Len(t4) \in Nat
  BY <1>9, LenProperties DEF Texts
<1>14. IsFiniteSet(S)
  <2>1. IsFiniteSet(1..Len(t4))
    BY <1>13, FS_Interval
  <2>2. S \subseteq 1..Len(t4)
    BY <1>13 DEF Spaces
  <2> HIDE DEF S
  <2> QED
    BY <2>1, <2>2, FS_Subset
<1>15. p4 \in S /\ q4 \in S /\ r4 \in S /\ s4 \in S
  BY <1>9, <1>10, <1>11, <1>12, <1>13, Zenon DEF Spaces
<1> HIDE DEF S
<1>16. ~(Cardinality(S) < 4)
  BY <1>14, <1>15, <1>e, FourIn
<1> QED
  BY <1>16, Zenon DEF S, t4, t3, t2, t1

\* parsePri() reads the PRI back.
LEMMA PriRead ==
    ASSUME NEW pri \in 0..191, NEW t \in Texts, Len(t) > 0, t[1] = Pri(pri)
    PROVE  ParsePri(t) = pri
<1> DEFINE c == t[1]
<1>1. c = 1000 + pri
  BY DEF Pri
<1> HIDE DEF c
<1>2. c \in Pri(0)..Pri(191) /\ c - Pri(0) = pri
  BY <1>1 DEF Pri
<1>3. t # <<>>
  BY EmptySeq
<1> QED
  BY <1>2, <1>3, Zenon DEF ParsePri, c

\* A PRI, fields and a text behind them.
Given5424(pri, host, app, pid, msgid, text) ==
    /\ pri \in 0..191 /\ Field(host) /\ Field(app) /\ Field(pid) /\ Field(msgid)
    /\ text \in Texts
\* tryRfc5424() finds the fields.
LEMMA Found5424 ==
    ASSUME NEW pri, NEW host, NEW app, NEW pid, NEW msgid, NEW text,
           Given5424(pri, host, app, pid, msgid, text)
    PROVE  TryRfc5424(Head5424(pri) \o Words5424(host, app, pid, msgid, text))
             = {Message("RFC5424", pri, ReadAs(<<Stamp5424>>), ReadAs(host), ReadAs(app), ReadAs(pid),
                        ReadAs(msgid), text)}
<1> DEFINE w == <<Stamp5424>>
           h == Head5424(pri)
           t0 == Word(msgid, SP, text)
           t1 == Word(pid, SP, t0)
           t2 == Word(app, SP, t1)
           t3 == Word(host, SP, t2)
           t4 == Word(w, SP, t3)
           data == h \o t4
<1>g. /\ pri \in 0..191 /\ Field(host) /\ Field(app) /\ Field(pid) /\ Field(msgid)
      /\ text \in Texts
  BY DEF Given5424
<1> USE <1>g
<1>0. SP \in Nat
  BY DEF SP
<1>1. Field(w)
  BY DEF Field, Without, Texts, Stamp5424, SP
<1>2. h \in Texts /\ Len(h) = 3 /\ h[1] = Pri(pri) /\ h[2] = Version(1) /\ h[3] = SP
  BY DEF Head5424, Texts, Pri, Version, SP
<1> HIDE DEF w, h
<1>3. \A a, u : Field(a) /\ u \in Texts =>
         /\ Word(a, SP, u) \in Texts
         /\ ParseNilable(Word(a, SP, u)) = ReadAs(a)
         /\ Behind(Word(a, SP, u)) = u
  <2> SUFFICES ASSUME NEW a, NEW u \in Texts, Field(a)
               PROVE  /\ Word(a, SP, u) \in Texts
                      /\ ParseNilable(Word(a, SP, u)) = ReadAs(a)
                      /\ Behind(Word(a, SP, u)) = u
    BY Zenon
  <2>1. a \in Texts /\ Len(a) > 0 /\ Without(a, SP)
    BY DEF Field
  <2>2. Word(a, SP, u) \in Texts
    BY <1>0, <2>1, WordIs
  <2> QED
    BY <2>1, <2>2, NilableWord, Zenon DEF ReadAs
<1>4. t0 \in Texts /\ ParseNilable(t0) = ReadAs(msgid) /\ Behind(t0) = text
  BY <1>3, Zenon
<1> HIDE DEF t0
<1>5. t1 \in Texts /\ ParseNilable(t1) = ReadAs(pid) /\ Behind(t1) = t0
  BY <1>3, <1>4, Zenon
<1>6. t1 = Word(pid, SP, t0)
  OBVIOUS
<1> HIDE DEF t1
<1>7. t2 \in Texts /\ ParseNilable(t2) = ReadAs(app) /\ Behind(t2) = t1
  BY <1>3, <1>5, Zenon
<1> HIDE DEF t2
<1>8. t3 \in Texts /\ ParseNilable(t3) = ReadAs(host) /\ Behind(t3) = t2
  BY <1>3, <1>7, Zenon
<1> HIDE DEF t3
<1>9. t4 \in Texts /\ ParseNilable(t4) = ReadAs(w) /\ Behind(t4) = t3
  BY <1>1, <1>3, <1>8, Zenon
<1> HIDE DEF t4
<1>10. ~(Cardinality(Spaces(t4)) < 4)
  <2>1. w \in Texts /\ host \in Texts /\ app \in Texts /\ pid \in Texts
    BY <1>1 DEF Field
  <2>2. t0 \in Texts
    BY <1>4
  <2>3. ~(Cardinality(Spaces(Word(w, SP, Word(host, SP, Word(app, SP, Word(pid, SP, t0)))))) < 4)
    BY <2>1, <2>2, FourSpaces
  <2> QED
    BY <2>3, Zenon DEF t4, t3, t2, t1
<1>11. /\ data \in Texts /\ Len(data) = Len(h) + Len(t4) /\ Len(t4) \in Nat
       /\ \A i \in 1..Len(h) : data[i] = h[i]
  BY <1>2, <1>9, Cat
<1>12. From(data, Len(h) + 1) = t4
  BY <1>2, <1>9, FromCat
<1> HIDE DEF data
<1>13. From(data, 4) = t4 /\ ~(Len(data) < 3) /\ Len(data) > 0
  <2>1. Len(h) + 1 = 4
    BY <1>2
  <2>2. From(data, 4) = t4
    BY <1>12, <2>1
  <2> QED
    BY <1>2, <1>11, <2>2
<1>14. data[1] = Pri(pri) /\ data[2] = Version(1) /\ data[3] = SP
  <2>1. 1 \in 1..Len(h) /\ 2 \in 1..Len(h) /\ 3 \in 1..Len(h)
    BY <1>2
  <2> QED
    BY <1>2, <1>11, <2>1
<1>15. ParsePri(data) = pri
  BY <1>11, <1>13, <1>14, PriRead
<1>16. ~(pri < 0)
  OBVIOUS
<1>17. TryRfc5424(data) = {Message("RFC5424", pri, ReadAs(w), ReadAs(host), ReadAs(app), ReadAs(pid),
                                   ReadAs(msgid), text)}
  BY <1>4, <1>5, <1>7, <1>8, <1>9, <1>10, <1>13, <1>14, <1>15, <1>16, Zenon DEF TryRfc5424, Spaces
<1> QED
  BY <1>17, Zenon DEF data, h, t4, t3, t2, t1, t0, w, Words5424

\* A text put together of two, element by element.
LEMMA CatIs ==
    ASSUME NEW a \in Texts, NEW b \in Texts, NEW x \in Texts, Len(x) = Len(a) + Len(b),
           \A i \in 1..Len(a) : x[i] = a[i], \A i \in 1..Len(b) : x[Len(a) + i] = b[i]
    PROVE  a \o b = x
<1> DEFINE y == a \o b
<1>1. /\ y \in Texts /\ Len(a) \in Nat /\ Len(b) \in Nat /\ Len(y) = Len(a) + Len(b)
      /\ \A i \in 1..Len(a) : y[i] = a[i]
      /\ \A i \in 1..Len(b) : y[Len(a) + i] = b[i]
  BY Cat
<1> HIDE DEF y
<1>2. ASSUME NEW i \in 1..Len(y) PROVE y[i] = x[i]
  <2>1. CASE i <= Len(a)
    <3>1. i \in 1..Len(a)
      BY <1>1, <2>1
    <3> QED
      BY <1>1, <3>1
  <2>2. CASE i > Len(a)
    <3> DEFINE j == i - Len(a)
    <3>1. j \in 1..Len(b) /\ Len(a) + j = i
      BY <1>1, <2>2
    <3> HIDE DEF j
    <3>2. y[Len(a) + j] = b[j] /\ x[Len(a) + j] = b[j]
      BY <1>1, <3>1, Zenon
    <3> QED
      BY <3>1, <3>2
  <2> QED
    BY <1>1, <2>1, <2>2
<1>3. Len(y) = Len(x) /\ y \in Seq(Nat) /\ x \in Seq(Nat)
  BY <1>1 DEF Texts
<1>4. y = x
  BY <1>2, <1>3, SeqEqual
<1> QED
  BY <1>4 DEF y

\* The pieces of the headers that are written as one string.
LEMMA Tuple2 ==
    ASSUME NEW a \in Nat, NEW b \in Nat
    PROVE  <<a>> \o <<b>> = <<a, b>>
<1> DEFINE p == <<a>>
           q == <<b>>
           x == <<a, b>>
<1>1. /\ p \in Texts /\ q \in Texts /\ x \in Texts /\ Len(p) = 1 /\ Len(q) = 1 /\ Len(x) = 2
      /\ p[1] = a /\ q[1] = b /\ x[1] = a /\ x[2] = b
  BY DEF Texts
<1> HIDE DEF p, q, x
<1>2. /\ Len(x) = Len(p) + Len(q)
      /\ \A i \in 1..Len(p) : x[i] = p[i]
      /\ \A i \in 1..Len(q) : x[Len(p) + i] = q[i]
  BY <1>1
<1>3. p \o q = x
  BY <1>1, <1>2, CatIs
<1> QED
  BY <1>3 DEF p, q, x

\* The same with three symbols.
LEMMA Tuple3 ==
    ASSUME NEW a \in Nat, NEW b \in Nat, NEW c \in Nat
    PROVE  <<a>> \o <<b, c>> = <<a, b, c>>
<1> DEFINE p == <<a>>
           q == <<b, c>>
           x == <<a, b, c>>
<1>1. /\ p \in Texts /\ q \in Texts /\ x \in Texts /\ Len(p) = 1 /\ Len(q) = 2 /\ Len(x) = 3
      /\ p[1] = a /\ q[1] = b /\ q[2] = c /\ x[1] = a /\ x[2] = b /\ x[3] = c
  BY DEF Texts
<1> HIDE DEF p, q, x
<1>2. /\ Len(x) = Len(p) + Len(q)
      /\ \A i \in 1..Len(p) : x[i] = p[i]
      /\ \A i \in 1..Len(q) : x[Len(p) + i] = q[i]
  BY <1>1
<1>3. p \o q = x
  BY <1>1, <1>2, CatIs
<1> QED
  BY <1>3 DEF p, q, x

\* The same with five.
LEMMA Tuple5 ==
    ASSUME NEW a \in Nat, NEW b \in Nat, NEW c \in Nat, NEW d \in Nat, NEW e \in Nat
    PROVE  (<<a, b, c>> \o <<d>>) \o <<e>> = <<a, b, c, d, e>>
<1> DEFINE p == <<a, b, c>>
           q == <<d>>
           y == <<a, b, c, d>>
           r == <<e>>
           x == <<a, b, c, d, e>>
<1>1. /\ p \in Texts /\ q \in Texts /\ y \in Texts /\ Len(p) = 3 /\ Len(q) = 1 /\ Len(y) = 4
      /\ p[1] = a /\ p[2] = b /\ p[3] = c /\ q[1] = d
      /\ y[1] = a /\ y[2] = b /\ y[3] = c /\ y[4] = d
  BY DEF Texts
<1>2. /\ r \in Texts /\ x \in Texts /\ Len(r) = 1 /\ Len(x) = 5 /\ r[1] = e
      /\ x[1] = a /\ x[2] = b /\ x[3] = c /\ x[4] = d /\ x[5] = e
  BY DEF Texts
<1> HIDE DEF p, q, x, y, r
<1>3. p \o q = y
  <2>1. /\ Len(y) = Len(p) + Len(q)
        /\ \A i \in 1..Len(p) : y[i] = p[i]
        /\ \A i \in 1..Len(q) : y[Len(p) + i] = q[i]
    BY <1>1
  <2> QED
    BY <1>1, <2>1, CatIs
<1>4. y \o r = x
  <2>1. /\ Len(x) = Len(y) + Len(r)
        /\ \A i \in 1..Len(y) : x[i] = y[i]
        /\ \A i \in 1..Len(r) : x[Len(y) + i] = r[i]
    BY <1>1, <1>2
  <2> QED
    BY <1>1, <1>2, <2>1, CatIs
<1> QED
  BY <1>3, <1>4 DEF p, q, r, x

\* What requireToken() lets through, the parser finds.
LEMMA TokenField ==
    ASSUME NEW v \in Given, IsPrintableAsciiToken(v)
    PROVE  Field(v)
<1>1. v # <<>> /\ \A i \in DOMAIN v : v[i] \in 33..126
  BY DEF IsPrintableAsciiToken
<1>2. v # Nil
  <2> SUFFICES ASSUME v = Nil PROVE FALSE
    OBVIOUS
  <2>1. 1 \in DOMAIN Nil /\ Nil[1] = -1
    BY DEF Nil
  <2>2. -1 \in 33..126
    BY <1>1, <2>1
  <2> QED
    BY <2>2
<1>3. v \in Texts
  BY <1>2 DEF Given
<1>4. Len(v) \in Nat \ {0} /\ DOMAIN v = 1..Len(v)
  BY <1>1, <1>3, EmptySeq, LenProperties DEF Texts
<1>5. \A i \in 1..Len(v) : v[i] # SP
  <2>1. \A c \in 33..126 : c # SP
    BY DEF SP
  <2> QED
    BY <1>1, <1>4, <2>1, Zenon
<1> QED
  BY <1>3, <1>4, <1>5 DEF Field, Without

\* validateFields(): the fields as the parser can find them.
LEMMA ValidFields ==
    ASSUME NEW f \in FieldSets, ValidateFields(f)
    PROVE  /\ Field(f.hostname) /\ Field(f.app) /\ Field(Nilable(f.pid)) /\ f.message \in Texts
           /\ f.pid # Nil => Field(f.pid)
           /\ f.facility \in 0..23 /\ f.severity \in 0..7
           /\ ~f.rfc3164 => Field(Nilable(f.msgid))
           /\ f.rfc3164 => TagCharacters(f) /\ f.msgid = Nil
<1>1. /\ f.hostname \in Given /\ f.app \in Given /\ f.pid \in Given /\ f.msgid \in Given
      /\ f.message \in Texts
  BY DEF FieldSets, Given
<1>2. /\ f.facility \in 0..23 /\ f.severity \in 0..7
      /\ IsPrintableAsciiToken(f.hostname) /\ IsPrintableAsciiToken(f.app)
      /\ f.pid = Nil \/ IsPrintableAsciiToken(f.pid)
      /\ ~f.rfc3164 => f.msgid = Nil \/ IsPrintableAsciiToken(f.msgid)
      /\ f.rfc3164 => TagCharacters(f) /\ f.msgid = Nil
  BY Zenon DEF ValidateFields
<1>3. Field(<<DASH>>)
  BY DEF Field, Without, Texts, DASH, SP
<1>4. \A v \in Given : IsPrintableAsciiToken(v) => Field(v)
  BY TokenField
<1> QED
  BY <1>1, <1>2, <1>3, <1>4, Zenon DEF Nilable

\* formatRfc5424() puts words together.
LEMMA Format5424 ==
    ASSUME NEW f \in FieldSets, ValidateFields(f), ~f.rfc3164
    PROVE  FormatRfc5424(f)
             = Head5424(f.facility * 8 + f.severity)
                 \o Words5424(f.hostname, f.app, Nilable(f.pid), Nilable(f.msgid), <<DASH, SP>> \o f.message)
<1> DEFINE pri == f.facility * 8 + f.severity
           h3 == Head5424(pri)
           w == <<Stamp5424>>
           host == f.hostname
           app == f.app
           pid == Nilable(f.pid)
           msgid == Nilable(f.msgid)
           d2 == <<DASH, SP>>
           m == f.message
<1>1. host \in Texts /\ app \in Texts /\ pid \in Texts /\ msgid \in Texts /\ m \in Texts
  BY ValidFields DEF Field
<1>2. pri \in Nat
  <2>1. f.facility \in 0..23 /\ f.severity \in 0..7
    BY ValidFields
  <2> QED
    BY <2>1
<1> HIDE DEF pri
<1>3. Pri(pri) \in Nat /\ Version(1) \in Nat /\ SP \in Nat /\ Stamp5424 \in Nat /\ DASH \in Nat
  BY <1>2 DEF Pri, Version, SP, Stamp5424, DASH
<1>4. h3 \in Texts /\ w \in Texts /\ d2 \in Texts
  BY <1>3 DEF Texts, Head5424
<1>5. /\ <<SP, DASH, SP>> = <<SP>> \o d2
      /\ <<Pri(pri), Version(1), SP, Stamp5424, SP>> = (h3 \o w) \o <<SP>>
  <2>1. <<SP>> \o <<DASH, SP>> = <<SP, DASH, SP>>
    BY <1>3, Tuple3
  <2>2. (<<Pri(pri), Version(1), SP>> \o <<Stamp5424>>) \o <<SP>>
          = <<Pri(pri), Version(1), SP, Stamp5424, SP>>
    BY <1>3, Tuple5
  <2> QED
    BY <2>1, <2>2, Zenon DEF Head5424
<1>6. FormatRfc5424(f)
        = <<Pri(pri), Version(1), SP, Stamp5424, SP>> \o host \o <<SP>> \o app \o <<SP>> \o pid
             \o <<SP>> \o msgid \o <<SP, DASH, SP>> \o m
  BY Zenon DEF FormatRfc5424, pri
<1> HIDE DEF h3, w, host, app, pid, msgid, d2, m
<1>7. Strung(h3, w, host, app, pid, msgid, d2, m, SP)
        = h3 \o Word(w, SP, Word(host, SP, Word(app, SP, Word(pid, SP, Word(msgid, SP, d2 \o m)))))
  <2>1. AllTexts(h3, w, host, app, pid, msgid, d2, m, SP)
    BY <1>1, <1>3, <1>4, Zenon DEF AllTexts
  <2> QED
    BY <2>1, LastWords
<1>8. FormatRfc5424(f) = h3 \o Words5424(host, app, pid, msgid, d2 \o m)
  BY <1>5, <1>6, <1>7, Zenon DEF Words5424, w, Strung
<1> QED
  BY <1>8, Zenon DEF h3, host, app, pid, msgid, d2, m, pri

\* What one of the two formats fits is what parseSyslog() returns.
LEMMA ParsedBy ==
    ASSUME NEW d, NEW msg,
           \/ TryRfc5424(Stripped(d)) = {msg}
           \/ TryRfc5424(Stripped(d)) = {} /\ TryRfc3164(Stripped(d)) = {msg}
    PROVE  ParseSyslog(d) = msg
<1> DEFINE one == TryRfc5424(Stripped(d))
           two == TryRfc3164(Stripped(d))
           tries == IF one # {} THEN one ELSE two
<1>1. tries = {msg}
  <2> HIDE DEF one, two
  <2>1. one = {msg} \/ (one = {} /\ two = {msg})
    BY DEF one, two
  <2> QED
    BY <2>1
<1>2. ParseSyslog(d) = IF tries = {} THEN Message("UNKNOWN", -1, Nil, Nil, Nil, Nil, Nil, Stripped(d))
                       ELSE CHOOSE x \in tries : TRUE
  BY Zenon DEF ParseSyslog
<1> HIDE DEF tries
<1>3. tries # {} /\ (CHOOSE x \in tries : TRUE) = msg
  BY <1>1
<1> QED
  BY <1>2, <1>3, Zenon

\* The PRI of both formats, taken apart by applyPri().
LEMMA PriParts ==
    ASSUME NEW f \in FieldSets, ValidateFields(f)
    PROVE  /\ f.facility * 8 + f.severity \in 0..191
           /\ (f.facility * 8 + f.severity) \div 8 = f.facility
           /\ (f.facility * 8 + f.severity) % 8 = f.severity
<1> DEFINE a == f.facility
           b == f.severity
<1>1. a \in 0..23 /\ b \in 0..7
  BY ValidFields
<1> HIDE DEF a, b
<1>2. a * 8 + b \in 0..191 /\ (a * 8 + b) \div 8 = a /\ (a * 8 + b) % 8 = b
  BY <1>1
<1> QED
  BY <1>2 DEF a, b

\* A datagram of formatRfc5424() is read as it was given.
LEMMA Parsed5424 ==
    ASSUME NEW f \in FieldSets, ValidateFields(f), ~f.rfc3164
    PROVE  ParseSyslog(FormatRfc5424(f))
             = Message("RFC5424", f.facility * 8 + f.severity, ReadAs(<<Stamp5424>>), ReadAs(f.hostname),
                       ReadAs(f.app), ReadAs(Nilable(f.pid)), ReadAs(Nilable(f.msgid)),
                       Stripped(<<DASH, SP>> \o f.message))
<1> DEFINE pri == f.facility * 8 + f.severity
           h == Head5424(pri)
           w == <<Stamp5424>>
           host == f.hostname
           app == f.app
           pid == Nilable(f.pid)
           msgid == Nilable(f.msgid)
           m == <<DASH, SP>> \o f.message
           u == Stripped(m)
           data == FormatRfc5424(f)
<1>1. Field(host) /\ Field(app) /\ Field(pid) /\ Field(msgid) /\ f.message \in Texts
  BY ValidFields
<1>2. pri \in 0..191
  BY PriParts
<1>3. data = h \o Words5424(host, app, pid, msgid, m)
  BY Format5424
<1>4. m \in Texts
  <2>1. <<DASH, SP>> \in Texts
    BY DEF Texts, DASH, SP
  <2> QED
    BY <1>1, <2>1, Cat
<1> HIDE DEF pri, host, app, pid, msgid, m, data
<1>5. u \in Texts
  BY <1>4, StrippedIsText
<1>6. h \in Texts /\ Len(h) > 0 /\ h[Len(h)] \notin {CR, LF}
  <2>1. Pri(pri) \in Nat
    BY <1>2 DEF Pri
  <2>2. h \in Texts /\ Len(h) = 3 /\ h[3] = SP
    BY <2>1 DEF Head5424, Texts, Version, SP
  <2> HIDE DEF h
  <2> QED
    BY <2>2 DEF SP, CR, LF
<1> HIDE DEF h
<1>7. Stripped(Words5424(host, app, pid, msgid, m)) = Words5424(host, app, pid, msgid, u)
      /\ Words5424(host, app, pid, msgid, m) \in Texts
  <2>1. SP \in Nat /\ SP \notin {CR, LF}
    BY DEF SP, CR, LF
  <2>2. \A a, t \in Texts : Word(a, SP, t) \in Texts
    BY <2>1, WordIs
  <2>3. \A a, t \in Texts : Stripped(Word(a, SP, t)) = Word(a, SP, Stripped(t))
    BY <2>1, StrippedWord
  <2>4. w \in Texts /\ host \in Texts /\ app \in Texts /\ pid \in Texts /\ msgid \in Texts
    BY <1>1 DEF Field, Texts, Stamp5424
  <2> HIDE DEF w, u
  <2> DEFINE t0 == Word(msgid, SP, m)
             t1 == Word(pid, SP, t0)
             t2 == Word(app, SP, t1)
             t3 == Word(host, SP, t2)
             t4 == Word(w, SP, t3)
  <2>5. t0 \in Texts /\ Stripped(t0) = Word(msgid, SP, u)
    BY <1>4, <2>2, <2>3, <2>4, Zenon DEF u
  <2> HIDE DEF t0
  <2>6. t1 \in Texts /\ Stripped(t1) = Word(pid, SP, Stripped(t0))
    BY <2>2, <2>3, <2>4, <2>5, Zenon
  <2> HIDE DEF t1
  <2>7. t2 \in Texts /\ Stripped(t2) = Word(app, SP, Stripped(t1))
    BY <2>2, <2>3, <2>4, <2>6, Zenon
  <2> HIDE DEF t2
  <2>8. t3 \in Texts /\ Stripped(t3) = Word(host, SP, Stripped(t2))
    BY <2>2, <2>3, <2>4, <2>7, Zenon
  <2> HIDE DEF t3
  <2>9. t4 \in Texts /\ Stripped(t4) = Word(w, SP, Stripped(t3))
    BY <2>2, <2>3, <2>4, <2>8, Zenon
  <2> HIDE DEF t4
  <2>10. Words5424(host, app, pid, msgid, m) = t4
    BY Zenon DEF Words5424, t4, t3, t2, t1, t0, w
  <2>11. Stripped(t4) = Words5424(host, app, pid, msgid, u)
    BY <2>5, <2>6, <2>7, <2>8, <2>9, Zenon DEF Words5424, w
  <2> QED
    BY <2>9, <2>10, <2>11, Zenon
<1>8. Stripped(data) = h \o Words5424(host, app, pid, msgid, u)
  <2> DEFINE x == Words5424(host, app, pid, msgid, m)
  <2>1. x \in Texts
    BY <1>7
  <2> HIDE DEF x
  <2>2. Stripped(h \o x) = h \o Stripped(x)
    BY <1>6, <2>1, StrippedCat
  <2> QED
    BY <1>3, <1>7, <2>2, Zenon DEF x
<1> HIDE DEF u
<1>9. TryRfc5424(h \o Words5424(host, app, pid, msgid, u))
        = {Message("RFC5424", pri, ReadAs(w), ReadAs(host), ReadAs(app), ReadAs(pid), ReadAs(msgid), u)}
  <2>1. Given5424(pri, host, app, pid, msgid, u)
    BY <1>1, <1>2, <1>5, Zenon DEF Given5424
  <2> QED
    BY <2>1, Found5424 DEF h
<1>10. ParseSyslog(data)
         = Message("RFC5424", pri, ReadAs(w), ReadAs(host), ReadAs(app), ReadAs(pid), ReadAs(msgid), u)
  BY <1>8, <1>9, ParsedBy, Zenon
<1> QED
  BY <1>10, Zenon DEF data, pri, w, host, app, pid, msgid, u, m

\* The only such position.
LEMMA PastAt ==
    ASSUME NEW sv \in Texts, NEW i \in Nat \ {0}, NEW j \in Nat, i <= j, j <= Len(sv), NEW set,
           \A k \in i..(j - 1) : sv[k] \in set, sv[j] \notin set
    PROVE  Past(sv, i, set) = j
<1> DEFINE p == Past(sv, i, set)
<1>0. Len(sv) \in Nat
  BY LenProperties DEF Texts
<1>1. i <= Len(sv) + 1
  BY <1>0
<1>2. /\ p \in i..(Len(sv) + 1)
      /\ \A k \in i..(p - 1) : sv[k] \in set
      /\ p <= Len(sv) => sv[p] \notin set
  BY <1>1, PastIs
<1> HIDE DEF p
<1>3. ~(p < j)
  BY <1>0, <1>2
<1>4. ~(j < p)
  BY <1>0, <1>2
<1>5. p = j
  BY <1>0, <1>2, <1>3, <1>4
<1> QED
  BY <1>5 DEF p

\* rfc3164Timestamp() symbol by symbol.
LEMMA StampIs ==
    ASSUME NEW day \in 1..31
    PROVE  LET ts == Rfc3164Timestamp(day)
           IN /\ ts \in Texts /\ Len(ts) = 6
              /\ ts[1] = Month /\ ts[2] = SP /\ ts[5] = SP /\ ts[6] = Clock
              /\ IF day < 10 THEN ts[3] = SP /\ ts[4] = 48 + day
                 ELSE ts[3] = 48 + (day \div 10) /\ ts[4] = 48 + (day % 10)
<1> DEFINE a == <<Month, SP>>
           b == IF day < 10 THEN <<SP, 48 + day>> ELSE <<48 + (day \div 10), 48 + (day % 10)>>
           c == <<SP, Clock>>
           ab == a \o b
           ts == ab \o c
<1>0. Month \in Nat /\ SP \in Nat /\ Clock \in Nat
  BY DEF Month, SP, Clock
<1>1. a \in Texts /\ Len(a) = 2 /\ a[1] = Month /\ a[2] = SP
  BY <1>0 DEF Texts
<1>2. c \in Texts /\ Len(c) = 2 /\ c[1] = SP /\ c[2] = Clock
  BY <1>0 DEF Texts
<1>3. /\ b \in Texts /\ Len(b) = 2
      /\ IF day < 10 THEN b[1] = SP /\ b[2] = 48 + day
         ELSE b[1] = 48 + (day \div 10) /\ b[2] = 48 + (day % 10)
  <2>1. CASE day < 10
    <3>1. b = <<SP, 48 + day>>
      BY <2>1
    <3> HIDE DEF b
    <3> QED
      BY <1>0, <2>1, <3>1 DEF Texts
  <2>2. CASE ~(day < 10)
    <3> DEFINE x == 48 + (day \div 10)
               y == 48 + (day % 10)
    <3>1. b = <<x, y>>
      BY <2>2
    <3>2. x \in Nat /\ y \in Nat
      OBVIOUS
    <3> HIDE DEF b, x, y
    <3>3. b \in Texts /\ Len(b) = 2 /\ b[1] = x /\ b[2] = y
      BY <3>1, <3>2 DEF Texts
    <3> QED
      BY <2>2, <3>3 DEF x, y
  <2> QED
    BY <2>1, <2>2
<1> HIDE DEF a, b, c
<1>4. /\ ab \in Texts /\ Len(ab) = Len(a) + Len(b)
      /\ \A i \in 1..Len(a) : ab[i] = a[i]
      /\ \A i \in 1..Len(b) : ab[Len(a) + i] = b[i]
  <2>1. a \in Texts /\ b \in Texts
    BY <1>1, <1>3
  <2> QED
    BY <2>1, Cat
<1> HIDE DEF ab
<1>5. Len(ab) = 4 /\ ab[1] = a[1] /\ ab[2] = a[2] /\ ab[3] = b[1] /\ ab[4] = b[2]
  BY <1>1, <1>3, <1>4
<1>6. /\ ts \in Texts /\ Len(ts) = Len(ab) + Len(c)
      /\ \A i \in 1..Len(ab) : ts[i] = ab[i]
      /\ \A i \in 1..Len(c) : ts[Len(ab) + i] = c[i]
  <2>1. ab \in Texts /\ c \in Texts
    BY <1>2, <1>4
  <2> QED
    BY <2>1, Cat
<1> HIDE DEF ts
<1>7. /\ Len(ts) = 6 /\ ts[1] = ab[1] /\ ts[2] = ab[2] /\ ts[3] = ab[3] /\ ts[4] = ab[4]
      /\ ts[5] = c[1] /\ ts[6] = c[2]
  BY <1>2, <1>5, <1>6
<1>8. Rfc3164Timestamp(day) = ts
  BY Zenon DEF Rfc3164Timestamp, ts, ab, a, b, c
<1>9. /\ ts \in Texts /\ Len(ts) = 6
      /\ ts[1] = Month /\ ts[2] = SP /\ ts[5] = SP /\ ts[6] = Clock
      /\ IF day < 10 THEN ts[3] = SP /\ ts[4] = 48 + day
         ELSE ts[3] = 48 + (day \div 10) /\ ts[4] = 48 + (day % 10)
  BY <1>1, <1>2, <1>3, <1>5, <1>6, <1>7
<1> QED
  BY <1>8, <1>9, Zenon

\* parse3164Timestamp() finds it, whatever follows.
LEMMA StampFound ==
    ASSUME NEW day \in 1..31, NEW t \in Texts
    PROVE  Parse3164Timestamp(Rfc3164Timestamp(day) \o t) = 6
<1> DEFINE ts == Rfc3164Timestamp(day)
           v == ts \o t
           tens == 48 + (day \div 10)
           ones == 48 + (day % 10)
<1>1. /\ ts \in Texts /\ Len(ts) = 6
      /\ ts[1] = Month /\ ts[2] = SP /\ ts[5] = SP /\ ts[6] = Clock
      /\ IF day < 10 THEN ts[3] = SP /\ ts[4] = 48 + day
         ELSE ts[3] = 48 + (day \div 10) /\ ts[4] = 48 + (day % 10)
  BY StampIs, Zenon
<1> HIDE DEF ts
<1>2. /\ v \in Texts /\ Len(t) \in Nat /\ Len(v) = Len(ts) + Len(t)
      /\ \A i \in 1..Len(ts) : v[i] = ts[i]
  <2>1. ts \in Texts
    BY <1>1
  <2> QED
    BY <2>1, Cat
<1> HIDE DEF v
<1>3. /\ Len(v) \in Nat /\ Len(v) >= 6 /\ v[1] = Month /\ v[2] = SP /\ v[5] = SP /\ v[6] = Clock
      /\ v[3] = ts[3] /\ v[4] = ts[4]
  BY <1>1, <1>2
<1>a. day < 10 => v[3] = 32 /\ v[4] = 48 + day
  BY <1>1, <1>3 DEF SP
<1>b. ~(day < 10) => v[3] = tens /\ v[4] = ones
  BY <1>1, <1>3
<1>c. ~(day < 10) => tens \in 49..51 /\ ones \in 48..57 /\ (tens - 48) * 10 + ones - 48 = day
  OBVIOUS
<1> HIDE DEF tens, ones
<1>4. SP = 32 /\ Clock = 3001
  BY DEF SP, Clock
<1> DEFINE Digits == 48..57
<1>d. v[5] \notin Digits
  BY <1>3, <1>4
<1>5. /\ DayAt(v) = IF day < 10 THEN 4 ELSE 3
      /\ \A k \in DayAt(v)..4 : v[k] \in Digits
  <2>1. CASE day < 10
    <3>1. \A k \in 2..(4 - 1) : v[k] \in {SP}
      BY <1>3, <1>4, <2>1, <1>a
    <3>2. v[4] \notin {SP} /\ v[4] \in Digits
      BY <1>4, <2>1, <1>a
    <3>3. 2 \in Nat \ {0} /\ 4 \in Nat /\ 2 <= 4 /\ 4 <= Len(v)
      BY <1>3
    <3> HIDE DEF Digits
    <3>4. Past(v, 2, {SP}) = 4
      BY <1>2, <3>1, <3>2, <3>3, PastAt
    <3> QED
      BY <2>1, <3>2, <3>4 DEF DayAt
  <2>2. CASE ~(day < 10)
    <3>1. \A k \in 2..(3 - 1) : v[k] \in {SP}
      BY <1>3
    <3>2. v[3] \notin {SP} /\ v[3] \in Digits /\ v[4] \in Digits
      BY <1>4, <1>b, <1>c, <2>2
    <3>3. 2 \in Nat \ {0} /\ 3 \in Nat /\ 2 <= 3 /\ 3 <= Len(v)
      BY <1>3
    <3> HIDE DEF Digits
    <3>4. Past(v, 2, {SP}) = 3
      BY <1>2, <3>1, <3>2, <3>3, PastAt
    <3> QED
      BY <2>2, <3>2, <3>4 DEF DayAt
  <2> QED
    BY <2>1, <2>2
<1>6. DayEnd(v) = 5
  <2> DEFINE d == DayAt(v)
  <2>1. d \in Nat \ {0} /\ 5 \in Nat /\ d <= 5 /\ 5 <= Len(v) /\ 5 - 1 = 4
    BY <1>3, <1>5
  <2>2. \A k \in d..(5 - 1) : v[k] \in Digits
    BY <1>5, <2>1
  <2> HIDE DEF d, Digits
  <2>3. Past(v, d, Digits) = 5
    BY <1>2, <1>d, <2>1, <2>2, PastAt
  <2> QED
    BY <2>3, Zenon DEF DayEnd, d, Digits
<1>7. ClockAt(v) = 6
  <2>1. \A k \in 5..(6 - 1) : v[k] \in {SP}
    BY <1>3
  <2>2. v[6] \notin {SP}
    BY <1>3, <1>4
  <2>3. 5 \in Nat \ {0} /\ 6 \in Nat /\ 5 <= 6 /\ 6 <= Len(v)
    BY <1>3
  <2>4. Past(v, 5, {SP}) = 6
    BY <1>2, <2>1, <2>2, <2>3, PastAt
  <2> QED
    BY <1>6, <2>4 DEF ClockAt
<1>8. DayOf(v) = day
  <2>1. CASE day < 10
    <3>1. DayAt(v) = 4 /\ DayEnd(v) = DayAt(v) + 1
      BY <1>5, <1>6, <2>1
    <3>2. DayOf(v) = v[4] - 48
      BY <3>1, Zenon DEF DayOf
    <3> QED
      BY <1>a, <2>1, <3>2
  <2>2. CASE ~(day < 10)
    <3>1. DayAt(v) = 3 /\ DayEnd(v) # DayAt(v) + 1 /\ DayAt(v) + 1 = 4
      BY <1>5, <1>6, <2>2
    <3>2. DayOf(v) = (v[3] - 48) * 10 + v[4] - 48
      BY <3>1, Zenon DEF DayOf
    <3> QED
      BY <1>b, <1>c, <2>2, <3>2
  <2> QED
    BY <2>1, <2>2
<1>9. /\ v # <<>> /\ v[1] = Month /\ DayAt(v) > 2
      /\ DayEnd(v) - DayAt(v) \in 1..2 /\ DayOf(v) \in 1..31
      /\ ClockAt(v) > DayEnd(v) /\ ClockAt(v) <= Len(v) /\ v[ClockAt(v)] = Clock
  <2>1. v # <<>>
    BY <1>3, EmptySeq
  <2> QED
    BY <1>3, <1>5, <1>6, <1>7, <1>8, <2>1
<1>10. Parse3164Timestamp(v) = 6
  BY <1>7, <1>9, TimestampIs, Zenon
<1> QED
  BY <1>10 DEF v, ts

\* A character that is in neither text is not in both together.
LEMMA WithoutCat ==
    ASSUME NEW a \in Texts, NEW b \in Texts, NEW x, Without(a, x), Without(b, x)
    PROVE  Without(a \o b, x)
<1> DEFINE y == a \o b
<1>1. /\ y \in Texts /\ Len(a) \in Nat /\ Len(b) \in Nat /\ Len(y) = Len(a) + Len(b)
      /\ \A i \in 1..Len(a) : y[i] = a[i]
      /\ \A i \in 1..Len(b) : y[Len(a) + i] = b[i]
  BY Cat
<1> HIDE DEF y
<1>2. ASSUME NEW i \in 1..Len(y) PROVE y[i] # x
  <2>1. CASE i <= Len(a)
    <3>1. i \in 1..Len(a)
      BY <1>1, <2>1
    <3> QED
      BY <1>1, <3>1 DEF Without
  <2>2. CASE i > Len(a)
    <3> DEFINE j == i - Len(a)
    <3>1. j \in 1..Len(b) /\ Len(a) + j = i
      BY <1>1, <2>2
    <3> HIDE DEF j
    <3>2. y[Len(a) + j] = b[j] /\ b[j] # x
      BY <1>1, <3>1, Zenon DEF Without
    <3> QED
      BY <3>1, <3>2
  <2> QED
    BY <1>1, <2>1, <2>2
<1> QED
  BY <1>2 DEF Without, y

\* The tag without a pid, and with one.
PlainTag(f, tag) == tag = f.app /\ Find(tag, OPEN) > Len(tag)
TagWithPid(f, tag) ==
    /\ Len(f.app) \in Nat /\ Len(tag) \in Nat /\ Find(tag, OPEN) = Len(f.app) + 1
    /\ Len(f.app) + 1 <= Len(tag) /\ SubSeq(tag, 1, Len(f.app)) = f.app
    /\ tag[Len(tag)] = CLOSE /\ SubSeq(tag, Len(f.app) + 1 + 1, Len(tag) - 1) = f.pid

\* What requireNoneOf() leaves can be taken apart.
LEMMA TagIs ==
    ASSUME NEW f \in FieldSets, ValidateFields(f), f.rfc3164
    PROVE  /\ Tag(f) \in Texts /\ Without(Tag(f), SP) /\ Without(Tag(f), COLON)
           /\ f.pid = Nil => PlainTag(f, Tag(f))
           /\ f.pid # Nil => TagWithPid(f, Tag(f))
<1> DEFINE app == f.app
           pid == f.pid
<1>1. /\ Field(app) /\ (pid # Nil => Field(pid)) /\ TagCharacters(f)
  BY ValidFields
<1>2. app \in Texts /\ Len(app) > 0 /\ Without(app, SP)
  BY <1>1 DEF Field
<1>3. \A v, c : v \in Texts /\ ~Has(v, c) => Without(v, c)
  BY LenProperties DEF Has, Without, Texts
<1>4. Without(app, OPEN) /\ Without(app, COLON)
  BY <1>1, <1>2, <1>3, Zenon DEF TagCharacters
<1>5. CASE pid = Nil
  <2>1. Tag(f) = app
    BY <1>5, Zenon DEF Tag
  <2>2. Find(app, OPEN) > Len(app)
    <3>1. /\ Find(app, OPEN) \in 1..(Len(app) + 1)
          /\ Find(app, OPEN) <= Len(app) => app[Find(app, OPEN)] = OPEN
      BY <1>2, FindIs DEF Texts
    <3>2. Len(app) \in Nat
      BY <1>2, LenProperties DEF Texts
    <3>3. ~(Find(app, OPEN) <= Len(app))
      BY <1>4, <3>1, <3>2 DEF Without
    <3> QED
      BY <3>1, <3>2, <3>3
  <2> QED
    BY <1>2, <1>4, <1>5, <2>1, <2>2, Zenon DEF PlainTag
<1>6. CASE pid # Nil
  <2> DEFINE end == <<CLOSE>>
             t == pid \o end
             open == <<OPEN>>
             tag == Word(app, OPEN, t)
  <2>0. OPEN \in Nat /\ CLOSE \in Nat /\ OPEN \notin {SP, COLON} /\ CLOSE \notin {SP, COLON}
    BY DEF OPEN, CLOSE, SP, COLON
  <2>1. pid \in Texts /\ Len(pid) > 0 /\ Without(pid, SP)
    BY <1>1, <1>6 DEF Field
  <2>2. Without(pid, COLON)
    BY <1>1, <1>3, <1>6, <2>1, Zenon DEF TagCharacters
  <2>3. /\ end \in Texts /\ Len(end) = 1 /\ end[1] = CLOSE
        /\ Without(end, SP) /\ Without(end, COLON)
    BY <2>0 DEF Texts, Without
  <2>4. open \in Texts /\ Without(open, SP) /\ Without(open, COLON)
    BY <2>0 DEF Texts, Without
  <2> HIDE DEF end
  <2>5. /\ t \in Texts /\ Len(pid) \in Nat /\ Len(t) = Len(pid) + Len(end)
        /\ \A i \in 1..Len(pid) : t[i] = pid[i]
        /\ \A i \in 1..Len(end) : t[Len(pid) + i] = end[i]
    <3>1. pid \in Texts /\ end \in Texts
      BY <2>1, <2>3
    <3> QED
      BY <3>1, Cat
  <2>6. Without(t, SP) /\ Without(t, COLON)
    <3>1. pid \in Texts /\ end \in Texts
      BY <2>1, <2>3
    <3> QED
      BY <3>1, <2>1, <2>2, <2>3, WithoutCat
  <2>7. Tag(f) = tag
    <3>1. Tag(f) = ((app \o open) \o pid) \o end
      BY <1>6, Zenon DEF Tag, end
    <3>2. app \in Texts /\ pid \in Texts /\ end \in Texts /\ open \in Texts
      BY <1>2, <2>1, <2>3, <2>4
    <3> DEFINE p == app \o open
    <3>3. p \in Texts
      BY <3>2, Cat
    <3>4. p \o t = app \o (open \o t)
      BY <3>2, <2>5, CatInOrder, ZenonT(40)
    <3> HIDE DEF p
    <3>5. (p \o pid) \o end = p \o (pid \o end)
      BY <3>2, <3>3, CatInOrder
    <3> QED
      BY <3>1, <3>4, <3>5, Zenon DEF p, Word
  <2> HIDE DEF t
  <2>8. Without(tag, SP) /\ Without(tag, COLON)
    <3> DEFINE u == open \o t
    <3>1. app \in Texts /\ open \in Texts /\ t \in Texts
      BY <1>2, <2>4, <2>5
    <3>3. tag = app \o u
      BY Zenon DEF Word
    <3> HIDE DEF open
    <3>5. u \in Texts
      BY <3>1, Cat
    <3>2. Without(u, SP) /\ Without(u, COLON)
      BY <3>1, <2>4, <2>6, WithoutCat, Zenon
    <3> HIDE DEF u
    <3>4. Without(app \o u, SP) /\ Without(app \o u, COLON)
      BY <3>1, <3>2, <3>5, <1>2, <1>4, WithoutCat, Zenon
    <3> QED
      BY <3>3, <3>4
  <2>d. app \in Texts /\ OPEN \in Nat /\ t \in Texts /\ Without(app, OPEN)
    BY <1>2, <1>4, <2>0, <2>5, Zenon
  <2>9. /\ Find(tag, OPEN) = Len(app) + 1
        /\ SubSeq(tag, 1, Len(app)) = app
    BY <2>d, WordSplit
  <2>10. /\ tag \in Texts /\ Len(app) \in Nat /\ Len(tag) = Len(app) + 1 + Len(t)
         /\ \A i \in 1..Len(t) : tag[Len(app) + 1 + i] = t[i]
    BY <2>d, WordIs, ZenonT(40)
  <2> HIDE DEF tag
  <2>a. /\ Len(t) = Len(pid) + 1 /\ Len(tag) = Len(app) + 1 + Len(t) /\ Len(app) \in Nat
        /\ Len(pid) \in Nat
    BY <2>3, <2>5, <2>10, Zenon
  <2> DEFINE k == Len(app)
             n == Len(pid)
             x == Len(t)
             y == Len(tag)
  <2>b. x = n + 1 /\ y = k + 1 + x /\ k \in Nat /\ n \in Nat
    BY <2>a, Zenon
  <2>c. /\ y \in Nat /\ k + 1 <= y /\ k + 1 + 1 \in Nat \ {0} /\ y - 1 \in Int /\ y - 1 <= y
        /\ n = (y - 1) - (k + 1 + 1) + 1
    <3> HIDE DEF k, n, x, y
    <3> QED
      BY <2>b
  <2>11. Len(tag) \in Nat /\ Len(app) + 1 <= Len(tag) /\ tag[Len(tag)] = CLOSE
    <3>1. Len(t) \in 1..Len(t) /\ 1 \in 1..Len(end)
      BY <2>3, <2>5
    <3>2. tag[Len(tag)] = t[Len(t)]
      BY <2>10, <3>1
    <3>3. t[Len(t)] = end[1]
      BY <2>3, <2>5, <3>1
    <3> QED
      BY <2>3, <2>c, <3>2, <3>3, Zenon
  <2>12. SubSeq(tag, Len(app) + 1 + 1, Len(tag) - 1) = pid
    <3>1. /\ Len(app) + 1 + 1 \in Nat \ {0} /\ Len(tag) - 1 \in Int /\ Len(tag) - 1 <= Len(tag)
          /\ Len(pid) = (Len(tag) - 1) - (Len(app) + 1 + 1) + 1
      BY <2>c, Zenon
    <3>2. ASSUME NEW i \in 1..Len(pid) PROVE tag[(Len(app) + 1 + 1) + i - 1] = pid[i]
      <4>1. (Len(app) + 1 + 1) + i - 1 = Len(app) + 1 + i /\ i \in 1..Len(t)
        BY <2>3, <2>5, <2>10
      <4>2. tag[Len(app) + 1 + i] = t[i] /\ t[i] = pid[i]
        BY <2>5, <2>10, <4>1, Zenon
      <4> QED
        BY <4>1, <4>2
    <3> QED
      BY <2>1, <2>10, <3>1, <3>2, PartIs
  <2> QED
    BY <1>6, <2>7, <2>8, <2>9, <2>10, <2>11, <2>12, Zenon DEF TagWithPid
<1> QED
  BY <1>5, <1>6

\* What is behind the first character of a text.
LEMMA TailCat ==
    ASSUME NEW c \in Nat, NEW m \in Texts
    PROVE  Tail(<<c>> \o m) = m /\ <<c>> \o m # <<>> /\ (<<c>> \o m)[1] = c
<1> DEFINE b == <<c>>
           s == b \o m
<1>1. b \in Texts /\ Len(b) = 1 /\ b[1] = c
  BY DEF Texts
<1> HIDE DEF b
<1>2. /\ s \in Texts /\ Len(m) \in Nat /\ Len(s) = Len(b) + Len(m)
      /\ \A i \in 1..Len(b) : s[i] = b[i]
      /\ \A i \in 1..Len(m) : s[Len(b) + i] = m[i]
  <2>1. b \in Texts
    BY <1>1
  <2> QED
    BY <2>1, Cat
<1> HIDE DEF s
<1>3. Len(s) = 1 + Len(m) /\ s[1] = c /\ \A i \in 1..Len(m) : s[i + 1] = m[i]
  <2>1. 1 \in 1..Len(b)
    BY <1>1
  <2> QED
    BY <1>1, <1>2, <2>1
<1>4. s # <<>>
  BY <1>2, <1>3, EmptySeq
<1> DEFINE u == Tail(s)
<1>5. u \in Seq(Nat) /\ Len(u) = Len(s) - 1 /\ \A i \in 1..Len(u) : u[i] = s[i + 1]
  BY <1>2, <1>4, HeadTailProperties DEF Texts
<1> HIDE DEF u
<1>6. m \in Seq(Nat) /\ Len(u) = Len(m) /\ \A i \in 1..Len(u) : u[i] = m[i]
  BY <1>2, <1>3, <1>5 DEF Texts
<1>7. u = m
  BY <1>5, <1>6, SeqEqual
<1> QED
  BY <1>3, <1>4, <1>7 DEF u, s, b

\* The space in front of a text is skipped.
LEMMA SpaceSkipped ==
    ASSUME NEW m \in Texts
    PROVE  SkipSpace(<<SP>> \o m) = m
<1>1. SP \in Nat
  BY DEF SP
<1>2. Tail(<<SP>> \o m) = m /\ <<SP>> \o m # <<>> /\ (<<SP>> \o m)[1] = SP
  BY <1>1, TailCat
<1> QED
  BY <1>2, Zenon DEF SkipSpace

\* parse3164Tag() finds the tag, the pid and the message.
LEMMA TagFound ==
    ASSUME NEW f \in FieldSets, ValidateFields(f), f.rfc3164, NEW m \in Texts
    PROVE  Parse3164Tag(Word(Tag(f), COLON, <<SP>> \o m)) = [app |-> f.app, pid |-> f.pid, text |-> m]
<1> DEFINE tag == Tag(f)
           r == <<SP>> \o m
           sv == Word(tag, COLON, r)
           k == Len(tag)
           opt(s) == IF s = <<>> THEN Nil ELSE s
           one == SubSeq(tag, 1, Find(tag, OPEN) - 1)
           two == SubSeq(tag, Find(tag, OPEN) + 1, Len(tag) - 1)
<1>0. COLON \in Nat /\ SP \in Nat /\ COLON # SP
  BY DEF COLON, SP
<1>1. /\ tag \in Texts /\ Without(tag, SP) /\ Without(tag, COLON)
      /\ f.pid = Nil => PlainTag(f, tag)
      /\ f.pid # Nil => TagWithPid(f, tag)
  BY TagIs
<1>2. f.app # <<>> /\ (f.pid # Nil => f.pid # <<>>)
  <2>1. Field(f.app) /\ (f.pid # Nil => Field(f.pid))
    BY ValidFields
  <2>2. \A v : Field(v) => v # <<>>
    BY EmptySeq DEF Field
  <2> QED
    BY <2>1, <2>2
<1>3. SkipSpace(r) = m
  BY SpaceSkipped
<1>4. r \in Texts
  <2>1. <<SP>> \in Texts
    BY <1>0 DEF Texts
  <2> QED
    BY <2>1, Cat
<1> HIDE DEF tag, r
<1>5. Find(sv, COLON) = k + 1 /\ SubSeq(sv, 1, k) = tag /\ From(sv, k + 1 + 1) = r
  BY <1>0, <1>1, <1>4, WordSplit
<1>6. /\ sv \in Texts /\ k \in Nat /\ Len(r) \in Nat /\ Len(sv) = k + 1 + Len(r)
      /\ \A i \in 1..k : sv[i] = tag[i]
      /\ sv[k + 1] = COLON
  BY <1>0, <1>1, <1>4, WordIs
<1>a. \A i \in 1..k : tag[i] # SP
  BY <1>1 DEF Without
<1> HIDE DEF sv, k
<1>7. ~(Find(sv, SP) < k + 1)
  <2>1. /\ Find(sv, SP) \in 1..(Len(sv) + 1)
        /\ Find(sv, SP) <= Len(sv) => sv[Find(sv, SP)] = SP
    BY <1>6, FindIs DEF Texts
  <2> DEFINE n == Find(sv, SP)
  <2> HIDE DEF n
  <2>2. ASSUME n < k + 1 PROVE FALSE
    <3>1. n \in 1..k /\ n <= Len(sv)
      BY <1>6, <2>1, <2>2 DEF n
    <3> QED
      BY <1>6, <1>a, <2>1, <3>1 DEF n
  <2> QED
    BY <2>2 DEF n
<1>8. ~(k + 1 > Len(sv)) /\ (k + 1) - 1 = k
  BY <1>6
<1>9. Parse3164Tag(sv)
        = IF Find(tag, OPEN) <= Len(tag) /\ tag[Len(tag)] = CLOSE
          THEN [app |-> opt(one), pid |-> opt(two), text |-> m]
          ELSE [app |-> opt(tag), pid |-> Nil, text |-> m]
  BY <1>3, <1>5, <1>7, <1>8, Zenon DEF Parse3164Tag
<1>10. CASE f.pid = Nil
  <2>1. tag = f.app /\ Find(tag, OPEN) > Len(tag)
    BY <1>1, <1>10, Zenon DEF PlainTag
  <2>2. ~(Find(tag, OPEN) <= Len(tag))
    <3>1. Find(tag, OPEN) \in 1..(Len(tag) + 1) /\ Len(tag) \in Nat
      BY <1>1, FindIs, LenProperties DEF Texts
    <3> QED
      BY <2>1, <3>1
  <2>3. opt(tag) = f.app
    BY <1>2, <2>1, Zenon
  <2> HIDE DEF opt, one, two
  <2>4. Parse3164Tag(sv) = [app |-> f.app, pid |-> f.pid, text |-> m]
    BY <1>9, <1>10, <2>2, <2>3, Zenon
  <2> QED
    BY <2>4, Zenon DEF sv, r, tag
<1>11. CASE f.pid # Nil
  <2>1. TagWithPid(f, tag)
    BY <1>1, <1>11, Zenon
  <2>2. /\ Len(f.app) \in Nat /\ Len(tag) \in Nat /\ Find(tag, OPEN) = Len(f.app) + 1
        /\ Len(f.app) + 1 <= Len(tag) /\ SubSeq(tag, 1, Len(f.app)) = f.app
        /\ tag[Len(tag)] = CLOSE /\ SubSeq(tag, Len(f.app) + 1 + 1, Len(tag) - 1) = f.pid
    BY <2>1, Zenon DEF TagWithPid
  <2>3. one = f.app
    <3>1. (Len(f.app) + 1) - 1 = Len(f.app)
      BY <2>2
    <3> QED
      BY <2>2, <3>1, Zenon
  <2>4. two = f.pid
    BY <2>2, Zenon
  <2>5. Find(tag, OPEN) <= Len(tag)
    BY <2>2, Zenon
  <2> HIDE DEF one, two
  <2>6. opt(one) = f.app /\ opt(two) = f.pid
    BY <1>2, <1>11, <2>3, <2>4, Zenon
  <2> HIDE DEF opt
  <2>7. Parse3164Tag(sv) = [app |-> f.app, pid |-> f.pid, text |-> m]
    BY <1>9, <2>2, <2>5, <2>6, Zenon
  <2> QED
    BY <2>7, Zenon DEF sv, r, tag
<1> QED
  BY <1>10, <1>11

\* The words of RFC 3164 behind the timestamp, and what formatRfc3164() makes of
\* its parts.
Words3164(host, tag, text) == Word(host, SP, Word(tag, COLON, <<SP>> \o text))
Strung3164(x, host, tag, m) ==
    (((((x \o <<SP>>) \o host) \o <<SP>>) \o tag) \o <<COLON, SP>>) \o m

\* It is a row of words too.
LEMMA LastWords3164 ==
    ASSUME NEW x \in Texts, NEW host \in Texts, NEW tag \in Texts, NEW m \in Texts
    PROVE  Strung3164(x, host, tag, m) = x \o (<<SP>> \o Words3164(host, tag, m))
<1> DEFINE s == <<SP>>
           c1 == <<COLON>>
           x1 == x \o s
           x2 == (x1 \o host) \o s
           x3 == x2 \o tag
           t0 == s \o m
           t1 == Word(tag, COLON, t0)
           t2 == Word(host, SP, t1)
<1>0. SP \in Nat /\ COLON \in Nat
  BY DEF SP, COLON
<1>1. s \in Texts /\ c1 \in Texts
  BY <1>0 DEF Texts
<1>2. <<COLON, SP>> = c1 \o s
  BY <1>0, Tuple2
<1>3. \A y, a, u \in Texts : ((y \o a) \o s) \o u = y \o Word(a, SP, u)
  BY <1>0, WordsAtEnd, Zenon
<1>4. \A y, a, u \in Texts : ((y \o a) \o c1) \o u = y \o Word(a, COLON, u)
  BY <1>0, WordsAtEnd, Zenon
<1>5. \A a, u \in Texts : Word(a, SP, u) \in Texts /\ Word(a, COLON, u) \in Texts
  BY <1>0, WordIs
<1> HIDE DEF s, c1
<1>6. \A y, a \in Texts : (y \o (a \o s)) \o m = (y \o a) \o (s \o m)
  BY <1>1, TextAtEnd, Zenon
<1>7. \A a, b \in Texts : a \o b \in Texts
  BY Cat
<1>8. x1 \in Texts
  BY <1>1, <1>7, Zenon
<1>9. t0 \in Texts
  BY <1>1, <1>7, Zenon
<1>10. \A u \in Texts : x1 \o u = x \o (s \o u)
  BY <1>1, CatInOrder
<1> HIDE DEF x1, t0
<1>11. x2 \in Texts
  BY <1>1, <1>7, <1>8, Zenon
<1>12. \A u \in Texts : x2 \o u = x1 \o Word(host, SP, u)
  BY <1>3, <1>8, Zenon
<1> HIDE DEF x2
<1>13. x3 \in Texts
  BY <1>7, <1>11, Zenon
<1>14. (x3 \o c1) \o t0 = x2 \o t1
  BY <1>4, <1>9, <1>11, ZenonT(40)
<1> HIDE DEF x3
<1>15. (x3 \o (c1 \o s)) \o m = (x3 \o c1) \o t0
  BY <1>1, <1>6, <1>13, Zenon DEF t0
<1>16. t1 \in Texts
  BY <1>5, <1>9, Zenon
<1> HIDE DEF t1
<1>17. t2 \in Texts
  BY <1>5, <1>16, Zenon
<1>18. x2 \o t1 = x1 \o t2
  BY <1>12, <1>16, Zenon
<1> HIDE DEF t2
<1>19. x1 \o t2 = x \o (s \o t2)
  BY <1>10, <1>17, Zenon
<1>20. (x3 \o (c1 \o s)) \o m = x \o (s \o t2)
  BY <1>14, <1>15, <1>18, <1>19, Zenon
<1> QED
  BY <1>2, <1>20, Zenon DEF Strung3164, Words3164, x3, x2, x1, s, t2, t1, t0

\* The line end of a message is all that is stripped.
LEMMA Stripped3164 ==
    ASSUME NEW host \in Texts, NEW tag \in Texts, NEW m \in Texts
    PROVE  /\ Words3164(host, tag, m) \in Texts
           /\ Stripped(<<SP>> \o Words3164(host, tag, m)) = <<SP>> \o Words3164(host, tag, Stripped(m))
<1> DEFINE s == <<SP>>
           t0 == s \o m
           t1 == Word(tag, COLON, t0)
           t2 == Word(host, SP, t1)
           u == Stripped(m)
<1>0. SP \in Nat /\ COLON \in Nat /\ SP \notin {CR, LF} /\ COLON \notin {CR, LF}
  BY DEF SP, COLON, CR, LF
<1>1. s \in Texts /\ Len(s) > 0 /\ s[Len(s)] \notin {CR, LF}
  BY <1>0 DEF Texts
<1>2. \A a, t \in Texts : Word(a, SP, t) \in Texts /\ Word(a, COLON, t) \in Texts
  BY <1>0, WordIs
<1>3. \A a, t \in Texts : /\ Stripped(Word(a, SP, t)) = Word(a, SP, Stripped(t))
                          /\ Stripped(Word(a, COLON, t)) = Word(a, COLON, Stripped(t))
  BY <1>0, StrippedWord
<1> HIDE DEF s
<1>4. \A t \in Texts : s \o t \in Texts /\ Stripped(s \o t) = s \o Stripped(t)
  BY <1>1, Cat, StrippedCat
<1>5. t0 \in Texts /\ Stripped(t0) = s \o u
  BY <1>4, Zenon
<1> HIDE DEF t0, u
<1>6. t1 \in Texts /\ Stripped(t1) = Word(tag, COLON, s \o u)
  <2>1. t0 \in Texts
    BY <1>5, Zenon
  <2>2. Stripped(t1) = Word(tag, COLON, Stripped(t0))
    BY <1>3, <2>1, Zenon
  <2>3. t1 \in Texts
    BY <1>2, <2>1, Zenon
  <2> HIDE DEF t1
  <2> QED
    BY <1>5, <2>2, <2>3, Zenon
<1> HIDE DEF t1
<1>7. t2 \in Texts /\ Stripped(t2) = Word(host, SP, Word(tag, COLON, s \o u))
  BY <1>2, <1>3, <1>6
<1> HIDE DEF t2
<1>8. Stripped(s \o t2) = s \o Stripped(t2)
  BY <1>4, <1>7, Zenon
<1>9. Words3164(host, tag, m) = t2
  BY Zenon DEF Words3164, t2, t1, t0, s
<1>10. Words3164(host, tag, u) = Stripped(t2)
  BY <1>7, Zenon DEF Words3164, s
<1> QED
  BY <1>7, <1>8, <1>9, <1>10, Zenon DEF s, u

\* tryRfc3164() finds the fields, and tryRfc5424() nothing.
LEMMA Found3164 ==
    ASSUME NEW f \in FieldSets, ValidateFields(f), f.rfc3164, NEW day \in 1..31, NEW m \in Texts,
           NEW pri \in 0..191
    PROVE  LET data == (<<Pri(pri)>> \o Rfc3164Timestamp(day)) \o (<<SP>> \o Words3164(f.hostname, Tag(f), m))
           IN /\ TryRfc5424(data) = {}
              /\ TryRfc3164(data) = {Message("RFC3164", pri, SubSeq(data, 2, 7), f.hostname, f.app, f.pid, Nil, m)}
<1> DEFINE p == <<Pri(pri)>>
           ts == Rfc3164Timestamp(day)
           x == p \o ts
           host == f.hostname
           s == <<SP>>
           rest == Word(Tag(f), COLON, s \o m)
           sv == Word(host, SP, rest)
           u == s \o sv
           data == x \o u
           tag == Parse3164Tag(rest)
<1>0. SP \in Nat /\ COLON \in Nat /\ Pri(pri) \in Nat
  BY DEF SP, COLON, Pri
<1>1. p \in Texts /\ Len(p) = 1 /\ p[1] = Pri(pri) /\ s \in Texts
  BY <1>0 DEF Texts
<1>2. ts \in Texts /\ Len(ts) = 6 /\ ts[1] = Month
  BY StampIs, Zenon
<1>3. tag = [app |-> f.app, pid |-> f.pid, text |-> m]
  BY TagFound
<1>4. host \in Texts /\ Len(host) > 0 /\ Without(host, SP)
  BY ValidFields DEF Field
<1>5. Tag(f) \in Texts
  BY TagIs
<1>6. \A t \in Texts : SkipSpace(s \o t) = t
  BY SpaceSkipped
<1>7. \A t \in Texts : Tail(p \o t) = t
  BY <1>0, TailCat
<1>8. \A t \in Texts : Parse3164Timestamp(ts \o t) = 6
  BY StampFound
<1> HIDE DEF p, ts, s, host
<1>9. s \o m \in Texts
  BY <1>1, Cat
<1>10. rest \in Texts
  BY <1>0, <1>5, <1>9, WordIs
<1> HIDE DEF rest
<1>11. /\ sv \in Texts /\ Len(sv) = Len(host) + 1 + Len(rest) /\ Len(host) \in Nat /\ Len(rest) \in Nat
  BY <1>0, <1>4, <1>10, WordIs
<1>12. /\ Find(sv, SP) = Len(host) + 1 /\ SubSeq(sv, 1, Len(host)) = host
       /\ Behind(sv) = rest
  <2>1. Find(sv, SP) = Len(host) + 1 /\ SubSeq(sv, 1, Len(host)) = host
    BY <1>0, <1>4, <1>10, WordSplit
  <2>2. Behind(sv) = rest
    BY <1>4, <1>10, NilableWord, Zenon
  <2> QED
    BY <2>1, <2>2
<1> HIDE DEF sv
<1>13. u \in Texts
  BY <1>1, <1>11, Cat
<1>14. SkipSpace(u) = sv
  BY <1>6, <1>11, Zenon
<1> HIDE DEF u
<1>15. sv # <<>> /\ SubSeq(sv, 1, Find(sv, SP) - 1) = host
  <2>1. (Len(host) + 1) - 1 = Len(host) /\ Len(sv) # 0
    BY <1>11
  <2>2. sv # <<>>
    BY <2>1, EmptySeq
  <2> QED
    BY <1>12, <2>1, <2>2
<1>16. /\ x \in Texts /\ Len(x) = Len(p) + Len(ts)
       /\ \A i \in 1..Len(p) : x[i] = p[i]
       /\ \A i \in 1..Len(ts) : x[Len(p) + i] = ts[i]
  <2>1. p \in Texts /\ ts \in Texts
    BY <1>1, <1>2
  <2> QED
    BY <2>1, Cat
<1>17. data = p \o (ts \o u)
  <2>1. p \in Texts /\ ts \in Texts
    BY <1>1, <1>2
  <2> QED
    BY <1>13, <2>1, CatInOrder
<1> HIDE DEF x
<1>18. Len(x) = 7 /\ x[1] = Pri(pri) /\ x[2] = Month
  BY <1>1, <1>2, <1>16
<1>19. /\ data \in Texts /\ Len(u) \in Nat /\ Len(data) = Len(x) + Len(u)
       /\ \A i \in 1..Len(x) : data[i] = x[i]
  <2>1. x \in Texts
    BY <1>16
  <2> QED
    BY <1>13, <2>1, Cat
<1>20. From(data, Len(x) + 1) = u
  <2>1. x \in Texts
    BY <1>16
  <2> QED
    BY <1>13, <2>1, FromCat
<1>21. Parse3164Timestamp(Tail(data)) = 6
  <2>1. ts \o u \in Texts
    BY <1>2, <1>13, Cat
  <2>2. Tail(data) = ts \o u
    BY <1>7, <1>17, <2>1, Zenon
  <2> QED
    BY <1>8, <1>13, <2>2, Zenon
<1> HIDE DEF data
<1>22. From(data, 6 + 2) = u
  <2>1. Len(x) + 1 = 6 + 2
    BY <1>18
  <2> QED
    BY <1>20, <2>1
<1>23. Len(data) > 0 /\ data[1] = Pri(pri) /\ data[2] = Month
  <2>1. 1 \in 1..Len(x) /\ 2 \in 1..Len(x)
    BY <1>18
  <2> QED
    BY <1>18, <1>19, <2>1
<1>24. ParsePri(data) = pri /\ ~(pri < 0)
  <2>1. data \in Texts
    BY <1>19
  <2>2. ParsePri(data) = pri
    BY <1>23, <2>1, PriRead
  <2>3. ~(pri < 0)
    OBVIOUS
  <2> QED
    BY <2>2, <2>3
<1>25. Month # Version(1)
  BY DEF Month, Version
<1>26. TryRfc5424(data) = {}
  BY <1>23, <1>25, Zenon DEF TryRfc5424
<1>27. tag.app = f.app /\ tag.pid = f.pid /\ tag.text = m
  BY <1>3
<1>28. 6 # 0 /\ 6 + 1 = 7
  OBVIOUS
<1>29. TryRfc3164(data) = {Message("RFC3164", pri, SubSeq(data, 2, 7), host, f.app, f.pid, Nil, m)}
  BY <1>12, <1>14, <1>15, <1>21, <1>22, <1>24, <1>27, <1>28, Zenon DEF TryRfc3164
<1> QED
  BY <1>26, <1>29, Zenon DEF data, x, p, ts, u, s, sv, rest, host, Words3164

\* A datagram of formatRfc3164() is read as it was given.
LEMMA Parsed3164 ==
    ASSUME NEW f \in FieldSets, ValidateFields(f), f.rfc3164, opts.day \in 1..31
    PROVE  \E ts : ParseSyslog(FormatRfc3164(f))
                     = Message("RFC3164", f.facility * 8 + f.severity, ts, f.hostname, f.app, f.pid, Nil,
                               Stripped(f.message))
<1> DEFINE pri == f.facility * 8 + f.severity
           p == <<Pri(pri)>>
           stamp == Rfc3164Timestamp(opts.day)
           x == p \o stamp
           host == f.hostname
           tag == Tag(f)
           m == f.message
           u == <<SP>> \o Words3164(host, tag, m)
           data == x \o (<<SP>> \o Words3164(host, tag, Stripped(m)))
<1>1. host \in Texts /\ m \in Texts
  BY ValidFields DEF Field
<1>2. tag \in Texts
  BY TagIs
<1>3. pri \in 0..191
  BY PriParts
<1>4. stamp \in Texts /\ Len(stamp) = 6 /\ stamp[6] = Clock
  BY StampIs, Zenon
<1>5. FormatRfc3164(f) = Strung3164(x, host, tag, m)
  BY Zenon DEF FormatRfc3164, Strung3164
<1>6. /\ TryRfc5424(data) = {}
      /\ TryRfc3164(data) = {Message("RFC3164", pri, SubSeq(data, 2, 7), f.hostname, f.app, f.pid, Nil, Stripped(m))}
  <2>1. Stripped(m) \in Texts
    BY <1>1, StrippedIsText
  <2> QED
    BY <1>3, <2>1, Found3164
<1> HIDE DEF pri
<1>7. p \in Texts /\ Len(p) = 1
  <2>1. Pri(pri) \in Nat
    BY <1>3 DEF Pri
  <2> QED
    BY <2>1 DEF Texts
<1> HIDE DEF p, stamp, host, tag, m
<1>8. x \in Texts /\ Len(x) > 0 /\ x[Len(x)] \notin {CR, LF}
  <2>1. p \in Texts /\ stamp \in Texts
    BY <1>4, <1>7
  <2>2. /\ x \in Texts /\ Len(x) = Len(p) + Len(stamp)
        /\ \A i \in 1..Len(stamp) : x[Len(p) + i] = stamp[i]
    BY <2>1, Cat
  <2> HIDE DEF x
  <2>3. Len(x) = 7 /\ x[7] = Clock
    BY <1>4, <1>7, <2>2
  <2>4. x \in Texts /\ Len(x) > 0 /\ x[Len(x)] = Clock
    <3>1. 7 > 0
      OBVIOUS
    <3> QED
      BY <2>2, <2>3, <3>1, Zenon
  <2>5. Clock \notin {CR, LF}
    BY DEF Clock, CR, LF
  <2> QED
    BY <2>4, <2>5, Zenon
<1> HIDE DEF x
<1>9. Strung3164(x, host, tag, m) = x \o u
  <2>1. x \in Texts
    BY <1>8
  <2>2. Strung3164(x, host, tag, m) = x \o (<<SP>> \o Words3164(host, tag, m))
    BY <1>1, <1>2, <2>1, LastWords3164, ZenonT(40)
  <2> QED
    BY <2>2, Zenon
<1>10. /\ Words3164(host, tag, m) \in Texts
       /\ Stripped(u) = <<SP>> \o Words3164(host, tag, Stripped(m))
  BY <1>1, <1>2, Stripped3164
<1>11. u \in Texts
  <2>1. <<SP>> \in Texts
    BY DEF Texts, SP
  <2> QED
    BY <1>10, <2>1, Cat
<1> HIDE DEF u
<1>12. Stripped(x \o u) = x \o Stripped(u)
  BY <1>8, <1>11, StrippedCat
<1>13. Stripped(FormatRfc3164(f)) = data
  BY <1>5, <1>9, <1>10, <1>12, Zenon
<1> HIDE DEF data
<1>14. ParseSyslog(FormatRfc3164(f))
         = Message("RFC3164", pri, SubSeq(data, 2, 7), f.hostname, f.app, f.pid, Nil, Stripped(m))
  BY <1>6, <1>13, ParsedBy, Zenon
<1> QED
  BY <1>14, Zenon DEF pri, m

\* A message as it was given: RoundTrip for one datagram.
ReadBack(f, msg) ==
    LET read(v) == IF v = <<DASH>> /\ ~f.rfc3164 THEN Nil ELSE v
    IN /\ msg.protocol = (IF f.rfc3164 THEN "RFC3164" ELSE "RFC5424")
       /\ msg.facility = f.facility /\ msg.severity = f.severity
       /\ msg.hostname = read(f.hostname) /\ msg.app = read(f.app)
       /\ msg.pid = read(f.pid) /\ msg.msgid = read(f.msgid)
       /\ msg.message = Stripped(IF f.rfc3164 THEN f.message ELSE <<DASH, SP>> \o f.message)

\* What buildDatagram() returns is read back, in either format.
LEMMA BuiltReadBack ==
    ASSUME NEW f \in FieldSets, opts \in CommandLines, NEW datagram \in BuildDatagram(f)
    PROVE  ReadBack(f, ParseSyslog(datagram))
<1> DEFINE pri == f.facility * 8 + f.severity
           msg == ParseSyslog(datagram)
<1>1. /\ ValidateFields(f)
      /\ datagram = IF f.rfc3164 THEN FormatRfc3164(f) ELSE FormatRfc5424(f)
  BY Zenon DEF BuildDatagram
<1>2. pri \in 0..191 /\ pri \div 8 = f.facility /\ pri % 8 = f.severity
  BY <1>1, PriParts
<1>a. ~(pri < 0)
  BY <1>2
<1>3. opts.day \in 1..31
  BY DEF CommandLines
<1> HIDE DEF pri
<1>4. CASE f.rfc3164
  <2>1. PICK ts : ParseSyslog(FormatRfc3164(f))
                    = Message("RFC3164", pri, ts, f.hostname, f.app, f.pid, Nil, Stripped(f.message))
    BY <1>1, <1>3, <1>4, Parsed3164, Zenon DEF pri
  <2>2. msg = Message("RFC3164", pri, ts, f.hostname, f.app, f.pid, Nil, Stripped(f.message))
    BY <1>1, <1>4, <2>1, Zenon
  <2>3. f.msgid = Nil
    BY <1>1, <1>4, ValidFields
  <2> HIDE DEF msg
  <2>4. /\ msg.protocol = "RFC3164" /\ msg.facility = f.facility /\ msg.severity = f.severity
        /\ msg.hostname = f.hostname /\ msg.app = f.app /\ msg.pid = f.pid /\ msg.msgid = Nil
        /\ msg.message = Stripped(f.message)
    BY <1>2, <1>a, <2>2, Zenon DEF Message
  <2> QED
    BY <1>4, <2>3, <2>4, Zenon DEF ReadBack, msg
<1>5. CASE ~f.rfc3164
  <2> DEFINE pid == Nilable(f.pid)
             msgid == Nilable(f.msgid)
             text == Stripped(<<DASH, SP>> \o f.message)
  <2>1. ParseSyslog(FormatRfc5424(f))
          = Message("RFC5424", pri, ReadAs(<<Stamp5424>>), ReadAs(f.hostname), ReadAs(f.app), ReadAs(pid),
                    ReadAs(msgid), text)
    BY <1>1, <1>5, Parsed5424, Zenon DEF pri
  <2>2. msg = Message("RFC5424", pri, ReadAs(<<Stamp5424>>), ReadAs(f.hostname), ReadAs(f.app), ReadAs(pid),
                      ReadAs(msgid), text)
    BY <1>1, <1>5, <2>1, Zenon
  <2> HIDE DEF msg, text
  <2>3. /\ msg.protocol = "RFC5424" /\ msg.facility = f.facility /\ msg.severity = f.severity
        /\ msg.hostname = ReadAs(f.hostname) /\ msg.app = ReadAs(f.app) /\ msg.pid = ReadAs(pid)
        /\ msg.msgid = ReadAs(msgid) /\ msg.message = text
    BY <1>2, <1>a, <2>2, Zenon DEF Message
  <2>4. \A v : ReadAs(Nilable(v)) = ReadAs(v)
    BY Zenon DEF ReadAs, Nilable
  <2>5. ReadAs(pid) = ReadAs(f.pid) /\ ReadAs(msgid) = ReadAs(f.msgid)
    BY <2>4, Zenon
  <2> HIDE DEF pid, msgid
  <2>6. \A v : ReadAs(v) = IF v = <<DASH>> /\ ~f.rfc3164 THEN Nil ELSE v
    BY <1>5, Zenon DEF ReadAs
  <2>7. ReadBack(f, msg)
    BY <1>5, <2>3, <2>5, <2>6, Zenon DEF ReadBack, text
  <2> QED
    BY <2>7 DEF msg
<1> QED
  BY <1>4, <1>5

\* Whatever was sent can be read back, and whatever was received from
\* minilog-send was sent and has been read so.
TripInv ==
    /\ \A n \in 1..Len(sent) : ReadBack(sent[n].fields, ParseSyslog(sent[n].datagram))
    /\ \A i \in 1..Len(got) : got[i].from > 0 =>
          got[i].from \in 1..Len(sent) /\ ReadBack(sent[got[i].from].fields, got[i].msg)

\* A line that is sent, and a datagram that arrives, keep that.
LEMMA TripStep == SendInv /\ GotInv /\ TripInv /\ [Next]_vars => TripInv'
<1> SUFFICES ASSUME SendInv, GotInv, TripInv, [Next]_vars PROVE TripInv'
  OBVIOUS
<1>0. /\ opts \in CommandLines /\ sent \in Seq([fields: FieldSets, datagram: Texts])
      /\ got \in Seq(Arrivals)
  BY Zenon DEF SendInv, GotInv
<1>1. Len(sent) \in Nat /\ DOMAIN sent = 1..Len(sent) /\ Len(got) \in Nat
  BY <1>0, LenProperties
<1>a. \A n \in 1..Len(sent) : ReadBack(sent[n].fields, ParseSyslog(sent[n].datagram))
  BY Zenon DEF TripInv
<1>b. \A i \in 1..Len(got) : got[i].from > 0 =>
          got[i].from \in 1..Len(sent) /\ ReadBack(sent[got[i].from].fields, got[i].msg)
  BY Zenon DEF TripInv
<1>2. CASE SendLine
  <2>1. /\ pc = "send" /\ got' = got
        /\ \/ sent' = sent
           \/ \E datagram \in BuildDatagram(Fields(Head(lines))) :
                sent' = Append(sent, [fields |-> Fields(Head(lines)), datagram |-> datagram])
    BY <1>2, Zenon DEF SendLine
  <2>2. CASE sent' = sent
    BY <1>a, <1>b, <2>1, <2>2, Zenon DEF TripInv
  <2>3. ASSUME NEW datagram \in BuildDatagram(Fields(Head(lines))),
               sent' = Append(sent, [fields |-> Fields(Head(lines)), datagram |-> datagram])
        PROVE  TripInv'
    <3> DEFINE f == Fields(Head(lines))
               e == [fields |-> f, datagram |-> datagram]
               k == Len(sent)
               SF == [fields: FieldSets, datagram: Texts]
    <3>1. f \in FieldSets
      <4>1. lines \in Seq(Texts) /\ Len(lines) > 0
        BY <2>1, Zenon DEF SendInv, Left
      <4>2. lines # <<>>
        BY <4>1, EmptySeq
      <4>3. Head(lines) \in Texts
        BY <4>1, <4>2, HeadTailProperties
      <4> QED
        BY <1>0, <4>3, FieldsAreFields
    <3>2. datagram \in BuildDatagram(f)
      BY <2>3
    <3> HIDE DEF f
    <3>3. datagram \in Texts /\ ReadBack(f, ParseSyslog(datagram))
      BY <1>0, <3>1, <3>2, BuiltIsText, BuiltReadBack
    <3>4. e \in SF /\ e.fields = f /\ e.datagram = datagram
      BY <3>1, <3>3
    <3>5. sent' = Append(sent, e)
      BY <2>3, Zenon DEF f
    <3> HIDE DEF e, SF
    <3>6. sent \in Seq(SF)
      BY <1>0 DEF SF
    <3>7. /\ Len(sent') = k + 1 /\ \A n \in 1..k : sent'[n] = sent[n]
          /\ sent'[k + 1] = e
      BY <3>4, <3>5, <3>6, AppendProperties
    <3> HIDE DEF k
    <3>k. k \in Nat /\ 1..Len(sent) = 1..k
      BY <1>1 DEF k
    <3>8. \A n \in 1..(k + 1) : n \in 1..k \/ n = k + 1
      BY <3>k
    <3>9. \A n \in 1..k : n \in 1..(k + 1)
      BY <3>k
    <3>10. \A n \in 1..Len(sent') : ReadBack(sent'[n].fields, ParseSyslog(sent'[n].datagram))
      <4>1. ASSUME NEW n \in 1..Len(sent')
            PROVE  ReadBack(sent'[n].fields, ParseSyslog(sent'[n].datagram))
        <5>1. n \in 1..k \/ n = k + 1
          BY <3>7, <3>8, Zenon
        <5>2. CASE n \in 1..k
          BY <1>a, <3>7, <3>k, <5>2, Zenon
        <5>3. CASE n = k + 1
          BY <3>3, <3>4, <3>7, <5>3, Zenon
        <5> QED
          BY <5>1, <5>2, <5>3, Zenon
      <4> QED
        BY <4>1, Zenon
    <3>11. \A i \in 1..Len(got) : got[i].from > 0 =>
              got[i].from \in 1..Len(sent') /\ ReadBack(sent'[got[i].from].fields, got[i].msg)
      BY <1>b, <3>7, <3>9, <3>k, Zenon
    <3> QED
      BY <2>1, <3>10, <3>11, Zenon DEF TripInv
  <2> QED
    BY <2>1, <2>2, <2>3, Zenon
<1>3. ASSUME NEW d, NEW n, sent' = sent, got' = Append(got, Received(d, n)), Received(d, n) \in Arrivals,
             n > 0 => n \in 1..Len(sent) /\ d = sent[n].datagram
      PROVE  TripInv'
  <2> DEFINE e == Received(d, n)
             k == Len(got)
  <2>1. e.from = n /\ e.msg = ParseSyslog(d)
    BY DEF Received
  <2>2. e \in Arrivals /\ got' = Append(got, e)
    BY <1>3
  <2> HIDE DEF e
  <2>3. Len(got') = k + 1 /\ (\A i \in 1..k : got'[i] = got[i]) /\ got'[k + 1] = e
    BY <1>0, <2>2, AppendProperties
  <2> HIDE DEF k
  <2>4. k \in Nat /\ 1..Len(got) = 1..k
    BY <1>1 DEF k
  <2>5. \A i \in 1..(k + 1) : i \in 1..k \/ i = k + 1
    BY <2>4
  <2>6. ASSUME NEW i \in 1..Len(got'), got'[i].from > 0
        PROVE  got'[i].from \in 1..Len(sent) /\ ReadBack(sent[got'[i].from].fields, got'[i].msg)
    <3>1. i \in 1..k \/ i = k + 1
      BY <2>3, <2>5, Zenon
    <3>2. CASE i \in 1..k
      BY <1>b, <2>3, <2>4, <2>6, <3>2, Zenon
    <3>3. CASE i = k + 1
      <4>1. got'[i] = e
        BY <2>3, <3>3, Zenon
      <4>2. n > 0
        BY <2>1, <2>6, <4>1, Zenon
      <4> QED
        BY <1>3, <1>a, <2>1, <4>1, <4>2, Zenon
    <3> QED
      BY <3>1, <3>2, <3>3, Zenon
  <2> QED
    BY <1>3, <1>a, <2>6, Zenon DEF TripInv
<1>4. CASE Receive
  <2>1. sent' = sent
    BY <1>4, Zenon DEF Receive
  <2>2. PICK n \in DOMAIN sent : got' = Append(got, Received(sent[n].datagram, n))
    BY <1>4, Zenon DEF Receive, Arrive
  <2>3. n \in 1..Len(sent)
    BY <1>1, <2>2
  <2>4. Received(sent[n].datagram, n) \in Arrivals
    <3>1. sent[n] \in [fields: FieldSets, datagram: Texts]
      BY <1>0, <2>3, ElementOfSeq
    <3> DEFINE d == sent[n].datagram
    <3>2. d \in Texts
      BY <3>1
    <3> HIDE DEF d
    <3>3. n \in Nat
      BY <1>1, <2>3
    <3>4. Received(d, n) \in Arrivals
      <4>1. <<d, n>> \in Texts \X Nat /\ <<d, n>>[1] = d /\ <<d, n>>[2] = n
        BY <3>2, <3>3
      <4> QED
        BY <4>1, Zenon DEF Arrivals
    <3> QED
      BY <3>4 DEF d
  <2> QED
    BY <1>3, <2>1, <2>2, <2>3, <2>4, Zenon
<1>5. CASE ReceiveRaw
  <2>1. sent' = sent
    BY <1>5, Zenon DEF ReceiveRaw
  <2>2. PICK d \in RawDatagrams : got' = Append(got, Received(d, 0))
    BY <1>5, Zenon DEF ReceiveRaw, Arrive
  <2>3. d \in Texts
    BY TextsAssumption
  <2>4. Received(d, 0) \in Arrivals
    <3>1. <<d, 0>> \in Texts \X Nat /\ <<d, 0>>[1] = d /\ <<d, 0>>[2] = 0
      BY <2>3
    <3> QED
      BY <3>1, Zenon DEF Arrivals
  <2>5. ~(0 > 0)
    OBVIOUS
  <2> QED
    BY <1>3, <2>1, <2>2, <2>4, <2>5, Zenon
<1>6. CASE Options \/ CheckFields \/ Resolve \/ UNCHANGED vars
  <2>1. got' = got /\ sent' = sent
    BY <1>6, Zenon DEF Options, CheckFields, Resolve, vars
  <2> QED
    BY <1>a, <1>b, <2>1, Zenon DEF TripInv
<1> QED
  BY <1>2, <1>4, <1>5, <1>6, Zenon DEF Next

\* What minilog-send agrees to send, in either format and with fields and
\* messages of any length, the parser reads as it was given.
THEOREM AlwaysRoundTrip == Spec => []RoundTrip
<1>1. Init => TripInv
  <2> SUFFICES ASSUME Init PROVE TripInv
    OBVIOUS
  <2>1. sent = <<>> /\ got = <<>>
    BY Zenon DEF Init
  <2>2. Len(<<>>) = 0
    BY EmptySeq
  <2>3. \A n : ~(n \in 1..0)
    OBVIOUS
  <2>4. \A n : ~(n \in 1..Len(sent)) /\ ~(n \in 1..Len(got))
    BY <2>1, <2>2, <2>3, Zenon
  <2> QED
    BY <2>4, Zenon DEF TripInv
<1>2. ASSUME GotInv, TripInv PROVE RoundTrip
  <2>1. DOMAIN got = 1..Len(got)
    BY <1>2, LenProperties DEF GotInv
  <2>2. \A i \in DOMAIN got : got[i].from > 0 => ReadBack(sent[got[i].from].fields, got[i].msg)
    BY <1>2, <2>1, Zenon DEF TripInv
  <2> QED
    BY <2>2, Zenon DEF RoundTrip, ReadBack
<1>3. (SendInv /\ GotInv) /\ TripInv /\ [Next]_vars => TripInv'
  BY TripStep
<1> QED
  BY WireInvariant, <1>1, <1>2, <1>3, PTL DEF Spec
=============================================================================
