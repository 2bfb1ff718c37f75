------------------------------- MODULE Config -------------------------------
(***************************************************************************)
(* loadConfig() (src/src/server/config/config.cpp): which configuration    *)
(* files it accepts and what the server then runs with.  A file is edited  *)
(* key by key and loaded, which is what a start of the server or --check   *)
(* does first.                                                             *)
(*                                                                         *)
(* A value of the file is what its text amounts to: a number, a number too *)
(* large or junk, a size and its unit, the shape of a host.  A function    *)
(* that throws on bad input is an operator with a set as its result, empty *)
(* where the code throws and with the value as its one element otherwise.  *)
(***************************************************************************)
EXTENDS Integers, Sequences

CONSTANTS
    IntMax,             \* the largest int
    Uint32Max,          \* the largest uint32_t
    UlongMax,           \* the largest unsigned long, 2^32 - 1 on Windows
    SizeMax,            \* the largest uint64_t
    Kilo,               \* 1024
    PosixPaths,         \* names of files that are absolute paths on POSIX
    WindowsPaths,       \* and on Windows: those with a drive or a server
    MaxEdits            \* bound: edits of the first file

MaxPort == 65535
DefaultPort == 514
DefaultMessageSize == 2048

ASSUME WidthsAssumption ==
    /\ IntMax \in Nat /\ IntMax > MaxPort
    /\ Uint32Max \in Nat /\ UlongMax \in Nat /\ UlongMax >= Uint32Max
    /\ SizeMax \in Nat /\ SizeMax >= 16 * Kilo * Kilo /\ Kilo \in Nat \ {0} /\ MaxEdits \in Nat

Platforms == {"linux", "windows"}
KMaxFilesLimit == 1000
KMaxWorkers == 256
DefaultQueueBytes == 16 * Kilo * Kilo

Empty == ""

\* The texts of a key that is read as a number.
Absent == [is |-> "absent", n |-> 0]
Junk == [is |-> "junk", n |-> 0]
Number(n) == [is |-> "number", n |-> n]

\* The texts of a key that is read as a size.
Units == {Empty, "b", "kb", "mb", "gb", "tb"}
Size(n, unit) == [is |-> "number", n |-> n, unit |-> unit]
NoSize == [is |-> "absent", n |-> 0, unit |-> Empty]
NoDigits == [is |-> "junk", n |-> 0, unit |-> Empty]

\* The shapes of a host, and what the code looks for in them.
Hosts ==
    {Empty, "v4", "v6", "v4:port", "[v6]", "[v6]:port", "name", "name:port", "name/path",
     "two names", "10.0.0.999"}
Bracketed == {"[v6]", "[v6]:port"}
WithColon == {"v6", "v4:port", "[v6]:port", "name:port"}
WithSlash == {"name/path"}
WithSpace == {"two names"}
DigitsAndDots == {Empty, "v4", "10.0.0.999"}
IsV4 == {"v4", "v4:port"}

VARIABLES
    file,       \* the configuration file
    edits,      \* edits so far
    platform,   \* where it has been loaded, "none" while it is edited
    loaded      \* what loadConfig() made of it: {} where it threw

vars == <<file, edits, platform, loaded>>
-----------------------------------------------------------------------------
\* make_address(): on Windows a port is accepted and dropped.
MakeAddress(host, os) ==
    \/ host \in {"v4", "v6"}
    \/ os = "windows" /\ host \in {"v4:port", "[v6]", "[v6]:port"}

\* requireAddress().
RequireAddress(host, os) ==
    LET ok == MakeAddress(host, os)
        strayPort == ok /\ host \in IsV4 /\ host \in WithColon
    IN ok /\ host \notin Bracketed /\ ~strayPort

\* Mutant: what parses as an address is taken to be one.
RequireDestinationHostParsed(host, os) ==
    LET ok == MakeAddress(host, os)
    IN /\ host \notin Bracketed /\ host \notin WithSpace
       /\ ok \/ host \notin WithColon \cup WithSlash \cup DigitsAndDots

\* requireDestinationHost().
RequireDestinationHost(host, os) ==
    LET ok == MakeAddress(host, os)
        strayPort == ok /\ host \in IsV4 /\ host \in WithColon
    IN /\ host \notin Bracketed /\ host \notin WithSpace /\ ~strayPort
       /\ ok \/ host \notin WithColon \cup WithSlash \cup DigitsAndDots

\* requireInt(): std::stoi() of the whole text.
RequireInt(raw, default) ==
    CASE raw.is = "absent" -> {default}
      [] raw.is = "number" -> {raw.n} \cap ((-IntMax - 1)..IntMax)
      [] raw.is = "junk" -> {}

\* std::stoul(): a number with a sign wraps.
Stoul(n) == {IF n >= 0 THEN n ELSE UlongMax + 1 + n} \cap (0..UlongMax)

\* requireUint32().
RequireUint32(raw, default) ==
    CASE raw.is = "absent" -> {default}
      [] raw.is = "number" -> IF raw.n < 0 THEN {} ELSE Stoul(raw.n) \cap (0..Uint32Max)
      [] raw.is = "junk" -> {}

\* requireBool(), the default given as a text.
Yes == {"true", "1"}
No == {"false", "0"}
TextOr(raw, default) == IF raw = "absent" THEN default ELSE raw
RequireBool(raw, default) ==
    LET text == TextOr(raw, default)
    IN IF text \in Yes \cup No THEN {text \in Yes} ELSE {}

Multiplier(unit) ==
    CASE unit \in {Empty, "b"} -> {1} [] unit = "kb" -> {Kilo} [] unit = "mb" -> {Kilo * Kilo}
      [] unit = "gb" -> {Kilo * Kilo * Kilo} [] OTHER -> {}

\* Mutant: the product is formed in 64 bits.
ParseSizeWraps(raw, least) ==
    IF raw.is = "junk" \/ raw.n \notin least..SizeMax THEN {}
    ELSE {(raw.n * m) % (SizeMax + 1) : m \in Multiplier(raw.unit)}

\* parseSize(): the least number accepted is 0 with allowZero and 1 without.
ParseSize(raw, least) ==
    IF raw.is = "junk" \/ raw.n \notin least..SizeMax THEN {}
    ELSE {raw.n * m : m \in {k \in Multiplier(raw.unit) : raw.n <= SizeMax \div k}}

\* facilityFromName(), as far as the files here use it.
Facilities == {"kern", "auth"}
FacilityCode ==
    [kern |-> "kern", kernel |-> "kern", auth |-> "auth", security |-> "auth"]
Tokens == {"kern", "auth", "security", "*", "bogus"}
FacilityLists == UNION {[1..n -> Tokens] : n \in 0..2}
Known(token) == token \in DOMAIN FacilityCode
Stars(tokens) == {i \in DOMAIN tokens : tokens[i] = "*"}

\* parseFacilities(): what follows a wildcard is not read; the empty list, of
\* the wildcard or of an empty text, accepts everything.
ParseFacilities(tokens) ==
    LET stars == Stars(tokens)
        read == {i \in DOMAIN tokens : \A s \in stars : i < s}
    IN IF \E i \in read : ~Known(tokens[i]) THEN {}
       ELSE {IF stars # {} THEN {} ELSE {FacilityCode[tokens[i]] : i \in read}}

\* parseExcludedFacilities().
ParseExcludedFacilities(tokens) ==
    IF \E i \in DOMAIN tokens : ~Known(tokens[i]) THEN {}
    ELSE {{FacilityCode[tokens[i]] : i \in DOMAIN tokens}}

\* facilityMatches() for a message with a facility.
FacilityMatches(accepted, excluded, facility) ==
    (accepted = {} \/ facility \in accepted) /\ facility \notin excluded

\* requireKnownKeys().
RequireKnownKeys(sec) == ~sec.unknown_key

\* requireAbsolutePath(): the platform decides what is absolute; "/a" has no
\* root name and is refused on Windows, "C:/a" is relative on POSIX, and
\* "//server/a" is absolute on both.
AbsolutePaths(os) == IF os = "windows" THEN WindowsPaths ELSE PosixPaths
RequireAbsolutePath(path, os) == path \in AbsolutePaths(os)

\* parseOutput().
PathsOf(out) == {out.text_file, out.jsonl_file} \ {Empty}
ParseOutput(out, os) ==
    IF \/ ~RequireKnownKeys(out) \/ PathsOf(out) = {}
       \/ \E path \in PathsOf(out) : ~RequireAbsolutePath(path, os)
       \/ out.text_file = out.jsonl_file
    THEN {}
    ELSE [text_file: {out.text_file}, jsonl_file: {out.jsonl_file},
          max_size: ParseSize(out.max_size, 0),
          max_files: RequireInt(out.max_files, 10) \cap (0..KMaxFilesLimit),
          facility: ParseFacilities(out.facility),
          exclude_facility: ParseExcludedFacilities(out.exclude_facility),
          include_malformed: RequireBool(out.include_malformed, "true")]

\* Mutant: a text file is compared with text files, and JSONL with JSONL.
RequireDistinctFilesByKind(outputs) ==
    \A i, j \in DOMAIN outputs :
        i < j => /\ outputs[i].text_file # outputs[j].text_file \/ outputs[i].text_file = Empty
                 /\ outputs[i].jsonl_file # outputs[j].jsonl_file \/ outputs[i].jsonl_file = Empty

\* requireDistinctFiles(): every file belongs to one sink.
RequireDistinctFiles(outputs) ==
    \A i, j \in DOMAIN outputs : i < j => PathsOf(outputs[i]) \cap PathsOf(outputs[j]) = {}

\* The part of loadConfig() on [server].
QueueBytes(raw) == IF raw = NoSize THEN {DefaultQueueBytes} ELSE ParseSize(raw, 1)
LoadServer(sec, os) ==
    IF ~RequireKnownKeys(sec) \/ ~RequireAddress(sec.host, os) THEN {}
    ELSE [udp_port: RequireInt(sec.udp_port, DefaultPort) \cap (0..MaxPort),
          workers: RequireInt(sec.workers, 4) \cap (1..KMaxWorkers),
          max_queue_bytes: QueueBytes(sec.max_queue_bytes)]

\* The part of loadConfig() on [forwarding]: the host of a destination that is
\* not enabled is not looked at.
LoadForwarding(sec, os) ==
    IF ~RequireKnownKeys(sec) THEN {}
    ELSE {fwd \in [enabled: RequireBool(sec.enabled, "false"), host: {sec.host},
                   max_message_size: RequireUint32(sec.max_message_size, DefaultMessageSize),
                   facility: ParseFacilities(sec.facility),
                   exclude_facility: ParseExcludedFacilities(sec.exclude_facility),
                   port: RequireInt(sec.port, DefaultPort) \cap (1..MaxPort)] :
            fwd.enabled => fwd.host # Empty /\ RequireDestinationHost(fwd.host, os)}

\* loadConfig().
LoadConfig(f, os) ==
    IF \/ f.outputs = <<>>
       \/ \E i \in DOMAIN f.outputs : ParseOutput(f.outputs[i], os) = {}
       \/ ~RequireDistinctFiles(f.outputs)
       \/ ~RequireKnownKeys(f.web_viewer)
    THEN {}
    ELSE [server: LoadServer(f.server, os), forwarding: LoadForwarding(f.forwarding, os),
          outputs: {[i \in DOMAIN f.outputs |-> CHOOSE out \in ParseOutput(f.outputs[i], os) : TRUE]}]
-----------------------------------------------------------------------------
(***************************************************************************)
(* Files: a first one, and the values its keys are given.                  *)
(***************************************************************************)

Paths == PosixPaths \cup WindowsPaths

Output(path) ==
    [unknown_key |-> FALSE, text_file |-> path, jsonl_file |-> Empty, max_size |-> NoSize,
     max_files |-> Absent, facility |-> <<"*">>, exclude_facility |-> <<>>,
     include_malformed |-> "absent"]

FirstFile(path) ==
    [server |-> [unknown_key |-> FALSE, host |-> "v4", udp_port |-> Absent,
                 workers |-> Absent, max_queue_bytes |-> NoSize],
     outputs |-> <<Output(path)>>,
     web_viewer |-> [unknown_key |-> FALSE],
     forwarding |-> [unknown_key |-> FALSE, enabled |-> "absent", host |-> Empty,
                     port |-> Absent, max_message_size |-> Absent, facility |-> <<"*">>,
                     exclude_facility |-> <<>>]]

Bools == {"absent", "true", "1", "false", "0", "yes"}
Ints(limits) == {Absent, Junk, Number(IntMax + 1)} \cup {Number(n) : n \in limits}
Sizes ==
    {NoSize, NoDigits} \cup
    {Size(n, unit) : n \in {0, 1, SizeMax \div Kilo, SizeMax \div Kilo + 1, SizeMax, SizeMax + 1},
                     unit \in Units}

ServerValues ==
    [unknown_key |-> BOOLEAN, host |-> Hosts, udp_port |-> Ints({-1, 0, MaxPort, MaxPort + 1}),
     workers |-> Ints({0, 1, KMaxWorkers, KMaxWorkers + 1}), max_queue_bytes |-> Sizes]
Names == Paths \cup {Empty, "relative"}
OutputValues ==
    [unknown_key |-> BOOLEAN, text_file |-> Names,
     jsonl_file |-> Names, max_size |-> Sizes,
     max_files |-> Ints({-1, 0, KMaxFilesLimit, KMaxFilesLimit + 1}),
     facility |-> FacilityLists, exclude_facility |-> FacilityLists,
     include_malformed |-> Bools]
ForwardingValues ==
    [unknown_key |-> BOOLEAN, enabled |-> Bools, host |-> Hosts,
     port |-> Ints({0, 1, MaxPort, MaxPort + 1}),
     max_message_size |-> Ints({-1, 0, Uint32Max, Uint32Max + 1}),
     facility |-> FacilityLists, exclude_facility |-> FacilityLists]

Edit(new) ==
    /\ platform = "none" /\ edits < MaxEdits
    /\ edits' = edits + 1
    /\ file' = new
    /\ UNCHANGED <<platform, loaded>>

EditServer ==
    \E k \in DOMAIN ServerValues : \E v \in ServerValues[k] :
        Edit([file EXCEPT !.server[k] = v])
EditOutput ==
    \E i \in DOMAIN file.outputs, k \in DOMAIN OutputValues : \E v \in OutputValues[k] :
        Edit([file EXCEPT !.outputs[i][k] = v])
EditForwarding ==
    \E k \in DOMAIN ForwardingValues : \E v \in ForwardingValues[k] :
        Edit([file EXCEPT !.forwarding[k] = v])
EditViewer == Edit([file EXCEPT !.web_viewer.unknown_key = ~@])
AddOutput ==
    /\ Len(file.outputs) < 2
    /\ \E p \in Paths : Edit([file EXCEPT !.outputs = Append(@, Output(p))])
RemoveOutput ==
    /\ file.outputs # <<>>
    /\ Edit([file EXCEPT !.outputs = Tail(@)])

\* A start of the server, or --check.
Load ==
    /\ platform = "none"
    /\ platform' \in Platforms
    /\ loaded' = LoadConfig(file, platform')
    /\ UNCHANGED <<file, edits>>

Init == file \in {FirstFile(p) : p \in Paths} /\ edits = 0 /\ platform = "none" /\ loaded = {}

Next ==
    \/ EditServer \/ EditOutput \/ EditForwarding \/ EditViewer \/ AddOutput \/ RemoveOutput
    \/ Load

Spec == Init /\ [][Next]_vars
-----------------------------------------------------------------------------
(***************************************************************************)
(* Properties.                                                             *)
(***************************************************************************)

\* What the texts say, in numbers without a width.
Written(raw, default) == IF raw.is = "absent" THEN default ELSE raw.n
WrittenSize(raw, default) ==
    IF raw.is = "absent" THEN default
    ELSE raw.n * (CASE raw.unit = "kb" -> Kilo [] raw.unit = "mb" -> Kilo * Kilo
                    [] raw.unit = "gb" -> Kilo * Kilo * Kilo [] OTHER -> 1)
WrittenBool(raw, default) == (IF raw = "absent" THEN default ELSE raw) \in {"true", "1"}
Selects(sec, facility) ==
    LET names(tokens) == {tokens[i] : i \in DOMAIN tokens}
        of(tokens) == {FacilityCode[t] : t \in names(tokens) \cap DOMAIN FacilityCode}
    IN /\ sec.facility = <<>> \/ "*" \in names(sec.facility) \/ facility \in of(sec.facility)
       /\ facility \notin of(sec.exclude_facility)

\* A server never runs with something other than what its file says: no number
\* is wrapped, cut or replaced by a default, no size in the largest unit comes
\* out as 0 ("never rotate"), and every facility goes where the lists, with
\* their aliases and wildcards, send it.
WhatTheFileSays ==
    \A cfg \in loaded :
        /\ cfg.server.udp_port = Written(file.server.udp_port, DefaultPort)
        /\ cfg.server.workers = Written(file.server.workers, 4)
        /\ cfg.server.max_queue_bytes = WrittenSize(file.server.max_queue_bytes,
                                                   DefaultQueueBytes)
        /\ cfg.forwarding.max_message_size = Written(file.forwarding.max_message_size, DefaultMessageSize)
        /\ cfg.forwarding.port = Written(file.forwarding.port, DefaultPort)
        /\ cfg.forwarding.enabled = WrittenBool(file.forwarding.enabled, "false")
        /\ \A i \in DOMAIN file.outputs :
            /\ cfg.outputs[i].max_size = WrittenSize(file.outputs[i].max_size, 0)
            /\ cfg.outputs[i].max_files = Written(file.outputs[i].max_files, 10)
            /\ cfg.outputs[i].include_malformed
                   = WrittenBool(file.outputs[i].include_malformed, "true")
        /\ \A f \in Facilities :
            /\ FacilityMatches(cfg.forwarding.facility, cfg.forwarding.exclude_facility, f)
                   = Selects(file.forwarding, f)
            /\ \A i \in DOMAIN file.outputs :
                FacilityMatches(cfg.outputs[i].facility, cfg.outputs[i].exclude_facility, f)
                   = Selects(file.outputs[i], f)

\* What the rest of the server takes for granted of an accepted configuration:
\* there is a sink, each has a file, every file is a path that is absolute here
\* and belongs to one sink and one format, and the threads, the generations, the
\* budget and the destination are within their limits.
RunnableConfig ==
    \A cfg \in loaded :
        /\ cfg.outputs # <<>>
        /\ \A i \in DOMAIN cfg.outputs :
            LET out == cfg.outputs[i]
            IN /\ PathsOf(out) # {} /\ PathsOf(out) \subseteq AbsolutePaths(platform)
               /\ out.text_file # out.jsonl_file
               /\ out.max_files \in 0..KMaxFilesLimit /\ out.max_size \in 0..SizeMax
               /\ \A j \in DOMAIN cfg.outputs \ {i} :
                    PathsOf(cfg.outputs[j]) \cap PathsOf(out) = {}
        /\ cfg.server.workers \in 1..KMaxWorkers /\ cfg.server.max_queue_bytes \in 1..SizeMax
        /\ cfg.forwarding.enabled => cfg.forwarding.host \in {"v4", "v6", "name"}

\* A host is read alike on both platforms, though an address of Windows may
\* carry a port ("so the answer is the same everywhere"): but for paths that
\* are absolute on only one of the two, a file is accepted on both or on
\* neither, and means the same.
AbsoluteOn(f, os) ==
    \A i \in DOMAIN f.outputs : PathsOf(f.outputs[i]) \subseteq AbsolutePaths(os)
SameEverywhere ==
    platform # "none" =>
        \A os \in Platforms :
            (AbsoluteOn(file, os) <=> AbsoluteOn(file, platform)) => LoadConfig(file, os) = loaded
=============================================================================
