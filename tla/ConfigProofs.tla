---------------------------- MODULE ConfigProofs ----------------------------
(***************************************************************************)
(* What loadConfig() promises of a file it accepts, for every file and for *)
(* integers of any width.                                                  *)
(***************************************************************************)
EXTENDS Config, SequenceTheorems, TLAPS

\* The files: a number is any number, a size any number and any unit, a list
\* of facilities any list of names.
NumberTexts == [is: {"absent", "number", "junk"}, n: Int]
SizeTexts == {NoSize} \cup [is: {"number", "junk"}, n: Nat, unit: Units]
Lists == Seq(Tokens)

ServerSections ==
    [unknown_key: BOOLEAN, host: Hosts, udp_port: NumberTexts, workers: NumberTexts,
     max_queue_bytes: SizeTexts]
OutputSections ==
    [unknown_key: BOOLEAN, text_file: Names,
     jsonl_file: Names, max_size: SizeTexts, max_files: NumberTexts,
     facility: Lists, exclude_facility: Lists, include_malformed: Bools]
ForwardingSections ==
    [unknown_key: BOOLEAN, enabled: Bools, host: Hosts, port: NumberTexts,
     max_message_size: NumberTexts, facility: Lists, exclude_facility: Lists]
Files ==
    [server: ServerSections, outputs: Seq(OutputSections),
     web_viewer: [unknown_key: BOOLEAN], forwarding: ForwardingSections]
-----------------------------------------------------------------------------
(***************************************************************************)
(* The functions that read one value.                                      *)
(***************************************************************************)

\* requireInt() gives the number in the file, or the default when there is none.
LEMMA IntSays ==
    ASSUME NEW raw \in NumberTexts, NEW default, NEW n \in RequireInt(raw, default)
    PROVE  n = Written(raw, default)
BY DEF NumberTexts, RequireInt, Written

\* requireUint32() gives the number in the file: the check for a sign and for
\* the width leave nothing for strtoul() to wrap.
LEMMA Uint32Says ==
    ASSUME NEW raw \in NumberTexts, NEW default, NEW n \in RequireUint32(raw, default)
    PROVE  n = Written(raw, default)
BY DEF NumberTexts, RequireUint32, Stoul, Written

\* requireBool() gives what the word in the file means.
LEMMA BoolSays ==
    ASSUME NEW raw, NEW default, NEW b \in RequireBool(raw, default)
    PROVE  b = WrittenBool(raw, default)
<1>1. TextOr(raw, default) = IF raw = "absent" THEN default ELSE raw
  BY DEF TextOr
<1>2. b = (TextOr(raw, default) \in Yes)
  BY Zenon DEF RequireBool
<1> QED
  BY <1>1, <1>2, Zenon DEF WrittenBool, Yes

\* The multipliers of the size units are positive.
LEMMA KiloPowers ==
    /\ Kilo * Kilo \in Nat \ {0}
    /\ Kilo * Kilo * Kilo \in Nat \ {0}
<1>1. ASSUME NEW a \in Nat \ {0}, NEW b \in Nat \ {0}
      PROVE  a * b \in Nat \ {0}
  OBVIOUS
<1>2. Kilo * Kilo \in Nat \ {0}
  BY <1>1, WidthsAssumption
<1> QED
  BY <1>1, <1>2, WidthsAssumption

\* The test before the product is enough to keep it within the width.
LEMMA ProductFits ==
    ASSUME NEW n \in Nat, NEW k \in Nat \ {0}, NEW max \in Nat, n <= max \div k
    PROVE  n * k \in 0..max /\ (n # 0 => n * k # 0)
<1>1. (max \div k) \in Nat /\ (max \div k) * k <= max
  OBVIOUS
<1>2. ASSUME NEW q \in Nat, n <= q
      PROVE  n * k <= q * k
  BY <1>2
<1> QED
  BY <1>1, <1>2

\* The units: the factor of a size is the one its unit has.
LEMMA UnitSays ==
    ASSUME NEW raw, raw.is # "absent", NEW k \in Multiplier(raw.unit)
    PROVE  k \in Nat \ {0} /\ \A d : WrittenSize(raw, d) = raw.n * k
<1>1. CASE raw.unit \in {Empty, "b"}
  <2>1. raw.unit # "kb" /\ raw.unit # "mb" /\ raw.unit # "gb"
    BY <1>1, Zenon DEF Empty
  <2>2. k = 1
    BY <1>1, Zenon DEF Multiplier, Empty
  <2>3. \A d : WrittenSize(raw, d) = raw.n * k
    BY <2>1, <2>2, Zenon DEF WrittenSize
  <2> QED
    BY <2>2, <2>3
<1>2. CASE raw.unit = "kb"
  <2>1. k = Kilo
    BY <1>2, Zenon DEF Multiplier, Empty
  <2>2. \A d : WrittenSize(raw, d) = raw.n * k
    BY <1>2, <2>1, Zenon DEF WrittenSize
  <2> QED
    BY <2>1, <2>2, WidthsAssumption
<1>3. CASE raw.unit = "mb"
  <2>1. k = Kilo * Kilo
    BY <1>3, Zenon DEF Multiplier, Empty
  <2>2. \A d : WrittenSize(raw, d) = raw.n * k
    BY <1>3, <2>1, Zenon DEF WrittenSize
  <2> QED
    BY <2>1, <2>2, KiloPowers
<1>4. CASE raw.unit = "gb"
  <2>1. k = Kilo * Kilo * Kilo
    BY <1>4, Zenon DEF Multiplier, Empty
  <2>2. \A d : WrittenSize(raw, d) = raw.n * k
    BY <1>4, <2>1, Zenon DEF WrittenSize
  <2> QED
    BY <2>1, <2>2, KiloPowers
<1>5. CASE raw.unit \notin {Empty, "b", "kb", "mb", "gb"}
  <2>1. Multiplier(raw.unit) = {}
    BY <1>5, Zenon DEF Multiplier
  <2> QED
    BY <2>1
<1> QED
  BY <1>1, <1>2, <1>3, <1>4, <1>5

\* parseSize() gives the size in the file: the product with the unit is neither
\* wrapped nor 0 where the number is not.
LEMMA SizeSays ==
    ASSUME NEW raw \in SizeTexts, NEW least \in Nat, NEW x \in ParseSize(raw, least)
    PROVE  x = WrittenSize(raw, 0) /\ x \in 0..SizeMax /\ (least > 0 => x > 0)
<1>1. raw.is # "junk" /\ raw.n \in least..SizeMax
  BY DEF ParseSize
<1>2. PICK k \in Multiplier(raw.unit) : raw.n <= SizeMax \div k /\ x = raw.n * k
  BY <1>1 DEF ParseSize
<1>3. CASE raw = NoSize
  <2>1. raw.is = "absent" /\ raw.n = 0 /\ raw.unit = Empty
    BY <1>3 DEF NoSize
  <2>2. k = 1
    BY <2>1, Zenon DEF Multiplier, Empty
  <2>3. WrittenSize(raw, 0) = 0
    BY <2>1, Zenon DEF WrittenSize
  <2>4. x = 0 * 1
    BY <1>2, <2>1, <2>2, Zenon
  <2>5. x = 0 /\ 0 \in 0..SizeMax
    BY <2>4, WidthsAssumption
  <2>6. ~(least > 0)
    <3>1. 0 \in least..SizeMax
      BY <1>1, <2>1, Zenon
    <3> QED
      BY <3>1, WidthsAssumption
  <2> QED
    BY <2>3, <2>5, <2>6, Zenon
<1>4. CASE raw \in [is: {"number", "junk"}, n: Nat, unit: Units]
  <2>1. raw.n \in Nat /\ raw.is # "absent"
    BY <1>4
  <2>2. k \in Nat \ {0} /\ WrittenSize(raw, 0) = raw.n * k
    BY <2>1, UnitSays
  <2>3. x \in 0..SizeMax /\ (raw.n # 0 => x # 0)
    BY <1>2, <2>1, <2>2, ProductFits, WidthsAssumption
  <2> QED
    BY <1>1, <1>2, <2>2, <2>3, WidthsAssumption
<1> QED
  BY <1>3, <1>4 DEF SizeTexts

\* Two truth values that imply each other are one value.
LEMMA SameBoolean == \A p, q \in BOOLEAN : (p <=> q) => p = q
  BY SMT

\* The parsed lists select exactly the facilities the text of the lists names,
\* the empty list and the star included.
LEMMA FacilitiesSay ==
    ASSUME NEW sec, sec.facility \in Lists, sec.exclude_facility \in Lists,
           NEW accepted \in ParseFacilities(sec.facility),
           NEW excluded \in ParseExcludedFacilities(sec.exclude_facility), NEW f
    PROVE  FacilityMatches(accepted, excluded, f) = Selects(sec, f)
<1> SUFFICES FacilityMatches(accepted, excluded, f) <=> Selects(sec, f)
  <2>1. /\ FacilityMatches(accepted, excluded, f) \in BOOLEAN
        /\ Selects(sec, f) \in BOOLEAN
    BY Zenon DEF FacilityMatches, Selects
  <2> QED
    BY <2>1, SameBoolean, Zenon
<1> DEFINE of(tokens) == {FacilityCode[t] :
                            t \in {tokens[i] : i \in DOMAIN tokens} \cap DOMAIN FacilityCode}
<1>1. ASSUME NEW tokens \in Lists, \A i \in DOMAIN tokens : Known(tokens[i])
      PROVE  of(tokens) = {FacilityCode[tokens[i]] : i \in DOMAIN tokens}
  BY <1>1 DEF Known
<1>2. excluded = of(sec.exclude_facility)
  BY <1>1 DEF ParseExcludedFacilities
<1>3. CASE Stars(sec.facility) = {}
  <2>1. /\ \A i \in DOMAIN sec.facility : Known(sec.facility[i])
        /\ accepted = {FacilityCode[sec.facility[i]] : i \in DOMAIN sec.facility}
    BY <1>3 DEF ParseFacilities
  <2>2. accepted = of(sec.facility)
    BY <1>1, <2>1
  <2>3. accepted = {} <=> sec.facility = <<>>
    <3>1. PICK q \in Seq(Tokens) : q = sec.facility
      BY DEF Lists
    <3>2. DOMAIN q = {} <=> q = <<>>
      BY EmptySeq, SeqDef
    <3> QED
      BY <2>1, <3>1, <3>2
  <2>4. "*" \notin {sec.facility[i] : i \in DOMAIN sec.facility}
    BY <1>3 DEF Stars
  <2> QED
    BY <1>2, <2>2, <2>3, <2>4 DEF FacilityMatches, Selects
<1>4. CASE Stars(sec.facility) # {}
  <2>1. accepted = {}
    BY <1>4 DEF ParseFacilities
  <2>2. "*" \in {sec.facility[i] : i \in DOMAIN sec.facility}
    BY <1>4 DEF Stars
  <2> QED
    BY <1>2, <2>1, <2>2 DEF FacilityMatches, Selects
<1> QED
  BY <1>3, <1>4
-----------------------------------------------------------------------------
(***************************************************************************)
(* The sections, and the file.                                             *)
(***************************************************************************)

\* An accepted output section is read as it is written and names a file.
LEMMA OutputSays ==
    ASSUME NEW sec \in OutputSections, NEW os, NEW out \in ParseOutput(sec, os)
    PROVE  /\ out.text_file = sec.text_file /\ out.jsonl_file = sec.jsonl_file
           /\ PathsOf(sec) # {} /\ PathsOf(sec) \subseteq AbsolutePaths(os)
           /\ sec.text_file # sec.jsonl_file
           /\ out.max_size = WrittenSize(sec.max_size, 0) /\ out.max_size \in 0..SizeMax
           /\ out.max_files = Written(sec.max_files, 10) /\ out.max_files \in 0..KMaxFilesLimit
           /\ out.include_malformed = WrittenBool(sec.include_malformed, "true")
           /\ out.facility \in ParseFacilities(sec.facility)
           /\ out.exclude_facility \in ParseExcludedFacilities(sec.exclude_facility)
<1>1. ~(\/ ~RequireKnownKeys(sec) \/ PathsOf(sec) = {}
        \/ \E path \in PathsOf(sec) : ~RequireAbsolutePath(path, os)
        \/ sec.text_file = sec.jsonl_file)
  BY Zenon DEF ParseOutput
<1>2. /\ out.text_file \in {sec.text_file} /\ out.jsonl_file \in {sec.jsonl_file}
      /\ out.max_size \in ParseSize(sec.max_size, 0)
      /\ out.max_files \in RequireInt(sec.max_files, 10) \cap (0..KMaxFilesLimit)
      /\ out.facility \in ParseFacilities(sec.facility)
      /\ out.exclude_facility \in ParseExcludedFacilities(sec.exclude_facility)
      /\ out.include_malformed \in RequireBool(sec.include_malformed, "true")
  BY <1>1, Zenon DEF ParseOutput
<1>3. sec.max_size \in SizeTexts /\ sec.max_files \in NumberTexts
  BY Zenon DEF OutputSections
<1>4. out.max_size = WrittenSize(sec.max_size, 0) /\ out.max_size \in 0..SizeMax
  BY <1>2, <1>3, SizeSays
<1>5. /\ out.max_files = Written(sec.max_files, 10)
      /\ out.max_files \in 0..KMaxFilesLimit
  BY <1>2, <1>3, IntSays
<1>6. out.include_malformed = WrittenBool(sec.include_malformed, "true")
  BY <1>2, BoolSays, Zenon
<1>7. PathsOf(sec) \subseteq AbsolutePaths(os)
  BY <1>1 DEF RequireAbsolutePath
<1> QED
  BY <1>1, <1>2, <1>4, <1>5, <1>6, <1>7, Zenon

\* The queue budget is what the file says, or the default, and never 0.
LEMMA QueueBytesSay ==
    ASSUME NEW raw \in SizeTexts, NEW bytes \in QueueBytes(raw)
    PROVE  bytes = WrittenSize(raw, DefaultQueueBytes) /\ bytes \in 1..SizeMax
<1>1. CASE raw = NoSize
  <2>1. bytes = DefaultQueueBytes
    BY <1>1, Zenon DEF QueueBytes
  <2>2. DefaultQueueBytes \in 1..SizeMax
    BY KiloPowers, WidthsAssumption DEF DefaultQueueBytes
  <2>3. raw.is = "absent"
    BY <1>1 DEF NoSize
  <2>4. WrittenSize(raw, DefaultQueueBytes) = DefaultQueueBytes
    BY <2>3, Zenon DEF WrittenSize
  <2> QED
    BY <2>1, <2>2, <2>4, Zenon
<1>2. CASE raw # NoSize
  <2>1. bytes \in ParseSize(raw, 1)
    BY <1>2, Zenon DEF QueueBytes
  <2>2. bytes = WrittenSize(raw, 0) /\ bytes \in 0..SizeMax /\ bytes > 0
    BY <2>1, SizeSays
  <2>3. raw.is # "absent"
    BY <1>2 DEF SizeTexts
  <2>4. WrittenSize(raw, 0) = WrittenSize(raw, DefaultQueueBytes)
    BY <2>3, Zenon DEF WrittenSize
  <2>5. bytes \in 1..SizeMax
    BY <2>2, WidthsAssumption
  <2> QED
    BY <2>2, <2>4, <2>5, Zenon
<1> QED
  BY <1>1, <1>2

\* An accepted [server] section is read as it is written and within its limits.
LEMMA ServerSays ==
    ASSUME NEW sec \in ServerSections, NEW os, NEW srv \in LoadServer(sec, os)
    PROVE  /\ srv.udp_port = Written(sec.udp_port, DefaultPort)
           /\ srv.workers = Written(sec.workers, 4) /\ srv.workers \in 1..KMaxWorkers
           /\ srv.max_queue_bytes = WrittenSize(sec.max_queue_bytes, DefaultQueueBytes)
           /\ srv.max_queue_bytes \in 1..SizeMax
<1>1. /\ srv.udp_port \in RequireInt(sec.udp_port, DefaultPort) \cap (0..MaxPort)
      /\ srv.workers \in RequireInt(sec.workers, 4) \cap (1..KMaxWorkers)
      /\ srv.max_queue_bytes \in QueueBytes(sec.max_queue_bytes)
  BY Zenon DEF LoadServer
<1>2. /\ sec.udp_port \in NumberTexts /\ sec.workers \in NumberTexts
      /\ sec.max_queue_bytes \in SizeTexts
  BY Zenon DEF ServerSections
<1>3. srv.udp_port = Written(sec.udp_port, DefaultPort) /\ srv.workers = Written(sec.workers, 4)
  BY <1>1, <1>2, IntSays
<1>4. /\ srv.max_queue_bytes = WrittenSize(sec.max_queue_bytes, DefaultQueueBytes)
      /\ srv.max_queue_bytes \in 1..SizeMax
  BY <1>1, <1>2, QueueBytesSay
<1> QED
  BY <1>1, <1>3, <1>4, Zenon

\* The hosts a destination may have are an address and a name.
LEMMA DestinationIs ==
    ASSUME NEW host \in Hosts, host # Empty, NEW os, RequireDestinationHost(host, os)
    PROVE  host \in {"v4", "v6", "name"}
<1>1. /\ host \notin Bracketed /\ host \notin WithSpace
      /\ ~(MakeAddress(host, os) /\ host \in IsV4 /\ host \in WithColon)
      /\ MakeAddress(host, os) \/ host \notin WithColon \cup WithSlash \cup DigitsAndDots
  BY Zenon DEF RequireDestinationHost
<1> QED
  BY <1>1 DEF Hosts, MakeAddress, Bracketed, WithColon, WithSlash, WithSpace, DigitsAndDots, IsV4

\* An accepted [forwarding] section is read as it is written and within its
\* limits, and has a destination when it is enabled.
LEMMA ForwardingSays ==
    ASSUME NEW sec \in ForwardingSections, NEW os \in Platforms,
           NEW fwd \in LoadForwarding(sec, os)
    PROVE  /\ fwd.max_message_size = Written(sec.max_message_size, DefaultMessageSize)
           /\ fwd.port = Written(sec.port, DefaultPort)
           /\ fwd.enabled = WrittenBool(sec.enabled, "false")
           /\ fwd.facility \in ParseFacilities(sec.facility)
           /\ fwd.exclude_facility \in ParseExcludedFacilities(sec.exclude_facility)
           /\ fwd.enabled => fwd.host \in {"v4", "v6", "name"}
<1>1. /\ fwd.enabled \in RequireBool(sec.enabled, "false") /\ fwd.host \in {sec.host}
      /\ fwd.max_message_size \in RequireUint32(sec.max_message_size, DefaultMessageSize)
      /\ fwd.facility \in ParseFacilities(sec.facility)
      /\ fwd.exclude_facility \in ParseExcludedFacilities(sec.exclude_facility)
      /\ fwd.port \in RequireInt(sec.port, DefaultPort) \cap (1..MaxPort)
  BY Zenon DEF LoadForwarding
<1>2. fwd.enabled => fwd.host # Empty /\ RequireDestinationHost(fwd.host, os)
  BY Zenon DEF LoadForwarding
<1>3. sec.max_message_size \in NumberTexts /\ sec.port \in NumberTexts /\ sec.host \in Hosts
  BY Zenon DEF ForwardingSections
<1>4. fwd.max_message_size = Written(sec.max_message_size, DefaultMessageSize)
  BY <1>1, <1>3, Uint32Says, Zenon
<1>5. fwd.port = Written(sec.port, DefaultPort)
  BY <1>1, <1>3, IntSays, Zenon
<1>6. fwd.enabled = WrittenBool(sec.enabled, "false")
  BY <1>1, BoolSays, Zenon
<1>7. fwd.enabled => fwd.host \in {"v4", "v6", "name"}
  BY <1>1, <1>2, <1>3, DestinationIs, Zenon
<1> QED
  BY <1>1, <1>4, <1>5, <1>6, <1>7, Zenon
-----------------------------------------------------------------------------
(***************************************************************************)
(* The files that edits lead to.                                           *)
(***************************************************************************)

\* The values an edit may give a key are texts of that key: numbers, sizes and
\* lists of facilities.
LEMMA IntsAreTexts ==
    ASSUME NEW limits \in SUBSET Int
    PROVE  Ints(limits) \subseteq NumberTexts
BY WidthsAssumption DEF Ints, Absent, Junk, Number, NumberTexts

\* The sizes an edit may write.
LEMMA SizesAreTexts == Sizes \subseteq SizeTexts
<1>1. SizeMax \div Kilo \in Nat
  BY WidthsAssumption
<1>2. \A n \in {0, 1, SizeMax \div Kilo, SizeMax \div Kilo + 1, SizeMax, SizeMax + 1} : n \in Nat
  BY <1>1, WidthsAssumption
<1>3. ASSUME NEW n \in Nat, NEW unit \in Units
      PROVE  Size(n, unit) \in SizeTexts
  BY DEF Size, SizeTexts
<1>4. NoSize \in SizeTexts /\ NoDigits \in SizeTexts
  <2>1. Empty \in Units
    BY Zenon DEF Units
  <2> QED
    BY <2>1 DEF SizeTexts, NoDigits
<1>5. ASSUME NEW x \in Sizes
      PROVE  x \in {NoSize, NoDigits} \/
             \E n \in {0, 1, SizeMax \div Kilo, SizeMax \div Kilo + 1, SizeMax, SizeMax + 1},
                unit \in Units : x = Size(n, unit)
  BY DEF Sizes
<1> QED
  BY <1>2, <1>3, <1>4, <1>5

\* The lists an edit may write.
LEMMA FacilityListsAreLists == FacilityLists \subseteq Lists
<1> SUFFICES ASSUME NEW n \in 0..2, NEW q \in [1..n -> Tokens]
             PROVE  q \in Lists
  BY DEF FacilityLists
<1>1. n \in Nat
  OBVIOUS
<1>2. q \in Seq(Tokens)
  BY <1>1, SeqDef
<1> QED
  BY <1>2 DEF Lists

\* An edited section is a section.
LEMMA EditedServer ==
    ASSUME NEW sec \in ServerSections, NEW k \in DOMAIN ServerValues, NEW v \in ServerValues[k]
    PROVE  [sec EXCEPT ![k] = v] \in ServerSections
<1>0. /\ Ints({-1, 0, MaxPort, MaxPort + 1}) \subseteq NumberTexts
      /\ Ints({0, 1, KMaxWorkers, KMaxWorkers + 1}) \subseteq NumberTexts
  BY IntsAreTexts DEF MaxPort, KMaxWorkers
<1>1. k \in {"unknown_key", "host", "udp_port", "workers", "max_queue_bytes"}
  BY DEF ServerValues
<1>2. CASE k = "unknown_key"
  BY <1>2 DEF ServerSections, ServerValues
<1>3. CASE k = "host"
  BY <1>3 DEF ServerSections, ServerValues
<1>4. CASE k = "udp_port"
  BY <1>0, <1>4 DEF ServerSections, ServerValues
<1>5. CASE k = "workers"
  BY <1>0, <1>5 DEF ServerSections, ServerValues
<1>6. CASE k = "max_queue_bytes"
  BY <1>6, SizesAreTexts DEF ServerSections, ServerValues
<1> QED
  BY <1>1, <1>2, <1>3, <1>4, <1>5, <1>6

\* An edited output is an output.
LEMMA EditedOutput ==
    ASSUME NEW sec \in OutputSections, NEW k \in DOMAIN OutputValues, NEW v \in OutputValues[k]
    PROVE  [sec EXCEPT ![k] = v] \in OutputSections
<1>0. Ints({-1, 0, KMaxFilesLimit, KMaxFilesLimit + 1}) \subseteq NumberTexts
  BY IntsAreTexts DEF KMaxFilesLimit
<1>1. k \in {"unknown_key", "text_file", "jsonl_file", "max_size", "max_files", "facility",
             "exclude_facility", "include_malformed"}
  BY DEF OutputValues
<1>2. CASE k = "unknown_key"
  BY <1>2 DEF OutputSections, OutputValues
<1>3. CASE k = "text_file"
  BY <1>3 DEF OutputSections, OutputValues
<1>4. CASE k = "jsonl_file"
  BY <1>4 DEF OutputSections, OutputValues
<1>5. CASE k = "max_size"
  BY <1>5, SizesAreTexts DEF OutputSections, OutputValues
<1>6. CASE k = "max_files"
  BY <1>0, <1>6 DEF OutputSections, OutputValues
<1>7. CASE k = "facility"
  BY <1>7, FacilityListsAreLists DEF OutputSections, OutputValues
<1>8. CASE k = "exclude_facility"
  BY <1>8, FacilityListsAreLists DEF OutputSections, OutputValues
<1>9. CASE k = "include_malformed"
  BY <1>9 DEF OutputSections, OutputValues
<1> QED
  BY <1>1, <1>2, <1>3, <1>4, <1>5, <1>6, <1>7, <1>8, <1>9

\* An edited [forwarding] section is a [forwarding] section.
LEMMA EditedForwarding ==
    ASSUME NEW sec \in ForwardingSections, NEW k \in DOMAIN ForwardingValues,
           NEW v \in ForwardingValues[k]
    PROVE  [sec EXCEPT ![k] = v] \in ForwardingSections
<1>0. /\ Ints({0, 1, MaxPort, MaxPort + 1}) \subseteq NumberTexts
      /\ Ints({-1, 0, Uint32Max, Uint32Max + 1}) \subseteq NumberTexts
  BY IntsAreTexts, WidthsAssumption DEF MaxPort
<1>1. k \in {"unknown_key", "enabled", "host", "port", "max_message_size", "facility",
             "exclude_facility"}
  BY DEF ForwardingValues
<1>2. CASE k = "unknown_key"
  BY <1>2 DEF ForwardingSections, ForwardingValues
<1>3. CASE k = "enabled"
  BY <1>3 DEF ForwardingSections, ForwardingValues
<1>4. CASE k = "host"
  BY <1>4 DEF ForwardingSections, ForwardingValues
<1>5. CASE k = "port"
  BY <1>0, <1>5 DEF ForwardingSections, ForwardingValues
<1>6. CASE k = "max_message_size"
  BY <1>0, <1>6 DEF ForwardingSections, ForwardingValues
<1>7. CASE k = "facility"
  BY <1>7, FacilityListsAreLists DEF ForwardingSections, ForwardingValues
<1>8. CASE k = "exclude_facility"
  BY <1>8, FacilityListsAreLists DEF ForwardingSections, ForwardingValues
<1> QED
  BY <1>1, <1>2, <1>3, <1>4, <1>5, <1>6, <1>7, <1>8

\* The values of the first file are texts.
LEMMA SimpleTexts ==
    /\ NoSize \in SizeTexts /\ Absent \in NumberTexts /\ "absent" \in Bools
    /\ "v4" \in Hosts /\ Empty \in Hosts /\ Empty \in Names
    /\ <<"*">> \in Lists /\ <<>> \in Lists
<1>1. NoSize \in SizeTexts /\ Empty \in Names
  BY Zenon DEF SizeTexts, Names
<1>2. Absent \in NumberTexts
  BY DEF Absent, NumberTexts
<1>3. "v4" \in Hosts /\ Empty \in Hosts /\ "absent" \in Bools /\ "*" \in Tokens
  BY Zenon DEF Hosts, Bools, Tokens
<1>4. <<"*">> \in Lists /\ <<>> \in Lists
  BY <1>3 DEF Lists
<1> QED
  BY <1>1, <1>2, <1>3, <1>4

\* An output of the first file is a section.
LEMMA OutputIsSection ==
    ASSUME NEW p \in Names
    PROVE  Output(p) \in OutputSections
BY SimpleTexts DEF Output, OutputSections

\* A first file is a file.
LEMMA FirstFileIsFile == \A p \in Paths : FirstFile(p) \in Files
<1> SUFFICES ASSUME NEW p \in Paths
             PROVE  FirstFile(p) \in Files
  OBVIOUS
<1>1. p \in Names
  BY DEF Names
<1>2. <<Output(p)>> \in Seq(OutputSections)
  BY <1>1, OutputIsSection
<1>3. FirstFile(p) =
        [server |-> [unknown_key |-> FALSE, host |-> "v4", udp_port |-> Absent,
                     workers |-> Absent, max_queue_bytes |-> NoSize],
         outputs |-> <<Output(p)>>,
         web_viewer |-> [unknown_key |-> FALSE],
         forwarding |-> [unknown_key |-> FALSE, enabled |-> "absent", host |-> Empty,
                         port |-> Absent, max_message_size |-> Absent, facility |-> <<"*">>,
                         exclude_facility |-> <<>>]]
  BY DEF FirstFile
<1> QED
  BY <1>2, <1>3, SimpleTexts DEF Files, ServerSections, ForwardingSections

\* Every edit leaves a file.
LEMMA FilesStep == file \in Files /\ [Next]_vars => file' \in Files
<1> SUFFICES ASSUME file \in Files, [Next]_vars
             PROVE  file' \in Files
  OBVIOUS
<1>1. CASE EditServer
  <2>1. PICK k \in DOMAIN ServerValues : \E v \in ServerValues[k] :
          file' = [file EXCEPT !.server[k] = v]
    BY <1>1 DEF EditServer, Edit
  <2>2. PICK v \in ServerValues[k] : file' = [file EXCEPT !.server[k] = v]
    BY <2>1
  <2>3. file.server \in ServerSections
    BY DEF Files
  <2>4. PICK sec \in ServerSections : sec = [file.server EXCEPT ![k] = v]
    BY <2>3, EditedServer
  <2>5. file' = [file EXCEPT !.server = sec]
    BY <2>2, <2>4 DEF Files
  <2> QED
    BY <2>5 DEF Files
<1>2. CASE EditOutput
  <2>1. PICK i \in DOMAIN file.outputs, k \in DOMAIN OutputValues : \E v \in OutputValues[k] :
          file' = [file EXCEPT !.outputs[i][k] = v]
    BY <1>2 DEF EditOutput, Edit
  <2>2. PICK v \in OutputValues[k] : file' = [file EXCEPT !.outputs[i][k] = v]
    BY <2>1
  <2>3. file.outputs \in Seq(OutputSections) /\ file.outputs[i] \in OutputSections
    BY DEF Files
  <2>4. PICK sec \in OutputSections : sec = [file.outputs[i] EXCEPT ![k] = v]
    BY <2>3, EditedOutput
  <2>5. file' = [file EXCEPT !.outputs = [file.outputs EXCEPT ![i] = sec]]
    BY <2>2, <2>4 DEF Files
  <2>6. [file.outputs EXCEPT ![i] = sec] \in Seq(OutputSections)
    BY <2>3
  <2> QED
    BY <2>5, <2>6 DEF Files
<1>3. CASE EditForwarding
  <2>1. PICK k \in DOMAIN ForwardingValues : \E v \in ForwardingValues[k] :
          file' = [file EXCEPT !.forwarding[k] = v]
    BY <1>3 DEF EditForwarding, Edit
  <2>2. PICK v \in ForwardingValues[k] : file' = [file EXCEPT !.forwarding[k] = v]
    BY <2>1
  <2>3. file.forwarding \in ForwardingSections
    BY DEF Files
  <2>4. PICK sec \in ForwardingSections : sec = [file.forwarding EXCEPT ![k] = v]
    BY <2>3, EditedForwarding
  <2>5. file' = [file EXCEPT !.forwarding = sec]
    BY <2>2, <2>4 DEF Files
  <2> QED
    BY <2>5 DEF Files
<1>4. CASE EditViewer
  <2>1. PICK b \in BOOLEAN : b = ~file.web_viewer.unknown_key
    OBVIOUS
  <2>2. file' = [file EXCEPT !.web_viewer.unknown_key = b]
    BY <1>4, <2>1, Zenon DEF EditViewer, Edit
  <2> QED
    BY <2>2 DEF Files
<1>5. CASE AddOutput
  <2>1. PICK p \in Paths : file' = [file EXCEPT !.outputs = Append(@, Output(p))]
    BY <1>5 DEF AddOutput, Edit
  <2>2. Output(p) \in OutputSections
    BY OutputIsSection DEF Names
  <2> QED
    BY <2>1, <2>2 DEF Files
<1>6. CASE RemoveOutput
  BY <1>6 DEF RemoveOutput, Edit, Files
<1>7. CASE Load \/ UNCHANGED vars
  BY <1>7 DEF Load, vars
<1> QED
  BY <1>1, <1>2, <1>3, <1>4, <1>5, <1>6, <1>7 DEF Next
-----------------------------------------------------------------------------
(***************************************************************************)
(* What is loaded.                                                         *)
(***************************************************************************)

\* Only a complete file is loaded, and it is not edited any more.
LoadedInv ==
    /\ file \in Files
    /\ \/ platform = "none" /\ loaded = {}
       \/ platform \in Platforms /\ loaded = LoadConfig(file, platform)

\* The inductive invariant holds.
LEMMA LoadedAlways == Spec => []LoadedInv
<1>1. Init => LoadedInv
  BY FirstFileIsFile DEF Init, LoadedInv
<1>2. LoadedInv /\ [Next]_vars => LoadedInv'
  <2> SUFFICES ASSUME LoadedInv, [Next]_vars
               PROVE  LoadedInv'
    OBVIOUS
  <2>1. file' \in Files
    BY FilesStep DEF LoadedInv
  <2>2. CASE Load
    BY <2>1, <2>2 DEF LoadedInv, Load
  <2>3. CASE UNCHANGED vars
    BY <2>1, <2>3 DEF LoadedInv, vars
  <2>4. CASE platform = "none" /\ UNCHANGED <<platform, loaded>>
    BY <2>1, <2>4 DEF LoadedInv, Platforms
  <2> QED
    BY <2>2, <2>3, <2>4 DEF Next, EditServer, EditOutput, EditForwarding, EditViewer,
                            AddOutput, RemoveOutput, Edit
<1> QED
  BY <1>1, <1>2, PTL DEF Spec

\* The parts of a configuration come from the parts of the file.
LEMMA LoadedParts ==
    ASSUME NEW f \in Files, NEW os \in Platforms, NEW cfg \in LoadConfig(f, os)
    PROVE  /\ f.outputs # <<>> /\ RequireDistinctFiles(f.outputs)
           /\ f.outputs \in Seq(OutputSections)
           /\ f.server \in ServerSections /\ f.forwarding \in ForwardingSections
           /\ cfg.server \in LoadServer(f.server, os)
           /\ cfg.forwarding \in LoadForwarding(f.forwarding, os)
           /\ DOMAIN cfg.outputs = DOMAIN f.outputs
           /\ \A i \in DOMAIN f.outputs : cfg.outputs[i] \in ParseOutput(f.outputs[i], os)
<1>1. ~(\/ f.outputs = <<>>
        \/ \E i \in DOMAIN f.outputs : ParseOutput(f.outputs[i], os) = {}
        \/ ~RequireDistinctFiles(f.outputs)
        \/ ~RequireKnownKeys(f.web_viewer))
  BY Zenon DEF LoadConfig
<1>2. /\ cfg.server \in LoadServer(f.server, os)
      /\ cfg.forwarding \in LoadForwarding(f.forwarding, os)
      /\ cfg.outputs \in
            {[i \in DOMAIN f.outputs |-> CHOOSE out \in ParseOutput(f.outputs[i], os) : TRUE]}
  BY <1>1, Zenon DEF LoadConfig
<1>3. cfg.outputs = [i \in DOMAIN f.outputs |-> CHOOSE out \in ParseOutput(f.outputs[i], os) : TRUE]
  BY <1>2, Zenon
<1>4. ASSUME NEW i \in DOMAIN f.outputs
      PROVE  cfg.outputs[i] \in ParseOutput(f.outputs[i], os)
  <2>1. ParseOutput(f.outputs[i], os) # {}
    BY <1>1, Zenon
  <2>2. cfg.outputs[i] = CHOOSE out \in ParseOutput(f.outputs[i], os) : TRUE
    BY <1>3, Zenon
  <2>3. PICK S : S = ParseOutput(f.outputs[i], os)
    OBVIOUS
  <2>4. (CHOOSE out \in S : TRUE) \in S
    BY <2>1, <2>3, Zenon
  <2> QED
    BY <2>2, <2>3, <2>4, Zenon
<1>5. DOMAIN cfg.outputs = DOMAIN f.outputs
  BY <1>3, Zenon
<1>6. /\ f.outputs \in Seq(OutputSections) /\ f.server \in ServerSections
      /\ f.forwarding \in ForwardingSections
  BY Zenon DEF Files
<1> QED
  BY <1>1, <1>2, <1>4, <1>5, <1>6, Zenon

\* Numbers, sizes, switches and facilities of a server that runs are those of
\* its file: nothing is wrapped, cut or replaced, for integers of any width and
\* files with any numbers, sizes and lists.
THEOREM AlwaysWhatTheFileSays == Spec => []WhatTheFileSays
<1>1. ASSUME LoadedInv, NEW cfg \in loaded
      PROVE  /\ cfg.server.udp_port = Written(file.server.udp_port, DefaultPort)
             /\ cfg.server.workers = Written(file.server.workers, 4)
             /\ cfg.server.max_queue_bytes = WrittenSize(file.server.max_queue_bytes,
                                                        DefaultQueueBytes)
             /\ cfg.forwarding.max_message_size = Written(file.forwarding.max_message_size,
                                                         DefaultMessageSize)
             /\ cfg.forwarding.port = Written(file.forwarding.port, DefaultPort)
             /\ cfg.forwarding.enabled = WrittenBool(file.forwarding.enabled, "false")
             /\ \A f \in Facilities :
                  FacilityMatches(cfg.forwarding.facility, cfg.forwarding.exclude_facility, f)
                    = Selects(file.forwarding, f)
             /\ \A i \in DOMAIN file.outputs :
                  /\ cfg.outputs[i].max_size = WrittenSize(file.outputs[i].max_size, 0)
                  /\ cfg.outputs[i].max_files = Written(file.outputs[i].max_files, 10)
                  /\ cfg.outputs[i].include_malformed
                       = WrittenBool(file.outputs[i].include_malformed, "true")
                  /\ \A f \in Facilities :
                       FacilityMatches(cfg.outputs[i].facility, cfg.outputs[i].exclude_facility, f)
                         = Selects(file.outputs[i], f)
  <2>1. PICK os \in Platforms : file \in Files /\ cfg \in LoadConfig(file, os)
    BY <1>1, Zenon DEF LoadedInv
  <2>2. /\ file.outputs \in Seq(OutputSections)
        /\ file.server \in ServerSections /\ file.forwarding \in ForwardingSections
        /\ cfg.server \in LoadServer(file.server, os)
        /\ cfg.forwarding \in LoadForwarding(file.forwarding, os)
        /\ \A i \in DOMAIN file.outputs : cfg.outputs[i] \in ParseOutput(file.outputs[i], os)
    BY <2>1, LoadedParts, Zenon
  <2>3. /\ cfg.server.udp_port = Written(file.server.udp_port, DefaultPort)
        /\ cfg.server.workers = Written(file.server.workers, 4)
        /\ cfg.server.max_queue_bytes = WrittenSize(file.server.max_queue_bytes,
                                                   DefaultQueueBytes)
    BY <2>2, ServerSays, Zenon
  <2>4. /\ cfg.forwarding.max_message_size = Written(file.forwarding.max_message_size,
                                                    DefaultMessageSize)
        /\ cfg.forwarding.port = Written(file.forwarding.port, DefaultPort)
        /\ cfg.forwarding.enabled = WrittenBool(file.forwarding.enabled, "false")
        /\ cfg.forwarding.facility \in ParseFacilities(file.forwarding.facility)
        /\ cfg.forwarding.exclude_facility
             \in ParseExcludedFacilities(file.forwarding.exclude_facility)
    BY <2>2, ForwardingSays, Zenon
  <2>5. ASSUME NEW f \in Facilities
        PROVE  FacilityMatches(cfg.forwarding.facility, cfg.forwarding.exclude_facility, f)
                 = Selects(file.forwarding, f)
    <3>1. file.forwarding.facility \in Lists /\ file.forwarding.exclude_facility \in Lists
      BY <2>2, Zenon DEF ForwardingSections
    <3> QED
      BY <2>4, <3>1, FacilitiesSay, Zenon
  <2>6. ASSUME NEW i \in DOMAIN file.outputs
        PROVE  /\ cfg.outputs[i].max_size = WrittenSize(file.outputs[i].max_size, 0)
               /\ cfg.outputs[i].max_files = Written(file.outputs[i].max_files, 10)
               /\ cfg.outputs[i].include_malformed
                    = WrittenBool(file.outputs[i].include_malformed, "true")
               /\ \A f \in Facilities :
                    FacilityMatches(cfg.outputs[i].facility, cfg.outputs[i].exclude_facility, f)
                      = Selects(file.outputs[i], f)
    <3>1. file.outputs[i] \in OutputSections
      BY <2>2
    <3>2. cfg.outputs[i] \in ParseOutput(file.outputs[i], os)
      BY <2>2
    <3>3. /\ cfg.outputs[i].max_size = WrittenSize(file.outputs[i].max_size, 0)
          /\ cfg.outputs[i].max_files = Written(file.outputs[i].max_files, 10)
          /\ cfg.outputs[i].include_malformed
               = WrittenBool(file.outputs[i].include_malformed, "true")
          /\ cfg.outputs[i].facility \in ParseFacilities(file.outputs[i].facility)
          /\ cfg.outputs[i].exclude_facility
               \in ParseExcludedFacilities(file.outputs[i].exclude_facility)
      BY <3>1, <3>2, OutputSays, Zenon
    <3>4. file.outputs[i].facility \in Lists /\ file.outputs[i].exclude_facility \in Lists
      BY <3>1, Zenon DEF OutputSections
    <3>5. \A f \in Facilities :
            FacilityMatches(cfg.outputs[i].facility, cfg.outputs[i].exclude_facility, f)
              = Selects(file.outputs[i], f)
      BY <3>3, <3>4, FacilitiesSay, Zenon
    <3> QED
      BY <3>3, <3>5, Zenon
  <2> QED
    BY <2>3, <2>4, <2>5, <2>6, Zenon
<1>2. LoadedInv => WhatTheFileSays
  BY <1>1, Zenon DEF WhatTheFileSays
<1> QED
  BY LoadedAlways, <1>2, PTL

\* What the rest of the server takes for granted of a configuration holds of
\* every one that is accepted.
THEOREM AlwaysRunnableConfig == Spec => []RunnableConfig
<1>1. ASSUME LoadedInv, NEW cfg \in loaded
      PROVE  /\ cfg.outputs # <<>>
             /\ \A i \in DOMAIN cfg.outputs :
                 LET out == cfg.outputs[i]
                 IN /\ PathsOf(out) # {} /\ PathsOf(out) \subseteq AbsolutePaths(platform)
                    /\ out.text_file # out.jsonl_file
                    /\ out.max_files \in 0..KMaxFilesLimit /\ out.max_size \in 0..SizeMax
                    /\ \A j \in DOMAIN cfg.outputs \ {i} :
                         PathsOf(cfg.outputs[j]) \cap PathsOf(out) = {}
             /\ cfg.server.workers \in 1..KMaxWorkers
             /\ cfg.server.max_queue_bytes \in 1..SizeMax
             /\ cfg.forwarding.enabled => cfg.forwarding.host \in {"v4", "v6", "name"}
  <2>1. PICK os \in Platforms : os = platform /\ file \in Files /\ cfg \in LoadConfig(file, os)
    BY <1>1, Zenon DEF LoadedInv
  <2>2. /\ file.outputs # <<>> /\ RequireDistinctFiles(file.outputs)
        /\ file.outputs \in Seq(OutputSections)
        /\ file.server \in ServerSections /\ file.forwarding \in ForwardingSections
        /\ cfg.server \in LoadServer(file.server, os)
        /\ cfg.forwarding \in LoadForwarding(file.forwarding, os)
        /\ DOMAIN cfg.outputs = DOMAIN file.outputs
        /\ \A i \in DOMAIN file.outputs : cfg.outputs[i] \in ParseOutput(file.outputs[i], os)
    BY <2>1, LoadedParts, Zenon
  <2>3. cfg.server.workers \in 1..KMaxWorkers /\ cfg.server.max_queue_bytes \in 1..SizeMax
    BY <2>2, ServerSays, Zenon
  <2>4. cfg.forwarding.enabled => cfg.forwarding.host \in {"v4", "v6", "name"}
    BY <2>2, ForwardingSays, Zenon
  <2>5. cfg.outputs # <<>>
    <3>1. 1 \in DOMAIN file.outputs
      BY <2>2
    <3>2. 1 \notin DOMAIN <<>>
      OBVIOUS
    <3> QED
      BY <2>2, <3>1, <3>2, Zenon
  <2>6. ASSUME NEW i \in DOMAIN cfg.outputs
        PROVE  /\ PathsOf(cfg.outputs[i]) = PathsOf(file.outputs[i])
               /\ PathsOf(cfg.outputs[i]) # {} /\ PathsOf(cfg.outputs[i]) \subseteq AbsolutePaths(os)
               /\ cfg.outputs[i].text_file # cfg.outputs[i].jsonl_file
               /\ cfg.outputs[i].max_files \in 0..KMaxFilesLimit
               /\ cfg.outputs[i].max_size \in 0..SizeMax
    <3>1. i \in DOMAIN file.outputs
      BY <2>2, Zenon
    <3>2. file.outputs[i] \in OutputSections /\ cfg.outputs[i] \in ParseOutput(file.outputs[i], os)
      BY <2>2, <3>1
    <3>3. /\ cfg.outputs[i].text_file = file.outputs[i].text_file
          /\ cfg.outputs[i].jsonl_file = file.outputs[i].jsonl_file
          /\ PathsOf(file.outputs[i]) # {} /\ PathsOf(file.outputs[i]) \subseteq AbsolutePaths(os)
          /\ file.outputs[i].text_file # file.outputs[i].jsonl_file
          /\ cfg.outputs[i].max_size \in 0..SizeMax
          /\ cfg.outputs[i].max_files \in 0..KMaxFilesLimit
      BY <3>2, OutputSays, Zenon
    <3>4. PathsOf(cfg.outputs[i]) = PathsOf(file.outputs[i])
      BY <3>3, Zenon DEF PathsOf
    <3> QED
      BY <3>3, <3>4, Zenon
  <2>7. ASSUME NEW i \in DOMAIN cfg.outputs, NEW j \in DOMAIN cfg.outputs \ {i}
        PROVE  PathsOf(cfg.outputs[j]) \cap PathsOf(cfg.outputs[i]) = {}
    <3>1. i \in DOMAIN file.outputs /\ j \in DOMAIN file.outputs /\ i # j
      BY <2>2, Zenon
    <3>2. i < j \/ j < i
      BY <2>2, <3>1
    <3>3. PathsOf(file.outputs[j]) \cap PathsOf(file.outputs[i]) = {}
      BY <2>2, <3>1, <3>2 DEF RequireDistinctFiles
    <3>4. /\ PathsOf(cfg.outputs[i]) = PathsOf(file.outputs[i])
          /\ PathsOf(cfg.outputs[j]) = PathsOf(file.outputs[j])
      BY <2>6, Zenon
    <3> QED
      BY <3>3, <3>4, Zenon
  <2> QED
    BY <2>1, <2>3, <2>4, <2>5, <2>6, <2>7, Zenon
<1>2. LoadedInv => RunnableConfig
  BY <1>1, Zenon DEF RunnableConfig
<1> QED
  BY LoadedAlways, <1>2, PTL

\* The address check decides alike on both platforms, whatever make_address()
\* accepts on each.
LEMMA SameAddress ==
    ASSUME NEW host
    PROVE  RequireAddress(host, "windows") <=> RequireAddress(host, "linux")
BY Zenon DEF RequireAddress, MakeAddress, Bracketed, WithColon, IsV4

\* So does the check of a destination.
LEMMA SameDestination ==
    ASSUME NEW host
    PROVE  RequireDestinationHost(host, "windows") <=> RequireDestinationHost(host, "linux")
BY Zenon DEF RequireDestinationHost, MakeAddress, Bracketed, WithColon, IsV4

\* An output whose files are absolute paths on both is read alike.
LEMMA SameOutput ==
    ASSUME NEW out, PathsOf(out) \subseteq AbsolutePaths("windows"),
           PathsOf(out) \subseteq AbsolutePaths("linux")
    PROVE  ParseOutput(out, "windows") = ParseOutput(out, "linux")
<1>1. /\ \A path \in PathsOf(out) : RequireAbsolutePath(path, "windows")
      /\ \A path \in PathsOf(out) : RequireAbsolutePath(path, "linux")
  BY DEF RequireAbsolutePath
<1> QED
  BY <1>1, Zenon DEF ParseOutput

\* A file with a path that is not absolute is refused.
LEMMA RelativeRefused ==
    ASSUME NEW f, NEW os, ~AbsoluteOn(f, os)
    PROVE  LoadConfig(f, os) = {}
<1>1. PICK i \in DOMAIN f.outputs :
        \E path \in PathsOf(f.outputs[i]) : ~RequireAbsolutePath(path, os)
  BY DEF AbsoluteOn, RequireAbsolutePath
<1>2. ParseOutput(f.outputs[i], os) = {}
  BY <1>1, Zenon DEF ParseOutput
<1> QED
  BY <1>2, Zenon DEF LoadConfig

\* So does loadConfig(), for every file whose paths are absolute on both
\* platforms or on neither.
LEMMA SameConfig ==
    ASSUME NEW f, AbsoluteOn(f, "windows") <=> AbsoluteOn(f, "linux")
    PROVE  LoadConfig(f, "windows") = LoadConfig(f, "linux")
<1>1. LoadServer(f.server, "windows") = LoadServer(f.server, "linux")
  BY SameAddress, Zenon DEF LoadServer
<1>2. LoadForwarding(f.forwarding, "windows") = LoadForwarding(f.forwarding, "linux")
  <2>1. ASSUME NEW fwd
        PROVE  fwd \in LoadForwarding(f.forwarding, "windows")
                 <=> fwd \in LoadForwarding(f.forwarding, "linux")
    BY SameDestination, Zenon DEF LoadForwarding
  <2> QED
    BY <2>1
<1>3. CASE AbsoluteOn(f, "windows")
  <2>1. \A i \in DOMAIN f.outputs :
          /\ PathsOf(f.outputs[i]) \subseteq AbsolutePaths("windows")
          /\ PathsOf(f.outputs[i]) \subseteq AbsolutePaths("linux")
    BY <1>3, Zenon DEF AbsoluteOn
  <2>2. \A i \in DOMAIN f.outputs :
          ParseOutput(f.outputs[i], "windows") = ParseOutput(f.outputs[i], "linux")
    BY <2>1, SameOutput, Zenon
  <2>3. [i \in DOMAIN f.outputs |-> CHOOSE out \in ParseOutput(f.outputs[i], "windows") : TRUE]
          = [i \in DOMAIN f.outputs |-> CHOOSE out \in ParseOutput(f.outputs[i], "linux") : TRUE]
    <3>1. ASSUME NEW i \in DOMAIN f.outputs
          PROVE  (CHOOSE out \in ParseOutput(f.outputs[i], "windows") : TRUE)
                   = (CHOOSE out \in ParseOutput(f.outputs[i], "linux") : TRUE)
      <4>1. PICK S : S = ParseOutput(f.outputs[i], "windows")
        OBVIOUS
      <4>2. S = ParseOutput(f.outputs[i], "linux")
        BY <2>2, <4>1, Zenon
      <4> QED
        BY <4>1, <4>2, Zenon
    <3> DEFINE W(i) == CHOOSE out \in ParseOutput(f.outputs[i], "windows") : TRUE
               L(i) == CHOOSE out \in ParseOutput(f.outputs[i], "linux") : TRUE
    <3>2. \A i \in DOMAIN f.outputs : W(i) = L(i)
      BY <3>1, Zenon
    <3> HIDE DEF W, L
    <3>3. [i \in DOMAIN f.outputs |-> W(i)] = [i \in DOMAIN f.outputs |-> L(i)]
      BY <3>2
    <3> QED
      BY <3>3 DEF W, L
  <2>4. (\E i \in DOMAIN f.outputs : ParseOutput(f.outputs[i], "windows") = {})
          <=> (\E i \in DOMAIN f.outputs : ParseOutput(f.outputs[i], "linux") = {})
    BY <2>2, Zenon
  <2> QED
    BY <1>1, <1>2, <2>3, <2>4, Zenon DEF LoadConfig
<1>4. CASE ~AbsoluteOn(f, "windows")
  BY <1>4, RelativeRefused, Zenon
<1> QED
  BY <1>3, <1>4

\* Of the files there are, those whose paths are absolute on both platforms or
\* on neither are accepted on both or on neither, and mean the same, though an
\* address of Windows may carry a port.
THEOREM AlwaysSameEverywhere == Spec => []SameEverywhere
<1>1. ASSUME LoadedInv
      PROVE  SameEverywhere
  <2>1. \A os \in Platforms : os = "linux" \/ os = "windows"
    BY DEF Platforms
  <2> QED
    BY <1>1, <2>1, SameConfig, Zenon DEF LoadedInv, SameEverywhere
<1> QED
  BY LoadedAlways, <1>1, PTL
=============================================================================
