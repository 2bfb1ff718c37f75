------------------------------- MODULE MCWire -------------------------------
(***************************************************************************)
(* Wire for TLC: command lines in which every field in turn takes every    *)
(* shape, and all short datagrams over the bytes at which the code takes   *)
(* another turn.                                                           *)
(***************************************************************************)
EXTENDS Wire

TextsOf(bytes, n) == UNION {[1..k -> bytes] : k \in 0..n}

Names == {<<97>>, <<DASH>>, <<97, COLON>>, <<97, OPEN, 98, CLOSE>>, <<97, SP, 98>>, <<>>,
          <<97, 98, 97, 98, 97>>}
Bodies == TextsOf({97, SP, COLON, OPEN, CR, LF, DASH}, 3)

Base ==
    [help |-> FALSE, host |-> "host", port |-> 514, facility |-> 1, severity |-> 6,
     hostname |-> <<104>>, app |-> <<97>>, pid |-> <<49>>, msgid |-> Nil, rfc3164 |-> FALSE,
     words |-> <<<<120>>>>, stdin |-> <<>>, day |-> 9]

MCOptionSets ==
    UNION {
        {[Base EXCEPT !.hostname = h, !.app = a, !.pid = p, !.msgid = m, !.rfc3164 = r] :
            h \in Names, a \in Names, p \in Names \cup {Nil}, m \in {Nil, <<97>>, <<DASH>>, <<>>},
            r \in BOOLEAN},
        {[Base EXCEPT !.words = <<b>>, !.rfc3164 = r] : b \in Bodies, r \in BOOLEAN},
        {[Base EXCEPT !.words = w] : w \in {<<<<>>>>, <<<<>>, <<97>>>>, <<<<97>>, <<97>>>>}},
        {[Base EXCEPT !.words = <<>>, !.stdin = b, !.rfc3164 = r] :
            b \in TextsOf({97, CR, LF}, 6), r \in BOOLEAN},
        {[Base EXCEPT !.port = p, !.facility = f, !.severity = s] :
            p \in {0, 1, 65535, 65536}, f \in {0, 23, 24}, s \in {0, 7, 8}},
        {[Base EXCEPT !.rfc3164 = TRUE, !.day = d] : d \in 1..31},
        {[Base EXCEPT !.hostname = Nil]},
        {[Base EXCEPT !.help = TRUE, !.host = ""], [Base EXCEPT !.host = ""],
         [Base EXCEPT !.words = <<>>, !.pid = <<SP>>]}}

MCHostNames == {<<109>>, <<>>, <<109, SP>>}

MCRawDatagrams ==
    UNION {
        TextsOf({97, 128, 143, 144, 159, 160, 191, 193, 194, 224, 237, 240, 244, 245}, 4),
        TextsOf({97, LF, CR, TAB, 27, 127, BACKSLASH, 110, 120, 117, Hex2(27), Hex4(155), 194,
               155}, 3),
        {<<Pri(13)>> \o head \o t : head \in {<<Month, SP, 49, SP, Clock>>, <<Version(1)>>,
                                             <<Version(2)>>},
            t \in TextsOf({SP, 97, COLON, OPEN, CLOSE, DASH}, 5)},
        {<<Pri(13), Month>> \o t : t \in TextsOf({SP, 48, 51, 50, Clock, BadClock}, 6)},
        {<<Pri(p), Version(1), SP, 97, SP, 97, SP, 97, SP, 97, SP, 97>> : p \in {0, 191, 192}}}
=============================================================================
