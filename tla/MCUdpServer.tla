---------------------------- MODULE MCUdpServer ----------------------------
(***************************************************************************)
(* Values of UdpServer's constants for TLC.                                *)
(***************************************************************************)
EXTENDS UdpServer, TLC

CONSTANTS t1, t2

\* One facility goes to both sinks, another to the second one only.
TwoRoutes == {{1, 2}, {2}}

\* The threads of the pool are interchangeable.
ThreadSymmetry == Permutations(Threads)
=============================================================================
