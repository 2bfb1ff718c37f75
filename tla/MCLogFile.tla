----------------------------- MODULE MCLogFile -----------------------------
(***************************************************************************)
(* Values of LogFile's constants for TLC.                                  *)
(***************************************************************************)
EXTENDS LogFile

\* Two bytes are enough for a line to be cut short.
TwoByteLines == [f \in Files |-> 2]
=============================================================================
