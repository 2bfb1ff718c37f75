---------------------------- MODULE MCForwarder ----------------------------
(***************************************************************************)
(* Values of Forwarder's constants for TLC.                                *)
(***************************************************************************)
EXTENDS Forwarder

AllFacilities == {1, 2, NoFacility}
=============================================================================
