---------------------------- MODULE MCConnection ----------------------------
(***************************************************************************)
(* Connection for TLC.  The times let every order of the end of the hold,  *)
(* the deadline and the handshake happen: the clock reaches one tick past  *)
(* the deadline of an s_client started at once, and a hold may end before, *)
(* at and after the handshake.                                             *)
(***************************************************************************)
EXTENDS Connection

MCHold    == 2
MCTimeout == 3
MCHorizon == 4
=============================================================================
