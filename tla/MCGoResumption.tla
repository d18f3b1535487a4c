--------------------------- MODULE MCGoResumption ---------------------------
(***************************************************************************)
(* GoResumption for TLC: a certificate that may expire before, between and *)
(* after the first two dials.                                              *)
(***************************************************************************)
EXTENDS GoResumption

MCLife == 1
MCMargin == 1
MCHorizon == 5
=============================================================================
