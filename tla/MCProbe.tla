------------------------------ MODULE MCProbe ------------------------------
(***************************************************************************)
(* Probe for TLC: panels of one and of two hosts.                          *)
(***************************************************************************)
EXTENDS ProbeQuestion, ProbeInvariant, ProbeReport, TLC

CONSTANTS h1, h2

OneHost  == <<h1>>
TwoHosts == <<h1, h2>>

OneAddress   == {1}
TwoAddresses == {1, 2}

\* Directory names are interchangeable: nothing orders or compares them.
DirSymmetry == Permutations(Dirs)
=============================================================================
