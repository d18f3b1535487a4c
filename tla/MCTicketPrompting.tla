-------------------------- MODULE MCTicketPrompting --------------------------
(* Two panels that share a host, and an edit that adds or removes another.  *)
EXTENDS TicketPrompting

CONSTANTS h1, h2, old, new

MCPanels == {old, new}
MCHostsIn(p) == IF p = old THEN {h1} ELSE {h1, h2}
=============================================================================
