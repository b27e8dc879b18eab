---------------------------- MODULE MC_AgentInbox -----------------------------
(* Small instances of AgentInbox. *)
EXTENDS AgentInbox

CONSTANTS m1, m2, i1, i2
=============================================================================
