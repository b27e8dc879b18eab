---------------------------- MODULE MC_DirectRoute ----------------------------
(* Instances of DirectRoute: one call that is split in two requests, with two *)
(* keys to walk; and two calls of one request that compete for one key.       *)
EXTENDS DirectRoute
CONSTANTS c1, c2

Split == [c \in Call |-> 2]
Whole == [c \in Call |-> 1]
\* The order of c2 is above the limit of images per minute.
Order == [c \in Call |-> IF c = c2 THEN 3 ELSE 1]
Two == [c \in Call |-> 2]
\* c1 turns out cheaper than expected, c2 dearer.
Bills == [c \in Call |-> IF c = c2 THEN {3} ELSE {1}]
Budgets == [k \in Key |-> IF k = 1 THEN 3 ELSE 2]
==============================================================================
