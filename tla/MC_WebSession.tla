---------------------------- MODULE MC_WebSession -----------------------------
(* Instance of WebSession: the tabs and keys are interchangeable.              *)
EXTENDS WebSession, TLC

Interchangeable == Permutations(Tab) \cup Permutations(Key)

\* Bound: once the sign-in cannot be renewed, what was on its way goes on, but nothing
\* new is begun.
NothingNewAfterTheEnd == Renewable \/ \A t \in Tab : Busy(t)' => Busy(t)

\* Bound: at most one operation at a time that is not a renewal, and none while a request
\* that nobody waits for is on its way.
FewAtOnce == Cardinality({t \in Tab : tab'[t].op # "refresh"}) + Cardinality(stray') <= 1
===============================================================================
