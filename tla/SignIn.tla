-------------------------------- MODULE SignIn --------------------------------
(***************************************************************************)
(* What a sign-in promises, whatever becomes of requests and answers: a    *)
(* request to renew it renews it once; a renewal puts the pass that was    *)
(* accepted before out of use; and once the sign-in has ended it is never  *)
(* renewed, and no pass of it is accepted.                                 *)
(***************************************************************************)
EXTENDS Naturals, Sequences

CONSTANTS Request, Nobody

VARIABLES
    ended,
    renewals,   \* the requests that renewed it; Nobody for a change of password
    accepted    \* the passes that are accepted, by the renewal that gave them

Init == ended = FALSE /\ renewals = <<Nobody>> /\ accepted = {1}

Renew(r) ==
    /\ ~ended
    /\ \A i \in DOMAIN renewals : renewals[i] # r
    /\ renewals' = Append(renewals, r)
    /\ accepted' = {Len(renewals) + 1}
    /\ UNCHANGED ended

\* A change of password replaces what the sign-in is renewed with, not its pass.
Replace ==
    /\ ~ended /\ accepted # {}
    /\ renewals' = Append(renewals, Nobody)
    /\ UNCHANGED <<ended, accepted>>

Lapse == accepted' = {} /\ UNCHANGED <<ended, renewals>>

End == ended' = TRUE /\ accepted' = {} /\ UNCHANGED renewals

Next == Replace \/ Lapse \/ End \/ \E r \in Request : Renew(r)

Spec == Init /\ [][Next]_<<ended, renewals, accepted>>
===============================================================================
