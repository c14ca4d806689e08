-------------------------------- MODULE MCPortal --------------------------------
(* Model-checking instance of Portal. *)
EXTENDS Portal

CONSTANTS anna, boris, vera, r1, r2, m1, m2, d1, d2, phone, outage

MCUsers == {anna, boris, vera}
MCAdministrators == {anna, boris}
MCRequests == {r1, r2}
MCMessages == {m1, m2}
MCDeletions == {d1, d2}
MCEndpoints == {phone}
MCEvents == {outage}
MCFirst == [is |-> m1, asks |-> d1, from |-> anna, to |-> boris]

\* A conversation, one whose recipient has asked to delete it, an incident that opens, and
\* logins, each with few other requests.
MCStart == {[ops |-> 1, turns |-> 2, device |-> NoUser, event |-> "mailed", asked |-> FALSE],
            [ops |-> 1, turns |-> 2, device |-> NoUser, event |-> "mailed", asked |-> TRUE],
            [ops |-> 2, turns |-> 2, device |-> boris, event |-> "due", asked |-> FALSE],
            [ops |-> 2, turns |-> 0, device |-> NoUser, event |-> "mailed", asked |-> FALSE]}
=============================================================================
