--------------------------- MODULE IncidentPromise ---------------------------
(***************************************************************************)
(* What the incident service promises to those who read its letters.  A    *)
(* stream is what can fail on its own: the availability of an object, a    *)
(* service of it, the certificate of that service.  A stream has at most   *)
(* one incident at a time and an incident belongs to one episode of one    *)
(* stream.  Its opening letter comes while it lasts, its recovery letter   *)
(* in the step that ends it, nothing while letters are muted, and nothing  *)
(* is kept back from the reader unless letters are muted or the            *)
(* administrator has withdrawn the incident by hand.  How failures are     *)
(* confirmed, and who asks for what, is left to IncidentLifecycle.         *)
(***************************************************************************)
EXTENDS Naturals

CONSTANTS Streams,    \* what can fail on its own
          Incidents,  \* names of incidents, each used once
          None        \* the name of no incident

VARIABLES
    current,  \* the incident of every stream, or None
    spent,    \* the incidents there have been
    letters,  \* how many letters of each sort every incident has caused
    muted,    \* the letters of the object are muted
    hand      \* how often the administrator has acted

promised == <<current, spent, letters, muted, hand>>

NoLetters == [opening |-> 0, escalation |-> 0, recovery |-> 0]
Announced(i) == letters[i].opening = 1

PromiseInit ==
    /\ current = [s \in Streams |-> None]
    /\ spent = {}
    /\ letters = [i \in Incidents |-> NoLetters]
    /\ muted \in BOOLEAN
    /\ hand = 0

-----------------------------------------------------------------------------
(* What may become of one stream while the scheduler works: its incident   *)
(* was one thing and is now another.                                       *)

Rests(was, now) ==
    /\ now = was
    /\ was # None => letters'[was] = letters[was]

\* A new incident, with its opening letter.
Begins(was, now) ==
    /\ was = None
    /\ now \in (Incidents \cap spent') \ spent
    /\ letters'[now] = [NoLetters EXCEPT !.opening = IF muted THEN 0 ELSE 1]

\* Muted when it began, and announced by a later failure.
IsAnnounced(was, now) ==
    /\ was # None /\ now = was
    /\ ~muted /\ ~Announced(was)
    /\ letters'[was] = [letters[was] EXCEPT !.opening = 1]

Worsens(was, now) ==
    /\ was # None /\ now = was
    /\ ~muted
    /\ letters'[was] = [letters[was] EXCEPT !.escalation = @ + 1]

\* The reader who was told of the incident is told that it is over.
Recovers(was, now) ==
    /\ was # None /\ now = None
    /\ letters'[was] =
          [letters[was] EXCEPT
              !.recovery = IF Announced(was) /\ ~muted THEN 1 ELSE 0]

\* The streams move on, several of them in one step if they share a check;
\* two never share an incident, and one that is over stays as it was left.
Work ==
    /\ UNCHANGED <<muted, hand>>
    /\ \A s \in Streams :
          LET was == current[s]
              now == current'[s]
          IN  \/ Rests(was, now)
              \/ Begins(was, now) /\ \A t \in Streams \ {s} : current'[t] # now
              \/ IsAnnounced(was, now)
              \/ Worsens(was, now)
              \/ Recovers(was, now)
    /\ spent \subseteq spent'
    /\ \A i \in spent' \ spent : \E s \in Streams : current'[s] = i
    /\ \A i \in Incidents :
          letters'[i] # letters[i] =>
             \E s \in Streams : i \in {current[s], current'[s]}

\* The administrator mutes, or ends incidents without a word.
Intervene ==
    /\ hand' = hand + 1
    /\ muted' \in BOOLEAN
    /\ \A s \in Streams : current'[s] \in {current[s], None}
    /\ UNCHANGED <<spent, letters>>

Promise == PromiseInit /\ [][Work \/ Intervene]_promised
=============================================================================
