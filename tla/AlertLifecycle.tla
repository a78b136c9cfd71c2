--------------------------- MODULE AlertLifecycle ---------------------------
(***************************************************************************)
(* What the alert engine promises, seen from the /alerts page: for every   *)
(* (rule, target) key there is an alert or there is none.  A cycle judges  *)
(* all keys at once; an alert is raised only after enough consecutive      *)
(* judgements against its key, and withdrawn only when a cycle has judged  *)
(* the key clear.  A cycle may stop half way (the database failed): the    *)
(* next one finishes the job.  A restart forgets the judgements, never the *)
(* alerts.                                                                 *)
(***************************************************************************)
EXTENDS Naturals

CONSTANTS
  Keys,       \* (rule, target) pairs
  Strikes,    \* Strikes[k]: consecutive judgements against k before it is raised
  NoVerdict   \* no cycle is under way

VARIABLES
  raised,     \* the keys with an alert
  count,      \* count[k]: consecutive judgements against k, capped at Strikes[k]
  verdict     \* the keys the running cycle judged to be breaching, or NoVerdict

avars == <<raised, count, verdict>>

AInit ==
  /\ raised = {}
  /\ count = [k \in Keys |-> 0]
  /\ verdict = NoVerdict

Capped(n, k) == IF n < Strikes[k] THEN n ELSE Strikes[k]

Judge(breaching) ==
  /\ verdict = NoVerdict
  /\ verdict' = breaching
  /\ count' = [k \in Keys |-> IF k \in breaching THEN Capped(count[k] + 1, k) ELSE 0]
  /\ UNCHANGED raised

Raise(k) ==
  /\ verdict # NoVerdict
  /\ k \in verdict \ raised
  /\ count[k] = Strikes[k]
  /\ raised' = raised \cup {k}
  /\ UNCHANGED <<count, verdict>>

\* A cycle that runs to its end withdraws exactly the alerts it judged clear,
\* all in one write ...
Conclude ==
  /\ verdict # NoVerdict
  /\ \A k \in verdict : count[k] = Strikes[k] => k \in raised
  /\ raised' = raised \cap verdict
  /\ verdict' = NoVerdict
  /\ UNCHANGED count

\* ... and one that fails withdraws none.
Abandon ==
  /\ verdict # NoVerdict
  /\ verdict' = NoVerdict
  /\ UNCHANGED <<raised, count>>

\* A failing cycle may have raised one more alert than it knows of.
RaiseAndAbandon(k) ==
  /\ verdict # NoVerdict
  /\ k \in verdict \ raised
  /\ count[k] = Strikes[k]
  /\ raised' = raised \cup {k}
  /\ verdict' = NoVerdict
  /\ UNCHANGED count

Restart ==
  /\ verdict' = NoVerdict
  /\ count' = [k \in Keys |-> 0]
  /\ UNCHANGED raised

ANext ==
  \/ \E breaching \in SUBSET Keys : Judge(breaching)
  \/ \E k \in Keys : Raise(k) \/ RaiseAndAbandon(k)
  \/ Conclude
  \/ Abandon
  \/ Restart

ASpec == AInit /\ [][ANext]_avars
=============================================================================
