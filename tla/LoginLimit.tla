----------------------------- MODULE LoginLimit -----------------------------
(***************************************************************************)
(* The sliding window that throttles logins (lib/rate-limit.ts, called by  *)
(* app/login/actions.ts).  An address is throttled by itself, so one is    *)
(* followed.  Time moves in steps; several calls may fall into one.        *)
(***************************************************************************)
EXTENDS Integers, Sequences, FiniteSets

CONSTANTS
  Limit,      \* allowed in a window: 10
  WindowMs,   \* 60_000
  MaxAttempts, MaxMoment   \* bounds on the calls and on the clock

ASSUME LoginLimitAssumption ==
  /\ {Limit, WindowMs} \subseteq Nat \ {0} /\ {MaxAttempts, MaxMoment} \subseteq Nat

VARIABLES
  moment,
  hits,      \* hits.get(ip): of the calls kept, the number and the time
  attempts   \* the calls so far, as <<time, allowed>> (a history)

limitVars == <<moment, hits, attempts>>

LimitInit == moment = 0 /\ hits = {} /\ attempts = <<>>

MomentPasses == moment < MaxMoment /\ moment' = moment + 1 /\ UNCHANGED <<hits, attempts>>

RecentHits == {h \in hits : h.at > moment - WindowMs}
ThisCall == [n |-> Len(attempts) + 1, at |-> moment]

\* A slip: a refused call counts as well.
Recorded(recent) == recent \cup {ThisCall}
KeptHits(recent) == IF Cardinality(recent) >= Limit THEN recent ELSE recent \cup {ThisCall}

\* check
Check ==
  /\ Len(attempts) < MaxAttempts
  /\ hits' = KeptHits(RecentHits)
  /\ attempts' = Append(attempts, <<moment, Cardinality(RecentHits) < Limit>>)
  /\ UNCHANGED moment

LimitNext == MomentPasses \/ Check

LimitSpec == LimitInit /\ [][LimitNext]_limitVars

-----------------------------------------------------------------------------
(* Properties. *)

LimitTypes ==
  /\ moment \in 0 .. MaxMoment /\ hits \subseteq [n : 1 .. MaxAttempts, at : 0 .. MaxMoment]
  /\ attempts \in Seq((0 .. MaxMoment) \X BOOLEAN) /\ Len(attempts) <= MaxAttempts

\* The allowed calls of the window that ends with the i-th call, before it.
AllowedBefore(i) ==
  {k \in 1 .. i - 1 : attempts[k][2] /\ attempts[k][1] > attempts[i][1] - WindowMs}

\* "10 login attempts per minute per IP": a login is let through exactly when fewer than
\* the limit were in the minute before it; those refused do not prolong the wait.
LimiterExact ==
  \A i \in DOMAIN attempts : attempts[i][2] <=> Cardinality(AllowedBefore(i)) < Limit
=============================================================================
