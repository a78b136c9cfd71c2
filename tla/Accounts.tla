------------------------------ MODULE Accounts ------------------------------
(***************************************************************************)
(* The sessions of a user and the requests that make and end them          *)
(* (lib/session.ts, app/login/actions.ts, app/settings/account/actions.ts, *)
(* app/settings/users/actions.ts).  No statement touches the sessions of   *)
(* two users, so one user is followed.  Requests run beside each other,    *)
(* one per browser, and every await of a request is a step.                *)
(***************************************************************************)
EXTENDS Integers, FiniteSets

CONSTANTS
  Browsers,
  Passwords,    \* the user's password is one of these, FirstPassword to begin with
  FirstPassword,
  Ttl,          \* SESSION_TTL_MS
  NoToken,
  MaxDate,      \* bound on the clock
  MaxSessions,  \* bound on the sessions ever made
  MaxSettings   \* bound on the password changes and (en|dis)ablings

ASSUME AccountsAssumption ==
  /\ FirstPassword \in Passwords /\ Ttl \in Nat \ {0}
  /\ {MaxDate, MaxSessions, MaxSettings} \subseteq Nat

VARIABLES
  date,
  user,      \* the user's row: the password and whether disabled
  session,   \* the rows of sessions, by token
  jar,       \* jar[b]: the cookie of browser b
  request,   \* request[b]: the request under way
  settings,  \* changes of the user's row so far
  ended,     \* tokens whose row was deleted (a history)
  dropped,   \* tokens a browser let expire (a history)
  excused    \* tokens that a change of their user's password need not end (a history)

accountHistory == <<ended, dropped, excused>>
accountVars == <<date, user, session, jar, request, settings, accountHistory>>

NoCookie == [token |-> NoToken, until |-> 0]
NoRequest == [at |-> "idle", kind |-> "none", token |-> NoToken, password |-> NoToken]
Signed == {"page", "logout", "password"}

AccountInit ==
  /\ date = 0
  /\ user = [password |-> FirstPassword, disabled |-> FALSE]
  /\ session = [t \in {} |-> NoToken]
  /\ jar = [b \in Browsers |-> NoCookie]
  /\ request = [b \in Browsers |-> NoRequest]
  /\ settings = 0
  /\ ended = {} /\ dropped = {} /\ excused = {}

Rows == DOMAIN session
Without(gone) == [t \in Rows \ gone |-> session[t]]
Made == Cardinality(Rows \cup ended)
Step(b, next) == request' = [request EXCEPT ![b] = next]
At(b, step) == request[b].at = step
Asked(b) == request[b].kind
Moves(b, step) == Step(b, [request[b] EXCEPT !.at = step])
Over(b) == Step(b, NoRequest)

\* The cookie keeps the expiry of its login.
DateAdvances ==
  /\ date < MaxDate /\ date' = date + 1
  /\ jar' = [b \in Browsers |-> IF jar[b].until > date' THEN jar[b] ELSE NoCookie]
  /\ dropped' = dropped \cup {jar[b].token : b \in {c \in Browsers : jar[c].token # NoToken /\ jar[c].until <= date'}}
  /\ UNCHANGED <<user, session, request, settings, ended, excused>>

-----------------------------------------------------------------------------
(* login *)

LoginAsks(b) ==
  /\ At(b, "idle")
  /\ \E p \in Passwords : Step(b, [NoRequest EXCEPT !.at = "read", !.kind = "login", !.password = p])
  /\ UNCHANGED <<date, user, session, jar, settings, accountHistory>>

\* The row is read once; the password is verified against it.
ReadUser(b) ==
  /\ At(b, "read")
  /\ IF user = [password |-> request[b].password, disabled |-> FALSE]
     THEN Moves(b, "insert") ELSE Over(b)
  /\ UNCHANGED <<date, user, session, jar, settings, accountHistory>>

CreateSession(b) ==
  /\ At(b, "insert") /\ Made < MaxSessions
  /\ LET t == Made + 1
         row == [password |-> request[b].password, expires |-> date + Ttl]
     IN  /\ session' = [x \in Rows \cup {t} |-> IF x = t THEN row ELSE session[x]]
         /\ jar' = [jar EXCEPT ![b] = [token |-> t, until |-> date + Ttl]]
         /\ excused' = IF user.password # request[b].password THEN excused \cup {t} ELSE excused
  /\ Over(b)
  /\ UNCHANGED <<date, user, settings, ended, dropped>>

-----------------------------------------------------------------------------
(* getSession *)

RequestAsks(b, kind) ==
  /\ At(b, "idle") /\ jar[b].token # NoToken
  /\ Step(b, [NoRequest EXCEPT !.at = "select", !.kind = kind, !.token = jar[b].token])
  /\ UNCHANGED <<date, user, session, jar, settings, accountHistory>>

Expired(row) == date >= row.expires
ShouldRenew(row) == 2 * (row.expires - date) < Ttl

SelectSession(b) ==
  LET t == request[b].token
      row == session[t]
  IN
  /\ At(b, "select")
  /\ IF t \notin Rows THEN IF Asked(b) = "logout" THEN Moves(b, "destroy") ELSE Over(b)
     ELSE IF Expired(row) \/ user.disabled THEN Moves(b, "dead")
     ELSE Step(b, [request[b] EXCEPT !.at = IF ShouldRenew(row) THEN "renew" ELSE Asked(b),
                                !.password = IF Asked(b) = "password" THEN user.password ELSE NoToken])
  /\ UNCHANGED <<date, user, session, jar, settings, accountHistory>>

DeleteDead(b) ==
  /\ At(b, "dead")
  /\ session' = Without({request[b].token})
  /\ ended' = ended \cup {request[b].token}
  /\ IF Asked(b) = "logout" THEN Moves(b, "destroy") ELSE Over(b)
  /\ UNCHANGED <<date, user, jar, settings, dropped, excused>>

\* A slip: an upsert.
RenewUpserts(b) ==
  /\ At(b, "renew")
  /\ LET row == [password |-> user.password, expires |-> date + Ttl]
     IN  session' = [t \in Rows \cup {request[b].token} |-> IF t = request[b].token THEN row ELSE session[t]]
  /\ Moves(b, Asked(b))
  /\ UNCHANGED <<date, user, jar, settings, accountHistory>>

\* The row is updated if it is still there.
Renew(b) ==
  /\ At(b, "renew")
  /\ session' = [t \in Rows |-> IF t = request[b].token THEN [session[t] EXCEPT !.expires = date + Ttl] ELSE session[t]]
  /\ Moves(b, Asked(b))
  /\ UNCHANGED <<date, user, jar, settings, accountHistory>>

-----------------------------------------------------------------------------
(* What a request with a session does. *)

PageServed(b) ==
  /\ At(b, "page") /\ Over(b)
  /\ UNCHANGED <<date, user, session, jar, settings, accountHistory>>

LogoutAudited(b) ==
  /\ At(b, "logout") /\ Moves(b, "destroy")
  /\ UNCHANGED <<date, user, session, jar, settings, accountHistory>>

DestroySession(b) ==
  /\ At(b, "destroy")
  /\ session' = Without({request[b].token})
  /\ ended' = ended \cup {request[b].token}
  /\ jar' = [jar EXCEPT ![b] = NoCookie]
  /\ Over(b)
  /\ UNCHANGED <<date, user, settings, dropped, excused>>

Setting == settings < MaxSettings /\ settings' = settings + 1

\* changePassword: verified against the row getSession read.
UpdatePassword(b) ==
  /\ At(b, "password") /\ Setting
  /\ \E p \in Passwords \ {request[b].password} :
       user' = [user EXCEPT !.password = p]
  /\ Moves(b, "prune")
  /\ UNCHANGED <<date, session, jar, accountHistory>>

WrongPassword(b) ==
  /\ At(b, "password") /\ Over(b)
  /\ UNCHANGED <<date, user, session, jar, settings, accountHistory>>

\* A slip: eq for ne.
OwnRow(b) == Rows \cap {request[b].token}
OtherRows(b) == Rows \ {request[b].token}

PruneSessions(b) ==
  /\ At(b, "prune")
  /\ session' = Without(OtherRows(b))
  /\ ended' = ended \cup (Rows \ DOMAIN session')
  /\ excused' = excused \cup {request[b].token}
  /\ Over(b)
  /\ UNCHANGED <<date, user, jar, settings, dropped>>

\* By a request of an administrator, who is somebody else.
SetUserDisabled ==
  /\ Setting
  /\ user' = [user EXCEPT !.disabled = ~@]
  /\ UNCHANGED <<date, session, jar, request, accountHistory>>

\* A statement of a request fails, and the rest of it is not done.
RequestFails(b) ==
  /\ ~At(b, "idle")
  /\ excused' = IF At(b, "prune") THEN excused \cup Rows ELSE excused
  /\ Over(b)
  /\ UNCHANGED <<date, user, session, jar, settings, ended, dropped>>

AccountNext ==
  \/ DateAdvances \/ SetUserDisabled
  \/ \E b \in Browsers :
       \/ LoginAsks(b) \/ ReadUser(b) \/ CreateSession(b)
       \/ \E kind \in Signed : RequestAsks(b, kind)
       \/ SelectSession(b) \/ DeleteDead(b) \/ Renew(b)
       \/ PageServed(b) \/ LogoutAudited(b) \/ DestroySession(b)
       \/ UpdatePassword(b) \/ WrongPassword(b) \/ PruneSessions(b)
       \/ RequestFails(b)

AccountSpec == AccountInit /\ [][AccountNext]_accountVars

-----------------------------------------------------------------------------
(* Properties. *)

Tokens == 1 .. MaxSessions
AccountTypes ==
  /\ date \in 0 .. MaxDate /\ settings \in 0 .. MaxSettings
  /\ user \in [password : Passwords, disabled : BOOLEAN]
  /\ Rows \subseteq Tokens
  /\ \A t \in Rows : session[t] \in [password : Passwords, expires : 0 .. MaxDate + Ttl]
  /\ jar \in [Browsers -> [token : Tokens \cup {NoToken}, until : 0 .. MaxDate + Ttl]]
  /\ \A b \in Browsers : request[b].kind \in Signed \cup {"login", "none"}
  /\ ended \cup dropped \cup excused \subseteq Tokens

\* A session that ended, by its age, its user's disabling, a logout or a change of
\* password, never comes back, whatever requests hold it; and after a change of
\* password the others that are left have proved the new one, unless their login
\* was checking the old one meanwhile or the change was cut short.
SessionsEnd ==
  /\ ended \cap Rows = {}
  /\ \A t \in Rows \ excused :
       session[t].password = user.password \/ \E b \in Browsers : At(b, "prune")

\* "Sliding expiry: extend when less than half the TTL remains": no browser loses
\* a session that has been extended and has not ended.
ExtendedIsKept == \A t \in dropped \cap Rows : Expired(session[t])
=============================================================================
