---------------------------- MODULE PeopleProofs ----------------------------
(***************************************************************************)
(* What is promised to people, for any number of them, their browsers,     *)
(* sessions, devices, endpoints, titles and logins: ended sessions stay    *)
(* ended, the login limiter counts what is in its window, pruning spares   *)
(* living subscriptions, events go to the willing only, and a new title is *)
(* pushed once.                                                            *)
(***************************************************************************)
EXTENDS Accounts, LoginLimit, Push, NewMedia, FiniteSetTheorems, TLAPS

(* Sessions. *)

TokenNumbers == 1 .. MaxSessions
RequestKinds == Signed \cup {"login", "none"}
\* The steps at which a request holds a token.
Holding == Signed \cup {"select", "dead", "renew", "destroy", "prune"}
RequestSteps == Holding \cup RequestKinds \cup {"idle", "read", "insert"}
Request == [at : RequestSteps, kind : RequestKinds, token : TokenNumbers \cup {NoToken}, password : Passwords \cup {NoToken}]
SessionRow == [password : Passwords \cup {NoToken}, expires : Int]

SessionTypesInv ==
  /\ date \in Nat
  /\ user \in [password : Passwords, disabled : BOOLEAN]
  /\ \A t \in Rows : session[t] \in SessionRow
  /\ jar \in [Browsers -> [token : TokenNumbers \cup {NoToken}, until : Int]]
  /\ request \in [Browsers -> Request]

\* Tokens are given out in order, and whoever holds one holds one that was given out.
Issued == Rows \cup ended
TokensInv ==
  /\ ended \cap Rows = {}
  /\ \E n \in 0 .. MaxSessions : Issued = 1 .. n
  /\ \A b \in Browsers : jar[b].token # NoToken => jar[b].token \in Issued
  /\ \A b \in Browsers : request[b].at \in Holding => request[b].token \in Issued

Pruning == \E b \in Browsers : request[b].at = "prune"
PasswordInv == \A t \in Rows \ excused : session[t].password = user.password \/ Pruning

SessionInv == SessionTypesInv /\ TokensInv /\ PasswordInv

LEMMA SessionBounds == Ttl \in Nat /\ MaxSessions \in Nat /\ MaxDate \in Nat /\ FirstPassword \in Passwords
BY AccountsAssumption

LEMMA NoRequestType == NoRequest \in Request /\ NoRequest.at = "idle" /\ "idle" \notin Holding
BY DEF NoRequest, Request, RequestSteps, RequestKinds, Holding, Signed

LEMMA NextToken ==
  ASSUME NEW n \in Nat, Issued = 1 .. n
  PROVE  Made = n
<1>1. Cardinality(1 .. n) = IF 1 > n THEN 0 ELSE n - 1 + 1
  BY FS_Interval
<1>2. Cardinality(1 .. n) = n
  BY <1>1
<1>. QED BY <1>2 DEF Made, Issued

LEMMA SessionInit == AccountInit => SessionInv
<1> SUFFICES ASSUME AccountInit PROVE SessionInv
  OBVIOUS
<1>1. Rows = {} /\ ended = {}
  BY DEF AccountInit, Rows
<1>2. SessionTypesInv
  <2>1. NoCookie \in [token : TokenNumbers \cup {NoToken}, until : Int]
    BY DEF NoCookie
  <2>2. user \in [password : Passwords, disabled : BOOLEAN]
    BY SessionBounds DEF AccountInit
  <2>. QED BY <1>1, <2>1, <2>2, NoRequestType DEF AccountInit, SessionTypesInv
<1>3. TokensInv
  <2>1. Issued = 1 .. 0 /\ 0 \in 0 .. MaxSessions
    BY <1>1, SessionBounds DEF Issued
  <2>. QED BY <1>1, <2>1, NoRequestType DEF AccountInit, TokensInv, NoCookie
<1>4. PasswordInv
  BY <1>1 DEF PasswordInv
<1>. QED BY <1>2, <1>3, <1>4 DEF SessionInv

LEMMA Stepped ==
  ASSUME request \in [Browsers -> Request], NEW b \in Browsers, NEW next \in Request, Step(b, next)
  PROVE  /\ request' \in [Browsers -> Request]
         /\ request'[b] = next
         /\ \A c \in Browsers : c # b => request'[c] = request[c]
BY DEF Step

\* A step of a request that leaves the tables alone and does not end a change of password.
LEMMA QuietStep ==
  ASSUME SessionInv, NEW b \in Browsers, NEW next \in Request, Step(b, next),
         request[b].at # "prune",
         next.at \in Holding => next.token \in Issued,
         UNCHANGED <<date, user, session, jar, ended, excused>>
  PROVE  SessionInv'
<1>1. /\ request' \in [Browsers -> Request]
      /\ request'[b] = next
      /\ \A c \in Browsers : c # b => request'[c] = request[c]
  BY Stepped DEF SessionInv, SessionTypesInv
<1>2. Rows' = Rows /\ Issued' = Issued
  BY DEF Rows, Issued
<1>3. SessionTypesInv'
  BY <1>1, <1>2 DEF SessionInv, SessionTypesInv
<1>4. TokensInv'
  BY <1>1, <1>2 DEF SessionInv, TokensInv
<1>5. Pruning => Pruning'
  BY <1>1 DEF Pruning
<1>6. PasswordInv'
  BY <1>2, <1>5 DEF SessionInv, PasswordInv
<1>. QED BY <1>3, <1>4, <1>6 DEF SessionInv

LEMMA RequestFields ==
  ASSUME SessionInv, NEW b \in Browsers
  PROVE  /\ request[b] \in Request /\ request[b].at \in RequestSteps /\ request[b].kind \in RequestKinds
         /\ request[b].token \in TokenNumbers \cup {NoToken}
         /\ request[b].password \in Passwords \cup {NoToken}
<1>1. request[b] \in Request
  BY DEF SessionInv, SessionTypesInv
<1>. QED BY <1>1 DEF Request

\* Going to another step of the same request.
LEMMA MovedType ==
  ASSUME SessionInv, NEW b \in Browsers, NEW step \in RequestSteps
  PROVE  /\ [request[b] EXCEPT !.at = step] \in Request
         /\ [request[b] EXCEPT !.at = step].at = step
         /\ [request[b] EXCEPT !.at = step].token = request[b].token
BY RequestFields DEF Request

LEMMA LoginAsksKeeps == ASSUME SessionInv, NEW b \in Browsers, LoginAsks(b) PROVE SessionInv'
<1>1. PICK p \in Passwords : Step(b, [NoRequest EXCEPT !.at = "read", !.kind = "login", !.password = p])
  BY DEF LoginAsks
<1> DEFINE next == [NoRequest EXCEPT !.at = "read", !.kind = "login", !.password = p]
<1>2. next \in Request /\ next.at \notin Holding
  BY DEF NoRequest, Request, RequestSteps, RequestKinds, Holding, Signed
<1>3. request[b].at # "prune" /\ UNCHANGED <<date, user, session, jar, ended, excused>>
  BY DEF LoginAsks, At, accountHistory
<1>. HIDE DEF next
<1>. QED BY <1>1, <1>2, <1>3, QuietStep DEF next

\* A request that ends and leaves the tables alone.
LEMMA OverKeeps ==
  ASSUME SessionInv, NEW b \in Browsers, Over(b), request[b].at # "prune",
         UNCHANGED <<date, user, session, jar, ended, excused>>
  PROVE  SessionInv'
BY NoRequestType, QuietStep DEF Over

\* One that goes on, with the token it has.
LEMMA MoveKeeps ==
  ASSUME SessionInv, NEW b \in Browsers, NEW step \in RequestSteps, Moves(b, step), request[b].at # "prune",
         step \in Holding => request[b].at \in Holding,
         UNCHANGED <<date, user, session, jar, ended, excused>>
  PROVE  SessionInv'
<1> DEFINE next == [request[b] EXCEPT !.at = step]
<1>1. next \in Request /\ next.at = step /\ next.token = request[b].token
  BY MovedType
<1>2. next.at \in Holding => next.token \in Issued
  BY <1>1 DEF SessionInv, TokensInv
<1>3. Step(b, next)
  BY DEF Moves
<1>. HIDE DEF next
<1>. QED BY <1>1, <1>2, <1>3, QuietStep

LEMMA ReadUserKeeps == ASSUME SessionInv, NEW b \in Browsers, ReadUser(b) PROVE SessionInv'
<1>1. request[b].at = "read" /\ UNCHANGED <<date, user, session, jar, ended, excused>>
  BY DEF ReadUser, At, accountHistory
<1>2. Moves(b, "insert") \/ Over(b)
  BY DEF ReadUser
<1>3. "insert" \in RequestSteps /\ "insert" \notin Holding
  BY DEF RequestSteps, Holding, Signed
<1>. QED BY <1>1, <1>2, <1>3, MoveKeeps, OverKeeps

LEMMA RequestAsksKeeps ==
  ASSUME SessionInv, NEW b \in Browsers, NEW kind \in Signed, RequestAsks(b, kind)
  PROVE  SessionInv'
<1> DEFINE next == [NoRequest EXCEPT !.at = "select", !.kind = kind, !.token = jar[b].token]
<1>1. jar[b].token \in Issued /\ jar[b].token \in TokenNumbers \cup {NoToken}
  BY DEF RequestAsks, SessionInv, TokensInv, SessionTypesInv
<1>2. next \in Request /\ next.token = jar[b].token
  BY <1>1 DEF NoRequest, Request, RequestSteps, RequestKinds, Holding
<1>3. Step(b, next) /\ request[b].at # "prune" /\ UNCHANGED <<date, user, session, jar, ended, excused>>
  BY DEF RequestAsks, At, accountHistory
<1>. HIDE DEF next
<1>. QED BY <1>1, <1>2, <1>3, QuietStep

LEMMA SelectKeeps == ASSUME SessionInv, NEW b \in Browsers, SelectSession(b) PROVE SessionInv'
<1>1. request[b].at = "select" /\ UNCHANGED <<date, user, session, jar, ended, excused>>
  BY DEF SelectSession, At, accountHistory
<1>2. "select" \in Holding /\ "dead" \in Holding /\ "destroy" \in Holding /\ Holding \subseteq RequestSteps
  BY DEF Holding, RequestSteps
<1>3. CASE Moves(b, "destroy") \/ Moves(b, "dead") \/ Over(b)
  BY <1>1, <1>2, <1>3, MoveKeeps, OverKeeps
<1>4. CASE Step(b, [request[b] EXCEPT !.at = IF ShouldRenew(session[request[b].token]) THEN "renew" ELSE Asked(b),
                                      !.password = IF Asked(b) = "password" THEN user.password ELSE NoToken])
  <2> DEFINE step == IF ShouldRenew(session[request[b].token]) THEN "renew" ELSE Asked(b)
             password == IF Asked(b) = "password" THEN user.password ELSE NoToken
             next == [request[b] EXCEPT !.at = step, !.password = password]
  <2>1. step \in RequestSteps
    BY RequestFields DEF Asked, RequestSteps, Holding
  <2>2. password \in Passwords \cup {NoToken}
    BY DEF SessionInv, SessionTypesInv
  <2>. HIDE DEF step, password
  <2>3. next \in Request /\ next.token = request[b].token
    BY <2>1, <2>2, RequestFields DEF Request
  <2>4. next.token \in Issued
    BY <1>1, <1>2, <2>3 DEF SessionInv, TokensInv
  <2>5. Step(b, next)
    BY <1>4 DEF step, password
  <2>. HIDE DEF next
  <2>. QED BY <1>1, <2>3, <2>4, <2>5, QuietStep
<1>. QED BY <1>3, <1>4 DEF SelectSession

LEMMA CreateKeeps == ASSUME SessionInv, NEW b \in Browsers, CreateSession(b) PROVE SessionInv'
<1>1. PICK n \in 0 .. MaxSessions : Issued = 1 .. n
  BY DEF SessionInv, TokensInv
<1>2. Made = n /\ n \in Nat /\ n < MaxSessions
  BY <1>1, NextToken, SessionBounds DEF CreateSession
<1> DEFINE t == n + 1
           row == [password |-> request[b].password, expires |-> date + Ttl]
<1>3. t \notin Issued /\ t \in TokenNumbers
  BY <1>1, <1>2, SessionBounds DEF TokenNumbers
<1>4. row \in SessionRow /\ row.password = request[b].password /\ date + Ttl \in Int
  BY RequestFields, SessionBounds DEF SessionRow, SessionInv, SessionTypesInv
<1>5. /\ session' = [x \in Rows \cup {t} |-> IF x = t THEN row ELSE session[x]]
      /\ jar' = [jar EXCEPT ![b] = [token |-> t, until |-> date + Ttl]]
      /\ excused' = IF user.password # request[b].password THEN excused \cup {t} ELSE excused
      /\ Over(b) /\ UNCHANGED <<date, user, ended>> /\ request[b].at = "insert"
  BY <1>2 DEF CreateSession, At
<1>. HIDE DEF row
<1>6. /\ Rows' = Rows \cup {t} /\ session'[t] = row
      /\ \A x \in Rows : x # t => session'[x] = session[x]
  BY <1>5 DEF Rows
<1>7. /\ request' \in [Browsers -> Request] /\ request'[b] = NoRequest
      /\ \A c \in Browsers : c # b => request'[c] = request[c]
  BY <1>5, NoRequestType, Stepped DEF Over, SessionInv, SessionTypesInv
<1>8. /\ jar' \in [Browsers -> [token : TokenNumbers \cup {NoToken}, until : Int]]
      /\ jar'[b].token = t /\ \A c \in Browsers : c # b => jar'[c] = jar[c]
  <2>1. [token |-> t, until |-> date + Ttl] \in [token : TokenNumbers \cup {NoToken}, until : Int]
    BY <1>3, <1>4
  <2>. QED BY <1>5, <2>1 DEF SessionInv, SessionTypesInv
<1>9. SessionTypesInv'
  BY <1>4, <1>5, <1>6, <1>7, <1>8 DEF SessionInv, SessionTypesInv
<1>10. TokensInv'
  <2>1. Issued' = 1 .. t
    <3>1. Issued' = Issued \cup {t}
      BY <1>5, <1>6 DEF Issued
    <3>. QED BY <1>1, <1>2, <3>1
  <2>2. t \in 0 .. MaxSessions
    BY <1>2, SessionBounds
  <2>3. ended' \cap Rows' = {}
    BY <1>3, <1>5, <1>6 DEF SessionInv, TokensInv, Issued
  <2>4. Issued \subseteq Issued' /\ t \in Issued'
    BY <1>1, <1>2, <2>1
  <2>5. \A c \in Browsers : jar'[c].token # NoToken => jar'[c].token \in Issued'
    BY <1>8, <2>4 DEF SessionInv, TokensInv
  <2>6. \A c \in Browsers : request'[c].at \in Holding => request'[c].token \in Issued'
    BY <1>7, <2>4, NoRequestType DEF SessionInv, TokensInv
  <2>. QED BY <2>1, <2>2, <2>3, <2>5, <2>6 DEF TokensInv
<1>11. PasswordInv'
  <2>1. Pruning => Pruning'
    BY <1>5, <1>7 DEF Pruning
  <2>2. t \in Rows' \ excused' => session'[t].password = user'.password
    BY <1>4, <1>5, <1>6
  <2>3. \A x \in Rows' \ excused' : x # t => x \in Rows \ excused /\ session'[x] = session[x]
    BY <1>5, <1>6
  <2>. QED BY <1>5, <2>1, <2>2, <2>3 DEF SessionInv, PasswordInv
<1>. QED BY <1>9, <1>10, <1>11 DEF SessionInv

LEMMA RenewKeeps == ASSUME SessionInv, NEW b \in Browsers, Renew(b) PROVE SessionInv'
<1>1. /\ session' = [t \in Rows |-> IF t = request[b].token
                                  THEN [session[t] EXCEPT !.expires = date + Ttl] ELSE session[t]]
      /\ Moves(b, Asked(b)) /\ request[b].at = "renew" /\ UNCHANGED <<date, user, jar, ended, excused>>
  BY DEF Renew, At, accountHistory
<1>2. Rows' = Rows /\ Issued' = Issued
  BY <1>1 DEF Rows, Issued
<1>3. \A t \in Rows : session'[t] \in SessionRow /\ session'[t].password = session[t].password
  BY <1>1, SessionBounds DEF SessionInv, SessionTypesInv, SessionRow
<1> DEFINE next == [request[b] EXCEPT !.at = Asked(b)]
<1>4. next \in Request /\ next.token = request[b].token /\ Step(b, next)
  <2>1. Asked(b) \in RequestSteps
    BY RequestFields DEF Asked, RequestSteps
  <2>. QED BY <1>1, <2>1, MovedType DEF Moves
<1>. HIDE DEF next
<1>5. /\ request' \in [Browsers -> Request] /\ request'[b] = next
      /\ \A c \in Browsers : c # b => request'[c] = request[c]
  BY <1>4, Stepped DEF SessionInv, SessionTypesInv
<1>6. SessionTypesInv'
  BY <1>1, <1>2, <1>3, <1>5 DEF SessionInv, SessionTypesInv
<1>7. request[b].token \in Issued
  BY <1>1 DEF SessionInv, TokensInv, Holding
<1>8. TokensInv'
  BY <1>1, <1>2, <1>4, <1>5, <1>7 DEF SessionInv, TokensInv
<1>9. Pruning => Pruning'
  BY <1>1, <1>5 DEF Pruning
<1>10. PasswordInv'
  BY <1>1, <1>2, <1>3, <1>9 DEF SessionInv, PasswordInv
<1>. QED BY <1>6, <1>8, <1>10 DEF SessionInv

-----------------------------------------------------------------------------
(* What deletes rows. *)

\* A row that goes is counted as ended; nothing that was given out is given out again.
LEMMA DeletingStep ==
  ASSUME SessionInv, NEW b \in Browsers, NEW next \in Request, Step(b, next),
         next.at \in Holding => next.token \in Issued,
         NEW gone \in SUBSET Issued, session' = Without(gone), ended' = ended \cup gone,
         \A c \in Browsers : jar'[c] = jar[c] \/ jar'[c].token = NoToken,
         jar' \in [Browsers -> [token : TokenNumbers \cup {NoToken}, until : Int]],
         UNCHANGED <<date, user>>,
         excused \subseteq excused',
         request[b].at = "prune" => Rows' \subseteq excused'
  PROVE  SessionInv'
<1>1. /\ request' \in [Browsers -> Request] /\ request'[b] = next
      /\ \A c \in Browsers : c # b => request'[c] = request[c]
  BY Stepped DEF SessionInv, SessionTypesInv
<1>2. Rows' = Rows \ gone /\ \A t \in Rows' : session'[t] = session[t]
  BY DEF Rows, Without
<1>3. Issued' = Issued
  BY <1>2 DEF Issued
<1>4. SessionTypesInv'
  BY <1>1, <1>2 DEF SessionInv, SessionTypesInv
<1>5. TokensInv'
  <2>1. ended' \cap Rows' = {}
    BY <1>2 DEF SessionInv, TokensInv
  <2>2. \E n \in 0 .. MaxSessions : Issued' = 1 .. n
    BY <1>3 DEF SessionInv, TokensInv
  <2>3. \A c \in Browsers : jar'[c].token # NoToken => jar'[c].token \in Issued'
    BY <1>3 DEF SessionInv, TokensInv
  <2>4. \A c \in Browsers : request'[c].at \in Holding => request'[c].token \in Issued'
    BY <1>1, <1>3 DEF SessionInv, TokensInv
  <2>. QED BY <2>1, <2>2, <2>3, <2>4 DEF TokensInv
<1>6. PasswordInv'
  <2>1. CASE request[b].at = "prune"
    BY <2>1 DEF PasswordInv
  <2>2. CASE request[b].at # "prune"
    <3>1. Pruning => Pruning'
      BY <1>1, <2>2 DEF Pruning
    <3>2. Rows' \ excused' \subseteq Rows \ excused
      BY <1>2
    <3>. QED BY <1>2, <3>1, <3>2 DEF SessionInv, PasswordInv
  <2>. QED BY <2>1, <2>2
<1>. QED BY <1>4, <1>5, <1>6 DEF SessionInv

LEMMA DeleteDeadKeeps == ASSUME SessionInv, NEW b \in Browsers, DeleteDead(b) PROVE SessionInv'
<1> DEFINE t == request[b].token
<1>1. /\ request[b].at = "dead" /\ session' = Without({t}) /\ ended' = ended \cup {t}
      /\ UNCHANGED <<date, user, jar, excused>>
      /\ Moves(b, "destroy") \/ Over(b)
  BY DEF DeleteDead, At
<1>2. t \in Issued
  BY <1>1 DEF Holding, SessionInv, TokensInv
<1>3. PICK next \in Request : Step(b, next) /\ (next.at \in Holding => next.token \in Issued)
  <2>1. CASE Moves(b, "destroy")
    <3>1. "destroy" \in RequestSteps
      BY DEF RequestSteps, Holding
    <3>. QED BY <1>2, <2>1, <3>1, MovedType DEF Moves
  <2>2. CASE Over(b)
    BY <2>2, NoRequestType DEF Over
  <2>. QED BY <1>1, <2>1, <2>2
<1>4. jar' \in [Browsers -> [token : TokenNumbers \cup {NoToken}, until : Int]]
  BY <1>1 DEF SessionInv, SessionTypesInv
<1>5. {t} \in SUBSET Issued
  BY <1>2
<1>. HIDE DEF t
<1>. QED BY <1>1, <1>3, <1>4, <1>5, DeletingStep

LEMMA DestroyKeeps == ASSUME SessionInv, NEW b \in Browsers, DestroySession(b) PROVE SessionInv'
<1> DEFINE t == request[b].token
<1>1. /\ request[b].at = "destroy" /\ session' = Without({t}) /\ ended' = ended \cup {t}
      /\ jar' = [jar EXCEPT ![b] = NoCookie]
      /\ UNCHANGED <<date, user, excused>> /\ Step(b, NoRequest)
  BY DEF DestroySession, At, Over
<1>2. {t} \in SUBSET Issued
  BY <1>1 DEF Holding, SessionInv, TokensInv
<1>3. NoCookie \in [token : TokenNumbers \cup {NoToken}, until : Int] /\ NoCookie.token = NoToken
  BY DEF NoCookie
<1>4. /\ jar' \in [Browsers -> [token : TokenNumbers \cup {NoToken}, until : Int]]
      /\ \A c \in Browsers : jar'[c] = jar[c] \/ jar'[c].token = NoToken
  BY <1>1, <1>3 DEF SessionInv, SessionTypesInv
<1>. HIDE DEF t
<1>. QED BY <1>1, <1>2, <1>4, NoRequestType, DeletingStep

LEMMA PruneSessionsKeeps == ASSUME SessionInv, NEW b \in Browsers, PruneSessions(b) PROVE SessionInv'
<1> DEFINE gone == OtherRows(b)
<1>1. /\ request[b].at = "prune" /\ session' = Without(gone)
      /\ ended' = ended \cup (Rows \ DOMAIN session')
      /\ excused' = excused \cup {request[b].token}
      /\ UNCHANGED <<date, user, jar>> /\ Step(b, NoRequest)
  BY DEF PruneSessions, At, Over
<1>2. gone = Rows \ {request[b].token} /\ gone \in SUBSET Issued
  BY DEF OtherRows, Issued
<1>. HIDE DEF gone
<1>3. DOMAIN session' = Rows \ gone /\ Rows' = Rows \ gone
  BY <1>1 DEF Without, Rows
<1>4. ended' = ended \cup gone /\ Rows' \subseteq excused'
  BY <1>1, <1>2, <1>3
<1>5. jar' \in [Browsers -> [token : TokenNumbers \cup {NoToken}, until : Int]]
  BY <1>1 DEF SessionInv, SessionTypesInv
<1>. QED BY <1>1, <1>2, <1>4, <1>5, NoRequestType, DeletingStep

-----------------------------------------------------------------------------
(* What changes the user, the clock, or stops a request. *)

LEMMA UpdateKeeps == ASSUME SessionInv, NEW b \in Browsers, UpdatePassword(b) PROVE SessionInv'
<1>1. PICK p \in Passwords : user' = [user EXCEPT !.password = p]
  BY DEF UpdatePassword
<1>2. request[b].at = "password" /\ Moves(b, "prune") /\ UNCHANGED <<date, session, jar, ended, excused>>
  BY DEF UpdatePassword, At, accountHistory
<1>3. user' \in [password : Passwords, disabled : BOOLEAN]
  BY <1>1 DEF SessionInv, SessionTypesInv
<1> DEFINE next == [request[b] EXCEPT !.at = "prune"]
<1>4. next \in Request /\ next.at = "prune" /\ next.token = request[b].token
  BY MovedType DEF RequestSteps, Holding
<1>5. Step(b, next)
  BY <1>2 DEF Moves
<1>. HIDE DEF next
<1>6. /\ request' \in [Browsers -> Request] /\ request'[b] = next
      /\ \A c \in Browsers : c # b => request'[c] = request[c]
  BY <1>4, <1>5, Stepped DEF SessionInv, SessionTypesInv
<1>7. Rows' = Rows /\ Issued' = Issued
  BY <1>2 DEF Rows, Issued
<1>8. SessionTypesInv'
  BY <1>2, <1>3, <1>6, <1>7 DEF SessionInv, SessionTypesInv
<1>9. request[b].token \in Issued
  BY <1>2 DEF SessionInv, TokensInv, Holding, Signed
<1>10. TokensInv'
  BY <1>2, <1>4, <1>6, <1>7, <1>9 DEF SessionInv, TokensInv
<1>11. Pruning'
  BY <1>4, <1>6 DEF Pruning
<1>. QED BY <1>8, <1>10, <1>11 DEF SessionInv, PasswordInv

LEMMA DisableKeeps == ASSUME SessionInv, SetUserDisabled PROVE SessionInv'
<1>1. user' = [user EXCEPT !.disabled = ~user.disabled] /\ UNCHANGED <<date, session, jar, request, ended, excused>>
  BY DEF SetUserDisabled, accountHistory
<1>2. user' \in [password : Passwords, disabled : BOOLEAN] /\ user'.password = user.password
  BY <1>1 DEF SessionInv, SessionTypesInv
<1>3. SessionTypesInv'
  BY <1>1, <1>2 DEF SessionInv, SessionTypesInv, Rows
<1>4. TokensInv'
  BY <1>1 DEF SessionInv, TokensInv, Issued, Rows
<1>5. PasswordInv'
  BY <1>1, <1>2 DEF SessionInv, PasswordInv, Rows, Pruning
<1>. QED BY <1>3, <1>4, <1>5 DEF SessionInv

LEMMA DateKeeps == ASSUME SessionInv, DateAdvances PROVE SessionInv'
<1>1. /\ date' = date + 1 /\ jar' = [b \in Browsers |-> IF jar[b].until > date' THEN jar[b] ELSE NoCookie]
      /\ UNCHANGED <<user, session, request, ended, excused>>
  BY DEF DateAdvances
<1>2. NoCookie \in [token : TokenNumbers \cup {NoToken}, until : Int] /\ NoCookie.token = NoToken
  BY DEF NoCookie
<1>3. \A b \in Browsers : jar'[b] = jar[b] \/ jar'[b] = NoCookie
  BY <1>1
<1>4. SessionTypesInv'
  BY <1>1, <1>2 DEF SessionInv, SessionTypesInv, Rows
<1>5. TokensInv'
  BY <1>1, <1>2, <1>3 DEF SessionInv, TokensInv, Issued, Rows
<1>6. PasswordInv'
  BY <1>1 DEF SessionInv, PasswordInv, Rows, Pruning
<1>. QED BY <1>4, <1>5, <1>6 DEF SessionInv

LEMMA FailureKeeps == ASSUME SessionInv, NEW b \in Browsers, RequestFails(b) PROVE SessionInv'
<1>1. Over(b) /\ UNCHANGED <<date, user, session, jar, ended>>
      /\ excused' = IF request[b].at = "prune" THEN excused \cup Rows ELSE excused
  BY DEF RequestFails, At
<1>2. CASE request[b].at # "prune"
  BY <1>1, <1>2, OverKeeps
<1>3. CASE request[b].at = "prune"
  <2>1. /\ request' \in [Browsers -> Request] /\ request'[b] = NoRequest
        /\ \A c \in Browsers : c # b => request'[c] = request[c]
    BY <1>1, NoRequestType, Stepped DEF Over, SessionInv, SessionTypesInv
  <2>2. Rows' = Rows /\ Issued' = Issued /\ Rows \subseteq excused'
    BY <1>1, <1>3 DEF Rows, Issued
  <2>3. SessionTypesInv'
    BY <1>1, <2>1, <2>2 DEF SessionInv, SessionTypesInv
  <2>4. TokensInv'
    BY <1>1, <2>1, <2>2, NoRequestType DEF SessionInv, TokensInv
  <2>5. PasswordInv'
    BY <2>2 DEF PasswordInv
  <2>. QED BY <2>3, <2>4, <2>5 DEF SessionInv
<1>. QED BY <1>2, <1>3

LEMMA QuietRequestsKeep ==
  ASSUME SessionInv, NEW b \in Browsers, PageServed(b) \/ LogoutAudited(b) \/ WrongPassword(b)
  PROVE  SessionInv'
<1>1. request[b].at \in Signed /\ UNCHANGED <<date, user, session, jar, ended, excused>>
  BY DEF PageServed, LogoutAudited, WrongPassword, At, accountHistory, Signed
<1>2. request[b].at # "prune" /\ request[b].at \in Holding /\ "destroy" \in RequestSteps
  BY <1>1 DEF Signed, Holding, RequestSteps
<1>3. Over(b) \/ Moves(b, "destroy")
  BY DEF PageServed, LogoutAudited, WrongPassword
<1>. QED BY <1>1, <1>2, <1>3, OverKeeps, MoveKeeps

-----------------------------------------------------------------------------
LEMMA SessionStep == SessionInv /\ [AccountNext]_accountVars => SessionInv'
<1> SUFFICES ASSUME SessionInv, [AccountNext]_accountVars PROVE SessionInv'
  OBVIOUS
<1>1. CASE DateAdvances
  BY <1>1, DateKeeps
<1>2. CASE SetUserDisabled
  BY <1>2, DisableKeeps
<1>3. ASSUME NEW b \in Browsers, LoginAsks(b) \/ ReadUser(b) \/ CreateSession(b) PROVE SessionInv'
  BY <1>3, LoginAsksKeeps, ReadUserKeeps, CreateKeeps
<1>4. ASSUME NEW b \in Browsers, NEW kind \in Signed, RequestAsks(b, kind) PROVE SessionInv'
  BY <1>4, RequestAsksKeeps
<1>5. ASSUME NEW b \in Browsers, SelectSession(b) \/ DeleteDead(b) \/ Renew(b) PROVE SessionInv'
  BY <1>5, SelectKeeps, DeleteDeadKeeps, RenewKeeps
<1>6. ASSUME NEW b \in Browsers, PageServed(b) \/ LogoutAudited(b) \/ WrongPassword(b) PROVE SessionInv'
  BY <1>6, QuietRequestsKeep
<1>7. ASSUME NEW b \in Browsers, DestroySession(b) \/ UpdatePassword(b) \/ PruneSessions(b) PROVE SessionInv'
  BY <1>7, DestroyKeeps, UpdateKeeps, PruneSessionsKeeps
<1>8. ASSUME NEW b \in Browsers, RequestFails(b) PROVE SessionInv'
  BY <1>8, FailureKeeps
<1>9. CASE UNCHANGED accountVars
  <2>1. UNCHANGED <<date, user, session, jar, request, ended, excused>>
    BY <1>9 DEF accountVars, accountHistory
  <2>. QED BY <2>1 DEF SessionInv, SessionTypesInv, TokensInv, PasswordInv, Issued, Rows, Pruning
<1>. QED BY <1>1, <1>2, <1>3, <1>4, <1>5, <1>6, <1>7, <1>8, <1>9 DEF AccountNext

LEMMA InvEnds == SessionInv => SessionsEnd
BY DEF SessionInv, TokensInv, PasswordInv, Pruning, SessionsEnd, At

\* A session whose row was deleted never comes back, whatever requests of any number of
\* browsers hold its token (getSession, destroySession); and once a change of password
\* is through, what is left has proved the new one (changePassword), but for the cases
\* that SessionsEnd names.
THEOREM EndedStaysEnded == AccountSpec => []SessionsEnd
<1>1. AccountSpec => []SessionInv
  BY SessionInit, SessionStep, PTL DEF AccountSpec
<1>. QED BY <1>1, InvEnds, PTL

-----------------------------------------------------------------------------
(* The types of the sessions. *)

\* A login goes on with one of the passwords.
SessionRowType == [password : Passwords, expires : 0 .. MaxDate + Ttl]
LoginsInv ==
  /\ date \in 0 .. MaxDate /\ settings \in 0 .. MaxSettings
  /\ \A t \in Rows : session[t] \in SessionRowType
  /\ \A b \in Browsers : jar[b].until \in 0 .. MaxDate + Ttl
  /\ dropped \subseteq Tokens /\ excused \subseteq Tokens
  /\ \A b \in Browsers : request[b].at \in {"read", "insert"} => request[b].password \in Passwords

LEMMA HeldIsToken ==
  ASSUME SessionInv
  PROVE  /\ Rows \subseteq Tokens /\ ended \subseteq Tokens
         /\ \A b \in Browsers : jar[b].token # NoToken => jar[b].token \in Tokens
         /\ \A b \in Browsers : request[b].at \in Holding => request[b].token \in Tokens
<1>1. Issued \subseteq Tokens BY SessionBounds DEF SessionInv, TokensInv, Tokens
<1>. QED BY <1>1 DEF SessionInv, TokensInv, Issued

\* Each action as far as these types are concerned.
LEMMA CreatedTypes ==
  ASSUME SessionInv, LoginsInv, NEW b \in Browsers, CreateSession(b)
  PROVE  LoginsInv'
<1>. DEFINE t == Made + 1
            row == [password |-> request[b].password, expires |-> date + Ttl]
            cookie == [token |-> t, until |-> date + Ttl]
<1>1. PICK n \in 0 .. MaxSessions : Issued = 1 .. n BY DEF SessionInv, TokensInv
<1>2. t \in Tokens BY <1>1, NextToken, SessionBounds DEF CreateSession, Tokens
<1>3. date + Ttl \in 0 .. MaxDate + Ttl BY SessionBounds DEF LoginsInv
<1>4. row \in SessionRowType BY <1>3 DEF CreateSession, At, LoginsInv, SessionRowType
<1>5. /\ session' = [x \in Rows \cup {t} |-> IF x = t THEN row ELSE session[x]]
      /\ jar' = [jar EXCEPT ![b] = cookie]
      /\ excused' \subseteq excused \cup {t}
      /\ Step(b, NoRequest) /\ UNCHANGED <<date, settings, dropped>>
  BY DEF CreateSession, Over
<1>6. cookie.until = date + Ttl OBVIOUS
<1>. HIDE DEF row, t, cookie
<1>7. \A x \in Rows' : session'[x] \in SessionRowType BY <1>4, <1>5 DEF Rows, LoginsInv
<1>8. \A c \in Browsers : jar'[c].until \in 0 .. MaxDate + Ttl
  BY <1>3, <1>5, <1>6 DEF LoginsInv, SessionInv, SessionTypesInv
<1>9. \A c \in Browsers : request'[c] = request[c] \/ request'[c].at = "idle"
  BY <1>5, Stepped, NoRequestType DEF SessionInv, SessionTypesInv
<1>. QED BY <1>2, <1>5, <1>7, <1>8, <1>9 DEF LoginsInv

LEMMA RenewedTypes ==
  ASSUME SessionInv, LoginsInv, NEW b \in Browsers, Renew(b)
  PROVE  LoginsInv'
<1>1. /\ session' = [t \in Rows |-> IF t = request[b].token THEN [session[t] EXCEPT !.expires = date + Ttl] ELSE session[t]]
      /\ Moves(b, request[b].kind) /\ UNCHANGED <<date, jar, settings, dropped, excused>>
  BY DEF Renew, Asked, accountHistory
<1>2. date + Ttl \in 0 .. MaxDate + Ttl BY SessionBounds DEF LoginsInv
<1>3. \A t \in Rows : session'[t] \in SessionRowType BY <1>1, <1>2 DEF LoginsInv, SessionRowType
<1>4. request[b].kind \in RequestSteps /\ request[b].kind \notin {"read", "insert"}
  BY RequestFields DEF RequestKinds, RequestSteps, Signed
<1>5. \A c \in Browsers : request'[c] = request[c] \/ request'[c].at \notin {"read", "insert"}
  <2>. DEFINE next == [request[b] EXCEPT !.at = request[b].kind]
  <2>1. next \in Request /\ next.at = request[b].kind BY <1>4, MovedType
  <2>2. Step(b, next) BY <1>1 DEF Moves
  <2>. HIDE DEF next
  <2>3. request'[b] = next /\ \A c \in Browsers : c # b => request'[c] = request[c]
    BY <2>1, <2>2, Stepped DEF SessionInv, SessionTypesInv
  <2>. QED BY <2>1, <2>3, <1>4
<1>. QED BY <1>1, <1>3, <1>5 DEF LoginsInv, Rows

\* A step that leaves the rows that it does not delete.
LEMMA DeletedTypes ==
  ASSUME LoginsInv, NEW gone, session' = Without(gone) \/ session' = session,
         \A b \in Browsers : jar'[b].until \in 0 .. MaxDate + Ttl,
         date' \in 0 .. MaxDate, settings' \in 0 .. MaxSettings,
         dropped' \subseteq Tokens, excused' \subseteq Tokens,
         \A b \in Browsers : \/ request'[b].at \notin {"read", "insert"}
                             \/ request'[b].password \in Passwords
  PROVE  LoginsInv'
<1>1. \A t \in Rows' : t \in Rows /\ session'[t] = session[t] BY DEF Without, Rows
<1>. QED BY <1>1 DEF LoginsInv

LEMMA DatedTypes ==
  ASSUME SessionInv, LoginsInv, DateAdvances
  PROVE  LoginsInv'
<1>1. date' \in 0 .. MaxDate BY SessionBounds DEF DateAdvances, LoginsInv
<1>2. \A b \in Browsers : jar'[b] = jar[b] \/ jar'[b] = NoCookie BY DEF DateAdvances
<1>3. NoCookie.until = 0 /\ 0 \in 0 .. MaxDate + Ttl BY SessionBounds DEF NoCookie
<1>4. dropped' \subseteq Tokens BY HeldIsToken DEF DateAdvances, LoginsInv
<1>5. UNCHANGED <<session, request, settings, excused>> BY DEF DateAdvances
<1>6. \A b \in Browsers : jar'[b].until \in 0 .. MaxDate + Ttl BY <1>2, <1>3 DEF LoginsInv
<1>. QED BY <1>1, <1>4, <1>5, <1>6 DEF LoginsInv, Rows

LEMMA LoginTypesStep == SessionInv /\ LoginsInv /\ [AccountNext]_accountVars => LoginsInv'
<1>. SUFFICES ASSUME SessionInv, LoginsInv, [AccountNext]_accountVars PROVE LoginsInv' OBVIOUS
<1>. DEFINE Quiet(b) ==
       /\ \E gone : session' = Without(gone) \/ session' = session
       /\ jar' = jar \/ jar' = [jar EXCEPT ![b] = NoCookie]
       /\ settings' = settings \/ Setting
       /\ excused' = excused \/ excused' \subseteq excused \cup Rows \cup {request[b].token}
       /\ excused' = excused \/ request[b].at = "prune"
       /\ UNCHANGED <<date, dropped>>
     Goes(b) ==
       \/ \E step \in RequestSteps \ {"read"} :
            /\ Moves(b, step) \/ \E p : Step(b, [request[b] EXCEPT !.at = step, !.password = p])
            /\ step = "insert" => Moves(b, step) /\ request[b].at = "read"
       \/ \E next : Step(b, next) /\ next.at = "select" /\ next \in Request
       \/ \E p \in Passwords : Step(b, [NoRequest EXCEPT !.at = "read", !.kind = "login", !.password = p])
       \/ Over(b)
<1>1. ASSUME NEW b \in Browsers, Quiet(b), Goes(b) PROVE LoginsInv'
  <2>1. \A c \in Browsers : jar'[c].until \in 0 .. MaxDate + Ttl
    <3>1. NoCookie.until = 0 /\ 0 \in 0 .. MaxDate + Ttl BY SessionBounds DEF NoCookie
    <3>. QED BY <1>1, <3>1 DEF LoginsInv, SessionInv, SessionTypesInv
  <2>2. settings' \in 0 .. MaxSettings
    <3>1. settings' = settings \/ (settings < MaxSettings /\ settings' = settings + 1) BY <1>1 DEF Setting
    <3>2. MaxSettings \in Nat /\ settings \in 0 .. MaxSettings BY AccountsAssumption DEF LoginsInv
    <3>. QED BY <3>1, <3>2
  <2>3. excused' \subseteq Tokens
    <3>1. "prune" \in Holding BY DEF Holding
    <3>. QED BY <1>1, <3>1, HeldIsToken DEF LoginsInv
  <2>4. \A c \in Browsers : request'[c].at \notin {"read", "insert"} \/ request'[c].password \in Passwords
    <3>1. \A c \in Browsers : c # b => request'[c] = request[c]
      BY <1>1 DEF Step, Moves, Over, SessionInv, SessionTypesInv
    <3>2. request'[b].at \notin {"read", "insert"} \/ request'[b].password \in Passwords
      <4>1. \A next : Step(b, next) => request'[b] = next BY DEF Step, SessionInv, SessionTypesInv
      <4>2. NoRequest.at = "idle" BY DEF NoRequest
      <4>3. \A p \in Passwords : [NoRequest EXCEPT !.at = "read", !.kind = "login", !.password = p].password = p
        BY DEF NoRequest
      <4>4. \A step, p : [request[b] EXCEPT !.at = step, !.password = p].at = step
        BY RequestFields DEF Request
      <4>5. \A step : [request[b] EXCEPT !.at = step].at = step /\ [request[b] EXCEPT !.at = step].password = request[b].password
        BY RequestFields DEF Request
      <4>6. request[b].at = "read" => request[b].password \in Passwords BY DEF LoginsInv
      <4>7. CASE \E step \in RequestSteps \ {"read"} :
                   /\ Moves(b, step) \/ \E p : Step(b, [request[b] EXCEPT !.at = step, !.password = p])
                   /\ step = "insert" => Moves(b, step) /\ request[b].at = "read"
        <5>1. PICK step \in RequestSteps \ {"read"} :
                /\ Moves(b, step) \/ \E p : Step(b, [request[b] EXCEPT !.at = step, !.password = p])
                /\ step = "insert" => Moves(b, step) /\ request[b].at = "read"
          BY <4>7
        <5>2. CASE Moves(b, step)
          <6>1. request'[b] = [request[b] EXCEPT !.at = step] BY <5>2, <4>1 DEF Moves
          <6>. QED BY <6>1, <4>5, <4>6, <5>1
        <5>3. CASE step # "insert" /\ \E p : Step(b, [request[b] EXCEPT !.at = step, !.password = p])
          <6>1. PICK p : Step(b, [request[b] EXCEPT !.at = step, !.password = p]) BY <5>3
          <6>2. request'[b] = [request[b] EXCEPT !.at = step, !.password = p] BY <6>1, <4>1
          <6>3. request'[b].at = step BY <6>2, <4>4
          <6>. QED BY <6>3, <5>3
        <5>. QED BY <5>1, <5>2, <5>3
      <4>8. CASE \E next : Step(b, next) /\ next.at = "select" /\ next \in Request
        BY <4>1, <4>8
      <4>9. CASE \E p \in Passwords : Step(b, [NoRequest EXCEPT !.at = "read", !.kind = "login", !.password = p])
        BY <4>1, <4>3, <4>9
      <4>10. CASE Over(b) BY <4>1, <4>2, <4>10 DEF Over
      <4>. QED BY <1>1, <4>7, <4>8, <4>9, <4>10
    <3>. QED BY <3>1, <3>2 DEF LoginsInv
  <2>5. PICK gone : session' = Without(gone) \/ session' = session BY <1>1
  <2>6. date' \in 0 .. MaxDate /\ dropped' \subseteq Tokens BY <1>1 DEF LoginsInv
  <2>. QED BY <2>1, <2>2, <2>3, <2>4, <2>5, <2>6, DeletedTypes
<1>2. {"destroy", "dead", "renew", "prune", "insert", "page", "logout", "password"} \subseteq RequestSteps \ {"read"}
  BY DEF RequestSteps, Holding, Signed
<1>3. ASSUME NEW b \in Browsers PROVE Asked(b) \in RequestSteps \ {"read", "insert"}
  BY <1>3, RequestFields DEF Asked, RequestSteps, RequestKinds, Signed
<1>4. CASE DateAdvances BY <1>4, DatedTypes
<1>5. CASE SetUserDisabled
  <2>1. settings' \in 0 .. MaxSettings BY <1>5, AccountsAssumption DEF SetUserDisabled, Setting, LoginsInv
  <2>2. UNCHANGED <<date, session, jar, request, dropped, excused>> BY <1>5 DEF SetUserDisabled, accountHistory
  <2>. QED BY <2>1, <2>2 DEF LoginsInv, Rows
<1>6. ASSUME NEW b \in Browsers, LoginAsks(b) \/ ReadUser(b) PROVE LoginsInv'
  <2>1. Quiet(b) BY <1>6 DEF LoginAsks, ReadUser, accountHistory
  <2>2. Goes(b)
    <3>1. CASE LoginAsks(b) BY <3>1 DEF LoginAsks
    <3>2. CASE ReadUser(b) BY <3>2, <1>2 DEF ReadUser, At
    <3>. QED BY <1>6, <3>1, <3>2
  <2>. HIDE DEF Quiet, Goes
  <2>. QED BY <2>1, <2>2, <1>1
<1>7. ASSUME NEW b \in Browsers, NEW kind \in Signed, RequestAsks(b, kind) PROVE LoginsInv'
  <2>. DEFINE next == [NoRequest EXCEPT !.at = "select", !.kind = kind, !.token = jar[b].token]
  <2>1. next \in Request
    <3>1. jar[b].token \in TokenNumbers \cup {NoToken} BY DEF SessionInv, SessionTypesInv
    <3>. QED BY <3>1 DEF NoRequest, Request, RequestSteps, RequestKinds, Holding
  <2>2. next.at = "select" BY DEF NoRequest
  <2>3. Step(b, next) BY <1>7 DEF RequestAsks
  <2>4. Quiet(b) BY <1>7 DEF RequestAsks, accountHistory
  <2>. HIDE DEF next
  <2>5. Goes(b) BY <2>1, <2>2, <2>3
  <2>. HIDE DEF Quiet, Goes
  <2>. QED BY <2>4, <2>5, <1>1
<1>8. ASSUME NEW b \in Browsers, SelectSession(b) \/ DeleteDead(b) PROVE LoginsInv'
  <2>1. Quiet(b) BY <1>8 DEF SelectSession, DeleteDead, accountHistory
  <2>2. Goes(b)
    <3>1. CASE DeleteDead(b) BY <3>1, <1>2 DEF DeleteDead
    <3>2. CASE SelectSession(b)
      <4>. DEFINE step == IF ShouldRenew(session[request[b].token]) THEN "renew" ELSE Asked(b)
      <4>1. step \in RequestSteps \ {"read", "insert"} BY <1>2, <1>3
      <4>2. \/ Moves(b, "destroy") \/ Over(b) \/ Moves(b, "dead")
            \/ \E p : Step(b, [request[b] EXCEPT !.at = step, !.password = p])
        BY <3>2 DEF SelectSession
      <4>. HIDE DEF step
      <4>. QED BY <1>2, <4>1, <4>2
    <3>. QED BY <1>8, <3>1, <3>2
  <2>. HIDE DEF Quiet, Goes
  <2>. QED BY <2>1, <2>2, <1>1
<1>9. ASSUME NEW b \in Browsers, PageServed(b) \/ LogoutAudited(b) \/ WrongPassword(b) \/ DestroySession(b) \/ RequestFails(b)
      PROVE  LoginsInv'
  <2>1. Quiet(b) BY <1>9 DEF PageServed, LogoutAudited, WrongPassword, DestroySession, RequestFails, At, accountHistory
  <2>2. Goes(b) BY <1>9, <1>2 DEF PageServed, LogoutAudited, WrongPassword, DestroySession, RequestFails
  <2>. HIDE DEF Quiet, Goes
  <2>. QED BY <2>1, <2>2, <1>1
<1>10. ASSUME NEW b \in Browsers, UpdatePassword(b) \/ PruneSessions(b) PROVE LoginsInv'
  <2>1. Quiet(b) BY <1>10 DEF UpdatePassword, PruneSessions, At, accountHistory
  <2>2. Goes(b) BY <1>10, <1>2 DEF UpdatePassword, PruneSessions
  <2>. HIDE DEF Quiet, Goes
  <2>. QED BY <2>1, <2>2, <1>1
<1>11. CASE UNCHANGED accountVars BY <1>11 DEF accountVars, accountHistory, LoginsInv, Rows
<1>. HIDE DEF Quiet, Goes
<1>. QED BY <1>4, <1>5, <1>6, <1>7, <1>8, <1>9, <1>10, <1>11, CreatedTypes, RenewedTypes DEF AccountNext

\* The variables of the sessions stay in their types.
LEMMA AccountTypesHold == AccountSpec => []AccountTypes
<1>1. AccountInit => LoginsInv
  BY SessionBounds, AccountsAssumption, NoRequestType DEF AccountInit, LoginsInv, Rows, NoCookie
<1>2. ASSUME SessionInv, LoginsInv PROVE AccountTypes
  <2>1. jar \in [Browsers -> [token : Tokens \cup {NoToken}, until : 0 .. MaxDate + Ttl]]
    <3>1. \A b \in Browsers : jar[b] \in [token : Tokens \cup {NoToken}, until : 0 .. MaxDate + Ttl]
      BY <1>2 DEF SessionInv, SessionTypesInv, LoginsInv, TokenNumbers, Tokens
    <3>. QED BY <1>2, <3>1 DEF SessionInv, SessionTypesInv
  <2>2. \A b \in Browsers : request[b].kind \in Signed \cup {"login", "none"}
    BY <1>2, RequestFields DEF RequestKinds
  <2>3. user \in [password : Passwords, disabled : BOOLEAN] BY <1>2 DEF SessionInv, SessionTypesInv
  <2>. QED BY <1>2, <2>1, <2>2, <2>3, HeldIsToken DEF AccountTypes, LoginsInv, SessionRowType
<1>. QED BY <1>1, <1>2, SessionInit, SessionStep, LoginTypesStep, PTL DEF AccountSpec

-----------------------------------------------------------------------------
(* The limiter of logins. *)

Attempts == (0 .. MaxMoment) \X BOOLEAN

\* What is kept are allowed calls, and among them all those of the window.
HitsInv ==
  /\ \A h \in hits : h.n \in DOMAIN attempts /\ attempts[h.n] = <<h.at, TRUE>>
  /\ \A k \in DOMAIN attempts :
       attempts[k][2] = TRUE /\ attempts[k][1] > moment - WindowMs => [n |-> k, at |-> attempts[k][1]] \in hits

LimitInv == LimitTypes /\ HitsInv /\ LimiterExact

LEMMA LimitInitial == LimitInit => LimitInv
<1>. SUFFICES ASSUME LimitInit PROVE LimitInv OBVIOUS
<1>1. moment = 0 /\ hits = {} /\ attempts = <<>> /\ MaxMoment \in Nat /\ MaxAttempts \in Nat
  BY LoginLimitAssumption DEF LimitInit
<1>2. LimitTypes
  <2>1. <<>> \in Seq(Attempts) /\ Len(<<>>) = 0 OBVIOUS
  <2>. QED BY <1>1, <2>1 DEF LimitTypes, Attempts
<1>3. HitsInv BY <1>1 DEF HitsInv
<1>4. LimiterExact BY <1>1 DEF LimiterExact
<1>. QED BY <1>2, <1>3, <1>4 DEF LimitInv

LEMMA Attempt ==
  ASSUME LimitTypes
  PROVE  /\ DOMAIN attempts = 1 .. Len(attempts) /\ Len(attempts) \in Nat
         /\ \A k \in DOMAIN attempts : attempts[k][1] \in 0 .. MaxMoment /\ attempts[k][2] \in BOOLEAN
                                    /\ attempts[k] = <<attempts[k][1], attempts[k][2]>>
<1>1. attempts \in Seq(Attempts) BY DEF LimitTypes, Attempts
<1>2. \A k \in DOMAIN attempts : attempts[k] \in Attempts BY <1>1
<1>. QED BY <1>1, <1>2 DEF Attempts

\* The calls kept that are in the window are the allowed ones in it.
LEMMA WindowCounted ==
  ASSUME LimitInv,
         NEW allowed, allowed = {k \in 1 .. Len(attempts) : attempts[k][2] /\ attempts[k][1] > moment - WindowMs}
  PROVE  Cardinality(RecentHits) = Cardinality(allowed) /\ Cardinality(allowed) \in Nat
<1>1. /\ hits \subseteq [n : 1 .. MaxAttempts, at : 0 .. MaxMoment] /\ HitsInv /\ LimitTypes
      /\ moment \in Int /\ WindowMs \in Int
  BY LoginLimitAssumption DEF LimitInv, LimitTypes
<1>2. DOMAIN attempts = 1 .. Len(attempts) /\ Len(attempts) \in Nat
  BY <1>1, Attempt
<1>. DEFINE f == [k \in allowed |-> [n |-> k, at |-> attempts[k][1]]]
<1>3. ASSUME NEW k \in allowed PROVE f[k] \in RecentHits
  <2>1. k \in DOMAIN attempts /\ attempts[k][2] = TRUE /\ attempts[k][1] > moment - WindowMs
    BY <1>1, <1>2, Attempt
  <2>. QED BY <2>1, <1>1 DEF HitsInv, RecentHits
<1>4. f \in Injection(allowed, RecentHits)
  <2>1. f \in [allowed -> RecentHits] BY <1>3
  <2>2. \A a, b \in allowed : f[a] = f[b] => a = b OBVIOUS
  <2>. QED BY <2>1, <2>2 DEF Injection, IsInjective
<1>5. \A h \in RecentHits : \E k \in allowed : f[k] = h
  <2>. SUFFICES ASSUME NEW h \in RecentHits PROVE \E k \in allowed : f[k] = h OBVIOUS
  <2>1. h.n \in DOMAIN attempts /\ attempts[h.n] = <<h.at, TRUE>> /\ h.at > moment - WindowMs
        /\ h = [n |-> h.n, at |-> h.at]
    BY <1>1 DEF HitsInv, RecentHits
  <2>2. h.n \in allowed
    <3>1. attempts[h.n][1] = h.at /\ attempts[h.n][2] = TRUE BY <2>1
    <3>. QED BY <3>1, <2>1, <1>2
  <2>3. f[h.n] = h BY <2>1, <2>2
  <2>. QED BY <2>2, <2>3
<1>6. ExistsBijection(allowed, RecentHits)
  <2>1. f \in Surjection(allowed, RecentHits) BY <1>4, <1>5 DEF Injection, Surjection
  <2>. QED BY <1>4, <2>1 DEF Bijection, ExistsBijection
<1>7. IsFiniteSet(allowed)
  <2>1. IsFiniteSet(1 .. Len(attempts)) /\ allowed \subseteq 1 .. Len(attempts) BY <1>2, FS_Interval
  <2>. QED BY <2>1, FS_Subset
<1>. QED BY <1>6, <1>7, FS_Bijection, FS_CardinalityType

LEMMA CheckExact == ASSUME LimitInv, Check PROVE LimitInv'
<1>0. LimitTypes /\ HitsInv /\ LimiterExact /\ MaxMoment \in Nat /\ MaxAttempts \in Nat /\ WindowMs \in Nat
  BY LoginLimitAssumption DEF LimitInv
<1>1. /\ DOMAIN attempts = 1 .. Len(attempts) /\ Len(attempts) \in Nat /\ attempts \in Seq(Attempts)
      /\ moment \in 0 .. MaxMoment /\ moment' = moment /\ Len(attempts) < MaxAttempts
      /\ hits' = KeptHits(RecentHits)
  BY <1>0, Attempt DEF Check, LimitTypes, Attempts
<1>. DEFINE b == Cardinality(RecentHits) < Limit
            last == Len(attempts) + 1
<1>2. b \in BOOLEAN OBVIOUS
<1>3. /\ attempts' = Append(attempts, <<moment, b>>) /\ attempts' \in Seq(Attempts) /\ Len(attempts') = last
      /\ DOMAIN attempts' = 1 .. last /\ attempts'[last] = <<moment, b>>
      /\ \A k \in 1 .. Len(attempts) : attempts'[k] = attempts[k]
  <2>1. attempts' = Append(attempts, <<moment, b>>) BY DEF Check
  <2>2. <<moment, b>> \in Attempts BY <1>1, <1>2 DEF Attempts
  <2>. HIDE DEF b
  <2>. QED BY <2>1, <2>2, <1>1
<1>. HIDE DEF b
<1>4. hits' \subseteq RecentHits \cup {[n |-> last, at |-> moment]}
  BY <1>1 DEF KeptHits, ThisCall
<1>5. [n |-> last, at |-> moment] \in hits' <=> b
  <2>1. [n |-> last, at |-> moment] \notin RecentHits
    <3>1. \A h \in RecentHits : h.n \in 1 .. Len(attempts) BY <1>0, <1>1 DEF RecentHits, HitsInv
    <3>. QED BY <3>1, <1>1
  <2>2. Cardinality(RecentHits) \in Nat
    BY <1>0, WindowCounted DEF LimitInv
  <2>. QED BY <1>1, <2>1, <2>2, LoginLimitAssumption DEF KeptHits, ThisCall, b
<1>6. LimitTypes'
  <2>1. [n |-> last, at |-> moment] \in [n : 1 .. MaxAttempts, at : 0 .. MaxMoment] BY <1>0, <1>1
  <2>2. hits' \subseteq [n : 1 .. MaxAttempts, at : 0 .. MaxMoment]
    BY <1>0, <1>4, <2>1 DEF LimitTypes, RecentHits
  <2>. QED BY <1>0, <1>1, <1>3, <2>2 DEF LimitTypes, Attempts
<1>7. HitsInv'
  <2>1. ASSUME NEW h \in hits' PROVE h.n \in DOMAIN attempts' /\ attempts'[h.n] = <<h.at, TRUE>>
    <3>1. CASE h \in RecentHits
      <4>1. h.n \in DOMAIN attempts /\ attempts[h.n] = <<h.at, TRUE>> BY <3>1, <1>0 DEF HitsInv, RecentHits
      <4>2. h.n \in 1 .. Len(attempts) /\ h.n \in 1 .. last BY <4>1, <1>1
      <4>3. attempts'[h.n] = attempts[h.n] BY <4>2, <1>3
      <4>4. h.n \in DOMAIN attempts' BY <4>2, <1>3
      <4>. QED BY <4>1, <4>3, <4>4
    <3>2. CASE h = [n |-> last, at |-> moment]
      <4>1. b = TRUE BY <2>1, <3>2, <1>5, <1>2
      <4>2. h.n = last /\ h.at = moment BY <3>2
      <4>3. last \in DOMAIN attempts' BY <1>1, <1>3
      <4>. QED BY <4>1, <4>2, <4>3, <1>3
    <3>. QED BY <3>1, <3>2, <1>4
  <2>2. ASSUME NEW k \in DOMAIN attempts', attempts'[k][2] = TRUE, attempts'[k][1] > moment' - WindowMs
        PROVE  [n |-> k, at |-> attempts'[k][1]] \in hits'
    <3>1. CASE k = last
      <4>1. b BY <3>1, <2>2, <1>3
      <4>. QED BY <4>1, <3>1, <1>3, <1>5
    <3>2. CASE k \in 1 .. Len(attempts)
      <4>1. [n |-> k, at |-> attempts[k][1]] \in RecentHits
        BY <3>2, <2>2, <1>0, <1>1, <1>3 DEF HitsInv, RecentHits
      <4>2. RecentHits \subseteq hits' BY <1>1 DEF KeptHits
      <4>. QED BY <4>1, <4>2, <3>2, <1>3
    <3>. QED BY <3>1, <3>2, <1>1, <1>3
  <2>. QED BY <2>1, <2>2 DEF HitsInv
<1>8. LimiterExact'
  <2>1. ASSUME NEW i \in DOMAIN attempts', NEW before,
               before = {k \in 1 .. i - 1 : attempts'[k][2] /\ attempts'[k][1] > attempts'[i][1] - WindowMs}
        PROVE  attempts'[i][2] <=> Cardinality(before) < Limit
    <3>1. CASE i = last
      <4>1. before = {k \in 1 .. Len(attempts) : attempts[k][2] /\ attempts[k][1] > moment - WindowMs}
        BY <3>1, <2>1, <1>1, <1>3
      <4>2. Cardinality(RecentHits) = Cardinality(before) BY <4>1, WindowCounted
      <4>3. attempts'[i][2] = b BY <3>1, <1>3
      <4>4. b <=> Cardinality(RecentHits) < Limit BY DEF b
      <4>. QED BY <4>2, <4>3, <4>4
    <3>2. CASE i \in 1 .. Len(attempts)
      <4>1. before = AllowedBefore(i)
        BY <3>2, <2>1, <1>1, <1>3 DEF AllowedBefore
      <4>. QED BY <4>1, <3>2, <1>0, <1>1, <1>3 DEF LimiterExact
    <3>. QED BY <3>1, <3>2, <1>1, <1>3
  <2>. QED BY <2>1 DEF LimiterExact, AllowedBefore
<1>. QED BY <1>6, <1>7, <1>8 DEF LimitInv

LEMMA LimitStep == LimitInv /\ [LimitNext]_limitVars => LimitInv'
<1>. SUFFICES ASSUME LimitInv, [LimitNext]_limitVars PROVE LimitInv' OBVIOUS
<1>1. CASE MomentPasses
  <2>1. /\ LimitTypes /\ HitsInv /\ LimiterExact /\ UNCHANGED <<hits, attempts>> /\ moment' = moment + 1
        /\ moment \in 0 .. MaxMoment /\ moment < MaxMoment /\ MaxMoment \in Nat /\ WindowMs \in Nat
    BY <1>1, LoginLimitAssumption DEF LimitInv, MomentPasses, LimitTypes
  <2>2. LimitTypes' BY <2>1 DEF LimitTypes
  <2>3. \A k \in DOMAIN attempts : attempts[k][1] \in Int BY <2>1, Attempt
  <2>4. HitsInv'
    <3>1. \A h \in hits' : h.n \in DOMAIN attempts' /\ attempts'[h.n] = <<h.at, TRUE>> BY <2>1 DEF HitsInv
    <3>2. ASSUME NEW k \in DOMAIN attempts', attempts'[k][2] = TRUE, attempts'[k][1] > moment' - WindowMs
          PROVE  [n |-> k, at |-> attempts'[k][1]] \in hits'
      <4>1. attempts[k][1] > moment - WindowMs BY <2>1, <2>3, <3>2
      <4>. QED BY <4>1, <3>2, <2>1 DEF HitsInv
    <3>. QED BY <3>1, <3>2 DEF HitsInv
  <2>5. LimiterExact' BY <2>1 DEF LimiterExact, AllowedBefore
  <2>. QED BY <2>2, <2>4, <2>5 DEF LimitInv
<1>2. CASE Check BY <1>2, CheckExact
<1>3. CASE UNCHANGED limitVars
  BY <1>3 DEF limitVars, LimitInv, LimitTypes, HitsInv, LimiterExact, AllowedBefore
<1>. QED BY <1>1, <1>2, <1>3 DEF LimitNext

\* A login is let through exactly when fewer than the limit were in the window before
\* it, for every limit, window and sequence of calls (RateLimiter.check).
THEOREM LimiterIsExact == LimitSpec => []LimiterExact
<1>1. LimitSpec => []LimitInv BY LimitInitial, LimitStep, PTL DEF LimitSpec
<1>2. LimitInv => LimiterExact BY DEF LimitInv
<1>. QED BY <1>1, <1>2, PTL

LEMMA LimitTypesHold == LimitSpec => []LimitTypes
BY LimitInitial, LimitStep, PTL DEF LimitSpec, LimitInv

-----------------------------------------------------------------------------
(* Push notifications: pruning and preferences. *)

FanType == [todo : SUBSET Registered, row : SUBSET Registered, dead : BOOLEAN, cache : SUBSET (People \X BOOLEAN)]

FanTypesInv ==
  /\ endpoint \in [Devices -> 0 .. MaxEndpoints]
  /\ subscribed \subseteq Registered /\ kept \subseteq Registered
  /\ prefs \in [People -> BOOLEAN]
  /\ fan \in [Processes -> FanType]

\* Endpoints only ascend: a row is of its device's endpoint or of an earlier one, and a
\* row that is to be pruned of an earlier one.
NotAhead(r) == r[3] <= endpoint[r[2]]
Behind(r) == r[3] < endpoint[r[2]]
EndpointsInv ==
  /\ \A r \in subscribed : NotAhead(r)
  /\ kept \subseteq subscribed
  /\ \A r \in kept : Live(r)
  /\ \A p \in Processes : \A r \in fan[p].todo \cup fan[p].row : NotAhead(r)
  /\ \A p \in Processes : fan[p].dead => fan[p].row # {} /\ \A r \in fan[p].row : Behind(r)

\* While the worker fans out, whoever wants the event now is among the willing, and so
\* is whoever it has read or sent to.
WillingInv ==
  LET f == fan["worker"]
  IN  /\ f.todo \cup f.row # {} => \A u \in People : prefs[u] => u \in willing
      /\ f.todo \cup f.row = {} => f.cache = {}
      /\ \A u \in People : <<u, TRUE>> \in f.cache => u \in willing
      /\ \A r \in f.row : r[1] \in willing

PushInv == FanTypesInv /\ EndpointsInv /\ WillingInv

LEMMA RowOfRegistered ==
  ASSUME NEW r \in Registered
  PROVE  /\ r[1] \in People /\ r[2] \in Devices /\ r[3] \in 1 .. MaxEndpoints
         /\ r = <<r[1], r[2], r[3]>>
BY DEF Registered

LEMMA PushBounds == MaxEndpoints \in Nat /\ MaxToggles \in Nat /\ MaxPushes \in Nat
BY PushAssumption

LEMMA NoFanType == NoFan \in FanType
BY DEF NoFan, FanType

\* What a step of a fan-out leaves of it.
LEMMA Fanned ==
  ASSUME fan \in [Processes -> FanType], NEW p \in Processes, NEW f \in FanType, Fans(p, f)
  PROVE  /\ fan' \in [Processes -> FanType]
         /\ \A q \in Processes : q # p => fan'[q] = fan[q]
         /\ fan'[p] = IF f.todo = {} /\ f.row = {} THEN NoFan ELSE f
BY NoFanType DEF Fans

LEMMA PushInitInv == PushInit => PushInv
<1> SUFFICES ASSUME PushInit PROVE PushInv
  OBVIOUS
<1>1. FanTypesInv
  BY NoFanType, PushBounds DEF PushInit, FanTypesInv
<1>2. EndpointsInv
  BY DEF PushInit, EndpointsInv, NoFan
<1>3. WillingInv
  BY DEF PushInit, WillingInv, NoFan, Processes
<1>. QED BY <1>1, <1>2, <1>3 DEF PushInv

-----------------------------------------------------------------------------
(* The settings page. *)

LEMMA EnableKeeps ==
  ASSUME PushInv, NEW u \in People, NEW d \in Devices, EnablePush(u, d)
  PROVE  PushInv'
<1> DEFINE r == <<u, d, endpoint[d]>>
<1>1. r \in Registered /\ r[2] = d /\ r[3] = endpoint[d]
  BY PushBounds DEF EnablePush, PushInv, FanTypesInv, Registered
<1>2. subscribed' = subscribed \cup {r} /\ kept' = kept \cup {r}
  BY DEF EnablePush
<1>3. NotAhead(r) /\ Live(r)
  BY <1>1, PushBounds DEF NotAhead, Live, PushInv, FanTypesInv
<1>4. UNCHANGED <<endpoint, prefs, fan, willing>>
  BY DEF EnablePush
<1>5. FanTypesInv'
  BY <1>1, <1>2, <1>4 DEF PushInv, FanTypesInv
<1>6. EndpointsInv'
  BY <1>2, <1>3, <1>4 DEF PushInv, EndpointsInv, NotAhead, Behind, Live
<1>7. WillingInv'
  BY <1>4 DEF PushInv, WillingInv
<1>. QED BY <1>5, <1>6, <1>7 DEF PushInv

LEMMA ChangeKeeps ==
  ASSUME PushInv, NEW d \in Devices, EndpointChanges(d)
  PROVE  PushInv'
<1>1. endpoint \in [Devices -> 0 .. MaxEndpoints] /\ endpoint[d] < MaxEndpoints
  BY DEF EndpointChanges, PushInv, FanTypesInv
<1>2. endpoint' \in [Devices -> 0 .. MaxEndpoints]
  BY <1>1, PushBounds DEF EndpointChanges
<1>3. /\ endpoint'[d] = endpoint[d] + 1
      /\ \A e \in Devices : e # d => endpoint'[e] = endpoint[e]
  BY <1>1 DEF EndpointChanges
<1>4. kept' = {r \in kept : r[2] # d} /\ UNCHANGED <<subscribed, prefs, fan, willing>>
  BY DEF EndpointChanges
<1>5. ASSUME NEW r \in Registered PROVE (NotAhead(r) => NotAhead(r)') /\ (Behind(r) => Behind(r)')
  BY <1>1, <1>2, <1>3, RowOfRegistered, PushBounds DEF NotAhead, Behind
<1>6. FanTypesInv'
  BY <1>2, <1>4 DEF PushInv, FanTypesInv
<1>7. EndpointsInv'
  <2>1. \A r \in subscribed' : NotAhead(r)'
    BY <1>4, <1>5 DEF PushInv, EndpointsInv, FanTypesInv
  <2>2. \A r \in kept' : Live(r)'
    <3> SUFFICES ASSUME NEW r \in kept' PROVE Live(r)'
      OBVIOUS
    <3>1. r \in kept /\ r[2] # d /\ r \in Registered /\ Live(r)
      BY <1>4 DEF PushInv, FanTypesInv, EndpointsInv
    <3>. QED BY <1>3, <3>1, RowOfRegistered DEF Live
  <2>3. \A p \in Processes : fan[p].todo \cup fan[p].row \subseteq Registered
    BY DEF PushInv, FanTypesInv, FanType
  <2>4. \A p \in Processes : \A r \in fan'[p].todo \cup fan'[p].row : NotAhead(r)'
    BY <1>4, <1>5, <2>3 DEF PushInv, EndpointsInv
  <2>5. \A p \in Processes : fan'[p].dead => fan'[p].row # {} /\ \A r \in fan'[p].row : Behind(r)'
    BY <1>4, <1>5, <2>3 DEF PushInv, EndpointsInv
  <2>6. kept' \subseteq subscribed'
    BY <1>4 DEF PushInv, EndpointsInv
  <2>. QED BY <2>1, <2>2, <2>4, <2>5, <2>6 DEF EndpointsInv
<1>8. WillingInv'
  BY <1>4 DEF PushInv, WillingInv
<1>. QED BY <1>6, <1>7, <1>8 DEF PushInv

LEMMA UnsubscribeKeeps ==
  ASSUME PushInv, NEW r, Unsubscribe(r)
  PROVE  PushInv'
<1>1. subscribed' = subscribed \ {r} /\ kept' = kept \ {r} /\ UNCHANGED <<endpoint, prefs, fan, willing>>
  BY DEF Unsubscribe
<1>2. FanTypesInv'
  BY <1>1 DEF PushInv, FanTypesInv
<1>3. EndpointsInv'
  BY <1>1 DEF PushInv, EndpointsInv, NotAhead, Behind, Live
<1>4. WillingInv'
  BY <1>1 DEF PushInv, WillingInv
<1>. QED BY <1>2, <1>3, <1>4 DEF PushInv

LEMMA PreferencesKeep ==
  ASSUME PushInv, NEW u \in People, NEW wanted \in BOOLEAN, SetUserPreferences(u, wanted)
  PROVE  PushInv'
<1>1. /\ prefs' = [prefs EXCEPT ![u] = wanted]
      /\ willing' = willing \cup (IF wanted THEN {u} ELSE {})
      /\ UNCHANGED <<endpoint, subscribed, fan, kept>>
  BY DEF SetUserPreferences
<1>2. FanTypesInv'
  BY <1>1 DEF PushInv, FanTypesInv
<1>3. EndpointsInv'
  BY <1>1 DEF PushInv, EndpointsInv, NotAhead, Behind, Live
<1>4. prefs'[u] = wanted /\ \A v \in People : v # u => prefs'[v] = prefs[v]
  BY <1>1 DEF PushInv, FanTypesInv
<1>5. willing \subseteq willing' /\ (wanted => u \in willing')
  BY <1>1
<1>6. WillingInv'
  BY <1>1, <1>4, <1>5 DEF PushInv, WillingInv
<1>. QED BY <1>2, <1>3, <1>6 DEF PushInv

-----------------------------------------------------------------------------
(* The fan-out.  What a step of it has to leave in order is what is said of  *)
(* one fan-out; the other one is as it was.                                  *)

FanEndpoints(f) ==
  /\ \A r \in f.todo \cup f.row : NotAhead(r)
  /\ f.dead => f.row # {} /\ \A r \in f.row : Behind(r)

FanWilling(f, wants, those) ==
  /\ \A u \in People : wants[u] => u \in those
  /\ \A u \in People : <<u, TRUE>> \in f.cache => u \in those
  /\ \A r \in f.row : r[1] \in those

LEMMA FanStepKeeps ==
  ASSUME PushInv, NEW p \in Processes, NEW f \in FanType, Fans(p, f), FanEndpoints(f),
         UNCHANGED <<endpoint, prefs, subscribed, kept>>,
         p = "worker" => FanWilling(f, prefs, willing'),
         p # "worker" => willing' = willing
  PROVE  PushInv'
<1>1. /\ fan' \in [Processes -> FanType]
      /\ \A q \in Processes : q # p => fan'[q] = fan[q]
      /\ fan'[p] = IF f.todo = {} /\ f.row = {} THEN NoFan ELSE f
  BY Fanned DEF PushInv, FanTypesInv
<1>2. FanTypesInv'
  BY <1>1 DEF PushInv, FanTypesInv
<1>3. FanEndpoints(fan'[p])
  BY <1>1 DEF FanEndpoints, NoFan
<1>4. EndpointsInv'
  BY <1>1, <1>3 DEF PushInv, EndpointsInv, FanEndpoints, NotAhead, Behind, Live
<1>5. ASSUME p = "worker" PROVE WillingInv'
  <2>1. FanWilling(f, prefs', willing')
    BY <1>5 DEF FanWilling
  <2>2. CASE f.todo = {} /\ f.row = {}
    <3>1. fan'["worker"].todo = {} /\ fan'["worker"].row = {} /\ fan'["worker"].cache = {}
      BY <1>1, <1>5, <2>2 DEF NoFan
    <3>. QED BY <3>1 DEF WillingInv
  <2>3. CASE ~(f.todo = {} /\ f.row = {})
    <3>1. fan'["worker"] = f /\ f.todo \cup f.row # {}
      BY <1>1, <1>5, <2>3
    <3>. QED BY <2>1, <3>1 DEF WillingInv, FanWilling
  <2>. QED BY <2>2, <2>3
<1>6. ASSUME p # "worker" PROVE WillingInv'
  <2>1. fan'["worker"] = fan["worker"]
    BY <1>1, <1>6 DEF Processes
  <2>. QED BY <2>1, <1>6 DEF PushInv, WillingInv
<1>. QED BY <1>2, <1>4, <1>5, <1>6 DEF PushInv

LEMMA SendKeeps == ASSUME PushInv, SendPush PROVE PushInv'
<1> DEFINE f == [NoFan EXCEPT !.todo = subscribed]
<1>1. f.todo = subscribed /\ f.row = {} /\ f.dead = FALSE /\ f.cache = {}
  BY DEF NoFan
<1>2. f \in FanType
  BY DEF NoFan, FanType, PushInv, FanTypesInv
<1>3. FanEndpoints(f)
  BY <1>1 DEF FanEndpoints, PushInv, EndpointsInv
<1>4. FanWilling(f, prefs, willing')
  BY <1>1 DEF SendPush, Willing, FanWilling
<1>5. Fans("worker", f) /\ UNCHANGED <<endpoint, prefs, subscribed, kept>>
  BY DEF SendPush
<1>6. "worker" \in Processes
  BY DEF Processes
<1>. HIDE DEF f
<1>. QED BY <1>2, <1>3, <1>4, <1>5, <1>6, FanStepKeeps

LEMMA TestKeeps == ASSUME PushInv, NEW u \in People, SendPushToUser(u) PROVE PushInv'
<1> DEFINE todo == {r \in subscribed : r[1] = u}
<1> DEFINE cache == {<<u, TRUE>>}
<1> DEFINE f == [NoFan EXCEPT !.todo = todo, !.cache = cache]
<1>1. f.todo \subseteq subscribed /\ f.row = {} /\ f.dead = FALSE
  BY DEF NoFan
<1>2. f \in FanType
  <2>1. todo \in SUBSET Registered
    BY DEF PushInv, FanTypesInv
  <2>2. <<u, TRUE>> \in People \X BOOLEAN
    OBVIOUS
  <2>3. cache \in SUBSET (People \X BOOLEAN)
    BY <2>2
  <2>. HIDE DEF todo, cache
  <2>. QED BY <2>1, <2>3 DEF NoFan, FanType
<1>3. FanEndpoints(f)
  BY <1>1 DEF FanEndpoints, PushInv, EndpointsInv
<1>4. Fans("server", f) /\ UNCHANGED <<endpoint, prefs, subscribed, kept, willing>>
  BY DEF SendPushToUser, pushHistory
<1>5. "server" \in Processes /\ "server" # "worker"
  BY DEF Processes
<1>. HIDE DEF f
<1>. QED BY <1>2, <1>3, <1>4, <1>5, FanStepKeeps

\* What the invariant says of a fan-out under way.
LEMMA UnderWay ==
  ASSUME PushInv, NEW p \in Processes
  PROVE  /\ fan[p] \in FanType /\ FanEndpoints(fan[p])
         /\ p = "worker" /\ fan[p].todo \cup fan[p].row # {} => FanWilling(fan[p], prefs, willing)
<1>1. fan[p] \in FanType
  BY DEF PushInv, FanTypesInv
<1>2. FanEndpoints(fan[p])
  BY DEF PushInv, EndpointsInv, FanEndpoints
<1>3. p = "worker" /\ fan[p].todo \cup fan[p].row # {} => FanWilling(fan[p], prefs, willing)
  BY DEF PushInv, WillingInv, FanWilling
<1>. QED BY <1>1, <1>2, <1>3

LEMMA ReadRowsKeeps ==
  ASSUME PushInv, NEW p \in Processes, NEW r \in Registered, ReadPreferences(p, r)
  PROVE  PushInv'
<1> DEFINE f == [fan[p] EXCEPT !.cache = fan[p].cache \cup {<<r[1], prefs[r[1]]>>}]
<1>1. fan[p] \in FanType /\ r \in fan[p].todo
  BY UnderWay DEF ReadPreferences
<1>2. f.todo = fan[p].todo /\ f.row = fan[p].row /\ f.dead = fan[p].dead
      /\ f.cache = fan[p].cache \cup {<<r[1], prefs[r[1]]>>}
  BY <1>1 DEF FanType
<1>3. r[1] \in People /\ prefs[r[1]] \in BOOLEAN
  BY RowOfRegistered DEF PushInv, FanTypesInv
<1>4. f \in FanType
  BY <1>1, <1>3 DEF FanType
<1>5. FanEndpoints(f)
  BY <1>2, UnderWay DEF FanEndpoints
<1>6. Fans(p, f) /\ UNCHANGED <<endpoint, prefs, subscribed, kept, willing>>
  BY DEF ReadPreferences, pushHistory
<1>7. p = "worker" => FanWilling(f, prefs, willing)
  <2> SUFFICES ASSUME p = "worker" PROVE FanWilling(f, prefs, willing)
    OBVIOUS
  <2>1. FanWilling(fan[p], prefs, willing)
    BY <1>1, UnderWay
  <2>2. ASSUME NEW u \in People, <<u, TRUE>> \in f.cache PROVE u \in willing
    <3>1. CASE <<u, TRUE>> \in fan[p].cache
      BY <2>1, <3>1 DEF FanWilling
    <3>2. CASE <<u, TRUE>> = <<r[1], prefs[r[1]]>>
      <4>1. u = r[1] /\ prefs[r[1]] = TRUE
        BY <3>2
      <4>. QED BY <2>1, <4>1 DEF FanWilling
    <3>. QED BY <1>2, <2>2, <3>1, <3>2
  <2>. QED BY <1>2, <2>1, <2>2 DEF FanWilling
<1>. HIDE DEF f
<1>. QED BY <1>4, <1>5, <1>6, <1>7, FanStepKeeps

LEMMA TakeKeeps ==
  ASSUME PushInv, NEW p \in Processes, NEW r \in Registered, Takes(p, r)
  PROVE  PushInv'
<1>1. PICK wanted \in Cached(p, r[1]) :
        Fans(p, [fan[p] EXCEPT !.todo = fan[p].todo \ {r}, !.row = IF wanted THEN {r} ELSE {}])
  BY DEF Takes
<1> DEFINE f == [fan[p] EXCEPT !.todo = fan[p].todo \ {r}, !.row = IF wanted THEN {r} ELSE {}]
<1>2. fan[p] \in FanType /\ FanEndpoints(fan[p]) /\ r \in fan[p].todo /\ fan[p].row = {}
  BY UnderWay DEF Takes
<1>3. <<r[1], wanted>> \in fan[p].cache /\ wanted \in BOOLEAN
  BY <1>2 DEF Cached, FanType
<1>4. f.todo \subseteq fan[p].todo /\ f.row \subseteq {r} /\ f.dead = fan[p].dead /\ f.cache = fan[p].cache
  BY <1>2 DEF FanType
<1>5. f.row # {} => wanted = TRUE
  BY <1>2, <1>3 DEF FanType
<1>6. f \in FanType
  BY <1>2, <1>3 DEF FanType
<1>7. FanEndpoints(f)
  BY <1>2, <1>4 DEF FanEndpoints
<1>8. UNCHANGED <<endpoint, prefs, subscribed, kept, willing>>
  BY DEF Takes, pushHistory
<1>9. p = "worker" => FanWilling(f, prefs, willing)
  <2> SUFFICES ASSUME p = "worker" PROVE FanWilling(f, prefs, willing)
    OBVIOUS
  <2>1. FanWilling(fan[p], prefs, willing)
    BY <1>2, UnderWay
  <2>2. wanted = TRUE => r[1] \in willing
    BY <1>3, <2>1, RowOfRegistered DEF FanWilling
  <2>. QED BY <1>4, <1>5, <2>1, <2>2 DEF FanWilling
<1>. HIDE DEF f
<1>. QED BY <1>1, <1>6, <1>7, <1>8, <1>9, FanStepKeeps DEF f

LEMMA DeliverKeeps ==
  ASSUME PushInv, NEW p \in Processes, NEW r \in Registered, Deliver(p, r)
  PROVE  PushInv'
<1>1. PICK code \in IF Live(r) THEN {201, 503} ELSE {410, 503} :
        Fans(p, IF DeadSubscription(code) THEN [fan[p] EXCEPT !.dead = TRUE] ELSE [fan[p] EXCEPT !.row = {}])
  BY DEF Deliver
<1> DEFINE f == IF DeadSubscription(code) THEN [fan[p] EXCEPT !.dead = TRUE] ELSE [fan[p] EXCEPT !.row = {}]
<1>2. fan[p] \in FanType /\ FanEndpoints(fan[p]) /\ fan[p].row = {r} /\ ~fan[p].dead
  BY UnderWay DEF Deliver
<1>3. f.todo = fan[p].todo /\ f.row \subseteq fan[p].row /\ f.cache = fan[p].cache /\ f \in FanType
  <2>1. CASE DeadSubscription(code)
    <3>1. f = [fan[p] EXCEPT !.dead = TRUE]
      BY <2>1
    <3>. HIDE DEF f
    <3>2. f = [todo |-> fan[p].todo, row |-> fan[p].row, dead |-> TRUE, cache |-> fan[p].cache]
      BY <1>2, <3>1 DEF FanType
    <3>. QED BY <1>2, <3>2 DEF FanType
  <2>2. CASE ~DeadSubscription(code)
    BY <1>2, <2>2 DEF FanType
  <2>. QED BY <2>1, <2>2
<1>4. f.dead => DeadSubscription(code) /\ f.row = {r}
  BY <1>2 DEF FanType
<1>5. DeadSubscription(code) => Behind(r)
  <2>1. DeadSubscription(code) => ~Live(r)
    BY DEF DeadSubscription
  <2>2. NotAhead(r) /\ endpoint[r[2]] \in 0 .. MaxEndpoints /\ r[3] \in 1 .. MaxEndpoints
    BY <1>2, RowOfRegistered DEF FanEndpoints, PushInv, FanTypesInv
  <2>. QED BY <2>1, <2>2, PushBounds DEF Live, NotAhead, Behind
<1>6. FanEndpoints(f)
  BY <1>2, <1>3, <1>4, <1>5 DEF FanEndpoints
<1>7. UNCHANGED <<endpoint, prefs, subscribed, kept, willing>>
  BY DEF Deliver, pushHistory
<1>8. p = "worker" => FanWilling(f, prefs, willing)
  <2>1. p = "worker" => FanWilling(fan[p], prefs, willing)
    BY <1>2, UnderWay
  <2>. HIDE DEF f
  <2>. QED BY <1>3, <2>1 DEF FanWilling
<1>. HIDE DEF f
<1>. QED BY <1>1, <1>3, <1>6, <1>7, <1>8, FanStepKeeps DEF f

\* What is pruned is behind its device's endpoint, and what is kept is not.
LEMMA PruneEndpointKeeps ==
  ASSUME PushInv, NEW p \in Processes, NEW r \in Registered, Prune(p, r)
  PROVE  PushInv'
<1> DEFINE f == [fan[p] EXCEPT !.row = {}, !.dead = FALSE]
<1>1. fan[p] \in FanType /\ FanEndpoints(fan[p]) /\ fan[p].row = {r} /\ fan[p].dead
  BY UnderWay DEF Prune
<1>2. f.todo = fan[p].todo /\ f.row = {} /\ f.dead = FALSE /\ f.cache = fan[p].cache /\ f \in FanType
  BY <1>1 DEF FanType
<1>3. /\ subscribed' = {x \in subscribed : <<x[2], x[3]>> # <<r[2], r[3]>>}
      /\ Fans(p, f) /\ UNCHANGED <<endpoint, prefs, kept, willing>>
  BY DEF Prune, pushHistory
<1>4. kept \subseteq subscribed'
  <2> SUFFICES ASSUME NEW x \in kept PROVE x \in subscribed'
    OBVIOUS
  <2>1. x \in subscribed /\ x \in Registered /\ Live(x)
    BY DEF PushInv, FanTypesInv, EndpointsInv
  <2>2. Behind(r)
    BY <1>1 DEF FanEndpoints
  <2>3. x[2] # r[2] \/ x[3] # r[3]
    <3>1. endpoint[r[2]] \in 0 .. MaxEndpoints /\ r[3] \in 1 .. MaxEndpoints
      BY RowOfRegistered DEF PushInv, FanTypesInv
    <3>. QED BY <2>1, <2>2, <3>1, PushBounds DEF Live, Behind
  <2>. QED BY <1>3, <2>1, <2>3
<1>5. /\ fan' \in [Processes -> FanType]
      /\ \A q \in Processes : q # p => fan'[q] = fan[q]
      /\ fan'[p] = IF f.todo = {} /\ f.row = {} THEN NoFan ELSE f
  <2>. HIDE DEF f
  <2>. QED BY <1>2, <1>3, Fanned DEF PushInv, FanTypesInv
<1>6. FanTypesInv'
  BY <1>3, <1>5 DEF PushInv, FanTypesInv
<1>7. FanEndpoints(fan'[p])
  BY <1>1, <1>2, <1>5 DEF FanEndpoints, NoFan
<1>8. EndpointsInv'
  BY <1>3, <1>4, <1>5, <1>7 DEF PushInv, EndpointsInv, FanEndpoints, NotAhead, Behind, Live
<1>9. WillingInv'
  <2>1. CASE p = "worker"
    <3>1. FanWilling(fan[p], prefs, willing)
      BY <1>1, <2>1, UnderWay
    <3>2. CASE f.todo = {}
      <4>1. fan'["worker"].todo = {} /\ fan'["worker"].row = {} /\ fan'["worker"].cache = {}
        BY <1>2, <1>5, <2>1, <3>2 DEF NoFan
      <4>. QED BY <4>1 DEF WillingInv
    <3>3. CASE f.todo # {}
      <4>1. fan'["worker"] = f
        BY <1>5, <2>1, <3>3
      <4>2. fan'["worker"].row = {} /\ fan'["worker"].todo # {} /\ fan'["worker"].cache = fan[p].cache
        BY <1>2, <3>3, <4>1
      <4>. QED BY <1>3, <3>1, <4>2 DEF WillingInv, FanWilling
    <3>. QED BY <3>2, <3>3
  <2>2. CASE p # "worker"
    <3>1. fan'["worker"] = fan["worker"]
      BY <1>5, <2>2 DEF Processes
    <3>. QED BY <1>3, <3>1 DEF PushInv, WillingInv
  <2>. QED BY <2>1, <2>2
<1>. QED BY <1>6, <1>8, <1>9 DEF PushInv

-----------------------------------------------------------------------------
LEMMA PushStep == PushInv /\ [PushNext]_pushVars => PushInv'
<1> SUFFICES ASSUME PushInv, [PushNext]_pushVars PROVE PushInv'
  OBVIOUS
<1>1. ASSUME NEW u \in People, NEW d \in Devices, EnablePush(u, d) PROVE PushInv'
  BY <1>1, EnableKeeps
<1>2. ASSUME NEW u \in People, NEW wanted \in BOOLEAN, SetUserPreferences(u, wanted) PROVE PushInv'
  BY <1>2, PreferencesKeep
<1>3. ASSUME NEW u \in People, SendPushToUser(u) PROVE PushInv'
  BY <1>3, TestKeeps
<1>4. ASSUME NEW d \in Devices, EndpointChanges(d) PROVE PushInv'
  BY <1>4, ChangeKeeps
<1>5. ASSUME NEW r \in Registered, Unsubscribe(r) PROVE PushInv'
  BY <1>5, UnsubscribeKeeps
<1>6. CASE SendPush
  BY <1>6, SendKeeps
<1>7. ASSUME NEW p \in Processes, NEW r \in Registered,
             ReadPreferences(p, r) \/ Takes(p, r) \/ Deliver(p, r) \/ Prune(p, r)
      PROVE  PushInv'
  BY <1>7, ReadRowsKeeps, TakeKeeps, DeliverKeeps, PruneEndpointKeeps
<1>8. CASE UNCHANGED pushVars
  <2>1. UNCHANGED <<endpoint, subscribed, prefs, fan, kept, willing>>
    BY <1>8 DEF pushVars, pushHistory
  <2>. QED BY <2>1 DEF PushInv, FanTypesInv, EndpointsInv, WillingInv, NotAhead, Behind, Live
<1>. QED BY <1>1, <1>2, <1>3, <1>4, <1>5, <1>6, <1>7, <1>8 DEF PushNext

LEMMA InvReaches == PushInv => PushReaches
BY DEF PushInv, EndpointsInv, WillingInv, PushReaches

\* Whatever fails and whoever renews an endpoint or changes preferences meanwhile, the
\* fan-out prunes no subscription that lives (removeSubscriptionByEndpoint) and sends the
\* event to those only who wanted it since it began (sendPush).
THEOREM LivingIsSpared == PushSpec => []PushReaches
<1>1. PushSpec => []PushInv
  BY PushInitInv, PushStep, PTL DEF PushSpec
<1>. QED BY <1>1, InvReaches, PTL

\* The bounds of the toggles and pushes, and who is willing.
PushRest == willing \subseteq People /\ toggles \in 0 .. MaxToggles /\ pushes \in 0 .. MaxPushes

LEMMA PushTypesHold == PushSpec => []PushTypes
<1>1. PushInit => PushRest BY PushBounds DEF PushInit, PushRest
<1>2. PushRest /\ [PushNext]_pushVars => PushRest'
  <2>. SUFFICES ASSUME PushRest, [PushNext]_pushVars PROVE PushRest' OBVIOUS
  <2>1. /\ toggles' = toggles \/ (toggles < MaxToggles /\ toggles' = toggles + 1)
        /\ pushes' = pushes \/ (pushes < MaxPushes /\ pushes' = pushes + 1)
    BY DEF PushNext, pushVars, EnablePush, SetUserPreferences, SendPushToUser, EndpointChanges, Unsubscribe, SendPush,
           ReadPreferences, Takes, Deliver, Prune
  <2>2. willing' \subseteq People
    BY DEF PushRest, PushNext, pushVars, pushHistory, Willing, EnablePush, SetUserPreferences, SendPushToUser, EndpointChanges,
           Unsubscribe, SendPush, ReadPreferences, Takes, Deliver, Prune
  <2>. QED BY <2>1, <2>2, PushBounds DEF PushRest
<1>3. PushInv /\ PushRest => PushTypes
  <2>. SUFFICES ASSUME PushInv, PushRest PROVE PushTypes OBVIOUS
  <2>1. \A p \in Processes : fan[p].todo \cup fan[p].row \subseteq Registered
    BY DEF PushInv, FanTypesInv, FanType
  <2>. QED BY <2>1 DEF PushInv, FanTypesInv, PushRest, PushTypes
<1>. QED BY <1>1, <1>2, <1>3, PushInitInv, PushStep, PTL DEF PushSpec

-----------------------------------------------------------------------------
(* What is told of new media. *)

\* A title that was told and is still listed is among the newest, in the answer that
\* is on its way, and in what the detector has seen.
ListedInv ==
  /\ listed \subseteq Newest15(shelf)
  /\ fetched # Nothing => outbox = {} /\ listed \subseteq fetched
  /\ seen # Unseeded => listed \subseteq seen /\ outbox \subseteq seen
  /\ seen = Unseeded => outbox = {}

MediaInv == MediaTypes /\ ListedInv /\ ToldOnceWhileListed

LEMMA MediaInitial == MediaInit => MediaInv
<1>. SUFFICES ASSUME MediaInit PROVE MediaInv OBVIOUS
<1>1. MediaTypes BY NewMediaAssumption DEF MediaInit, MediaTypes
<1>2. ListedInv /\ ToldOnceWhileListed BY DEF MediaInit, ListedInv, ToldOnceWhileListed, NoTitleMissed, NotToldAgain
<1>. QED BY <1>1, <1>2 DEF MediaInv

LEMMA NewestAreTitles == Newest15(shelf) \subseteq Titles
BY DEF Newest15

LEMMA TitlesAreThere == ASSUME NEW S \in SUBSET Titles PROVE S # Nothing /\ S # Unseeded
BY NewMediaAssumption DEF Nothing, Unseeded

LEMMA OneFaultMore ==
  ASSUME mediaFaults \in 0 .. MaxMediaFaults, mediaFaults < MaxMediaFaults
  PROVE  mediaFaults + 1 \in 0 .. MaxMediaFaults
BY NewMediaAssumption

\* Whatever the section becomes, no more is listed than before.
LEMMA ShelfStep ==
  ASSUME MediaInv, NEW s \in [Titles -> 0 .. MaxShelfChanges], ShelfBecomes(s)
  PROVE  MediaInv'
<1>1. /\ shelf' = s /\ listed' = listed \cap Newest15(shelf') /\ changes < MaxShelfChanges /\ changes' = changes + 1
      /\ UNCHANGED <<fetched, seen, outbox, mediaFaults, told, base>>
  BY DEF ShelfBecomes, Newest15
<1>2. MediaTypes'
  <2>1. changes' \in 0 .. MaxShelfChanges BY <1>1, NewMediaAssumption DEF MediaInv, MediaTypes
  <2>. QED BY <1>1, <2>1 DEF MediaInv, MediaTypes
<1>3. ListedInv' BY <1>1 DEF MediaInv, ListedInv
<1>4. ToldOnceWhileListed' BY <1>1 DEF MediaInv, ToldOnceWhileListed, NoTitleMissed, NotToldAgain
<1>. QED BY <1>2, <1>3, <1>4 DEF MediaInv

LEMMA DetectStep == ASSUME MediaInv, Detect PROVE MediaInv'
<1>1. /\ fetched # Nothing /\ UNCHANGED <<shelf, changes, mediaFaults, told, listed>>
      /\ outbox' = (IF seen = Unseeded THEN {} ELSE fetched \ seen)
      /\ base' = (IF seen = Unseeded THEN fetched ELSE base)
      /\ seen' = fetched /\ fetched' = Nothing
  BY DEF Detect, FirstTime
<1>2. MediaTypes /\ ListedInv /\ ToldOnceWhileListed BY DEF MediaInv
<1>3. fetched \subseteq Titles /\ fetched # Unseeded BY <1>1, <1>2, TitlesAreThere DEF MediaTypes
<1>4. MediaTypes' BY <1>1, <1>2, <1>3 DEF MediaTypes
<1>5. ListedInv'
  <2>1. Newest15(shelf)' = Newest15(shelf) BY <1>1 DEF Newest15
  <2>. QED BY <1>1, <1>2, <1>3, <2>1 DEF ListedInv
<1>6. NoTitleMissed'
  <2>1. CASE seen = Unseeded BY <2>1, <1>1 DEF NoTitleMissed
  <2>2. CASE seen # Unseeded
    <3>1. outbox = {} /\ seen \subseteq base \cup told
      BY <2>2, <1>1, <1>2 DEF ListedInv, ToldOnceWhileListed, NoTitleMissed
    <3>. QED BY <2>2, <3>1, <1>1 DEF NoTitleMissed
  <2>. QED BY <2>1, <2>2
<1>7. NotToldAgain' BY <1>1, <1>2 DEF ListedInv, NotToldAgain
<1>. QED BY <1>4, <1>5, <1>6, <1>7 DEF MediaInv, ToldOnceWhileListed

LEMMA AnnounceStep == ASSUME MediaInv, NEW t \in Titles, Announce(t) PROVE MediaInv'
<1>1. /\ t \in outbox /\ outbox' = outbox \ {t} /\ told' = told \cup {t}
      /\ listed' = listed \cup ({t} \cap Newest15(shelf))
      /\ UNCHANGED <<shelf, changes, fetched, seen, mediaFaults, base>>
  BY DEF Announce
<1>2. MediaTypes /\ ListedInv /\ ToldOnceWhileListed BY DEF MediaInv
<1>3. seen # Unseeded /\ fetched = Nothing /\ t \in seen BY <1>1, <1>2 DEF ListedInv
<1>4. MediaTypes' BY <1>1, <1>2 DEF MediaTypes
<1>5. ListedInv'
  <2>1. Newest15(shelf)' = Newest15(shelf) BY <1>1 DEF Newest15
  <2>. QED BY <1>1, <1>2, <1>3, <2>1 DEF ListedInv
<1>6. ToldOnceWhileListed' BY <1>1, <1>2 DEF ToldOnceWhileListed, NoTitleMissed, NotToldAgain
<1>. QED BY <1>4, <1>5, <1>6 DEF MediaInv

LEMMA MediaStep == MediaInv /\ [MediaNext]_mediaVars => MediaInv'
<1>. SUFFICES ASSUME MediaInv, [MediaNext]_mediaVars PROVE MediaInv' OBVIOUS
<1>0. MediaTypes /\ ListedInv /\ ToldOnceWhileListed BY DEF MediaInv
<1>1. ASSUME NEW t \in Titles, AddTitle(t) \/ AddEpisode(t) \/ RemoveTitle(t) PROVE MediaInv'
  <2>. DEFINE s(n) == [shelf EXCEPT ![t] = n]
  <2>1. changes < MaxShelfChanges /\ changes + 1 \in 0 .. MaxShelfChanges
    BY <1>1, <1>0, NewMediaAssumption DEF AddTitle, AddEpisode, RemoveTitle, ShelfBecomes, MediaTypes
  <2>2. s(changes + 1) \in [Titles -> 0 .. MaxShelfChanges] /\ s(0) \in [Titles -> 0 .. MaxShelfChanges]
    BY <2>1, <1>0, NewMediaAssumption DEF MediaTypes
  <2>3. ShelfBecomes(s(changes + 1)) \/ ShelfBecomes(s(0)) BY <1>1 DEF AddTitle, AddEpisode, RemoveTitle
  <2>. HIDE DEF s
  <2>. QED BY <2>2, <2>3, ShelfStep
<1>2. CASE FetchSection
  <2>1. Newest15(shelf)' = Newest15(shelf) BY <1>2 DEF FetchSection, Newest15
  <2>2. MediaTypes' BY <1>0, <1>2, NewestAreTitles DEF FetchSection, mediaHistory, MediaTypes
  <2>3. ListedInv' BY <1>0, <1>2, <2>1 DEF FetchSection, PlexIdle, mediaHistory, ListedInv
  <2>. QED BY <1>0, <1>2, <2>2, <2>3 DEF FetchSection, mediaHistory, MediaInv, ToldOnceWhileListed, NoTitleMissed, NotToldAgain
<1>3. CASE SectionBlank
  <2>0. mediaFaults' \in 0 .. MaxMediaFaults BY <1>0, <1>3, OneFaultMore DEF SectionBlank, MediaTypes
  <2>1. MediaTypes' BY <1>0, <1>3, <2>0 DEF SectionBlank, MediaTypes
  <2>2. ListedInv' BY <1>0, <1>3 DEF SectionBlank, PlexIdle, ListedInv
  <2>. QED BY <1>0, <1>3, <2>1, <2>2 DEF SectionBlank, MediaInv, ToldOnceWhileListed, NoTitleMissed, NotToldAgain
<1>4. CASE Detect BY <1>4, DetectStep
<1>5. ASSUME NEW t \in Titles, Announce(t) PROVE MediaInv' BY <1>5, AnnounceStep
<1>6. CASE PollFails \/ UNCHANGED mediaVars
  <2>0. UNCHANGED <<shelf, changes, fetched, seen, outbox, told, base, listed>>
    BY <1>6 DEF PollFails, mediaVars, mediaHistory
  <2>1. mediaFaults' \in 0 .. MaxMediaFaults
    <3>1. CASE PollFails BY <1>0, <3>1, OneFaultMore DEF PollFails, MediaTypes
    <3>2. CASE UNCHANGED mediaVars BY <1>0, <3>2 DEF mediaVars, MediaTypes
    <3>. QED BY <1>6, <3>1, <3>2
  <2>2. Newest15(shelf)' = Newest15(shelf) BY <2>0 DEF Newest15
  <2>. QED BY <1>0, <2>0, <2>1, <2>2
           DEF MediaInv, MediaTypes, ListedInv, ToldOnceWhileListed, NoTitleMissed, NotToldAgain
<1>7. CASE MediaRestart
  <2>1. Newest15(shelf)' = Newest15(shelf) BY <1>7 DEF MediaRestart, Newest15
  <2>0. mediaFaults' \in 0 .. MaxMediaFaults BY <1>0, <1>7, OneFaultMore DEF MediaRestart, MediaTypes
  <2>2. MediaTypes' BY <1>0, <1>7, <2>0 DEF MediaRestart, MediaTypes
  <2>3. ListedInv' BY <1>0, <1>7, <2>1 DEF MediaRestart, ListedInv
  <2>. QED BY <1>0, <1>7, <2>2, <2>3 DEF MediaRestart, MediaInv, ToldOnceWhileListed, NoTitleMissed, NotToldAgain
<1>. QED BY <1>1, <1>2, <1>3, <1>4, <1>5, <1>6, <1>7 DEF MediaNext

\* No new title is passed over and none that stays listed is told again, however polls
\* fail, sections come back empty and the worker restarts (detect, dispatchNewMedia).
THEOREM ToldOnceWhileListedHolds == MediaSpec => []ToldOnceWhileListed
<1>1. MediaSpec => []MediaInv BY MediaInitial, MediaStep, PTL DEF MediaSpec
<1>2. MediaInv => ToldOnceWhileListed BY DEF MediaInv
<1>. QED BY <1>1, <1>2, PTL

LEMMA MediaTypesHold == MediaSpec => []MediaTypes
BY MediaInitial, MediaStep, PTL DEF MediaSpec, MediaInv
=============================================================================
