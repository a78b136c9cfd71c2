--------------------------- MODULE ActionsProofs ---------------------------
(***************************************************************************)
(* No effect without its gates, and none that the audit log denies, for    *)
(* any number of jobs, failures and deaths of the server.                  *)
(***************************************************************************)
EXTENDS Actions, FiniteSetTheorems, TLAPS

-----------------------------------------------------------------------------
(* The registry: the calls of every action are a sequence. *)

CallKinds == {"read", "do", "put", "try", "walk"}
InSequence(defs) == \A d \in defs : d.calls \in Seq(CallKinds)

LEMMA RegisteredActions ==
  ASSUME NEW names, NEW radius, NEW role, NEW calls \in Seq(CallKinds)
  PROVE  InSequence(Register(names, radius, role, calls))
<1> SUFFICES ASSUME NEW d \in Register(names, radius, role, calls) PROVE d.calls \in Seq(CallKinds)
  BY DEF InSequence
<1>1. PICK n \in names : d = [name |-> n, radius |-> radius, role |-> role, calls |-> calls,
                            agent |-> "", header |-> FALSE]
  BY DEF Register
<1>2. d.calls = calls
  BY <1>1
<1>. QED BY <1>2

LEMMA OneCall ==
  /\ <<"do">> \in Seq(CallKinds) /\ Login \in Seq(CallKinds) /\ Login \o Login \in Seq(CallKinds)
  /\ <<"read", "put">> \in Seq(CallKinds) /\ <<"do", "try">> \in Seq(CallKinds)
  /\ <<"read", "read">> \in Seq(CallKinds) /\ <<"read", "do">> \in Seq(CallKinds)
  /\ <<"read", "try">> \in Seq(CallKinds) /\ <<"read", "walk">> \in Seq(CallKinds)
BY DEF CallKinds, Login

LEMMA RegisteredViaAgent ==
  ASSUME NEW name, NEW radius, NEW role, NEW agentName, NEW confirm
  PROVE  InSequence(ViaAgent(name, radius, role, agentName, confirm))
<1> SUFFICES ASSUME NEW d \in ViaAgent(name, radius, role, agentName, confirm) PROVE d.calls \in Seq(CallKinds)
  BY DEF InSequence
<1>1. d = [name |-> name, radius |-> radius, role |-> role, calls |-> <<"do">>,
           agent |-> agentName, header |-> confirm]
  BY DEF ViaAgent
<1>2. d.calls = <<"do">>
  BY <1>1
<1>. QED BY <1>2, OneCall

LEMMA Together == ASSUME NEW S, NEW T, InSequence(S), InSequence(T) PROVE InSequence(S \cup T)
BY DEF InSequence

LEMMA AllInSequence == InSequence(RegisterAll)
<1>1. InSequence(PlexActions)
  BY OneCall, RegisteredActions, RegisteredViaAgent, Together DEF PlexActions
<1>2. InSequence(SabActions)
  BY OneCall, RegisteredActions, Together DEF SabActions
<1>3. InSequence(QbitActions)
  BY OneCall, RegisteredActions, Together DEF QbitActions
<1>4. InSequence(ArrActions)
  <2> DEFINE Of(s) ==
        Register({s \o "search-missing", s \o "search-item"}, "safe", "viewer", <<"do">>)
        \cup Register({s \o "grab-release"}, "disruptive", "admin", <<"do">>)
        \cup Register({s \o "remove-queue-item"}, "destructive", "admin", <<"do">>)
        \cup Register({s \o "toggle-monitored", s \o "set-quality-profile"}, "disruptive", "admin",
                      <<"read", "put">>)
        \cup Register({s \o "delete-media-file"}, "destructive", "admin", <<"do", "try">>)
  <2>1. ASSUME NEW s PROVE InSequence(Of(s))
    BY OneCall, RegisteredActions, Together
  <2>2. ArrActions = UNION {Of(s) : s \in {"sonarr.", "radarr."}}
    BY DEF ArrActions
  <2>. HIDE DEF Of
  <2>. QED BY <2>1, <2>2 DEF InSequence
<1>5. InSequence(ProwlarrActions)
  BY OneCall, RegisteredActions, Together DEF ProwlarrActions
<1>6. InSequence(SeerrActions)
  BY OneCall, RegisteredActions, Together DEF SeerrActions
<1>7. InSequence(TdarrActions)
  BY OneCall, RegisteredActions, Together DEF TdarrActions
<1>8. InSequence(AgentActions)
  BY RegisteredViaAgent, Together DEF AgentActions
<1>. QED BY <1>1, <1>2, <1>3, <1>4, <1>5, <1>6, <1>7, <1>8, Together DEF RegisterAll

\* Every action that can be asked for has its definition in the registry.
LEMMA Defined == ASSUME NEW a \in Offered PROVE Def(a).calls \in Seq(CallKinds) /\ Len(Def(a).calls) \in Nat
<1>1. \E d \in RegisterAll : d.name = a
  BY ActionsAssumption
<1>2. Def(a) \in RegisterAll
  BY <1>1 DEF Def
<1>3. Def(a).calls \in Seq(CallKinds)
  BY <1>2, AllInSequence DEF InSequence
<1>. QED BY <1>3

-----------------------------------------------------------------------------
(* A job. *)

JobType ==
  [at : {"free", "running", "audit", "again", "over", "died"}, act : Offered \cup {NoAction},
   admin : BOOLEAN, protected : BOOLEAN, confirm : {"none", "wrong", "right"},
   want : Nat, got : SUBSET Items, next : Nat, left : Int, ok : BOOLEAN,
   row : {"none", "ok", "denied", "error"}, unlogged : Nat]

\* The gates of dispatch.
GatesPassed(r) ==
  /\ r.act \in Offered /\ r.protected = FALSE
  /\ Def(r.act).role = "admin" => r.admin = TRUE
  /\ Def(r.act).radius = "destructive" => r.confirm = "right"

\* The calls of r before the n-th that change something are in d, or r is taken on trust.
Trusted(r) == Def(r.act).agent \notin {"", "docker_start", "docker_stop", "docker_restart"}
Done(r, d, n) ==
  Trusted(r) \/ \A i \in 1 .. Len(Def(r.act).calls) : i < n /\ Def(r.act).calls[i] \in {"do", "put"} => i \in d
CallsMade(r, d) == Done(r, d, Len(Def(r.act).calls) + 1)

JobOK(r, d) ==
  /\ r.at \in {"running", "audit", "again"} => GatesPassed(r)
  /\ d # {} => GatesPassed(r) /\ r.at \in {"running", "audit", "again", "over"}
  /\ d # {} /\ r.at = "over" => r.row \in {"ok", "error"} \/ r.unlogged = 2
  /\ r.at # "over" => r.row = "none"
  /\ r.row = "denied" => d = {}
  /\ r.at \in {"running", "audit"} => r.unlogged = 0
  /\ r.at = "again" => r.unlogged = 1
  /\ r.at = "running" => r.ok = TRUE /\ Done(r, d, r.next)
  /\ r.at = "audit" /\ r.ok = TRUE => CallsMade(r, d)
  /\ r.row = "ok" => GatesPassed(r) /\ CallsMade(r, d)

JobsInv ==
  /\ job \in [Jobs -> JobType] /\ did \in [Jobs -> SUBSET Nat]
  /\ limit \in Int /\ item \in Items
  /\ \A j \in Jobs : JobOK(job[j], did[j])

LEMMA FreshType == Fresh0 \in JobType
BY DEF Fresh0, JobType

LEMMA JobsInit == ActionInit => JobsInv
<1> SUFFICES ASSUME ActionInit PROVE JobsInv
  OBVIOUS
<1>1. JobOK(Fresh0, {})
  BY DEF JobOK, Fresh0
<1>. QED BY <1>1, FreshType DEF ActionInit, JobsInv, Items

\* What becomes of one job and its effects, when the others are left alone.
LEMMA OneJob ==
  ASSUME JobsInv, NEW j \in Jobs, NEW r \in JobType, Becomes(j, r),
         NEW d \in SUBSET Nat, did' = [did EXCEPT ![j] = d],
         limit' \in Int, item' \in Items, JobOK(r, d)
  PROVE  JobsInv'
<1>1. /\ job' \in [Jobs -> JobType] /\ job'[j] = r
      /\ \A k \in Jobs : k # j => job'[k] = job[k]
  BY DEF JobsInv, Becomes
<1>2. /\ did' \in [Jobs -> SUBSET Nat] /\ did'[j] = d
      /\ \A k \in Jobs : k # j => did'[k] = did[k]
  BY DEF JobsInv
<1>3. ASSUME NEW k \in Jobs PROVE JobOK(job'[k], did'[k])
  <2>1. CASE k = j
    BY <1>1, <1>2, <2>1
  <2>2. CASE k # j
    BY <1>1, <1>2, <2>2 DEF JobsInv
  <2>. QED BY <2>1, <2>2
<1>. QED BY <1>1, <1>2, <1>3 DEF JobsInv

LEMMA JobFields ==
  ASSUME JobsInv, NEW j \in Jobs
  PROVE  job[j] \in JobType /\ did[j] \in SUBSET Nat /\ JobOK(job[j], did[j]) /\ [did EXCEPT ![j] = did[j]] = did
BY DEF JobsInv

\* The same asking.
Same(r, s) ==
  /\ s.act = r.act /\ s.admin = r.admin /\ s.protected = r.protected /\ s.confirm = r.confirm
  /\ s.row = r.row /\ s.unlogged = r.unlogged

\* What an executor that fails writes of its job.
LEMMA Rewritten ==
  ASSUME NEW r \in JobType,
         NEW s, s = [r EXCEPT !.at = "audit", !.ok = FALSE, !.next = 1, !.got = {}, !.left = 0]
  PROVE  s \in JobType /\ Same(r, s) /\ s.at = "audit" /\ s.ok = FALSE
<1>1. s \in JobType
  <2> DEFINE q == [r EXCEPT !.at = "audit", !.ok = FALSE, !.next = 1]
             p == [q EXCEPT !.got = {}]
  <2>1. q \in JobType
    BY DEF JobType
  <2>2. s = [p EXCEPT !.left = 0]
    OBVIOUS
  <2>. HIDE DEF q
  <2>3. p \in JobType
    BY <2>1 DEF JobType
  <2>. HIDE DEF p
  <2>. QED BY <2>2, <2>3 DEF JobType
<1>2. Same(r, s) /\ s.at = "audit" /\ s.ok = FALSE
  BY DEF JobType, Same
<1>. QED BY <1>1, <1>2

\* What dispatch writes of a job it lets through.
LEMMA LetThroughFields ==
  ASSUME NEW q \in Asks,
         NEW s, s = [[Fresh0 EXCEPT !.act = q.act, !.admin = q.admin, !.protected = q.protected,
                                    !.confirm = q.confirm, !.want = q.want] EXCEPT !.at = "running"]
  PROVE  /\ s \in JobType
         /\ s.act = q.act /\ s.admin = q.admin /\ s.protected = q.protected /\ s.confirm = q.confirm
         /\ s.at = "running" /\ s.row = "none" /\ s.unlogged = 0 /\ s.ok = TRUE /\ s.next = 1
<1>1. /\ q.act \in Offered /\ q.admin \in BOOLEAN /\ q.protected \in BOOLEAN
      /\ q.confirm \in {"none", "wrong", "right"} /\ q.want \in Nat
  BY ActionsAssumption DEF Asks
<1>2. s \in JobType
  BY <1>1, FreshType DEF JobType
<1>3. /\ s.act = q.act /\ s.admin = q.admin /\ s.protected = q.protected /\ s.confirm = q.confirm
      /\ s.at = "running" /\ s.row = "none" /\ s.unlogged = 0 /\ s.ok = TRUE /\ s.next = 1
  BY DEF Fresh0
<1>. QED BY <1>2, <1>3

LEMMA SameGates == ASSUME NEW r, NEW s, Same(r, s), GatesPassed(r) PROVE GatesPassed(s)
BY DEF Same, GatesPassed

\* A call that is due is made, or not, and the executor goes on to the next or stays.
LEMMA CallMade ==
  ASSUME NEW r \in JobType, NEW d \in SUBSET Nat, JobOK(r, d), r.at = "running",
         NEW s \in JobType, Same(r, s), s.at = "running", s.ok = r.ok,
         NEW e \in SUBSET Nat, d \subseteq e,
         \/ s.next = r.next
         \/ /\ s.next = r.next + 1
            /\ Def(r.act).calls[r.next] \in {"do", "put"} => r.next \in e \/ Trusted(r)
  PROVE  JobOK(s, e)
<1>1. GatesPassed(s) /\ s.row = "none" /\ s.unlogged = 0 /\ s.ok = TRUE
  BY SameGates DEF JobOK, Same
<1>2. Done(r, d, r.next) /\ s.act = r.act
  BY DEF JobOK, Same
<1>3. r.next \in Nat
  BY DEF JobType
<1>4. Done(s, e, s.next)
  <2>1. CASE Trusted(r)
    BY <1>2, <2>1 DEF Done, Trusted
  <2>2. CASE ~Trusted(r)
    <3>1. ASSUME NEW i \in 1 .. Len(Def(r.act).calls), i < s.next, Def(r.act).calls[i] \in {"do", "put"}
          PROVE  i \in e
      <4>1. CASE i < r.next
        BY <1>2, <2>2, <3>1, <4>1 DEF Done
      <4>2. CASE i = r.next
        BY <1>3, <2>2, <3>1, <4>2
      <4>. QED BY <1>3, <3>1, <4>1, <4>2
    <3>. QED BY <1>2, <3>1 DEF Done
  <2>. QED BY <2>1, <2>2
<1>. QED BY <1>1, <1>4 DEF JobOK

\* An executor that fails has passed the gates all the same.
LEMMA FailureOK ==
  ASSUME NEW r \in JobType, NEW d, JobOK(r, d), r.at = "running",
         NEW s \in JobType, Same(r, s), s.at = "audit", s.ok = FALSE, NEW e
  PROVE  JobOK(s, e)
<1>1. GatesPassed(s) /\ s.row = "none" /\ s.unlogged = 0
  BY SameGates DEF JobOK, Same
<1>. QED BY <1>1 DEF JobOK

-----------------------------------------------------------------------------
(* dispatch *)

LEMMA VerdictPasses ==
  ASSUME NEW q \in Asks
  PROVE  /\ Verdict(q) \in {"go", "denied", "none"}
         /\ Verdict(q) = "go" =>
              /\ q.protected = FALSE
              /\ Def(q.act).role = "admin" => q.admin = TRUE
              /\ Def(q.act).radius = "destructive" => q.confirm = "right"
<1>1. q.admin \in BOOLEAN /\ q.protected \in BOOLEAN /\ q.valid \in BOOLEAN
  BY DEF Asks
<1>. QED BY <1>1 DEF Verdict, Destructive

LEMMA DispatchKeeps == ASSUME JobsInv, NEW j \in Jobs, NEW q \in Asks, Dispatch(j, q) PROVE JobsInv'
<1>1. job[j].at = "free" /\ UNCHANGED <<limit, item, did>>
  BY DEF Dispatch
<1>2. did[j] = {}
  BY <1>1, JobFields DEF JobOK
<1>3. did' = [did EXCEPT ![j] = did[j]] /\ limit' \in Int /\ item' \in Items /\ did[j] \in SUBSET Nat
  BY <1>1, JobFields DEF JobsInv
<1>4. CASE Verdict(q) = "go"
  <2> DEFINE r == [[Fresh0 EXCEPT !.act = q.act, !.admin = q.admin, !.protected = q.protected,
                                  !.confirm = q.confirm, !.want = q.want] EXCEPT !.at = "running"]
  <2>1. Becomes(j, r)
    BY <1>4 DEF Dispatch
  <2>. HIDE DEF r
  <2>2. /\ r \in JobType
        /\ r.act = q.act /\ r.admin = q.admin /\ r.protected = q.protected /\ r.confirm = q.confirm
        /\ r.at = "running" /\ r.row = "none" /\ r.unlogged = 0 /\ r.ok = TRUE /\ r.next = 1
    BY LetThroughFields DEF r
  <2>3. GatesPassed(r)
    <3>1. q.act \in Offered
      BY DEF Asks
    <3>2. /\ q.protected = FALSE
          /\ Def(q.act).role = "admin" => q.admin = TRUE
          /\ Def(q.act).radius = "destructive" => q.confirm = "right"
      <4>1. q.admin \in BOOLEAN /\ q.protected \in BOOLEAN /\ q.valid \in BOOLEAN
        BY DEF Asks
      <4>. QED BY <1>4, <4>1 DEF Verdict, Destructive
    <3>. QED BY <2>2, <3>1, <3>2 DEF GatesPassed
  <2>4. Done(r, {}, 1)
    BY <2>2 DEF Done
  <2>5. JobOK(r, did[j])
    BY <1>2, <2>2, <2>3, <2>4 DEF JobOK
  <2>. QED BY <1>3, <2>1, <2>2, <2>5, OneJob
<1>5. CASE Verdict(q) # "go"
  <2> DEFINE r == [Fresh0 EXCEPT !.at = "over", !.row = Verdict(q)]
  <2>1. Becomes(j, r)
    BY <1>5 DEF Dispatch
  <2>2. Verdict(q) \in {"denied", "none"}
    BY <1>5, VerdictPasses
  <2>3. r \in JobType /\ r.at = "over" /\ r.row \in {"denied", "none"}
    BY <2>2, FreshType DEF JobType
  <2>. HIDE DEF r
  <2>4. JobOK(r, did[j])
    BY <1>2, <2>3 DEF JobOK
  <2>. QED BY <1>3, <2>1, <2>3, <2>4, OneJob
<1>. QED BY <1>4, <1>5

-----------------------------------------------------------------------------
(* The executors. *)

\* What is due is a call of the action's, and its number is.
LEMMA WhatIsDue ==
  ASSUME JobsInv, NEW j \in Jobs, NEW kind, Due(j, kind)
  PROVE  /\ job[j].at = "running" /\ job[j].next \in Nat
         /\ Def(job[j].act).calls[job[j].next] = kind
BY JobFields DEF Due, Calls, JobType

\* The next call, the effects being those there were or that of this one.
LEMMA NextCall ==
  ASSUME JobsInv, NEW j \in Jobs, job[j].at = "running",
         NEW r \in JobType, Same(job[j], r), r.at = "running", r.ok = job[j].ok, Becomes(j, r),
         Did(j) \/ UNCHANGED did,
         \/ r.next = job[j].next
         \/ /\ r.next = job[j].next + 1
            /\ Def(job[j].act).calls[job[j].next] \in {"do", "put"} => Did(j) \/ Trusted(job[j]),
         limit' \in Int, item' \in Items
  PROVE  JobsInv'
<1>1. job[j] \in JobType /\ did[j] \in SUBSET Nat /\ JobOK(job[j], did[j]) /\ job[j].next \in Nat
  BY JobFields DEF JobType
<1>2. CASE Did(j)
  <2> DEFINE e == did[j] \cup {job[j].next}
  <2>1. did' = [did EXCEPT ![j] = e] /\ e \in SUBSET Nat /\ did[j] \subseteq e /\ job[j].next \in e
    BY <1>1, <1>2 DEF Did
  <2>. HIDE DEF e
  <2>2. JobOK(r, e)
    BY <1>1, <2>1, CallMade
  <2>. QED BY <2>1, <2>2, OneJob
<1>3. CASE ~Did(j)
  <2>1. did' = [did EXCEPT ![j] = did[j]]
    BY <1>3, JobFields
  <2>2. JobOK(r, did[j])
    BY <1>1, <1>3, CallMade
  <2>. QED BY <1>1, <2>1, <2>2, OneJob
<1>. QED BY <1>2, <1>3

LEMMA Going ==
  ASSUME JobsInv, NEW j \in Jobs, GoesOn(j)
  PROVE  \E r \in JobType : /\ Becomes(j, r) /\ Same(job[j], r) /\ r.at = job[j].at /\ r.ok = job[j].ok
                            /\ r.next = job[j].next + 1
<1> DEFINE r == [job[j] EXCEPT !.next = job[j].next + 1]
<1>1. r \in JobType /\ Same(job[j], r) /\ r.at = job[j].at /\ r.ok = job[j].ok /\ r.next = job[j].next + 1
  BY JobFields DEF JobType, Same
<1>2. Becomes(j, r)
  BY DEF GoesOn
<1>. QED BY <1>1, <1>2

LEMMA Failing ==
  ASSUME JobsInv, NEW j \in Jobs, Fails(j), job[j].at = "running", Did(j) \/ UNCHANGED did,
         limit' \in Int, item' \in Items
  PROVE  JobsInv'
<1> DEFINE r == [job[j] EXCEPT !.at = "audit", !.ok = FALSE, !.next = 1, !.got = {}, !.left = 0]
<1>1. r \in JobType /\ Same(job[j], r) /\ r.at = "audit" /\ r.ok = FALSE
  <2>1. job[j] \in JobType
    BY JobFields
  <2>. HIDE DEF r
  <2>. QED BY <2>1, Rewritten DEF r
<1>2. Becomes(j, r)
  BY DEF Fails
<1>. HIDE DEF r
<1>3. \E e \in SUBSET Nat : did' = [did EXCEPT ![j] = e]
  <2>1. job[j].next \in Nat
    BY JobFields DEF JobType
  <2>. QED BY <2>1, JobFields DEF Did
<1>. QED BY <1>1, <1>2, <1>3, JobFields, FailureOK, OneJob

LEMMA ReadKeeps == ASSUME JobsInv, NEW j \in Jobs, Read(j) PROVE JobsInv'
<1> DEFINE got == IF Ahead(j, "put") THEN {item} ELSE {}
           left == IF Ahead(j, "walk") THEN Delta(limit, j) ELSE 0
           r == [job[j] EXCEPT !.next = job[j].next + 1, !.got = got, !.left = left]
<1>1. Becomes(j, r) /\ Due(j, "read") /\ UNCHANGED <<limit, item, did>>
  BY DEF Read, jobHistory
<1>2. got \in SUBSET Items /\ left \in Int
  BY JobFields DEF JobsInv, Delta, JobType
<1>. HIDE DEF got, left
<1>3. r \in JobType /\ Same(job[j], r) /\ r.at = job[j].at /\ r.ok = job[j].ok /\ r.next = job[j].next + 1
  <2>1. job[j] \in JobType /\ job[j].next + 1 \in Nat
    BY JobFields DEF JobType
  <2>2. r \in JobType
    BY <1>2, <2>1 DEF JobType
  <2>3. Same(job[j], r) /\ r.at = job[j].at /\ r.ok = job[j].ok /\ r.next = job[j].next + 1
    BY <1>2, <2>1 DEF JobType, Same
  <2>. QED BY <2>2, <2>3
<1>. HIDE DEF r
<1>4. limit' \in Int /\ item' \in Items
  BY <1>1 DEF JobsInv
<1>. QED BY <1>1, <1>3, <1>4, WhatIsDue, NextCall

LEMMA DoKeeps == ASSUME JobsInv, NEW j \in Jobs, Do(j) PROVE JobsInv'
<1>1. Due(j, "do") /\ GoesOn(j) /\ Did(j) /\ limit' \in Int /\ item' \in Items
  BY DEF Do, JobsInv
<1>. QED BY <1>1, Going, WhatIsDue, NextCall

LEMMA UnitFailsKeeps == ASSUME JobsInv, NEW j \in Jobs, UnitFails(j) PROVE JobsInv'
<1>1. Due(j, "do") /\ GoesOn(j) /\ UNCHANGED did /\ limit' \in Int /\ item' \in Items
  BY DEF UnitFails, JobsInv, jobHistory
<1>2. Trusted(job[j])
  BY DEF UnitFails, Trusted
<1>. QED BY <1>1, <1>2, Going, WhatIsDue, NextCall

LEMMA TryKeeps == ASSUME JobsInv, NEW j \in Jobs, Try(j) PROVE JobsInv'
<1>1. Due(j, "try") /\ GoesOn(j) /\ (Did(j) \/ UNCHANGED did) /\ limit' \in Int /\ item' \in Items
  BY DEF Try, JobsInv
<1>. QED BY <1>1, Going, WhatIsDue, NextCall

LEMMA PatchedType == ASSUME NEW read \in Items, NEW j PROVE Patched(read, j) \in Items
<1> DEFINE want == job[j].want > 0
<1>1. want \in BOOLEAN
  OBVIOUS
<1>2. Patched(read, j) \in {[read EXCEPT !.profile = want], [read EXCEPT !.toggled = want]}
  BY DEF Patched
<1>. HIDE DEF want
<1>. QED BY <1>1, <1>2 DEF Items

LEMMA PutBackType == ASSUME JobsInv, NEW j \in Jobs, PutBack(j) PROVE item' \in Items
<1>1. job[j].got \subseteq Items
  BY JobFields DEF JobType
<1>. QED BY <1>1, PatchedType DEF PutBack

LEMMA AlteredType == ASSUME JobsInv, NEW j \in Jobs, Altered(j) PROVE limit' \in Int
<1>1. Sign(job[j].left) \in Int /\ limit \in Int
  BY DEF Sign, JobsInv
<1>. QED BY <1>1 DEF Altered

LEMMA PutKeeps == ASSUME JobsInv, NEW j \in Jobs, Put(j) PROVE JobsInv'
<1>1. Due(j, "put") /\ GoesOn(j) /\ Did(j) /\ limit' \in Int /\ item' \in Items
  BY PutBackType DEF Put, JobsInv
<1>. QED BY <1>1, Going, WhatIsDue, NextCall

LEMMA WalkStepKeeps == ASSUME JobsInv, NEW j \in Jobs, WalkStep(j) PROVE JobsInv'
<1> DEFINE left == job[j].left - Sign(job[j].left)
           r == [job[j] EXCEPT !.left = left]
<1>1. Due(j, "walk") /\ Becomes(j, r) /\ Did(j) /\ limit' \in Int /\ item' \in Items
  BY AlteredType DEF WalkStep, JobsInv
<1>2. left \in Int
  BY JobFields DEF Sign, JobType
<1>. HIDE DEF left
<1>3. r \in JobType /\ Same(job[j], r) /\ r.at = job[j].at /\ r.ok = job[j].ok /\ r.next = job[j].next
  BY <1>2, JobFields DEF JobType, Same
<1>. HIDE DEF r
<1>. QED BY <1>1, <1>3, WhatIsDue, NextCall

LEMMA WalkEndsKeeps == ASSUME JobsInv, NEW j \in Jobs, WalkEnds(j) PROVE JobsInv'
<1>1. Due(j, "walk") /\ GoesOn(j) /\ UNCHANGED did /\ limit' \in Int /\ item' \in Items
  BY DEF WalkEnds, JobsInv, jobHistory
<1>. QED BY <1>1, Going, WhatIsDue, NextCall

LEMMA CallRefusedKeeps == ASSUME JobsInv, NEW j \in Jobs, CallRefused(j) PROVE JobsInv'
<1>1. job[j].at = "running"
  BY DEF CallRefused, Due
<1>2. Fails(j) /\ UNCHANGED did /\ limit' \in Int /\ item' \in Items
  BY DEF CallRefused, JobsInv, jobHistory
<1>. QED BY <1>1, <1>2, Failing

LEMMA AnswerLostKeeps == ASSUME JobsInv, NEW j \in Jobs, AnswerLost(j) PROVE JobsInv'
<1>1. Fails(j) /\ Did(j)
  BY DEF AnswerLost
<1>2. job[j].at = "running"
  BY DEF AnswerLost, Due
<1>3. limit' \in Int /\ item' \in Items
  <2>1. limit \in Int /\ item \in Items
    BY DEF JobsInv
  <2>. QED BY <2>1, PutBackType, AlteredType DEF AnswerLost
<1>. QED BY <1>1, <1>2, <1>3, Failing

LEMMA ExecutorEndsKeeps == ASSUME JobsInv, NEW j \in Jobs, ExecutorEnds(j) PROVE JobsInv'
<1> DEFINE r == [job[j] EXCEPT !.at = "audit", !.got = {}]
<1>1. Becomes(j, r) /\ did' = [did EXCEPT ![j] = did[j]] /\ limit' \in Int /\ item' \in Items
  BY JobFields DEF ExecutorEnds, JobsInv, jobHistory
<1>2. job[j] \in JobType /\ did[j] \in SUBSET Nat /\ JobOK(job[j], did[j]) /\ job[j].at = "running"
  BY JobFields DEF ExecutorEnds
<1>3. r \in JobType /\ Same(job[j], r) /\ r.at = "audit" /\ r.ok = job[j].ok
  BY <1>2 DEF JobType, Same
<1>. HIDE DEF r
<1>4. GatesPassed(job[j]) /\ GatesPassed(r) /\ r.act = job[j].act /\ r.row = "none" /\ r.unlogged = 0
  BY <1>2, <1>3, SameGates DEF JobOK, Same
<1>5. CallsMade(r, did[j])
  <2> DEFINE calls == Def(r.act).calls
  <2>1. Len(calls) \in Nat /\ job[j].next \in Nat /\ job[j].next > Len(calls)
    <3>1. r.act \in Offered /\ job[j].next \in Nat
      BY <1>2, <1>4 DEF GatesPassed, JobType
    <3>2. job[j].next > Len(Def(r.act).calls)
      BY <1>4 DEF ExecutorEnds, Calls
    <3>. QED BY <3>1, <3>2, Defined
  <2>2. Trusted(r) \/ \A i \in 1 .. Len(calls) : i < job[j].next /\ calls[i] \in {"do", "put"} => i \in did[j]
    BY <1>2, <1>4 DEF JobOK, Done, Trusted
  <2>. HIDE DEF calls
  <2>3. Trusted(r) \/ \A i \in 1 .. Len(calls) : calls[i] \in {"do", "put"} => i \in did[j]
    BY <2>1, <2>2
  <2>. QED BY <2>3 DEF CallsMade, Done, calls
<1>6. JobOK(r, did[j])
  BY <1>3, <1>4, <1>5 DEF JobOK
<1>. QED BY <1>1, <1>2, <1>3, <1>6, OneJob

-----------------------------------------------------------------------------
(* The audit log. *)

LEMMA AuditKeeps == ASSUME JobsInv, NEW j \in Jobs, Audit(j) PROVE JobsInv'
<1> DEFINE row == Logged(j)
           r == [job[j] EXCEPT !.at = "over", !.row = row, !.want = 0, !.next = 1]
<1>1. Becomes(j, r) /\ did' = [did EXCEPT ![j] = did[j]] /\ limit' \in Int /\ item' \in Items
  BY JobFields DEF Audit, JobsInv
<1>2. job[j] \in JobType /\ did[j] \in SUBSET Nat /\ JobOK(job[j], did[j]) /\ job[j].at \in {"audit", "again"}
  BY JobFields DEF Audit
<1>3. row \in {"ok", "error"} /\ (row = "ok" => job[j].at = "audit" /\ job[j].ok = TRUE)
  <2>1. job[j].ok \in BOOLEAN
    BY <1>2 DEF JobType
  <2>. QED BY <1>2, <2>1 DEF Logged
<1>. HIDE DEF row
<1>4. r \in JobType
  <2> DEFINE q == [job[j] EXCEPT !.at = "over", !.row = row]
  <2>1. q \in JobType
    BY <1>2, <1>3 DEF JobType
  <2>2. r = [q EXCEPT !.want = 0, !.next = 1]
    OBVIOUS
  <2>. HIDE DEF q, r
  <2>. QED BY <2>1, <2>2 DEF JobType
<1>5. /\ r.at = "over" /\ r.row = row /\ r.act = job[j].act /\ r.admin = job[j].admin
      /\ r.protected = job[j].protected /\ r.confirm = job[j].confirm
  BY <1>2 DEF JobType
<1>. HIDE DEF r
<1>6. GatesPassed(r)
  BY <1>2, <1>5 DEF JobOK, GatesPassed
<1>7. row = "ok" => CallsMade(r, did[j])
  BY <1>2, <1>3, <1>5 DEF JobOK, CallsMade, Done, Trusted
<1>8. JobOK(r, did[j])
  BY <1>3, <1>5, <1>6, <1>7 DEF JobOK
<1>. QED BY <1>1, <1>2, <1>4, <1>8, OneJob

LEMMA AuditFailsKeeps == ASSUME JobsInv, NEW j \in Jobs, AuditFails(j) PROVE JobsInv'
<1> DEFINE at == IF job[j].at = "audit" THEN "again" ELSE "over"
           unlogged == job[j].unlogged + 1
           r == [job[j] EXCEPT !.at = at, !.unlogged = unlogged]
<1>1. Becomes(j, r) /\ did' = [did EXCEPT ![j] = did[j]] /\ limit' \in Int /\ item' \in Items
  BY JobFields DEF AuditFails, JobsInv
<1>2. job[j] \in JobType /\ did[j] \in SUBSET Nat /\ JobOK(job[j], did[j]) /\ job[j].at \in {"audit", "again"}
  BY JobFields DEF AuditFails
<1>3. unlogged \in Nat /\ ((at = "again" /\ unlogged = 1) \/ (at = "over" /\ unlogged = 2))
  <2>1. CASE job[j].at = "audit"
    <3>1. job[j].unlogged = 0
      BY <1>2, <2>1 DEF JobOK
    <3>2. unlogged = 1 /\ at = "again"
      BY <2>1, <3>1
    <3>. HIDE DEF unlogged, at
    <3>. QED BY <3>2
  <2>2. CASE job[j].at = "again"
    <3>1. job[j].unlogged = 1
      BY <1>2, <2>2 DEF JobOK
    <3>2. unlogged = 2 /\ at = "over"
      BY <2>2, <3>1
    <3>. HIDE DEF unlogged, at
    <3>. QED BY <3>2
  <2>. QED BY <1>2, <2>1, <2>2
<1>. HIDE DEF at, unlogged
<1>4. r \in JobType
  BY <1>2, <1>3 DEF JobType
<1>5. /\ r.at = at /\ r.unlogged = unlogged /\ r.row = job[j].row /\ r.act = job[j].act
      /\ r.admin = job[j].admin /\ r.protected = job[j].protected /\ r.confirm = job[j].confirm
  BY <1>2 DEF JobType
<1>. HIDE DEF r
<1>6. GatesPassed(r) /\ r.row = "none"
  BY <1>2, <1>5 DEF JobOK, GatesPassed
<1>7. JobOK(r, did[j])
  BY <1>3, <1>5, <1>6 DEF JobOK
<1>. QED BY <1>1, <1>2, <1>4, <1>7, OneJob

LEMMA ServerDiesKeeps == ASSUME JobsInv, ServerDies PROVE JobsInv'
<1> DEFINE r == [Fresh0 EXCEPT !.at = "died"]
<1>1. /\ job' = [j \in Jobs |-> IF InFlight(j) THEN r ELSE job[j]]
      /\ did' = [j \in Jobs |-> IF InFlight(j) THEN {} ELSE did[j]]
      /\ limit' \in Int /\ item' \in Items
  BY DEF ServerDies, JobsInv
<1>2. r \in JobType /\ JobOK(r, {})
  <2>1. r \in JobType
    BY FreshType DEF JobType
  <2>2. r.at = "died" /\ r.row = "none"
    BY DEF Fresh0
  <2>. HIDE DEF r
  <2>. QED BY <2>1, <2>2 DEF JobOK
<1>. HIDE DEF r
<1>3. job' \in [Jobs -> JobType] /\ did' \in [Jobs -> SUBSET Nat]
  BY <1>1, <1>2, JobFields
<1>4. ASSUME NEW j \in Jobs PROVE JobOK(job'[j], did'[j])
  <2>1. CASE InFlight(j)
    BY <1>1, <1>2, <2>1
  <2>2. CASE ~InFlight(j)
    <3>1. job'[j] = job[j] /\ did'[j] = did[j]
      BY <1>1, <2>2
    <3>. QED BY <3>1, JobFields
  <2>. QED BY <2>1, <2>2
<1>. QED BY <1>1, <1>3, <1>4 DEF JobsInv

-----------------------------------------------------------------------------
(* The theorem. *)

LEMMA JobsStep == JobsInv /\ [ActionNext]_actionVars => JobsInv'
<1> SUFFICES ASSUME JobsInv, [ActionNext]_actionVars PROVE JobsInv'
  OBVIOUS
<1>1. CASE UNCHANGED actionVars
  <2>1. UNCHANGED <<job, limit, item, did>>
    BY <1>1 DEF actionVars, jobHistory
  <2>. QED BY <2>1 DEF JobsInv
<1>2. CASE ServerDies
  BY <1>2, ServerDiesKeeps
<1>3. ASSUME NEW j \in Jobs,
             \/ \E q \in Asks : Dispatch(j, q)
             \/ Read(j) \/ CallRefused(j) \/ Do(j) \/ UnitFails(j) \/ Try(j) \/ Put(j)
             \/ WalkStep(j) \/ WalkEnds(j) \/ AnswerLost(j) \/ ExecutorEnds(j)
             \/ Audit(j) \/ AuditFails(j)
      PROVE  JobsInv'
  BY <1>3, DispatchKeeps, ReadKeeps, CallRefusedKeeps, DoKeeps, UnitFailsKeeps, TryKeeps, PutKeeps,
     WalkStepKeeps, WalkEndsKeeps, AnswerLostKeeps, ExecutorEndsKeeps, AuditKeeps, AuditFailsKeeps
<1>. QED BY <1>1, <1>2, <1>3 DEF ActionNext

LEMMA JobsAccounted == JobsInv => Accounted
<1> SUFFICES ASSUME JobsInv, NEW j \in Jobs
             PROVE  /\ did[j] # {} =>
                         /\ Def(job[j].act).role = "admin" => job[j].admin
                         /\ ~job[j].protected
                         /\ Destructive(job[j].act) => job[j].confirm = "right"
                         /\ job[j].at = "over" => job[j].row \in {"ok", "error"} \/ job[j].unlogged = 2
                    /\ job[j].row = "ok" => Whole(j) \subseteq did[j] \/ OnTrust(j)
                    /\ job[j].row = "denied" => did[j] = {}
  BY DEF Accounted
<1>1. JobOK(job[j], did[j]) /\ job[j].admin \in BOOLEAN /\ job[j].protected \in BOOLEAN
  BY JobFields DEF JobType
<1>2. ASSUME did[j] # {}
      PROVE  /\ Def(job[j].act).role = "admin" => job[j].admin
             /\ ~job[j].protected
             /\ Destructive(job[j].act) => job[j].confirm = "right"
             /\ job[j].at = "over" => job[j].row \in {"ok", "error"} \/ job[j].unlogged = 2
  BY <1>1, <1>2 DEF JobOK, GatesPassed, Destructive
<1>3. ASSUME job[j].row = "ok" PROVE Whole(j) \subseteq did[j] \/ OnTrust(j)
  <2> DEFINE calls == Def(job[j].act).calls
  <2>1. job[j].act \in Offered
    BY <1>1, <1>3 DEF JobOK, GatesPassed
  <2>2. Len(calls) \in Nat
    BY <2>1, Defined
  <2>3. Trusted(job[j]) \/ \A i \in 1 .. Len(calls) : i < Len(calls) + 1 /\ calls[i] \in {"do", "put"} => i \in did[j]
    BY <1>1, <1>3 DEF JobOK, CallsMade, Done
  <2>4. Whole(j) = {i \in 1 .. Len(calls) : calls[i] \in {"do", "put"}} /\ (Trusted(job[j]) <=> OnTrust(j))
    BY DEF Whole, Calls, OnTrust, Trusted
  <2>. HIDE DEF calls
  <2>. QED BY <2>2, <2>3, <2>4
<1>4. job[j].row = "denied" => did[j] = {}
  BY <1>1 DEF JobOK
<1>. QED BY <1>2, <1>3, <1>4

\* Whatever executors, lost answers, a failing audit log and a dying server make of the
\* jobs of any number of users, what was done to a service was permitted and confirmed,
\* and the audit log never says "ok" of what was not done nor "denied" of what was.
THEOREM EffectsAccounted == ActionSpec => []Accounted
<1>. QED BY JobsInit, JobsStep, JobsAccounted, PTL DEF ActionSpec

-----------------------------------------------------------------------------
(* A job nobody wrote beside. *)

WalkCalls == <<"read", "walk">>
PutCalls == <<"read", "put">>

\* Only two executors write a limit or an item, and both read it first.
Shaped(calls) ==
  /\ Len(calls) <= 4
  /\ \/ calls \in {WalkCalls, PutCalls}
     \/ \A i \in 1 .. Len(calls) : calls[i] \notin {"walk", "put"}
AllShaped(defs) == \A d \in defs : Shaped(d.calls)

LEMMA TwoCalls ==
  /\ WalkCalls # PutCalls /\ Len(WalkCalls) = 2 /\ Len(PutCalls) = 2
  /\ WalkCalls[1] = "read" /\ WalkCalls[2] = "walk" /\ PutCalls[1] = "read" /\ PutCalls[2] = "put"
BY DEF WalkCalls, PutCalls

LEMMA ShapedOnes ==
  /\ Shaped(<<"do">>) /\ Shaped(Login) /\ Shaped(Login \o Login)
  /\ Shaped(<<"read", "put">>) /\ Shaped(<<"do", "try">>)
  /\ Shaped(<<"read", "read">>) /\ Shaped(<<"read", "do">>)
  /\ Shaped(<<"read", "try">>) /\ Shaped(<<"read", "walk">>)
BY DEF Shaped, Login, WalkCalls, PutCalls

LEMMA RegisteredShaped ==
  ASSUME NEW names, NEW radius, NEW role, NEW calls, Shaped(calls)
  PROVE  AllShaped(Register(names, radius, role, calls))
<1> SUFFICES ASSUME NEW d \in Register(names, radius, role, calls) PROVE Shaped(d.calls)
  BY DEF AllShaped
<1>1. PICK n \in names : d = [name |-> n, radius |-> radius, role |-> role, calls |-> calls,
                            agent |-> "", header |-> FALSE]
  BY DEF Register
<1>2. d.calls = calls
  BY <1>1
<1>. QED BY <1>2

LEMMA ViaAgentShaped ==
  ASSUME NEW name, NEW radius, NEW role, NEW agentName, NEW confirm
  PROVE  AllShaped(ViaAgent(name, radius, role, agentName, confirm))
<1> SUFFICES ASSUME NEW d \in ViaAgent(name, radius, role, agentName, confirm) PROVE Shaped(d.calls)
  BY DEF AllShaped
<1>1. d = [name |-> name, radius |-> radius, role |-> role, calls |-> <<"do">>,
           agent |-> agentName, header |-> confirm]
  BY DEF ViaAgent
<1>2. d.calls = <<"do">>
  BY <1>1
<1>. QED BY <1>2, ShapedOnes

LEMMA ShapedTogether == ASSUME NEW S, NEW T, AllShaped(S), AllShaped(T) PROVE AllShaped(S \cup T)
BY DEF AllShaped

LEMMA RegistryShaped == AllShaped(RegisterAll)
<1>. USE ShapedOnes, RegisteredShaped, ViaAgentShaped, ShapedTogether
<1>1. AllShaped(PlexActions)
  BY DEF PlexActions
<1>2. AllShaped(SabActions)
  BY DEF SabActions
<1>3. AllShaped(QbitActions)
  BY DEF QbitActions
<1>4. AllShaped(ArrActions)
  <2> DEFINE Of(s) ==
        Register({s \o "search-missing", s \o "search-item"}, "safe", "viewer", <<"do">>)
        \cup Register({s \o "grab-release"}, "disruptive", "admin", <<"do">>)
        \cup Register({s \o "remove-queue-item"}, "destructive", "admin", <<"do">>)
        \cup Register({s \o "toggle-monitored", s \o "set-quality-profile"}, "disruptive", "admin",
                      <<"read", "put">>)
        \cup Register({s \o "delete-media-file"}, "destructive", "admin", <<"do", "try">>)
  <2>1. ASSUME NEW s PROVE AllShaped(Of(s))
    OBVIOUS
  <2>2. ArrActions = UNION {Of(s) : s \in {"sonarr.", "radarr."}}
    BY DEF ArrActions
  <2>. HIDE DEF Of
  <2>. QED BY <2>1, <2>2 DEF AllShaped
<1>5. AllShaped(ProwlarrActions)
  BY DEF ProwlarrActions
<1>6. AllShaped(SeerrActions)
  BY DEF SeerrActions
<1>7. AllShaped(TdarrActions)
  BY DEF TdarrActions
<1>8. AllShaped(AgentActions)
  BY DEF AgentActions
<1>. QED BY <1>1, <1>2, <1>3, <1>4, <1>5, <1>6, <1>7, <1>8 DEF RegisterAll

LEMMA DefShaped == ASSUME NEW a \in Offered PROVE Shaped(Def(a).calls)
<1>1. \E d \in RegisterAll : d.name = a
  BY ActionsAssumption
<1>2. Def(a) \in RegisterAll
  BY <1>1 DEF Def
<1>. QED BY <1>2, RegistryShaped DEF AllShaped

\* Which call it is tells which executor it is of.
LEMMA WhoseCall ==
  ASSUME NEW calls, Shaped(calls), NEW n \in 1 .. Len(calls), Len(calls) \in Nat
  PROVE  /\ n \in 1 .. 4
         /\ calls[n] = "walk" => calls = WalkCalls /\ n = 2
         /\ calls[n] = "put" => calls = PutCalls /\ n = 2
         /\ calls[n] = "read" /\ calls \in {WalkCalls, PutCalls} => n = 1
         /\ calls[n] \in {"do", "try"} => calls \notin {WalkCalls, PutCalls}
<1>1. n \in 1 .. 4
  BY DEF Shaped
<1>2. CASE calls \in {WalkCalls, PutCalls}
  <2>0. Len(calls) = 2
    BY <1>2, TwoCalls, Zenon
  <2>1. n = 1 \/ n = 2
    BY <2>0
  <2>. QED BY <1>1, <1>2, <2>1, TwoCalls
<1>3. CASE calls \notin {WalkCalls, PutCalls}
  BY <1>1, <1>3 DEF Shaped
<1>. QED BY <1>2, <1>3

Patch(read, r) ==
  IF Def(r.act).name \in {"sonarr.set-quality-profile", "radarr.set-quality-profile"}
  THEN [read EXCEPT !.profile = r.want > 0]
  ELSE [read EXCEPT !.toggled = r.want > 0]

\* With the worker limit l, the item x and what the job r found, w: how far it has come.
Begun(r) == r.at = "running" /\ r.next = 1
HasRead(r) == r.at = "running" /\ r.next = 2
Walked(r, l, x, w) ==
  /\ x = w[2]
  /\ Begun(r) => l = w[1]
  /\ HasRead(r) => l + r.left = r.want
  /\ ~Begun(r) /\ ~HasRead(r) => l = r.want
PutOver(r, l, x, w) ==
  /\ l = w[1]
  /\ Begun(r) => x = w[2]
  /\ HasRead(r) => x = w[2] /\ r.got = {x}
  /\ ~Begun(r) /\ ~HasRead(r) => x = Patch(w[2], r)
Untouched(l, x, w) == l = w[1] /\ x = w[2]

Working(r) == r.at = "running" \/ (r.at = "audit" /\ r.ok = TRUE)
Exact(r, l, x, w) ==
  Working(r) =>
    /\ Def(r.act).calls = WalkCalls => Walked(r, l, x, w)
    /\ Def(r.act).calls = PutCalls => PutOver(r, l, x, w)
    /\ Def(r.act).calls \notin {WalkCalls, PutCalls} => Untouched(l, x, w)

ExactInv ==
  /\ before \in [Jobs -> SUBSET (Int \X Items)]
  /\ limit \in Nat
  /\ \A j \in Jobs :
       /\ job[j].next >= 1 /\ did[j] \subseteq 1 .. 4
       /\ \A v, w \in before[j] : v = w
       /\ \A w \in before[j] : Exact(job[j], limit, item, w)

LEMMA ExactInit == ActionInit => ExactInv
<1> SUFFICES ASSUME ActionInit PROVE ExactInv
  OBVIOUS
<1>1. Fresh0.next >= 1
  BY DEF Fresh0
<1>2. /\ before = [j \in Jobs |-> {}] /\ did = [j \in Jobs |-> {}] /\ job = [j \in Jobs |-> Fresh0] /\ limit = 1
  BY DEF ActionInit
<1>. QED BY <1>1, <1>2 DEF ExactInv

\* What becomes of one job, when it has written neither limit nor item or the others lose sight.
LEMMA OneExact ==
  ASSUME JobsInv, ExactInv, NEW j \in Jobs, NEW r \in JobType, Becomes(j, r), r.next >= 1, limit' \in Nat,
         \A k \in Jobs : did'[k] = did[k] \/ (k = j /\ did'[k] \subseteq 1 .. 4),
         before' \in [Jobs -> SUBSET (Int \X Items)],
         \A k \in Jobs : k # j => before'[k] = {} \/ (before'[k] = before[k] /\ UNCHANGED <<limit, item>>),
         \A v, w \in before'[j] : v = w,
         \A w \in before'[j] : Exact(r, limit', item', w)
  PROVE  ExactInv'
<1>1. /\ job'[j] = r
      /\ \A k \in Jobs : k # j => job'[k] = job[k]
  BY DEF JobsInv, Becomes
<1>2. ASSUME NEW k \in Jobs
      PROVE  /\ job'[k].next >= 1 /\ did'[k] \subseteq 1 .. 4
             /\ \A v, w \in before'[k] : v = w
             /\ \A w \in before'[k] : Exact(job'[k], limit', item', w)
  <2>1. did'[k] \subseteq 1 .. 4
    BY DEF ExactInv
  <2>2. CASE k = j
    BY <1>1, <2>1, <2>2
  <2>3. CASE k # j
    <3>1. job'[k] = job[k] /\ job[k].next >= 1
      BY <1>1, <2>3 DEF ExactInv
    <3>2. CASE before'[k] = {}
      BY <2>1, <3>1, <3>2
    <3>3. CASE before'[k] = before[k] /\ UNCHANGED <<limit, item>>
      BY <2>1, <3>1, <3>3 DEF ExactInv
    <3>. QED BY <2>3, <3>2, <3>3
  <2>. QED BY <2>2, <2>3
<1>. QED BY <1>2 DEF ExactInv

LEMMA ExactFields ==
  ASSUME JobsInv, ExactInv, NEW j \in Jobs
  PROVE  /\ job[j] \in JobType /\ job[j].next \in Nat /\ job[j].next >= 1 /\ did[j] \subseteq 1 .. 4
         /\ before[j] \subseteq Int \X Items /\ limit \in Nat /\ item \in Items
         /\ \A v, w \in before[j] : v = w
         /\ \A w \in before[j] : Exact(job[j], limit, item, w)
<1>1. job[j] \in JobType
  BY JobFields
<1>. QED BY <1>1 DEF ExactInv, JobsInv, JobType

\* What is due is a call of the action's: which one it is tells which action it is of.
LEMMA DueCall ==
  ASSUME JobsInv, ExactInv, NEW j \in Jobs, NEW kind, Due(j, kind), NEW calls, calls = Def(job[j].act).calls
  PROVE  /\ Working(job[j]) /\ job[j].at = "running" /\ job[j].next \in 1 .. 4
         /\ kind = "walk" => calls = WalkCalls /\ job[j].next = 2
         /\ kind = "put" => calls = PutCalls /\ job[j].next = 2
         /\ kind = "read" /\ calls \in {WalkCalls, PutCalls} => job[j].next = 1
         /\ kind \in {"do", "try"} => calls \notin {WalkCalls, PutCalls}
<1>1. job[j].at = "running" /\ job[j].next <= Len(calls) /\ calls[job[j].next] = kind
  BY DEF Due, Calls
<1>2. job[j].next \in Nat /\ job[j].next >= 1 /\ JobOK(job[j], did[j])
  BY ExactFields, JobFields
<1>3. job[j].act \in Offered
  BY <1>1, <1>2 DEF JobOK, GatesPassed
<1>4. Shaped(calls) /\ Len(calls) \in Nat
  BY <1>3, DefShaped, Defined
<1>5. job[j].next \in 1 .. Len(calls)
  BY <1>1, <1>2, <1>4
<1>6. Working(job[j])
  BY <1>1 DEF Working
<1>. HIDE DEF WalkCalls, PutCalls
<1>. QED BY <1>1, <1>4, <1>5, <1>6, WhoseCall

\* Whoever is done with, or failed, promises nothing.
LEMMA NoWork == ASSUME NEW r, ~Working(r), NEW l, NEW x, NEW w PROVE Exact(r, l, x, w)
BY DEF Exact

LEMMA DidSome ==
  ASSUME JobsInv, ExactInv, NEW j \in Jobs, job[j].next \in 1 .. 4, Did(j) \/ UNCHANGED did
  PROVE  \A k \in Jobs : did'[k] = did[k] \/ (k = j /\ did'[k] \subseteq 1 .. 4)
<1>1. did \in [Jobs -> SUBSET Nat] /\ did[j] \subseteq 1 .. 4
  BY ExactFields DEF JobsInv
<1>. QED BY <1>1 DEF Did

LEMMA SightLost ==
  ASSUME ExactInv, NEW j \in Jobs, OthersSee(j)
  PROVE  /\ before' \in [Jobs -> SUBSET (Int \X Items)] /\ before'[j] = before[j]
         /\ \A k \in Jobs : k # j => before'[k] = {}
BY DEF ExactInv, OthersSee

LEMMA Forgotten ==
  ASSUME ExactInv, NEW j \in Jobs, Forget(j)
  PROVE  /\ before' \in [Jobs -> SUBSET (Int \X Items)] /\ before'[j] = {}
         /\ \A k \in Jobs : k # j => before'[k] = before[k]
BY DEF ExactInv, Forget

\* The step of a job that writes neither limit nor item, and the others see nothing of it.
LEMMA QuietExact ==
  ASSUME JobsInv, ExactInv, NEW j \in Jobs, NEW r \in JobType, Becomes(j, r), r.next >= 1,
         UNCHANGED <<limit, item, before>>,
         \A k \in Jobs : did'[k] = did[k] \/ (k = j /\ did'[k] \subseteq 1 .. 4),
         \A w \in before[j] : Exact(job[j], limit, item, w) => Exact(r, limit, item, w)
  PROVE  ExactInv'
<1>1. before \in [Jobs -> SUBSET (Int \X Items)] /\ limit' \in Nat
  BY DEF ExactInv
<1>2. \A w \in before'[j] : Exact(r, limit', item', w)
  BY DEF ExactInv
<1>. QED BY <1>1, <1>2, ExactFields, OneExact

LEMMA DispatchExact == ASSUME JobsInv, ExactInv, NEW j \in Jobs, NEW q \in Asks, Dispatch(j, q) PROVE ExactInv'
<1>1. UNCHANGED <<limit, item, did>>
  BY DEF Dispatch
<1>2. before \in [Jobs -> SUBSET (Int \X Items)] /\ limit \in Nat /\ item \in Items
  BY ExactFields DEF ExactInv
<1>3. CASE Verdict(q) = "go"
  <2> DEFINE r == [[Fresh0 EXCEPT !.act = q.act, !.admin = q.admin, !.protected = q.protected,
                                  !.confirm = q.confirm, !.want = q.want] EXCEPT !.at = "running"]
             found == <<limit, item>>
  <2>1. Becomes(j, r) /\ before' = [before EXCEPT ![j] = {found}]
    BY <1>3 DEF Dispatch
  <2>. HIDE DEF r
  <2>2. r \in JobType /\ r.at = "running" /\ r.next = 1
    BY LetThroughFields DEF r
  <2>3. found \in Int \X Items /\ found[1] = limit /\ found[2] = item
    BY <1>2
  <2>. HIDE DEF found
  <2>4. Exact(r, limit, item, found)
    <3>1. Begun(r) /\ ~HasRead(r)
      BY <2>2 DEF Begun, HasRead
    <3>. QED BY <2>3, <3>1 DEF Exact, Walked, PutOver, Untouched
  <2>5. /\ before' \in [Jobs -> SUBSET (Int \X Items)] /\ before'[j] = {found}
        /\ \A k \in Jobs : k # j => before'[k] = before[k]
    BY <1>2, <2>1, <2>3
  <2>. QED BY <1>1, <1>2, <2>1, <2>2, <2>4, <2>5, OneExact
<1>4. CASE Verdict(q) # "go"
  <2> DEFINE r == [Fresh0 EXCEPT !.at = "over", !.row = Verdict(q)]
  <2>1. Becomes(j, r) /\ UNCHANGED before
    BY <1>4 DEF Dispatch
  <2>2. Verdict(q) \in {"denied", "none"}
    BY <1>4, VerdictPasses
  <2>3. r \in JobType /\ r.at = "over" /\ r.next = 1
    <3>1. Fresh0.next = 1
      BY DEF Fresh0
    <3>. QED BY <2>2, <3>1, FreshType DEF JobType
  <2>. HIDE DEF r
  <2>4. ~Working(r) /\ r.next >= 1
    BY <2>3 DEF Working
  <2>. QED BY <1>1, <2>1, <2>3, <2>4, NoWork, QuietExact
<1>. QED BY <1>3, <1>4

LEMMA ReadExact == ASSUME JobsInv, ExactInv, NEW j \in Jobs, Read(j) PROVE ExactInv'
<1> DEFINE s == job[j]
           calls == Def(s.act).calls
           got == IF Ahead(j, "put") THEN {item} ELSE {}
           left == IF Ahead(j, "walk") THEN Delta(limit, j) ELSE 0
           r == [s EXCEPT !.next = s.next + 1, !.got = got, !.left = left]
<1>1. Becomes(j, r) /\ Due(j, "read") /\ UNCHANGED <<limit, item, did, before>>
  BY DEF Read, jobHistory
<1>2. got \in SUBSET Items /\ left \in Int /\ s \in JobType /\ s.next \in 1 .. 4
  BY <1>1, ExactFields, DueCall DEF Delta, JobType
<1>3. Working(s) /\ s.at = "running" /\ (calls \in {WalkCalls, PutCalls} => s.next = 1)
  BY <1>1, DueCall
<1>4. calls = WalkCalls => Ahead(j, "walk") /\ left = s.want - limit
  <2>1. ASSUME calls = WalkCalls PROVE Ahead(j, "walk")
    <3>1. Len(calls) = 2 /\ calls[2] = "walk"
      BY <2>1, TwoCalls, Zenon
    <3>2. s.next = 1 /\ s.next < Len(calls) /\ s.next + 1 = 2
      BY <1>3, <2>1, <3>1
    <3>. QED BY <3>1, <3>2, Zenon DEF Ahead, Calls
  <2>. QED BY <2>1 DEF Delta
<1>5. calls = PutCalls => got = {item}
  <2>1. ASSUME calls = PutCalls PROVE Ahead(j, "put")
    <3>1. Len(calls) = 2 /\ calls[2] = "put"
      BY <2>1, TwoCalls, Zenon
    <3>2. s.next = 1 /\ s.next < Len(calls) /\ s.next + 1 = 2
      BY <1>3, <2>1, <3>1
    <3>. QED BY <3>1, <3>2, Zenon DEF Ahead, Calls
  <2>. QED BY <2>1
<1>. HIDE DEF got, left
<1>6. r \in JobType /\ r.at = "running" /\ r.next = s.next + 1 /\ r.act = s.act /\ r.want = s.want
      /\ r.got = got /\ r.left = left
  <2>1. s.next + 1 \in Nat
    BY <1>2
  <2>2. r \in JobType
    BY <1>2, <2>1 DEF JobType
  <2>3. r.next = s.next + 1 /\ r.act = s.act /\ r.want = s.want /\ r.got = got /\ r.left = left /\ r.at = s.at
    BY <1>2 DEF JobType
  <2>. QED BY <1>3, <2>2, <2>3
<1>. HIDE DEF r
<1>7. s.want \in Nat /\ limit \in Nat
  BY <1>2, ExactFields DEF JobType
<1>8. ASSUME NEW w \in before[j], Exact(s, limit, item, w) PROVE Exact(r, limit, item, w)
  <2>1. CASE calls = WalkCalls
    <3>1. Begun(s) /\ HasRead(r) /\ ~Begun(r)
      BY <1>3, <1>6, <2>1 DEF Begun, HasRead
    <3>2. item = w[2] /\ limit + r.left = r.want
      BY <1>3, <1>4, <1>6, <1>7, <1>8, <2>1 DEF Exact, Walked
    <3>3. calls # PutCalls
      BY <2>1, TwoCalls
    <3>. HIDE DEF s
    <3>. QED BY <1>6, <2>1, <3>1, <3>2, <3>3 DEF Exact, Walked
  <2>2. CASE calls = PutCalls
    <3>1. Begun(s) /\ HasRead(r) /\ ~Begun(r)
      BY <1>3, <1>6, <2>2 DEF Begun, HasRead
    <3>2. limit = w[1] /\ item = w[2]
      BY <1>3, <1>8, <2>2, <3>1 DEF Exact, PutOver
    <3>3. calls # WalkCalls
      BY <2>2, TwoCalls
    <3>. HIDE DEF s
    <3>. QED BY <1>5, <1>6, <2>2, <3>1, <3>2, <3>3 DEF Exact, PutOver
  <2>3. CASE calls \notin {WalkCalls, PutCalls}
    BY <1>3, <1>6, <1>8, <2>3 DEF Exact
  <2>. QED BY <2>1, <2>2, <2>3
<1>9. r.next >= 1
  BY <1>2, <1>6
<1>. QED BY <1>1, <1>6, <1>8, <1>9, QuietExact

\* An executor that goes on.
LEMMA GoingExact ==
  ASSUME JobsInv, ExactInv, NEW j \in Jobs, GoesOn(j)
  PROVE  \E r \in JobType : /\ Becomes(j, r) /\ r.at = job[j].at /\ r.ok = job[j].ok /\ r.act = job[j].act
                            /\ r.want = job[j].want /\ r.next = job[j].next + 1 /\ r.next >= 1
<1> DEFINE r == [job[j] EXCEPT !.next = job[j].next + 1]
<1>1. /\ r \in JobType /\ r.at = job[j].at /\ r.ok = job[j].ok /\ r.act = job[j].act
      /\ r.want = job[j].want /\ r.next = job[j].next + 1 /\ r.next >= 1
  BY ExactFields DEF JobType
<1>2. Becomes(j, r)
  BY DEF GoesOn
<1>. QED BY <1>1, <1>2

\* A call that is of neither limit nor item.
LEMMA OtherCallExact ==
  ASSUME JobsInv, ExactInv, NEW j \in Jobs, Due(j, "do") \/ Due(j, "try"), GoesOn(j),
         UNCHANGED <<limit, item, before>>, Did(j) \/ UNCHANGED did
  PROVE  ExactInv'
<1>1. /\ Working(job[j]) /\ job[j].at = "running" /\ job[j].next \in 1 .. 4
      /\ Def(job[j].act).calls \notin {WalkCalls, PutCalls}
  BY DueCall
<1>2. PICK r \in JobType : Becomes(j, r) /\ r.at = job[j].at /\ r.act = job[j].act /\ r.next >= 1
  BY GoingExact
<1>3. \A k \in Jobs : did'[k] = did[k] \/ (k = j /\ did'[k] \subseteq 1 .. 4)
  BY <1>1, DidSome
<1>4. \A w \in before[j] : Exact(job[j], limit, item, w) => Exact(r, limit, item, w)
  BY <1>1, <1>2 DEF Exact
<1>. QED BY <1>2, <1>3, <1>4, QuietExact

LEMMA DoExact == ASSUME JobsInv, ExactInv, NEW j \in Jobs, Do(j) PROVE ExactInv'
BY OtherCallExact DEF Do

LEMMA UnitFailsExact == ASSUME JobsInv, ExactInv, NEW j \in Jobs, UnitFails(j) PROVE ExactInv'
BY OtherCallExact DEF UnitFails, jobHistory

LEMMA TryExact == ASSUME JobsInv, ExactInv, NEW j \in Jobs, Try(j) PROVE ExactInv'
BY OtherCallExact DEF Try

LEMMA PatchedIsPatch == ASSUME NEW read, NEW j PROVE Patched(read, j) = Patch(read, job[j])
BY DEF Patched, Patch

LEMMA PutExact == ASSUME JobsInv, ExactInv, NEW j \in Jobs, Put(j) PROVE ExactInv'
<1>1. Due(j, "put") /\ PutBack(j) /\ GoesOn(j) /\ Did(j) /\ OthersSee(j) /\ UNCHANGED limit
  BY DEF Put
<1>2. /\ Working(job[j]) /\ job[j].at = "running" /\ job[j].next = 2 /\ job[j].next \in 1 .. 4
      /\ Def(job[j].act).calls = PutCalls
  BY <1>1, DueCall
<1>3. PICK r \in JobType : /\ Becomes(j, r) /\ r.at = job[j].at /\ r.act = job[j].act /\ r.want = job[j].want
                           /\ r.next = job[j].next + 1 /\ r.next >= 1
  BY <1>1, GoingExact
<1>4. \A k \in Jobs : did'[k] = did[k] \/ (k = j /\ did'[k] \subseteq 1 .. 4)
  BY <1>1, <1>2, DidSome
<1>5. /\ before' \in [Jobs -> SUBSET (Int \X Items)] /\ before'[j] = before[j]
      /\ \A k \in Jobs : k # j => before'[k] = {}
  BY <1>1, SightLost
<1>6. ASSUME NEW w \in before[j] PROVE Exact(r, limit', item', w)
  <2>1. Exact(job[j], limit, item, w)
    BY ExactFields
  <2>2. HasRead(job[j])
    BY <1>2 DEF HasRead
  <2>3. limit = w[1] /\ item = w[2] /\ job[j].got = {item}
    BY <1>2, <2>1, <2>2 DEF Exact, PutOver
  <2>4. item' = Patched(item, j)
    BY <1>1, <2>3 DEF PutBack
  <2>5. item' = Patch(w[2], r)
    <3>1. item' = Patch(item, job[j])
      BY <2>4, PatchedIsPatch
    <3>. QED BY <1>3, <2>3, <3>1 DEF Patch
  <2>6. ~Begun(r) /\ ~HasRead(r) /\ Def(r.act).calls = PutCalls
    BY <1>2, <1>3 DEF Begun, HasRead
  <2>. QED BY <1>1, <2>3, <2>5, <2>6, TwoCalls DEF Exact, PutOver
<1>7. limit' \in Nat
  BY <1>1, ExactFields
<1>8. \A v, w \in before'[j] : v = w
  BY <1>5, ExactFields
<1>. QED BY <1>3, <1>4, <1>5, <1>6, <1>7, <1>8, OneExact

\* One step of the relay: towards what is asked for, and never below 0 on the way there.
LEMMA AlteredBy ==
  ASSUME NEW j \in Jobs, Altered(j), limit \in Nat, NEW left \in Int, job[j].left = left, left # 0
  PROVE  /\ limit' \in Nat
         /\ limit + left >= 0 => limit' + (left - Sign(left)) = limit + left
<1>1. CASE left > 0
  <2>1. Sign(left) = 1 /\ limit' = limit + 1
    BY <1>1 DEF Altered, Sign
  <2>. QED BY <1>1, <2>1
<1>2. CASE left < 0
  <2>1. Sign(left) = -1
    BY <1>2 DEF Sign
  <2>2. CASE limit = 0
    <3>1. limit' = 0
      BY <1>2, <2>2 DEF Altered
    <3>. QED BY <1>2, <2>2, <3>1
  <2>3. CASE limit # 0
    <3>1. limit' = limit + (-1)
      BY <2>1, <2>3 DEF Altered
    <3>. QED BY <2>1, <2>3, <3>1
  <2>. QED BY <2>2, <2>3
<1>. QED BY <1>1, <1>2

LEMMA WalkStepExact == ASSUME JobsInv, ExactInv, NEW j \in Jobs, WalkStep(j) PROVE ExactInv'
<1> DEFINE s == job[j]
           left == s.left - Sign(s.left)
           r == [s EXCEPT !.left = left]
<1>1. Due(j, "walk") /\ s.left # 0 /\ Altered(j) /\ Becomes(j, r) /\ Did(j) /\ OthersSee(j) /\ UNCHANGED item
  BY DEF WalkStep
<1>2. /\ s.at = "running" /\ s.next = 2 /\ s.next \in 1 .. 4
      /\ Def(s.act).calls = WalkCalls /\ Working(s)
  BY <1>1, DueCall
<1>3. s \in JobType /\ limit \in Nat /\ s.left \in Int /\ s.want \in Nat /\ left \in Int
  BY ExactFields DEF JobType, Sign
<1>4. /\ limit' \in Nat
      /\ limit + s.left >= 0 => limit' + left = limit + s.left
  BY <1>1, <1>3, AlteredBy
<1>. HIDE DEF left
<1>5. r \in JobType /\ r.at = "running" /\ r.next = 2 /\ r.act = s.act /\ r.want = s.want /\ r.left = left
  BY <1>2, <1>3 DEF JobType
<1>. HIDE DEF r
<1>6. \A k \in Jobs : did'[k] = did[k] \/ (k = j /\ did'[k] \subseteq 1 .. 4)
  BY <1>1, <1>2, DidSome
<1>7. /\ before' \in [Jobs -> SUBSET (Int \X Items)] /\ before'[j] = before[j]
      /\ \A k \in Jobs : k # j => before'[k] = {}
  BY <1>1, SightLost
<1>8. ASSUME NEW w \in before[j] PROVE Exact(r, limit', item', w)
  <2>1. Exact(s, limit, item, w) /\ HasRead(s)
    BY <1>2, ExactFields DEF HasRead
  <2>2. item = w[2] /\ limit + s.left = s.want
    BY <1>2, <2>1 DEF Exact, Walked
  <2>3. limit' + r.left = r.want
    BY <1>3, <1>4, <1>5, <2>2
  <2>4. HasRead(r) /\ ~Begun(r) /\ Def(r.act).calls = WalkCalls
    BY <1>2, <1>5 DEF Begun, HasRead
  <2>. QED BY <1>1, <2>2, <2>3, <2>4, TwoCalls DEF Exact, Walked
<1>9. (\A v, w \in before'[j] : v = w) /\ r.next >= 1
  BY <1>5, <1>7, ExactFields
<1>. QED BY <1>1, <1>4, <1>5, <1>6, <1>7, <1>8, <1>9, OneExact

LEMMA WalkEndsExact == ASSUME JobsInv, ExactInv, NEW j \in Jobs, WalkEnds(j) PROVE ExactInv'
<1>1. Due(j, "walk") /\ job[j].left = 0 /\ GoesOn(j) /\ UNCHANGED <<limit, item, before, did>>
  BY DEF WalkEnds, jobHistory
<1>2. /\ job[j].at = "running" /\ job[j].next = 2 /\ job[j].next \in 1 .. 4
      /\ Def(job[j].act).calls = WalkCalls /\ Working(job[j])
  BY <1>1, DueCall
<1>3. PICK r \in JobType : /\ Becomes(j, r) /\ r.at = job[j].at /\ r.act = job[j].act /\ r.want = job[j].want
                           /\ r.next = job[j].next + 1 /\ r.next >= 1
  BY <1>1, GoingExact
<1>4. ASSUME NEW w \in before[j], Exact(job[j], limit, item, w) PROVE Exact(r, limit, item, w)
  <2>1. item = w[2] /\ limit + job[j].left = job[j].want
    BY <1>2, <1>4 DEF Exact, Walked, HasRead
  <2>2. limit \in Nat /\ job[j].want \in Nat
    BY ExactFields DEF JobType
  <2>3. limit = r.want
    BY <1>1, <1>3, <2>1, <2>2
  <2>4. ~HasRead(r) /\ ~Begun(r) /\ Def(r.act).calls = WalkCalls
    BY <1>2, <1>3 DEF Begun, HasRead
  <2>. QED BY <2>1, <2>3, <2>4, TwoCalls DEF Exact, Walked
<1>. QED BY <1>1, <1>3, <1>4, QuietExact

\* What fails promises nothing any more.
LEMMA FailsExact ==
  ASSUME JobsInv, ExactInv, NEW j \in Jobs, Fails(j), limit' \in Nat,
         \A k \in Jobs : did'[k] = did[k] \/ (k = j /\ did'[k] \subseteq 1 .. 4),
         UNCHANGED <<limit, item, before>> \/ OthersSee(j)
  PROVE  ExactInv'
<1> DEFINE r == [job[j] EXCEPT !.at = "audit", !.ok = FALSE, !.next = 1, !.got = {}, !.left = 0]
<1>1. job[j] \in JobType
  BY ExactFields
<1>2. Becomes(j, r)
  BY DEF Fails
<1>3. r.next = 1
  BY <1>1 DEF JobType
<1>4. r \in JobType /\ r.at = "audit" /\ r.ok = FALSE
  <2>. HIDE DEF r
  <2>. QED BY <1>1, Rewritten DEF r
<1>. HIDE DEF r
<1>5. ~Working(r) /\ r.next >= 1
  BY <1>3, <1>4 DEF Working
<1>6. /\ before' \in [Jobs -> SUBSET (Int \X Items)] /\ before'[j] = before[j]
      /\ \A k \in Jobs : k # j => before'[k] = {} \/ (before'[k] = before[k] /\ UNCHANGED <<limit, item>>)
  BY SightLost DEF ExactInv
<1>7. \A w \in before'[j] : Exact(r, limit', item', w)
  BY <1>5, NoWork
<1>8. \A v, w \in before'[j] : v = w
  BY <1>6, ExactFields
<1>. QED BY <1>2, <1>4, <1>5, <1>6, <1>7, <1>8, OneExact

LEMMA CallRefusedExact == ASSUME JobsInv, ExactInv, NEW j \in Jobs, CallRefused(j) PROVE ExactInv'
<1>1. Fails(j) /\ UNCHANGED <<limit, item, did, before>>
  BY DEF CallRefused, jobHistory
<1>. QED BY <1>1, ExactFields, FailsExact

LEMMA AnswerLostExact == ASSUME JobsInv, ExactInv, NEW j \in Jobs, AnswerLost(j) PROVE ExactInv'
<1>1. Fails(j) /\ Did(j)
  BY DEF AnswerLost
<1>2. PICK kind \in {"do", "put", "walk"} : Due(j, kind)
  BY DEF AnswerLost
<1>3. job[j].next \in 1 .. 4
  BY <1>2, DueCall
<1>4. \A k \in Jobs : did'[k] = did[k] \/ (k = j /\ did'[k] \subseteq 1 .. 4)
  BY <1>1, <1>3, DidSome
<1>5. job[j].left \in Int /\ limit \in Nat
  BY ExactFields DEF JobType
<1>6. limit' \in Nat /\ (UNCHANGED <<limit, item, before>> \/ OthersSee(j))
  BY <1>5, AlteredBy DEF AnswerLost
<1>. QED BY <1>1, <1>4, <1>6, FailsExact

LEMMA ExecutorEndsExact == ASSUME JobsInv, ExactInv, NEW j \in Jobs, ExecutorEnds(j) PROVE ExactInv'
<1> DEFINE s == job[j]
           calls == Def(s.act).calls
           r == [s EXCEPT !.at = "audit", !.got = {}]
<1>1. Becomes(j, r) /\ s.at = "running" /\ s.next > Len(calls) /\ UNCHANGED <<limit, item, did, before>>
  BY DEF ExecutorEnds, Calls, jobHistory
<1>2. s \in JobType /\ s.next \in Nat /\ s.next >= 1
  BY ExactFields
<1>3. /\ r \in JobType /\ r.at = "audit" /\ r.act = s.act /\ r.want = s.want /\ r.next = s.next
      /\ Working(s)
  BY <1>1, <1>2 DEF JobType, Working
<1>. HIDE DEF r
<1>4. calls \in {WalkCalls, PutCalls} => ~Begun(s) /\ ~HasRead(s)
  <2>1. calls \in {WalkCalls, PutCalls} => Len(calls) = 2
    BY TwoCalls, Zenon
  <2>2. Len(calls) = 2 => s.next # 1 /\ s.next # 2
    BY <1>1, <1>2
  <2>. QED BY <2>1, <2>2 DEF Begun, HasRead
<1>5. ~Begun(r) /\ ~HasRead(r)
  BY <1>3 DEF Begun, HasRead
<1>6. ASSUME NEW w \in before[j], Exact(s, limit, item, w) PROVE Exact(r, limit, item, w)
  <2>1. Patch(w[2], r) = Patch(w[2], s)
    BY <1>3 DEF Patch
  <2>. HIDE DEF s
  <2>. QED BY <1>3, <1>4, <1>5, <1>6, <2>1 DEF Exact, Walked, PutOver
<1>. QED BY <1>1, <1>2, <1>3, <1>6, QuietExact

\* The audit log is out of the executor's reach.
LEMMA LoggedExact ==
  ASSUME JobsInv, ExactInv, NEW j \in Jobs, NEW r \in JobType, Becomes(j, r), r.next >= 1, ~Working(r),
         Forget(j), UNCHANGED <<limit, item, did>>
  PROVE  ExactInv'
<1>1. /\ before' \in [Jobs -> SUBSET (Int \X Items)] /\ before'[j] = {}
      /\ \A k \in Jobs : k # j => before'[k] = before[k]
  BY Forgotten
<1>2. limit' \in Nat
  BY ExactFields
<1>. QED BY <1>1, <1>2, OneExact

LEMMA AuditExact == ASSUME JobsInv, ExactInv, NEW j \in Jobs, Audit(j) PROVE ExactInv'
<1> DEFINE row == Logged(j)
           r == [job[j] EXCEPT !.at = "over", !.row = row, !.want = 0, !.next = 1]
<1>1. Becomes(j, r) /\ Forget(j) /\ UNCHANGED <<limit, item, did>>
  BY DEF Audit
<1>2. job[j] \in JobType /\ row \in {"ok", "error"}
  BY ExactFields DEF Logged
<1>. HIDE DEF row
<1>3. r \in JobType
  <2> DEFINE q == [job[j] EXCEPT !.at = "over", !.row = row]
  <2>1. q \in JobType
    BY <1>2 DEF JobType
  <2>2. r = [q EXCEPT !.want = 0, !.next = 1]
    OBVIOUS
  <2>. HIDE DEF q, r
  <2>. QED BY <2>1, <2>2 DEF JobType
<1>4. r.at = "over" /\ r.next = 1
  BY <1>2 DEF JobType
<1>. HIDE DEF r
<1>5. ~Working(r) /\ r.next >= 1
  BY <1>4 DEF Working
<1>. QED BY <1>1, <1>3, <1>5, LoggedExact

LEMMA AuditFailsExact == ASSUME JobsInv, ExactInv, NEW j \in Jobs, AuditFails(j) PROVE ExactInv'
<1> DEFINE at == IF job[j].at = "audit" THEN "again" ELSE "over"
           unlogged == job[j].unlogged + 1
           r == [job[j] EXCEPT !.at = at, !.unlogged = unlogged]
<1>1. Becomes(j, r) /\ Forget(j) /\ UNCHANGED <<limit, item, did>>
  BY DEF AuditFails
<1>2. job[j] \in JobType /\ at \in {"again", "over"} /\ unlogged \in Nat /\ job[j].next >= 1
  BY ExactFields DEF JobType
<1>. HIDE DEF at, unlogged
<1>3. r \in JobType /\ r.at = at /\ r.next = job[j].next
  BY <1>2 DEF JobType
<1>. HIDE DEF r
<1>4. ~Working(r) /\ r.next >= 1
  BY <1>2, <1>3 DEF Working
<1>. QED BY <1>1, <1>3, <1>4, LoggedExact

LEMMA ServerDiesExact == ASSUME JobsInv, ExactInv, ServerDies PROVE ExactInv'
<1> DEFINE r == [Fresh0 EXCEPT !.at = "died"]
<1>1. /\ job' = [j \in Jobs |-> IF InFlight(j) THEN r ELSE job[j]]
      /\ did' = [j \in Jobs |-> IF InFlight(j) THEN {} ELSE did[j]]
      /\ before' = [j \in Jobs |-> {}] /\ UNCHANGED <<limit, item>>
  BY DEF ServerDies
<1>2. r.next >= 1
  BY DEF Fresh0
<1>. HIDE DEF r
<1>3. ASSUME NEW j \in Jobs PROVE job'[j].next >= 1 /\ did'[j] \subseteq 1 .. 4
  <2>1. CASE InFlight(j)
    BY <1>1, <1>2, <2>1
  <2>2. CASE ~InFlight(j)
    BY <1>1, <2>2, ExactFields
  <2>. QED BY <2>1, <2>2
<1>4. limit' \in Nat
  BY <1>1 DEF ExactInv
<1>. QED BY <1>1, <1>3, <1>4 DEF ExactInv

LEMMA ExactStep == JobsInv /\ ExactInv /\ [ActionNext]_actionVars => ExactInv'
<1> SUFFICES ASSUME JobsInv, ExactInv, [ActionNext]_actionVars PROVE ExactInv'
  OBVIOUS
<1>1. CASE UNCHANGED actionVars
  <2>1. UNCHANGED <<job, limit, item, did, before>>
    BY <1>1 DEF actionVars, jobHistory
  <2>. QED BY <2>1 DEF ExactInv
<1>2. CASE ServerDies
  BY <1>2, ServerDiesExact
<1>3. ASSUME NEW j \in Jobs,
             \/ \E q \in Asks : Dispatch(j, q)
             \/ Read(j) \/ CallRefused(j) \/ Do(j) \/ UnitFails(j) \/ Try(j) \/ Put(j)
             \/ WalkStep(j) \/ WalkEnds(j) \/ AnswerLost(j) \/ ExecutorEnds(j)
             \/ Audit(j) \/ AuditFails(j)
      PROVE  ExactInv'
  BY <1>3, DispatchExact, ReadExact, CallRefusedExact, DoExact, UnitFailsExact, TryExact, PutExact,
     WalkStepExact, WalkEndsExact, AnswerLostExact, ExecutorEndsExact, AuditExact, AuditFailsExact
<1>. QED BY <1>1, <1>2, <1>3 DEF ActionNext

LEMMA ExactAlone == JobsInv /\ ExactInv => AloneIsExact
<1> SUFFICES ASSUME JobsInv, ExactInv, NEW j \in Jobs, job[j].at = "audit", job[j].ok, NEW was \in before[j]
             PROVE  <<limit, item>> = << IF "walk" \in ToSet(Calls(j)) THEN job[j].want ELSE was[1],
                                         IF "put" \in ToSet(Calls(j)) THEN Patched(was[2], j) ELSE was[2] >>
  BY DEF AloneIsExact
<1> DEFINE calls == Def(job[j].act).calls
<1>1. Working(job[j]) /\ ~Begun(job[j]) /\ ~HasRead(job[j]) /\ Exact(job[j], limit, item, was)
  BY ExactFields DEF Working, Begun, HasRead, JobType
<1>2. Patched(was[2], j) = Patch(was[2], job[j])
  BY PatchedIsPatch
<1>3. job[j].act \in Offered
  BY <1>1, JobFields DEF JobOK, GatesPassed
<1>4. calls \in Seq(CallKinds) /\ Shaped(calls) /\ Calls(j) = calls
  BY <1>3, Defined, DefShaped DEF Calls
<1>5. \A kind : kind \in ToSet(calls) <=> \E i \in 1 .. Len(calls) : calls[i] = kind
  BY <1>4 DEF ToSet
<1>. HIDE DEF calls
<1>6. CASE calls = WalkCalls
  <2>1. "walk" \in ToSet(calls) /\ "put" \notin ToSet(calls)
    BY <1>6 DEF ToSet, WalkCalls
  <2>2. limit = job[j].want /\ item = was[2]
    BY <1>1, <1>6 DEF Exact, Walked, calls
  <2>. QED BY <1>4, <2>1, <2>2
<1>7. CASE calls = PutCalls
  <2>1. "put" \in ToSet(calls) /\ "walk" \notin ToSet(calls)
    BY <1>7 DEF ToSet, PutCalls
  <2>2. limit = was[1] /\ item = Patch(was[2], job[j])
    BY <1>1, <1>7 DEF Exact, PutOver, calls
  <2>. QED BY <1>2, <1>4, <2>1, <2>2
<1>8. CASE calls \notin {WalkCalls, PutCalls}
  <2>1. "put" \notin ToSet(calls) /\ "walk" \notin ToSet(calls)
    BY <1>4, <1>5, <1>8 DEF Shaped
  <2>2. limit = was[1] /\ item = was[2]
    BY <1>1, <1>8 DEF Exact, Untouched, calls
  <2>. QED BY <1>4, <2>1, <2>2
<1>. QED BY <1>6, <1>7, <1>8

\* A stepped worker limit and a patched item come out as they were asked for, and what a
\* job is not about comes out as it was found, for any number of jobs of which none
\* wrote beside it, whatever is refused, lost or cut short.
THEOREM AloneHolds == ActionSpec => []AloneIsExact
<1>. QED BY JobsInit, JobsStep, ExactInit, ExactStep, ExactAlone, PTL DEF ActionSpec

LEMMA AtMostOneSight ==
  ASSUME NEW S, \A v, w \in S : v = w
  PROVE  Cardinality(S) <= 1
<1>1. CASE S = {} BY <1>1, FS_EmptySet
<1>2. CASE S # {}
  <2>1. PICK v \in S : TRUE BY <1>2
  <2>2. S = {v} BY <2>1
  <2>3. Cardinality({v}) = 1 BY FS_Singleton
  <2>4. Cardinality(S) = 1 BY <2>2, <2>3, Zenon
  <2>. QED BY <2>4
<1>. QED BY <1>1, <1>2

\* The variables of the jobs stay in their types.
LEMMA ActionTypesHold == ActionSpec => []ActionTypes
<1>. DEFINE Faults == jobFaults \in 0 .. MaxJobFaults
<1>1. ActionInit => Faults BY ActionsAssumption DEF ActionInit
<1>2. Faults /\ [ActionNext]_actionVars => Faults'
  <2>. SUFFICES ASSUME Faults, [ActionNext]_actionVars PROVE Faults' OBVIOUS
  <2>1. jobFaults' = jobFaults \/ (jobFaults < MaxJobFaults /\ jobFaults' = jobFaults + 1)
    BY DEF ActionNext, actionVars, jobHistory, JobFault, Dispatch, Read, CallRefused, Do, UnitFails, Try, Put, WalkStep,
           WalkEnds, AnswerLost, ExecutorEnds, Audit, AuditFails, ServerDies
  <2>. QED BY <2>1, ActionsAssumption
<1>3. JobsInv /\ ExactInv /\ Faults => ActionTypes
  <2>. SUFFICES ASSUME JobsInv, ExactInv, Faults PROVE ActionTypes OBVIOUS
  <2>1. ASSUME NEW j \in Jobs
        PROVE  /\ job[j].at \in {"free", "running", "audit", "again", "over", "died"}
               /\ job[j].act \in Offered \cup {NoAction} /\ job[j].row \in {"none", "ok", "denied", "error"}
               /\ did[j] \subseteq 1 .. 4 /\ Cardinality(before[j]) <= 1
    <3>1. job[j] \in JobType BY DEF JobsInv
    <3>2. Cardinality(before[j]) <= 1 BY AtMostOneSight DEF ExactInv
    <3>. QED BY <3>1, <3>2 DEF ExactInv, JobType
  <2>. QED BY <2>1 DEF ActionTypes, JobsInv, ExactInv
<1>. HIDE DEF Faults
<1>. QED BY <1>1, <1>2, <1>3, JobsInit, JobsStep, ExactInit, ExactStep, PTL DEF ActionSpec
=============================================================================
