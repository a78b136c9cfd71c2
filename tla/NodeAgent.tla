----------------------------- MODULE NodeAgent -----------------------------
(***************************************************************************)
(* The node agent (agent/nas_agent.py): a thread for each request, the     *)
(* sampler that tells rates since the sample before, and the caches that   *)
(* hold their lock while they compute.  The counters of /proc only grow,   *)
(* so a counter is the time it is read at; so is what a cache holds.       *)
(* Endpoints share nothing but caches: a behaviour follows some that do.   *)
(***************************************************************************)
EXTENDS Integers, Sequences, FiniteSets

CONSTANTS
  Threads,     \* requests served at a time
  Families,    \* sets of endpoints that are followed together
  CacheTtl,    \* CacheTtl[c]: seconds cache c keeps its value
  NotYet,      \* no value, no answer
  MaxSeconds,  \* bound on the clock
  MaxRaises    \* bound on exceptions and restarts

\* The cache an endpoint answers from, in the end.  What computes /docker asks the
\* cache of the list of containers in its turn.
CacheOf == [stats |-> "units", smart |-> "smart", gpu |-> "gpu", governor |-> "governor",
            docker |-> "docker", actions |-> "containers"]
Caches == {CacheOf[e] : e \in UNION Families} \cup {"containers"}

ASSUME NodeAgentAssumption ==
  /\ UNION Families \subseteq DOMAIN CacheOf /\ CacheTtl \in [Caches -> Nat]
  /\ NotYet \notin Int /\ {MaxSeconds, MaxRaises} \subseteq Nat

VARIABLES
  asked,      \* the endpoints followed
  second,     \* time.monotonic()
  baseline,    \* SAMPLER._prev
  cached,     \* cached[c]: _val and _at
  thread,     \* thread[r]: where request r is
  raises,
  beside      \* requests whose sampling had another one beside it (a history)

agentVars == <<asked, second, baseline, cached, thread, raises, beside>>

\* rates: those just told to the request; locks: the caches whose lock is held to compute, the innermost first, with the `now` of each.
\* list: the age of the list of containers; taken: when the lock was taken of the value answered.
NoRates == [elapsed |-> 0, grown |-> 0]
NoThread == [at |-> "idle", endpoint |-> "none", ts |-> 0, counter |-> 0, rates |-> NoRates, asks |-> "none",
             locks |-> <<>>, list |-> 0, of |-> NotYet, taken |-> 0]
NothingCached == [val |-> NotYet, stamp |-> 0]

AgentInit ==
  /\ asked \in Families
  /\ second = 0
  /\ baseline = [ts |-> 0, counter |-> 0]
  /\ cached = [c \in Caches |-> NothingCached]
  /\ thread = [r \in Threads |-> NoThread]
  /\ raises = 0
  /\ beside = {}

ThreadAt(r, step) == thread[r].at = step
Turns(r, t) == thread' = [thread EXCEPT ![r] = t]
Raising == raises < MaxRaises /\ raises' = raises + 1

SecondPasses ==
  /\ second < MaxSeconds /\ second' = second + 1
  /\ UNCHANGED <<asked, baseline, cached, thread, raises, beside>>

-----------------------------------------------------------------------------
(* StatsSampler.snapshot *)

Sampling == {r \in Threads : thread[r].at \in {"stamped", "counted"}}

\* /stats samples first, and its time is taken before the counters are read.
AskAgent(r, e) ==
  /\ ThreadAt(r, "idle")
  /\ IF e = "stats"
     THEN /\ Turns(r, [NoThread EXCEPT !.at = "stamped", !.endpoint = e, !.ts = second])
          /\ beside' = IF Sampling = {} THEN beside \ {r} ELSE beside \cup Sampling \cup {r}
     ELSE /\ Turns(r, [NoThread EXCEPT !.at = "asks", !.endpoint = e, !.asks = CacheOf[e]])
          /\ UNCHANGED beside
  /\ UNCHANGED <<asked, second, baseline, cached, raises>>

ReadCounters(r) ==
  /\ ThreadAt(r, "stamped")
  /\ Turns(r, [thread[r] EXCEPT !.at = "counted", !.counter = second])
  /\ UNCHANGED <<asked, second, baseline, cached, raises, beside>>

\* No time, no rates.
Told(elapsed, grown) == IF elapsed <= 0 THEN 0 ELSE grown

\* The lock covers the swap only.
SwapSample(r) ==
  LET elapsed == thread[r].ts - baseline.ts
  IN
  /\ ThreadAt(r, "counted")
  /\ baseline' = [ts |-> thread[r].ts, counter |-> thread[r].counter]
  /\ Turns(r, [NoThread EXCEPT !.at = "asks", !.endpoint = "stats", !.asks = CacheOf["stats"],
                 !.rates = [elapsed |-> elapsed, grown |-> Told(elapsed, thread[r].counter - baseline.counter)]])
  /\ UNCHANGED <<asked, second, cached, raises, beside>>

-----------------------------------------------------------------------------
(* TimedCache.get *)

Held == {l[1] : l \in UNION {{thread[r].locks[i] : i \in DOMAIN thread[r].locks} : r \in Threads}}
Kept(c) == cached[c].val # NotYet /\ second - cached[c].stamp <= CacheTtl[c]

Serve(r, val, taken) ==
  Turns(r, [NoThread EXCEPT !.at = "answered", !.endpoint = thread[r].endpoint, !.of = val, !.taken = taken])

\* A slip: the lock is let go before the function begins.
Unlocked(r, c) == thread[r].locks
Locked(r, c) == <<<<c, second>>>> \o thread[r].locks

\* The lock is taken.  A value in time is returned at once; otherwise the lock is kept
\* and the function begins, which for /docker is to ask for the list of containers.
GetBegins(r) ==
  LET c == thread[r].asks
  IN
  /\ ThreadAt(r, "asks") /\ c \notin Held
  /\ IF Kept(c)
     THEN IF thread[r].locks = <<>> THEN Serve(r, cached[c].val, second)
          ELSE Turns(r, [thread[r] EXCEPT !.at = "computes", !.list = cached[c].val])
     ELSE Turns(r, [thread[r] EXCEPT !.at = IF c = "docker" THEN "asks" ELSE "computes",
                                        !.asks = IF c = "docker" THEN "containers" ELSE c, !.locks = Locked(r, c),
                                        !.rates = NoRates])
  /\ UNCHANGED <<asked, second, baseline, cached, raises, beside>>

\* What is computed is as old as its oldest part; it is stamped with the time the lock was taken.
Older(s, t) == IF s < t THEN s ELSE t

ComputeEnds(r) ==
  LET lock == Head(thread[r].locks)
      val == IF lock[1] = "docker" THEN Older(thread[r].list, second) ELSE second
      rest == Tail(thread[r].locks)
  IN
  /\ ThreadAt(r, "computes")
  /\ cached' = [cached EXCEPT ![lock[1]] = [val |-> val, stamp |-> lock[2]]]
  /\ IF rest = <<>> THEN Serve(r, val, lock[2])
     ELSE Turns(r, [thread[r] EXCEPT !.locks = rest, !.list = val])
  /\ UNCHANGED <<asked, second, baseline, raises, beside>>

Answer(r) ==
  /\ ThreadAt(r, "answered") /\ Turns(r, NoThread) /\ beside' = beside \ {r}
  /\ UNCHANGED <<asked, second, baseline, cached, raises>>

\* A slip: the stamp is renewed first.
ComputeRaisesStamped(r) ==
  LET lock == Head(thread[r].locks)
  IN
  /\ ThreadAt(r, "computes") /\ Raising
  /\ cached' = [cached EXCEPT ![lock[1]].stamp = lock[2]]
  /\ Turns(r, NoThread) /\ beside' = beside \ {r}
  /\ UNCHANGED <<asked, second, baseline>>

\* The function raises: every lock is released, and the request is answered with an error.
ComputeRaises(r) ==
  /\ ThreadAt(r, "computes") /\ Raising
  /\ Turns(r, NoThread) /\ beside' = beside \ {r}
  /\ UNCHANGED <<asked, second, baseline, cached>>

\* The agent is started anew: main takes the first sample.
AgentRestarts ==
  /\ Raising
  /\ baseline' = [ts |-> second, counter |-> second]
  /\ cached' = [c \in Caches |-> NothingCached]
  /\ thread' = [r \in Threads |-> NoThread] /\ beside' = {}
  /\ UNCHANGED <<asked, second>>

AgentNext ==
  \/ SecondPasses \/ AgentRestarts
  \/ \E r \in Threads :
       \/ \E e \in asked : AskAgent(r, e)
       \/ ReadCounters(r) \/ SwapSample(r) \/ GetBegins(r) \/ ComputeEnds(r) \/ Answer(r) \/ ComputeRaises(r)

AgentSpec == AgentInit /\ [][AgentNext]_agentVars

-----------------------------------------------------------------------------
(* Properties. *)

Seconds == 0 .. MaxSeconds
ThreadType ==
  [at : {"idle", "stamped", "counted", "asks", "computes", "answered"}, endpoint : {"none"} \cup UNION Families,
   ts : Seconds, counter : Seconds, rates : [elapsed : Int, grown : Int], asks : {"none"} \cup Caches,
   locks : Seq(Caches \X Seconds), list : Seconds, of : Seconds \cup {NotYet}, taken : Seconds]
AgentFields ==
  /\ asked \in Families /\ second \in Seconds /\ raises \in 0 .. MaxRaises /\ beside \subseteq Threads
  /\ baseline \in [ts : Seconds, counter : Seconds]
  /\ cached \in [Caches -> [val : Seconds \cup {NotYet}, stamp : Seconds]]
  /\ thread \in [Threads -> ThreadType]

\* What is computed is computed under a lock.
AgentTypes == AgentFields /\ \A r \in Threads : ThreadAt(r, "computes") => thread[r].locks # <<>>

\* A sample that no other overlapped follows the one before it: its rates are of time
\* that passed, and not negative.
RatesAreOfTime ==
  \A r \in Threads \ beside : thread[r].rates.elapsed >= 0 /\ thread[r].rates.grown >= 0

\* However requests wait for each other, computations raise and caches nest, an answer is no
\* older, when its lock is taken, than its cache allows, and the list of containers in
\* /docker than both caches together.
CachedInTime ==
  \A r \in Threads :
    LET c == CacheOf[thread[r].endpoint]
    IN  ThreadAt(r, "answered") =>
          thread[r].taken - thread[r].of <= CacheTtl[c] + (IF c = "docker" THEN CacheTtl["containers"] ELSE 0)

\* No two requests compute the same value, and none waits for a lock whose owner waits for its own.
LocksInOrder ==
  \A r, q \in Threads : \A i \in DOMAIN thread[r].locks : \A j \in DOMAIN thread[q].locks :
    /\ thread[r].locks[i][1] = thread[q].locks[j][1] => r = q
    /\ r # q /\ ThreadAt(r, "asks") /\ ThreadAt(q, "asks") =>
         ~(thread[r].asks = thread[q].locks[j][1] /\ thread[q].asks = thread[r].locks[i][1])

\* What the agent tells is of the time it says.
AgentTellsTrue == RatesAreOfTime /\ CachedInTime /\ LocksInOrder
=============================================================================
