--------------------------- MODULE MarathonScaler ---------------------------
(***************************************************************************)
(* The Marathon half of the monitor-server: two goroutines, one for        *)
(* MesosAppsHandler and one for RestcommAppHandler, that wake up at every  *)
(* tick, average the samples they find in Redis, and ask Marathon for one  *)
(* instance more or one less of the applications that are out of limits.   *)
(* They share the Redis delay keys and the applications, without a lock.   *)
(*                                                                         *)
(* Around them: the agents that post samples, Redis expiring keys, the     *)
(* application charms redeploying an application, and upstart respawning   *)
(* the monitor-server process, which Redis survives.                       *)
(***************************************************************************)
EXTENDS Integers, LoadStats

CONSTANTS
    Handlers,       \* the checkState goroutines that use a MarathonClient
    Apps,           \* Marathon application ids
    Slots,          \* the task ":" date part of a sample's key
    Loads,          \* the loads a sample can carry, in percent
    ScaleUp,        \* -m-up
    ScaleDown,      \* -m-down
    ScaleDelay,     \* -md, in minutes
    IgnoreList,     \* -ignore
    Redeployed,     \* the applications whose charm restarts or stops them
    MaxInstances,   \* bound: Marathon refuses to run more instances than this
    Crashes,        \* whether the process may be killed (it may panic anyway)
    MarathonFaults, \* whether requests to Marathon may be lost or refused
    RedisFaults     \* whether requests to Redis may fail

ASSUME LoadsAssumption == Loads \subseteq Int
ASSUME LimitsAssumption == {ScaleUp, ScaleDown, ScaleDelay} \subseteq Int
ASSUME AppsAssumption == IgnoreList \subseteq Apps /\ Redeployed \subseteq Apps
ASSUME BoundAssumption == MaxInstances \in Nat \ {0}
ASSUME FaultsAssumption == {Crashes, MarathonFaults, RedisFaults} \subseteq BOOLEAN

DelayKeys == {"scale-up", "scale-down"} \X Apps
SampleKeys == Apps \X Slots

VARIABLES
    \* Redis, which outlives the process
    samples,    \* per handler ("mesos:*", "restcomm:*") and key, the value if there is one
    delay,      \* the delay keys that exist
    \* Marathon and the charms that deploy to it
    deployed,   \* the applications Marathon knows
    instances,  \* the number of instances it runs of each
    charm,      \* how far the charm's redeployment of an application has come
    \* the monitor-server process
    up,         \* whether it runs
    pc,         \* where each handler's goroutine is
    keys,       \* what KEYS returned and GET has not fetched yet
    stats,      \* the totals of avgStat; then the entries still to range over
    job,        \* the delay key <<action, app>> of the scaleMesos call under way
    target,     \* the instance count it computed
    \* history, which no action reads
    held,       \* delay keys a handler put under, neither expired nor lost since
    witness     \* loads of an application that were alive during a handler's check

marathon == <<deployed, instances, charm>>
work == <<keys, stats, job, target>>
vars == <<samples, delay, deployed, instances, charm, up, pc, keys, stats, job,
          target, held, witness>>

Pcs == {"idle", "get", "range", "isKey", "getApp", "put", "setKey"}
NoStats == [a \in Apps |-> EmptyStat]
NoWitness == [a \in Apps |-> {}]
NoJob == <<>>

\* The loads of the live samples of an application.
Alive(h, a) == {l \in Loads : \E s \in Slots : l \in samples[h][<<a, s>>]}

Init ==
    /\ samples = [h \in Handlers |-> [k \in SampleKeys |-> {}]]
    /\ delay = {}
    /\ deployed = Apps
    /\ instances = [a \in Apps |-> 1]
    /\ charm = [a \in Apps |-> "settled"]
    /\ up = TRUE
    /\ pc = [h \in Handlers |-> "idle"]
    /\ keys = [h \in Handlers |-> {}]
    /\ stats = [h \in Handlers |-> NoStats]
    /\ job = [h \in Handlers |-> NoJob]
    /\ target = [h \in Handlers |-> 0]
    /\ held = [h \in Handlers |-> {}]
    /\ witness = [h \in Handlers |-> NoWitness]

-----------------------------------------------------------------------------
(* Redis and the agents *)

\* handleMetrics: an agent posts a sample, db.Set(key, value, h.Period).
HandleMetrics(h, k, l) ==
    /\ up
    /\ samples' = [samples EXCEPT ![h][k] = {l}]
    /\ witness' = IF pc[h] = "get"
                  THEN [witness EXCEPT ![h][k[1]] = @ \cup {l}]
                  ELSE witness
    /\ UNCHANGED <<delay, marathon, up, pc, work, held>>

\* The TTL of a sample runs out.
SampleExpires(h, k) ==
    /\ samples[h][k] # {}
    /\ samples' = [samples EXCEPT ![h][k] = {}]
    /\ UNCHANGED <<delay, marathon, up, pc, work, held, witness>>

\* Mutant of DelayExpires: delay keys are set without a TTL.
DelayStays(k) ==
    /\ k \in delay /\ k \notin delay
    /\ UNCHANGED vars

\* The TTL of a delay key runs out.  The client sets none for a duration of 0.
DelayExpires(k) ==
    /\ k \in delay /\ ScaleDelay > 0
    /\ delay' = delay \ {k}
    /\ held' = [h \in Handlers |-> held[h] \ {k}]
    /\ UNCHANGED <<samples, marathon, up, pc, work, witness>>

-----------------------------------------------------------------------------
(* checkState, one goroutine per handler *)

\* A tick: avgStat asks for the keys.  A failed request yields no keys.
Tick(h) ==
    /\ up /\ pc[h] = "idle"
    /\ pc' = [pc EXCEPT ![h] = "get"]
    /\ \/ keys' = [keys EXCEPT ![h] = {k \in SampleKeys : samples[h][k] # {}}]
       \/ RedisFaults /\ UNCHANGED keys
    /\ witness' = [witness EXCEPT ![h] = [a \in Apps |-> Alive(h, a)]]
    /\ UNCHANGED <<samples, delay, marathon, up, stats, job, target, held>>

\* Mutant of GetSample: a key that is gone counts as a sample of load 0.
GetSampleGoneIsZero(h, k) ==
    /\ up /\ pc[h] = "get" /\ k \in keys[h]
    /\ keys' = [keys EXCEPT ![h] = @ \ {k}]
    /\ \E l \in IF samples[h][k] = {} THEN {0} ELSE samples[h][k] :
           stats' = [stats EXCEPT ![h][k[1]] = AddSample(@, l)]
    /\ UNCHANGED <<samples, delay, marathon, up, pc, job, target, held, witness>>

\* One GET: a sample is added; a key that is gone (or a failed GET) does not
\* unmarshal and is skipped.
GetSample(h, k) ==
    /\ up /\ pc[h] = "get" /\ k \in keys[h]
    /\ keys' = [keys EXCEPT ![h] = @ \ {k}]
    /\ \/ \E l \in samples[h][k] :
             stats' = [stats EXCEPT ![h][k[1]] = AddSample(@, l)]
       \/ /\ samples[h][k] = {} \/ RedisFaults
          /\ UNCHANGED stats
    /\ UNCHANGED <<samples, delay, marathon, up, pc, job, target, held, witness>>

\* avgStat returns.
StatsDone(h) ==
    /\ up /\ pc[h] = "get" /\ keys[h] = {}
    /\ pc' = [pc EXCEPT ![h] = "range"]
    /\ UNCHANGED <<samples, delay, marathon, up, work, held, witness>>

\* The loop over stats visits an application: a Go map is ranged over in any order.
Visit(h, a) ==
    /\ up /\ pc[h] = "range" /\ stats[h][a].count > 0
    /\ LET action == Verdict(Average(stats[h][a]), ScaleUp, ScaleDown)
       IN  IF a \in IgnoreList \/ action = "none"
           THEN UNCHANGED <<pc, job>>
           ELSE /\ pc' = [pc EXCEPT ![h] = "isKey"]
                /\ job' = [job EXCEPT ![h] = <<action, a>>]
    /\ stats' = [stats EXCEPT ![h][a] = EmptyStat]
    /\ UNCHANGED <<samples, delay, marathon, up, keys, target, held, witness>>

\* The loop is over; the goroutine waits for the next tick.
CheckDone(h) ==
    /\ up /\ pc[h] = "range" /\ \A a \in Apps : stats[h][a].count = 0
    /\ pc' = [pc EXCEPT ![h] = "idle"]
    /\ witness' = [witness EXCEPT ![h] = NoWitness]
    /\ UNCHANGED <<samples, delay, marathon, up, work, held>>

-----------------------------------------------------------------------------
(* scaleMesos *)

\* scaleMesos returns to the loop.  Its deferred removeKeys(appId + ":") asks for
\* the keys "metric:<app>:", of which this handler writes none.
Return(h) ==
    /\ pc' = [pc EXCEPT ![h] = "range"]
    /\ job' = [job EXCEPT ![h] = NoJob]
    /\ target' = [target EXCEPT ![h] = 0]

\* isKey(delayKey): a failed request reads as "no such key".
CheckDelay(h) ==
    /\ up /\ pc[h] = "isKey"
    /\ \/ job[h] \in delay /\ Return(h)
       \/ /\ job[h] \notin delay \/ RedisFaults
          /\ pc' = [pc EXCEPT ![h] = "getApp"]
          /\ UNCHANGED <<job, target>>
    /\ UNCHANGED <<samples, delay, marathon, up, keys, stats, held, witness>>

\* Mutant of KeepsLast: the guard on the last instance is off by one.
KeepsNone(action, n) == action = "scale-down" /\ n = 0

\* scaleMesos ignores a scale down of a single instance.
KeepsLast(action, n) == action = "scale-down" /\ n = 1

\* Mutant of NewCount: the decrement is forgotten, every action increments.
NewCountAlwaysUp(action, n) == n + 1

\* The count scaleMesos asks for when it read n.
NewCount(action, n) == IF action = "scale-up" THEN n + 1 ELSE n - 1

\* getAppInstances answers, and scaleMesos computes the new count.
GetAppInstances(h) ==
    /\ up /\ pc[h] = "getApp"
    /\ LET action == job[h][1]
           a == job[h][2]
       IN  \/ MarathonFaults /\ Return(h)
           \/ /\ a \in deployed
              /\ KeepsLast(action, instances[a])
              /\ Return(h)
           \/ /\ a \in deployed
              /\ ~KeepsLast(action, instances[a])
              /\ pc' = [pc EXCEPT ![h] = "put"]
              /\ target' = [target EXCEPT ![h] = NewCount(action, instances[a])]
              /\ UNCHANGED job
    /\ UNCHANGED <<samples, delay, marathon, up, keys, stats, held, witness>>

\* Mutant of Accepts: Marathon takes any count.
AcceptsAny(a, n) == a \in deployed

\* Marathon's answer to a PUT of n instances of a.
Accepts(a, n) == a \in deployed /\ n \in 0..MaxInstances

\* scaleApp: the PUT and whatever becomes of it; errors are only logged.
ScaleApp(h) ==
    /\ up /\ pc[h] = "put"
    /\ LET a == job[h][2]
       IN  \/ /\ Accepts(a, target[h])
              /\ instances' = [instances EXCEPT ![a] = target[h]]
           \/ /\ ~Accepts(a, target[h]) \/ MarathonFaults
              /\ UNCHANGED instances
    /\ pc' = [pc EXCEPT ![h] = "setKey"]
    /\ held' = [held EXCEPT ![h] = @ \cup {job[h]}]
    /\ UNCHANGED <<samples, delay, deployed, charm, up, work, witness>>

\* setBoolKey(delayKey, h.ScaleDelay), whatever scaleApp met; then return.
SetDelay(h) ==
    /\ up /\ pc[h] = "setKey"
    /\ \/ delay' = delay \cup {job[h]} /\ UNCHANGED held
       \/ /\ RedisFaults
          /\ held' = [held EXCEPT ![h] = @ \ {job[h]}]
          /\ UNCHANGED delay
    /\ Return(h)
    /\ UNCHANGED <<samples, marathon, up, keys, stats, witness>>

-----------------------------------------------------------------------------
(* The process *)

\* The process is gone, with the goroutines and whatever they held.
Die ==
    /\ up' = FALSE
    /\ pc' = [h \in Handlers |-> "idle"]
    /\ keys' = [h \in Handlers |-> {}]
    /\ stats' = [h \in Handlers |-> NoStats]
    /\ job' = [h \in Handlers |-> NoJob]
    /\ target' = [h \in Handlers |-> 0]
    /\ witness' = [h \in Handlers |-> NoWitness]
    /\ held' = [h \in Handlers |->
                   IF pc[h] = "setKey" THEN held[h] \ ({job[h]} \ delay) ELSE held[h]]
    /\ UNCHANGED <<samples, delay, marathon>>

\* getAppInstances gets an answer without "app", the 404 of an application that
\* Marathon does not know or an error page: the type assertion panics, and nothing
\* recovers.
Panic(h) ==
    /\ up /\ pc[h] = "getApp"
    /\ job[h][2] \notin deployed \/ MarathonFaults
    /\ Die

\* The process is killed, or the machine goes down.
Kill == Crashes /\ up /\ Die

\* Mutant of Respawn: resetDb empties the database, delay keys included.
RespawnFlushed ==
    /\ ~up
    /\ up' = TRUE
    /\ delay' = {}
    /\ UNCHANGED <<samples, marathon, pc, work, held, witness>>

\* upstart respawns it.  main's resetDb removes "metric:*": the samples of these
\* handlers and the delay keys stay.
Respawn ==
    /\ ~up
    /\ up' = TRUE
    /\ UNCHANGED <<samples, delay, marathon, pc, work, held, witness>>

-----------------------------------------------------------------------------
(* The charm of an application: its ansible handlers, in their order *)

\* "stop mesos app", of the stop hook: PUT instances 0.
StopApp(a) ==
    /\ charm[a] = "settled"
    /\ charm' = [charm EXCEPT ![a] = "stopped"]
    /\ instances' = [instances EXCEPT ![a] = 0]
    /\ UNCHANGED <<samples, delay, deployed, up, pc, work, held, witness>>

\* "delete mesos app", of the stop hook and of "restart"; also of a "restart" hook
\* that failed on the way and is run again.
DeleteApp(a) ==
    /\ charm[a] \in {"settled", "stopped"} \/ MarathonFaults
    /\ charm' = [charm EXCEPT ![a] = "deleted"]
    /\ deployed' = deployed \ {a}
    /\ instances' = [instances EXCEPT ![a] = 0]
    /\ UNCHANGED <<samples, delay, up, pc, work, held, witness>>

\* "create mesos app": the template says instances 0.  It is a curl without --fail,
\* so the hook goes on when Marathon refuses.
CreateApp(a) ==
    /\ charm[a] = "deleted"
    /\ charm' = [charm EXCEPT ![a] = "created"]
    /\ \/ deployed' = deployed \cup {a}
       \/ MarathonFaults /\ UNCHANGED deployed
    /\ UNCHANGED <<samples, delay, instances, up, pc, work, held, witness>>

\* Mutant of StartApp: the status of the PUT is not looked at.
StartAppAnyhow(a) ==
    /\ charm[a] = "created"
    /\ charm' = [charm EXCEPT ![a] = "settled"]
    /\ instances' = [instances EXCEPT ![a] = IF a \in deployed THEN 1 ELSE 0]
    /\ UNCHANGED <<samples, delay, deployed, up, pc, work, held, witness>>

\* "create app instance": PUT instances 1, until the status is 200; the hook fails
\* if it never is.
StartApp(a) ==
    /\ charm[a] = "created" /\ a \in deployed
    /\ charm' = [charm EXCEPT ![a] = "settled"]
    /\ instances' = [instances EXCEPT ![a] = 1]
    /\ UNCHANGED <<samples, delay, deployed, up, pc, work, held, witness>>

-----------------------------------------------------------------------------
CheckState(h) ==
    \/ Tick(h)
    \/ \E k \in SampleKeys : GetSample(h, k)
    \/ StatsDone(h)
    \/ \E a \in Apps : Visit(h, a)
    \/ CheckDone(h)
    \/ CheckDelay(h)
    \/ GetAppInstances(h)
    \/ ScaleApp(h)
    \/ SetDelay(h)
    \/ Panic(h)

Redeploy(a) == StopApp(a) \/ DeleteApp(a) \/ CreateApp(a) \/ StartApp(a)

Next ==
    \/ \E h \in Handlers : CheckState(h)
    \/ \E h \in Handlers, k \in SampleKeys, l \in Loads : HandleMetrics(h, k, l)
    \/ \E h \in Handlers, k \in SampleKeys : SampleExpires(h, k)
    \/ \E k \in DelayKeys : DelayExpires(k)
    \/ Kill
    \/ Respawn
    \/ \E a \in Redeployed : Redeploy(a)

Spec == Init /\ [][Next]_vars

-----------------------------------------------------------------------------
TypeOK ==
    /\ samples \in [Handlers -> [SampleKeys -> SUBSET Loads]]
    /\ delay \subseteq DelayKeys
    /\ deployed \subseteq Apps
    /\ instances \in [Apps -> 0..MaxInstances]
    /\ charm \in [Apps -> {"settled", "stopped", "deleted", "created"}]
    /\ up \in BOOLEAN
    /\ pc \in [Handlers -> Pcs]
    /\ keys \in [Handlers -> SUBSET SampleKeys]
    /\ stats \in [Handlers -> [Apps -> Stat]]
    /\ job \in [Handlers -> DelayKeys \cup {NoJob}]
    /\ target \in [Handlers -> -1..(MaxInstances + 1)]
    /\ held \in [Handlers -> SUBSET DelayKeys]
    /\ witness \in [Handlers -> [Apps -> SUBSET Loads]]

\* A scaling call is backed by evidence of its own check: a sample of that
\* application, posted to that handler and alive at some moment of this very check,
\* is itself out of the limit (an average of samples within limits is within
\* limits).  Concerns avgStat and checkState: samples that expire or are replaced
\* between KEYS and GET, failed requests, two applications in one loop, two checks.
VerdictBacked ==
    \A h \in Handlers : job[h] # NoJob =>
        LET loads == witness[h][job[h][2]]
        IN  IF job[h][1] = "scale-up" THEN \E l \in loads : l > ScaleUp
                                      ELSE \E l \in loads : l < ScaleDown

\* An application whose charm has finished deploying it is known to Marathon and
\* has at least one instance, whatever the two handlers and the charm interleave:
\* counts read before a redeployment and written after it included.
SettledAppRuns ==
    \A a \in Apps : charm[a] = "settled" => a \in deployed /\ instances[a] >= 1

\* The delay key does its work for the handler that set it, across kills, panics and
\* respawns: a handler about to PUT has not already put for the same action and
\* application under a delay key that neither expired nor failed to be set.
OncePerDelay ==
    \A h \in Handlers : pc[h] = "put" => job[h] \notin held[h]

\* What a handler's PUT may do to a count.
PutMovesByOne ==
    \A h \in Handlers, a \in Apps :
        (/\ pc[h] = "put" /\ pc'[h] = "setKey" /\ job[h][2] = a
         /\ instances'[a] # instances[a])
            => instances'[a] = instances[a] + IF job[h][1] = "scale-up" THEN 1 ELSE -1

\* Every PUT that Marathon accepts adds or removes one instance, as its action says
\* (README.md: "adds one more instance", "removes one instance").
PutIsOneStep == [][PutMovesByOne]_vars

-----------------------------------------------------------------------------
(* Liveness.  The Go scheduler runs every goroutine that can run, and tickers keep  *)
(* ticking; a range over a Go map starts anywhere, so an application that is there  *)
(* to be visited is not passed over for ever; Redis expires what has a TTL; upstart *)
(* respawns.  A sample lives for h.Period, the time between two checks, and agents  *)
(* post every few seconds: of the keys that KEYS returned, those of one application *)
(* do not all expire before their GETs in every check for ever.  Nothing else is    *)
(* assumed of the agents, and nothing of Marathon or of the charms.                 *)

\* The GET of a sample of a that is still there.
Fetch(h, a) == \E s \in Slots : samples[h][<<a, s>>] # {} /\ GetSample(h, <<a, s>>)

Fairness ==
    /\ \A h \in Handlers : WF_vars(CheckState(h))
    /\ \A h \in Handlers, a \in Apps : SF_vars(Fetch(h, a)) /\ SF_vars(Visit(h, a))
    /\ \A k \in DelayKeys : WF_vars(DelayExpires(k))
    /\ WF_vars(Respawn)

FairSpec == Spec /\ Fairness

Overloaded(h, a) ==
    /\ Alive(h, a) # {}
    /\ \A l \in Alive(h, a) : l > ScaleUp

==============================================================================
