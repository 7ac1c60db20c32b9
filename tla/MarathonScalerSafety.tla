------------------------ MODULE MarathonScalerSafety ------------------------
(***************************************************************************)
(* The safety properties of MarathonScaler, each from an inductive         *)
(* invariant of its own on top of the type invariant.                      *)
(***************************************************************************)
EXTENDS MarathonScalerProofs, LoadStatsProofs

-----------------------------------------------------------------------------
(* SettledAppRuns *)

\* A count of 0 is never on its way to Marathon.
RunInv ==
    /\ SettledAppRuns
    /\ \A h \in Handlers : pc[h] = "put" => target[h] # 0

LEMMA NextRunInv == TypeInv /\ RunInv /\ [Next]_vars => RunInv'
<1> SUFFICES ASSUME TypeInv, RunInv, [Next]_vars
             PROVE  RunInv'
  OBVIOUS
<1> USE DEF RunInv, SettledAppRuns
<1>1. ASSUME NEW h \in Handlers, GetAppInstances(h) PROVE RunInv'
  <2>1. job[h][2] \in Apps
    BY <1>1, KeyType DEF TypeInv, JobInv, GetAppInstances, Scaling
  <2>2. CASE Return(h)
    BY <1>1, <2>2 DEF GetAppInstances, Return, marathon, TypeInv, TypeOK
  <2>3. CASE ~ Return(h)
    <3>1. /\ pc' = [pc EXCEPT ![h] = "put"]
          /\ target' = [target EXCEPT ![h] = NewCount(job[h][1], instances[job[h][2]])]
          /\ ~ KeepsLast(job[h][1], instances[job[h][2]])
          /\ UNCHANGED marathon
      BY <1>1, <2>3 DEF GetAppInstances
    <3>2. NewCount(job[h][1], instances[job[h][2]]) # 0
      <4>1. job[h][1] \in {"scale-up", "scale-down"}
        BY <1>1 DEF TypeInv, JobInv, GetAppInstances, Scaling, DelayKeys
      <4> QED
        BY <2>1, <3>1, <4>1, BoundAssumption DEF NewCount, KeepsLast, TypeInv, TypeOK
    <3> QED
      BY <3>1, <3>2 DEF marathon, TypeInv, TypeOK
  <2> QED
    BY <2>2, <2>3
<1>2. ASSUME NEW h \in Handlers, ScaleApp(h) PROVE RunInv'
  <2>1. \A a \in Apps : instances'[a] = instances[a] \/ instances'[a] >= 1
    BY <1>2, BoundAssumption DEF ScaleApp, Accepts, TypeInv, TypeOK
  <2> QED
    BY <1>2, <2>1, BoundAssumption DEF ScaleApp, work, TypeInv, TypeOK
<1>3. ASSUME NEW h \in Handlers, CheckDelay(h) \/ SetDelay(h) PROVE RunInv'
  BY <1>3 DEF CheckDelay, SetDelay, Return, marathon, TypeInv, TypeOK
<1>4. ASSUME NEW h \in Handlers,
             \/ Tick(h) \/ StatsDone(h) \/ CheckDone(h)
             \/ \E k \in SampleKeys : GetSample(h, k)
             \/ \E a \in Apps : Visit(h, a)
      PROVE  RunInv'
  BY <1>4 DEF Tick, StatsDone, CheckDone, GetSample, Visit, marathon, work, TypeInv, TypeOK
<1>5. ASSUME Die PROVE RunInv'
  BY <1>5 DEF Die, marathon
<1>6. ASSUME NEW h \in Handlers, NEW k \in SampleKeys,
             \/ SampleExpires(h, k)
             \/ \E l \in Loads : HandleMetrics(h, k, l)
      PROVE  RunInv'
  BY <1>6 DEF SampleExpires, HandleMetrics, marathon, work
<1>7. ASSUME NEW k \in DelayKeys, DelayExpires(k) PROVE RunInv'
  BY <1>7 DEF DelayExpires, marathon, work
<1>8. CASE Respawn
  BY <1>8 DEF Respawn, marathon, work
<1>9. ASSUME NEW a \in Apps, Redeploy(a) PROVE RunInv'
  <2> USE DEF TypeInv, TypeOK, work
  <2>1. CASE StopApp(a)
    BY <2>1 DEF StopApp
  <2>2. CASE DeleteApp(a)
    BY <2>2 DEF DeleteApp
  <2>3. CASE CreateApp(a)
    <3>1. /\ charm' = [charm EXCEPT ![a] = "created"]
          /\ \A b \in Apps : b \in deployed => b \in deployed'
          /\ UNCHANGED <<instances, pc, work>>
      BY <2>3 DEF CreateApp
    <3> QED
      BY <3>1
  <2>4. CASE StartApp(a)
    BY <2>4 DEF StartApp
  <2> QED
    BY <1>9, <2>1, <2>2, <2>3, <2>4 DEF Redeploy
<1>10. CASE UNCHANGED vars
  BY <1>10 DEF vars
<1>11. ASSUME NEW h \in Handlers, CheckState(h) PROVE RunInv'
  BY <1>11, <1>1, <1>2, <1>3, <1>4, <1>5 DEF CheckState, Panic
<1>12. CASE Kill
  BY <1>12, <1>5 DEF Kill
<1>13. CASE \E a \in Redeployed : Redeploy(a)
  BY <1>13, <1>9, AppsAssumption
<1>14. CASE \/ \E h \in Handlers, k \in SampleKeys, l \in Loads : HandleMetrics(h, k, l)
            \/ \E h \in Handlers, k \in SampleKeys : SampleExpires(h, k)
  BY <1>14, <1>6
<1> QED
  BY <1>7, <1>8, <1>10, <1>11, <1>12, <1>13, <1>14 DEF Next

\* A deployed application keeps at least one instance, however the two handlers, the
\* redeployments and the crashes interleave.
THEOREM DeployedAppsRun == Spec => []SettledAppRuns
<1>1. Init => RunInv
  BY DEF Init, RunInv, SettledAppRuns
<1>2. RunInv => SettledAppRuns
  BY DEF RunInv
<1> QED
  BY <1>1, <1>2, TypeInvariant, NextRunInv, PTL DEF Spec

-----------------------------------------------------------------------------
(* OncePerDelay *)

\* A key that a handler put under is in Redis, or the handler is about to set it;
\* and past its look at the delay key a handler has not put under it.
DelayInv ==
    \A h \in Handlers :
        /\ \A k \in held[h] : k \in delay \/ (pc[h] = "setKey" /\ job[h] = k)
        /\ pc[h] \in {"getApp", "put"} => job[h] \notin held[h]

\* What a handler does without touching keys or jobs does not disturb DelayInv.
LEMMA DelayInvFrame ==
    ASSUME DelayInv, UNCHANGED <<delay, held>>,
           \A g \in Handlers :
               \/ pc'[g] = pc[g] /\ job'[g] = job[g]
               \/ pc'[g] \in {"idle", "get", "range", "isKey"} /\ pc[g] # "setKey"
    PROVE  DelayInv'
<1> SUFFICES ASSUME NEW g \in Handlers
             PROVE  /\ \A k \in held[g] : k \in delay \/ (pc'[g] = "setKey" /\ job'[g] = k)
                    /\ pc'[g] \in {"getApp", "put"} => job'[g] \notin held[g]
  BY DEF DelayInv
<1>1. CASE pc'[g] = pc[g] /\ job'[g] = job[g]
  BY <1>1 DEF DelayInv
<1>2. CASE pc'[g] \in {"idle", "get", "range", "isKey"} /\ pc[g] # "setKey"
  BY <1>2 DEF DelayInv
<1> QED
  BY <1>1, <1>2

LEMMA NextDelayInv == ~RedisFaults /\ TypeInv /\ DelayInv /\ [Next]_vars => DelayInv'
<1> SUFFICES ASSUME ~RedisFaults, TypeInv, DelayInv, [Next]_vars
             PROVE  DelayInv'
  OBVIOUS
<1> USE DEF DelayInv, TypeInv, TypeOK
<1>1. ASSUME NEW h \in Handlers, CheckState(h) PROVE DelayInv'
  <2>1. CASE CheckDelay(h)
    <3>1. CASE Return(h)
      BY <2>1, <3>1 DEF CheckDelay, Return
    <3>2. CASE ~ Return(h)
      BY <2>1, <3>2 DEF CheckDelay
    <3> QED
      BY <3>1, <3>2
  <2>2. CASE GetAppInstances(h)
    <3>1. CASE Return(h)
      BY <2>2, <3>1 DEF GetAppInstances, Return
    <3>2. CASE ~ Return(h)
      BY <2>2, <3>2 DEF GetAppInstances
    <3> QED
      BY <3>1, <3>2
  <2>3. CASE ScaleApp(h)
    BY <2>3 DEF ScaleApp, work
  <2>4. CASE SetDelay(h)
    BY <2>4 DEF SetDelay, Return
  <2>5. CASE Panic(h)
    BY <2>5 DEF Panic, Die
  <2>6. ASSUME \/ Tick(h) \/ StatsDone(h) \/ CheckDone(h)
               \/ \E k \in SampleKeys : GetSample(h, k)
        PROVE  DelayInv'
    <3>1. UNCHANGED <<delay, job, held>>
      BY <2>6 DEF Tick, StatsDone, CheckDone, GetSample, work
    <3>2. pc[h] # "setKey" /\ \E next \in {"idle", "get", "range"} : pc' = [pc EXCEPT ![h] = next]
      BY <2>6 DEF Tick, StatsDone, CheckDone, GetSample
    <3>3. \A g \in Handlers : \/ pc'[g] = pc[g]
                              \/ pc'[g] \in {"idle", "get", "range"} /\ pc[g] # "setKey"
      BY <3>2
    <3> HIDE DEF DelayInv
    <3> QED
      BY <3>1, <3>3, DelayInvFrame
  <2>7. ASSUME NEW a \in Apps, Visit(h, a) PROVE DelayInv'
    <3>1. UNCHANGED <<delay, held>> /\ pc[h] = "range"
      BY <2>7 DEF Visit
    <3>2. \/ UNCHANGED <<pc, job>>
          \/ /\ pc' = [pc EXCEPT ![h] = "isKey"]
             /\ \E new : job' = [job EXCEPT ![h] = new]
      BY <2>7 DEF Visit
    <3>3. \A g \in Handlers : \/ pc'[g] = pc[g] /\ job'[g] = job[g]
                              \/ pc'[g] = "isKey" /\ pc[g] # "setKey"
      BY <3>1, <3>2
    <3> HIDE DEF DelayInv
    <3> QED
      BY <3>1, <3>3, DelayInvFrame
  <2> QED
    BY <1>1, <2>1, <2>2, <2>3, <2>4, <2>5, <2>6, <2>7 DEF CheckState
<1>2. ASSUME NEW h \in Handlers, NEW k \in SampleKeys,
             \/ SampleExpires(h, k)
             \/ \E l \in Loads : HandleMetrics(h, k, l)
      PROVE  DelayInv'
  BY <1>2 DEF SampleExpires, HandleMetrics, work
<1>3. ASSUME NEW k \in DelayKeys, DelayExpires(k) PROVE DelayInv'
  BY <1>3 DEF DelayExpires, work
<1>4. CASE Kill
  BY <1>4 DEF Kill, Die
<1>5. CASE Respawn
  BY <1>5 DEF Respawn, work
<1>6. ASSUME NEW a \in Redeployed, Redeploy(a) PROVE DelayInv'
  BY <1>6 DEF Redeploy, StopApp, DeleteApp, CreateApp, StartApp, work
<1>7. CASE UNCHANGED vars
  BY <1>7 DEF vars
<1>8. CASE \/ \E h \in Handlers, k \in SampleKeys, l \in Loads : HandleMetrics(h, k, l)
           \/ \E h \in Handlers, k \in SampleKeys : SampleExpires(h, k)
  BY <1>8, <1>2
<1> QED
  BY <1>1, <1>3, <1>4, <1>5, <1>6, <1>7, <1>8 DEF Next

\* As long as Redis answers, a handler puts at most once under a delay key between
\* two expiries of it, whatever the other handler does and however often the process
\* dies; the exception is a key that a crash kept from being set.
THEOREM PutsOncePerDelay == ~RedisFaults /\ Spec => []OncePerDelay
<1> SUFFICES ASSUME ~RedisFaults
             PROVE  Spec => []OncePerDelay
  OBVIOUS
<1>1. Init => DelayInv
  BY DEF Init, DelayInv
<1>2. DelayInv => OncePerDelay
  BY DEF DelayInv, OncePerDelay
<1>3. TypeInv /\ DelayInv /\ [Next]_vars => DelayInv'
  BY NextDelayInv
<1> QED
  BY <1>1, <1>2, <1>3, TypeInvariant, PTL DEF Spec

-----------------------------------------------------------------------------
(* VerdictBacked *)

\* What a total says of the loads it was made of: without samples it is 0, and if
\* all loads are within a limit, so is the total, per sample.
TotalInv(stat, loads) ==
    /\ stat.count = 0 => stat.sum = 0
    /\ (\A l \in loads : l <= ScaleUp) => stat.sum <= stat.count * ScaleUp
    /\ (\A l \in loads : ScaleDown <= l) => stat.count * ScaleDown <= stat.sum

LEMMA TotalEmpty ==
    ASSUME NEW stat \in Stat, stat.count = 0, stat.sum = 0, NEW loads
    PROVE  TotalInv(stat, loads)
BY LimitsAssumption DEF TotalInv

LEMMA TotalAdd ==
    ASSUME NEW stat \in Stat, NEW loads \in SUBSET Int, NEW l \in loads,
           TotalInv(stat, loads)
    PROVE  TotalInv(AddSample(stat, l), loads)
<1>1. AddSample(stat, l).count # 0
  BY DEF AddSample, Stat
<1>2. ASSUME \A x \in loads : x <= ScaleUp
      PROVE  AddSample(stat, l).sum <= AddSample(stat, l).count * ScaleUp
  BY <1>2, AddSampleAtMost, LimitsAssumption DEF TotalInv
<1>3. ASSUME \A x \in loads : ScaleDown <= x
      PROVE  AddSample(stat, l).count * ScaleDown <= AddSample(stat, l).sum
  BY <1>3, AddSampleAtLeast, LimitsAssumption DEF TotalInv
<1> QED
  BY <1>1, <1>2, <1>3 DEF TotalInv

\* A verdict on an average is the verdict of one of the loads averaged.
LEMMA VerdictOfOne ==
    ASSUME NEW stat \in Stat, NEW loads \in SUBSET Int, TotalInv(stat, loads),
           stat.count > 0
    PROVE  LET verdict == Verdict(Average(stat), ScaleUp, ScaleDown)
           IN  /\ verdict = "scale-up" => \E l \in loads : l > ScaleUp
               /\ verdict = "scale-down" => \E l \in loads : l < ScaleDown
<1>1. ASSUME \A l \in loads : l <= ScaleUp
      PROVE  Average(stat) \in Int /\ Average(stat) <= ScaleUp
  BY <1>1, AverageAtMost, LimitsAssumption DEF TotalInv
<1>2. ASSUME \A l \in loads : ScaleDown <= l
      PROVE  Average(stat) \in Int /\ ScaleDown <= Average(stat)
  BY <1>2, AverageAtLeast, LimitsAssumption DEF TotalInv
<1>3. (Average(stat) > ScaleUp /\ Average(stat) \in Int) => \E l \in loads : l > ScaleUp
  BY <1>1, LimitsAssumption
<1>4. (Average(stat) < ScaleDown /\ Average(stat) \in Int) => \E l \in loads : l < ScaleDown
  BY <1>2, LimitsAssumption
<1>5. Average(stat) \in Int
  BY DivBounds DEF Average, GoDiv, Stat
<1> QED
  BY <1>3, <1>4, <1>5 DEF Verdict

\* During the reads every live sample is a witness; every total is made of witnesses;
\* a check starts from empty totals.
EvidenceInv ==
    /\ \A h \in Handlers : pc[h] = "get" =>
           \A k \in SampleKeys : samples[h][k] \subseteq witness[h][k[1]]
    /\ \A h \in Handlers : \A a \in Apps :
           /\ TotalInv(stats[h][a], witness[h][a])
           /\ pc[h] = "idle" => stats[h][a].count = 0
    /\ VerdictBacked

LEMMA RowTypes ==
    ASSUME TypeInv, NEW h \in Handlers
    PROVE  /\ samples[h] \in [SampleKeys -> SUBSET Loads]
           /\ \A a \in Apps : stats[h][a] \in Stat /\ witness[h][a] \in SUBSET Int
<1>1. /\ samples[h] \in [SampleKeys -> SUBSET Loads]
      /\ stats[h] \in [Apps -> Stat]
      /\ witness[h] \in [Apps -> SUBSET Loads]
  BY DEF TypeInv, TypeOK
<1> QED
  BY <1>1, LoadsAssumption

LEMMA TickEvidence ==
    ASSUME TypeInv, EvidenceInv, NEW h \in Handlers, Tick(h)
    PROVE  EvidenceInv'
<1> USE DEF TypeInv, TypeOK
<1>1. \A k \in SampleKeys : samples[h][k] \subseteq Alive(h, k[1])
  <2> TAKE k \in SampleKeys
  <2>1. samples[h][k] \subseteq Loads
    BY RowTypes
  <2>2. PICK s \in Slots : k = <<k[1], s>>
    BY DEF SampleKeys
  <2> QED
    BY <2>1, <2>2 DEF Alive
<1>2. \A k \in SampleKeys : samples'[h][k] \subseteq witness'[h][k[1]]
  BY <1>1, KeyType DEF Tick
<1>3. \A g \in Handlers \ {h} : witness'[g] = witness[g] /\ pc'[g] = pc[g]
  BY DEF Tick
<1>4. \A a \in Apps : TotalInv(stats[h][a], witness'[h][a])
  <2> TAKE a \in Apps
  <2>1. stats[h][a] \in Stat /\ stats[h][a].count = 0 /\ stats[h][a].sum = 0
    BY DEF Tick, EvidenceInv, TotalInv
  <2> QED
    BY <2>1, TotalEmpty
<1>5. job[h] = NoJob
  BY DEF Tick, JobInv, Scaling
<1>6. VerdictBacked'
  BY <1>3, <1>5 DEF VerdictBacked, EvidenceInv, Tick
<1>7. pc'[h] = "get" /\ samples' = samples /\ stats' = stats
  BY DEF Tick
<1> QED
  BY <1>2, <1>3, <1>4, <1>6, <1>7 DEF EvidenceInv

LEMMA GetSampleEvidence ==
    ASSUME TypeInv, EvidenceInv, NEW h \in Handlers, NEW k \in SampleKeys, GetSample(h, k)
    PROVE  EvidenceInv'
<1> USE DEF TypeInv, TypeOK
<1>1. k[1] \in Apps /\ stats[h][k[1]] \in Stat /\ witness[h][k[1]] \in SUBSET Int
  BY KeyType, RowTypes
<1>2. \A l \in samples[h][k] : TotalInv(AddSample(stats[h][k[1]], l), witness[h][k[1]])
  BY <1>1, TotalAdd DEF GetSample, EvidenceInv
<1>3. UNCHANGED <<pc, samples, witness, job>> /\ pc[h] = "get"
  BY DEF GetSample
<1>4. CASE UNCHANGED stats
  BY <1>3, <1>4 DEF EvidenceInv, VerdictBacked
<1>5. CASE ~ UNCHANGED stats
  <2>1. PICK l \in samples[h][k] : stats' = [stats EXCEPT ![h][k[1]] = AddSample(@, l)]
    BY <1>5 DEF GetSample
  <2>2. \A g \in Handlers, a \in Apps : TotalInv(stats'[g][a], witness[g][a])
    BY <1>1, <1>2, <2>1 DEF EvidenceInv
  <2>3. \A g \in Handlers : pc[g] = "idle" => stats'[g] = stats[g]
    BY <1>3, <2>1
  <2> QED
    BY <1>3, <2>2, <2>3 DEF EvidenceInv, VerdictBacked
<1> QED
  BY <1>4, <1>5

LEMMA VisitEvidence ==
    ASSUME TypeInv, EvidenceInv, NEW h \in Handlers, NEW a \in Apps, Visit(h, a)
    PROVE  EvidenceInv'
<1> DEFINE action == Verdict(Average(stats[h][a]), ScaleUp, ScaleDown)
<1> USE DEF TypeInv, TypeOK
<1>1. stats[h][a] \in Stat /\ witness[h][a] \in SUBSET Int /\ stats[h][a].count > 0
  BY RowTypes DEF Visit
<1>2. /\ action = "scale-up" => \E l \in witness[h][a] : l > ScaleUp
      /\ action = "scale-down" => \E l \in witness[h][a] : l < ScaleDown
  BY <1>1, VerdictOfOne DEF EvidenceInv
<1>3. \/ UNCHANGED <<pc, job>>
      \/ /\ action \in {"scale-up", "scale-down"}
         /\ pc' = [pc EXCEPT ![h] = "isKey"]
         /\ job' = [job EXCEPT ![h] = <<action, a>>]
  BY DEF Visit, Verdict
<1> HIDE DEF action
<1>4. /\ UNCHANGED <<samples, witness>> /\ pc[h] = "range"
      /\ stats' = [stats EXCEPT ![h][a] = EmptyStat]
  BY DEF Visit
<1>5. VerdictBacked'
  <2>1. CASE UNCHANGED <<pc, job>>
    BY <2>1, <1>4 DEF EvidenceInv, VerdictBacked
  <2>2. CASE ~ UNCHANGED <<pc, job>>
    <3>1. \A g \in Handlers \ {h} : job'[g] = job[g]
      BY <1>3, <2>2
    <3>2. job'[h] = <<action, a>> /\ action \in {"scale-up", "scale-down"}
      BY <1>3, <2>2
    <3>3. job'[h][1] = action /\ job'[h][2] = a
      BY <3>2
    <3> QED
      BY <1>2, <1>4, <3>1, <3>2, <3>3 DEF EvidenceInv, VerdictBacked
  <2> QED
    BY <2>1, <2>2
<1>6. \A g \in Handlers, b \in Apps :
          /\ TotalInv(stats'[g][b], witness[g][b])
          /\ pc[g] = "idle" => stats'[g][b].count = 0
  <2>1. TotalInv(EmptyStat, witness[h][a])
    BY TotalEmpty, StatType DEF EmptyStat
  <2> QED
    BY <1>4, <2>1 DEF EvidenceInv
<1>7. \A g \in Handlers : pc'[g] = pc[g] \/ pc'[g] = "isKey"
  BY <1>3
<1> QED
  BY <1>4, <1>5, <1>6, <1>7 DEF EvidenceInv

LEMMA CheckDoneEvidence ==
    ASSUME TypeInv, EvidenceInv, NEW h \in Handlers, CheckDone(h)
    PROVE  EvidenceInv'
<1> USE DEF TypeInv, TypeOK
<1>1. \A a \in Apps : TotalInv(stats[h][a], {})
  <2> TAKE a \in Apps
  <2>1. stats[h][a] \in Stat /\ stats[h][a].count = 0 /\ stats[h][a].sum = 0
    BY RowTypes DEF CheckDone, EvidenceInv, TotalInv
  <2> QED
    BY <2>1, TotalEmpty
<1>2. job[h] = NoJob
  BY DEF CheckDone, JobInv, Scaling
<1>3. UNCHANGED <<samples, stats, job>> /\ pc' = [pc EXCEPT ![h] = "idle"]
  BY DEF CheckDone, work
<1>4. witness' = [witness EXCEPT ![h] = NoWitness] /\ \A a \in Apps : stats[h][a].count = 0
  BY DEF CheckDone
<1>5. VerdictBacked'
  BY <1>2, <1>3, <1>4 DEF EvidenceInv, VerdictBacked
<1> QED
  BY <1>1, <1>3, <1>4, <1>5 DEF EvidenceInv, NoWitness

LEMMA HandleMetricsEvidence ==
    ASSUME TypeInv, EvidenceInv, NEW h \in Handlers, NEW k \in SampleKeys, NEW l \in Loads,
           HandleMetrics(h, k, l)
    PROVE  EvidenceInv'
<1> USE DEF TypeInv, TypeOK
<1>1. UNCHANGED <<pc, stats, job>> /\ samples' = [samples EXCEPT ![h][k] = {l}]
  BY DEF HandleMetrics, work
<1>2. CASE pc[h] # "get"
  BY <1>1, <1>2 DEF HandleMetrics, EvidenceInv, VerdictBacked
<1>3. CASE pc[h] = "get"
  <2>1. witness' = [witness EXCEPT ![h][k[1]] = @ \cup {l}] /\ k[1] \in Apps
    BY <1>3, KeyType DEF HandleMetrics
  <2>2. \A g \in Handlers, a \in Apps : witness[g][a] \subseteq witness'[g][a]
    BY <2>1
  <2>3. \A g \in Handlers, a \in Apps : TotalInv(stats[g][a], witness'[g][a])
    BY <2>2 DEF EvidenceInv, TotalInv
  <2>4. l \in witness'[h][k[1]]
    BY <2>1
  <2>5. VerdictBacked'
    BY <1>1, <2>2, KeyType DEF EvidenceInv, VerdictBacked, JobInv
  <2>6. \A g \in Handlers : pc[g] = "get" =>
            \A j \in SampleKeys : samples'[g][j] \subseteq witness'[g][j[1]]
    BY <1>1, <2>2, <2>4, KeyType DEF EvidenceInv
  <2> QED
    BY <1>1, <2>3, <2>5, <2>6 DEF EvidenceInv
<1> QED
  BY <1>2, <1>3

LEMMA DieEvidence ==
    ASSUME TypeInv, EvidenceInv, Die
    PROVE  EvidenceInv'
<1>1. \A h \in Handlers, a \in Apps :
          /\ stats'[h][a] = EmptyStat
          /\ pc'[h] = "idle"
          /\ job'[h] = NoJob
  BY DEF Die, NoStats
<1>2. \A h \in Handlers, a \in Apps : TotalInv(stats'[h][a], witness'[h][a])
  BY <1>1, TotalEmpty, StatType DEF EmptyStat
<1>3. VerdictBacked'
  BY <1>1 DEF VerdictBacked, Die
<1>4. \A h \in Handlers, a \in Apps : stats'[h][a].count = 0
  BY <1>1 DEF EmptyStat
<1>5. \A h \in Handlers : pc'[h] # "get"
  BY DEF Die
<1> QED
  BY <1>2, <1>3, <1>4, <1>5 DEF EvidenceInv

LEMMA NextEvidenceInv == TypeInv /\ EvidenceInv /\ [Next]_vars => EvidenceInv'
<1> SUFFICES ASSUME TypeInv, EvidenceInv, [Next]_vars
             PROVE  EvidenceInv'
  OBVIOUS
<1> USE DEF TypeInv, TypeOK
<1>1. ASSUME NEW h \in Handlers, CheckState(h) PROVE EvidenceInv'
  <2>1. CASE Tick(h)
    BY <2>1, TickEvidence
  <2>2. ASSUME NEW k \in SampleKeys, GetSample(h, k) PROVE EvidenceInv'
    BY <2>2, GetSampleEvidence
  <2>3. CASE StatsDone(h)
    BY <2>3 DEF StatsDone, work, EvidenceInv, VerdictBacked
  <2>4. ASSUME NEW a \in Apps, Visit(h, a) PROVE EvidenceInv'
    BY <2>4, VisitEvidence
  <2>5. CASE CheckDone(h)
    BY <2>5, CheckDoneEvidence
  <2>6. CASE CheckDelay(h) \/ GetAppInstances(h) \/ SetDelay(h)
    <3>1. UNCHANGED <<samples, stats, witness>>
      BY <2>6 DEF CheckDelay, GetAppInstances, SetDelay
    <3>2. \/ pc' = [pc EXCEPT ![h] = "range"]
          \/ pc' = [pc EXCEPT ![h] = "getApp"]
          \/ pc' = [pc EXCEPT ![h] = "put"]
      BY <2>6 DEF CheckDelay, GetAppInstances, SetDelay, Return
    <3>3. job' = job \/ job' = [job EXCEPT ![h] = NoJob]
      BY <2>6 DEF CheckDelay, GetAppInstances, SetDelay, Return
    <3>4. VerdictBacked'
      BY <3>1, <3>3 DEF EvidenceInv, VerdictBacked
    <3> QED
      BY <3>1, <3>2, <3>4 DEF EvidenceInv
  <2>7. CASE ScaleApp(h)
    BY <2>7 DEF ScaleApp, work, EvidenceInv, VerdictBacked
  <2>8. CASE Panic(h)
    BY <2>8, DieEvidence DEF Panic
  <2> QED
    BY <1>1, <2>1, <2>2, <2>3, <2>4, <2>5, <2>6, <2>7, <2>8 DEF CheckState
<1>2. ASSUME NEW h \in Handlers, NEW k \in SampleKeys, NEW l \in Loads, HandleMetrics(h, k, l)
      PROVE  EvidenceInv'
  BY <1>2, HandleMetricsEvidence
<1>3. ASSUME NEW h \in Handlers, NEW k \in SampleKeys, SampleExpires(h, k)
      PROVE  EvidenceInv'
  <2>1. \A g \in Handlers, j \in SampleKeys : samples'[g][j] \subseteq samples[g][j]
    BY <1>3 DEF SampleExpires
  <2> QED
    BY <1>3, <2>1 DEF SampleExpires, work, EvidenceInv, VerdictBacked
<1>4. ASSUME NEW k \in DelayKeys, DelayExpires(k) PROVE EvidenceInv'
  BY <1>4 DEF DelayExpires, work, EvidenceInv, VerdictBacked
<1>5. CASE Kill
  BY <1>5, DieEvidence DEF Kill
<1>6. CASE Respawn
  BY <1>6 DEF Respawn, work, EvidenceInv, VerdictBacked
<1>7. ASSUME NEW a \in Redeployed, Redeploy(a) PROVE EvidenceInv'
  <2>1. UNCHANGED <<samples, pc, work, witness>>
    BY <1>7 DEF Redeploy, StopApp, DeleteApp, CreateApp, StartApp
  <2> QED
    BY <2>1 DEF work, EvidenceInv, VerdictBacked
<1>8. CASE UNCHANGED vars
  BY <1>8 DEF vars, EvidenceInv, VerdictBacked
<1> QED
  BY <1>1, <1>2, <1>3, <1>4, <1>5, <1>6, <1>7, <1>8 DEF Next

\* Every scaling call has behind it a sample of that application, alive during that
\* very check, which is itself out of the limit: for any loads and limits, expiring
\* and overwritten samples, failing requests and crashes.
THEOREM ScalingIsBacked == Spec => []VerdictBacked
<1>1. Init => EvidenceInv
  <2> SUFFICES ASSUME Init PROVE EvidenceInv
    OBVIOUS
  <2>1. \A h \in Handlers, a \in Apps :
            /\ stats[h][a] = EmptyStat /\ pc[h] = "idle" /\ job[h] = NoJob
    BY DEF Init, NoStats
  <2>2. \A h \in Handlers, a \in Apps : TotalInv(stats[h][a], witness[h][a])
    BY <2>1, TotalEmpty, StatType DEF EmptyStat
  <2>3. VerdictBacked
    BY DEF Init, VerdictBacked
  <2>4. \A h \in Handlers, a \in Apps : stats[h][a].count = 0
    BY <2>1 DEF EmptyStat
  <2>5. \A h \in Handlers : pc[h] # "get"
    BY DEF Init
  <2> QED
    BY <2>2, <2>3, <2>4, <2>5 DEF EvidenceInv
<1>2. EvidenceInv => VerdictBacked
  BY DEF EvidenceInv
<1> QED
  BY <1>1, <1>2, TypeInvariant, NextEvidenceInv, PTL DEF Spec

-----------------------------------------------------------------------------
(* PutIsOneStep, when nobody else writes the counts *)

Alone == Redeployed = {} /\ \A g, h \in Handlers : g = h

\* What is about to be put is one step away from what Marathon has.
PutInv ==
    \A h \in Handlers : pc[h] = "put" =>
        target[h] = NewCount(job[h][1], instances[job[h][2]])

LEMMA NextPutInv == Alone /\ TypeInv /\ PutInv /\ [Next]_vars => PutInv'
<1> SUFFICES ASSUME Alone, TypeInv, PutInv, [Next]_vars
             PROVE  PutInv'
  OBVIOUS
<1> USE DEF PutInv, TypeInv, TypeOK
<1>1. ASSUME NEW h \in Handlers, CheckState(h) PROVE PutInv'
  <2>1. CASE GetAppInstances(h)
    <3>1. CASE Return(h)
      BY <2>1, <3>1 DEF GetAppInstances, Return, marathon
    <3>2. CASE ~ Return(h)
      <4>1. /\ pc' = [pc EXCEPT ![h] = "put"]
            /\ target' = [target EXCEPT ![h] = NewCount(job[h][1], instances[job[h][2]])]
            /\ UNCHANGED <<job, instances>>
        BY <2>1, <3>2 DEF GetAppInstances, marathon
      <4>2. pc \in [Handlers -> Pcs] /\ DOMAIN target = Handlers
        OBVIOUS
      <4> HIDE DEF TypeInv
      <4> QED
        BY <4>1, <4>2
    <3> QED
      BY <3>1, <3>2
  <2>2. CASE ScaleApp(h)
    BY <2>2 DEF ScaleApp, work, Alone
  <2>3. CASE CheckDelay(h) \/ SetDelay(h)
    BY <2>3 DEF CheckDelay, SetDelay, Return, marathon
  <2>4. CASE Panic(h)
    BY <2>4 DEF Panic, Die
  <2>5. ASSUME \/ Tick(h) \/ StatsDone(h) \/ CheckDone(h)
               \/ \E k \in SampleKeys : GetSample(h, k)
        PROVE  PutInv'
    BY <2>5 DEF Tick, StatsDone, CheckDone, GetSample, work, marathon
  <2>6. ASSUME NEW a \in Apps, Visit(h, a) PROVE PutInv'
    BY <2>6 DEF Visit, marathon
  <2> QED
    BY <1>1, <2>1, <2>2, <2>3, <2>4, <2>5, <2>6 DEF CheckState
<1>2. CASE \/ \E h \in Handlers, k \in SampleKeys, l \in Loads : HandleMetrics(h, k, l)
           \/ \E h \in Handlers, k \in SampleKeys : SampleExpires(h, k)
           \/ \E k \in DelayKeys : DelayExpires(k)
  BY <1>2 DEF HandleMetrics, SampleExpires, DelayExpires, work, marathon
<1>3. CASE Kill
  BY <1>3 DEF Kill, Die
<1>4. CASE Respawn
  BY <1>4 DEF Respawn, work, marathon
<1>5. CASE UNCHANGED vars
  BY <1>5 DEF vars
<1> QED
  BY <1>1, <1>2, <1>3, <1>4, <1>5 DEF Next, Alone

LEMMA StepOfPut ==
    ASSUME TypeInv, PutInv, [Next]_vars, NEW h \in Handlers, NEW a \in Apps,
           pc[h] = "put", pc'[h] = "setKey", job[h][2] = a, instances'[a] # instances[a]
    PROVE  instances'[a] = instances[a] + IF job[h][1] = "scale-up" THEN 1 ELSE -1
<1> USE DEF TypeInv, TypeOK
<1>1. ASSUME NEW g \in Handlers, CheckState(g) PROVE ScaleApp(h)
  <2>1. CASE ScaleApp(g)
    BY <2>1 DEF ScaleApp
  <2>2. ASSUME \/ Tick(g) \/ StatsDone(g) \/ CheckDone(g)
               \/ \E k \in SampleKeys : GetSample(g, k)
               \/ \E b \in Apps : Visit(g, b)
        PROVE  FALSE
    BY <2>2 DEF Tick, GetSample, StatsDone, Visit, CheckDone, marathon
  <2>3. ASSUME CheckDelay(g) \/ GetAppInstances(g) \/ SetDelay(g) PROVE FALSE
    BY <2>3 DEF CheckDelay, GetAppInstances, SetDelay, marathon
  <2>4. ASSUME Panic(g) PROVE FALSE
    BY <2>4 DEF Panic, Die, marathon
  <2> QED
    BY <1>1, <2>1, <2>2, <2>3, <2>4 DEF CheckState
<1>2. ScaleApp(h)
  <2>1. ASSUME \/ \E g \in Handlers, k \in SampleKeys, l \in Loads : HandleMetrics(g, k, l)
               \/ \E g \in Handlers, k \in SampleKeys : SampleExpires(g, k)
               \/ \E k \in DelayKeys : DelayExpires(k)
               \/ Respawn \/ UNCHANGED vars
        PROVE  FALSE
    BY <2>1 DEF HandleMetrics, SampleExpires, DelayExpires, Respawn, vars
  <2>2. ASSUME \E b \in Redeployed : Redeploy(b) PROVE FALSE
    BY <2>2 DEF Redeploy, StopApp, DeleteApp, CreateApp, StartApp
  <2>3. ASSUME Kill PROVE FALSE
    BY <2>3 DEF Kill, Die
  <2> QED
    BY <1>1, <2>1, <2>2, <2>3 DEF Next
<1>3. instances'[a] = target[h]
  BY <1>2 DEF ScaleApp
<1> QED
  BY <1>3 DEF PutInv, NewCount

\* A single handler, on applications nobody redeploys, moves every count one by one,
\* across crashes and lost requests.
THEOREM PutsStepByStep == Alone /\ Spec => PutIsOneStep
<1> SUFFICES ASSUME Alone
             PROVE  Spec => PutIsOneStep
  OBVIOUS
<1>1. Init => PutInv
  BY DEF Init, PutInv
<1>2. TypeInv /\ PutInv /\ [Next]_vars => PutInv'
  BY NextPutInv
<1>3. TypeInv /\ PutInv /\ [Next]_vars => [PutMovesByOne]_vars
  BY StepOfPut DEF PutMovesByOne
<1> QED
  BY <1>1, <1>2, <1>3, TypeInvariant, PTL DEF Spec, PutIsOneStep
==============================================================================
