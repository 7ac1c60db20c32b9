------------------------ MODULE MarathonScalerProofs ------------------------
(***************************************************************************)
(* Proofs about MarathonScaler, for any sets of handlers, applications,    *)
(* sample keys and loads, any limits, and any choice of faults.            *)
(***************************************************************************)
EXTENDS MarathonScaler, TLAPS

Scaling == {"isKey", "getApp", "put", "setKey"}

\* A goroutine holds a delay key exactly while it is inside scaleMesos.
JobInv ==
    \A h \in Handlers : IF pc[h] \in Scaling THEN job[h] \in DelayKeys
                                             ELSE job[h] = NoJob

TypeInv == TypeOK /\ JobInv

-----------------------------------------------------------------------------
(* What the operators of LoadStats and the keys are made of *)

LEMMA StatType ==
    /\ EmptyStat \in Stat
    /\ \A stat \in Stat, l \in Int : AddSample(stat, l) \in Stat
BY DEF Stat, EmptyStat, AddSample

LEMMA KeyType ==
    /\ \A k \in SampleKeys : k[1] \in Apps
    /\ \A k \in DelayKeys : k[2] \in Apps
    /\ \A a \in Apps : <<"scale-up", a>> \in DelayKeys /\ <<"scale-down", a>> \in DelayKeys
BY DEF SampleKeys, DelayKeys

-----------------------------------------------------------------------------
(* Type correctness *)

LEMMA InitTypeInv == Init => TypeInv
BY BoundAssumption DEF Init, TypeInv, TypeOK, JobInv, Scaling, Pcs, NoStats, NoJob,
   NoWitness, EmptyStat, Stat, SampleKeys, DelayKeys

LEMMA ReturnTypeInv ==
    ASSUME TypeInv, NEW h \in Handlers, Return(h)
    PROVE  /\ pc' \in [Handlers -> Pcs]
           /\ job' \in [Handlers -> DelayKeys \cup {NoJob}]
           /\ target' \in [Handlers -> -1..(MaxInstances + 1)]
           /\ JobInv'
<1> USE DEF TypeInv, TypeOK, Return
<1>1. pc' \in [Handlers -> Pcs]
  BY DEF Pcs
<1>2. job' \in [Handlers -> DelayKeys \cup {NoJob}]
  OBVIOUS
<1>3. target' \in [Handlers -> -1..(MaxInstances + 1)]
  BY BoundAssumption
<1>4. JobInv'
  BY DEF JobInv, Scaling
<1> QED
  BY <1>1, <1>2, <1>3, <1>4

LEMMA TickTypeInv ==
    ASSUME TypeInv, NEW h \in Handlers, Tick(h)
    PROVE  TypeInv'
<1> USE DEF TypeInv, TypeOK, Tick
<1>1. pc' \in [Handlers -> Pcs]
  BY DEF Pcs
<1>2. keys' \in [Handlers -> SUBSET SampleKeys]
  <2>1. CASE UNCHANGED keys
    BY <2>1
  <2>2. CASE keys' = [keys EXCEPT ![h] = {k \in SampleKeys : samples[h][k] # {}}]
    BY <2>2
  <2> QED
    BY <2>1, <2>2
<1>3. witness' \in [Handlers -> [Apps -> SUBSET Loads]]
  BY DEF Alive
<1>4. JobInv'
  BY DEF JobInv, Scaling
<1> QED
  BY <1>1, <1>2, <1>3, <1>4 DEF marathon

LEMMA GetSampleTypeInv ==
    ASSUME TypeInv, NEW h \in Handlers, NEW k \in SampleKeys, GetSample(h, k)
    PROVE  TypeInv'
<1>1. stats \in [Handlers -> [Apps -> Stat]] /\ k[1] \in Apps
  BY KeyType DEF TypeInv, TypeOK
<1>2. samples[h] \in [SampleKeys -> SUBSET Loads]
  BY DEF TypeInv, TypeOK
<1>3. \A l \in samples[h][k] : AddSample(stats[h][k[1]], l) \in Stat
  BY <1>1, <1>2, StatType, LoadsAssumption
<1>4. stats' \in [Handlers -> [Apps -> Stat]]
  <2>1. CASE UNCHANGED stats
    BY <1>1, <2>1
  <2>2. CASE ~ UNCHANGED stats
    <3>1. PICK l \in samples[h][k] : stats' = [stats EXCEPT ![h][k[1]] = AddSample(@, l)]
      BY <2>2 DEF GetSample
    <3> QED
      BY <1>1, <1>3, <3>1
  <2> QED
    BY <2>1, <2>2
<1>5. keys' \in [Handlers -> SUBSET SampleKeys]
  BY DEF TypeInv, TypeOK, GetSample
<1> QED
  BY <1>4, <1>5 DEF TypeInv, TypeOK, JobInv, GetSample, marathon

LEMMA VisitTypeInv ==
    ASSUME TypeInv, NEW h \in Handlers, NEW a \in Apps, Visit(h, a)
    PROVE  TypeInv'
<1> DEFINE action == Verdict(Average(stats[h][a]), ScaleUp, ScaleDown)
<1>1. stats' \in [Handlers -> [Apps -> Stat]]
  BY StatType DEF TypeInv, TypeOK, Visit
<1>2. CASE UNCHANGED <<pc, job>>
  BY <1>1, <1>2 DEF TypeInv, TypeOK, JobInv, Visit, marathon
<1>3. CASE ~ UNCHANGED <<pc, job>>
  <2>1. /\ action # "none"
        /\ pc' = [pc EXCEPT ![h] = "isKey"]
        /\ job' = [job EXCEPT ![h] = <<action, a>>]
    BY <1>3 DEF Visit
  <2>2. <<action, a>> \in DelayKeys
    BY <2>1, KeyType DEF Verdict
  <2> HIDE DEF action
  <2>3. JobInv'
    BY <2>1, <2>2 DEF TypeInv, TypeOK, JobInv, Scaling
  <2>4. pc' \in [Handlers -> Pcs] /\ job' \in [Handlers -> DelayKeys \cup {NoJob}]
    BY <2>1, <2>2 DEF TypeInv, TypeOK, Pcs
  <2> QED
    BY <1>1, <2>3, <2>4 DEF TypeInv, TypeOK, Visit, marathon
<1> QED
  BY <1>2, <1>3

LEMMA CheckDelayTypeInv ==
    ASSUME TypeInv, NEW h \in Handlers, CheckDelay(h)
    PROVE  TypeInv'
<1>1. CASE Return(h)
  BY <1>1, ReturnTypeInv DEF TypeInv, TypeOK, CheckDelay, marathon
<1>2. CASE ~ Return(h)
  BY <1>2 DEF TypeInv, TypeOK, CheckDelay, marathon, JobInv, Scaling, Pcs
<1> QED
  BY <1>1, <1>2

LEMMA GetAppInstancesTypeInv ==
    ASSUME TypeInv, NEW h \in Handlers, GetAppInstances(h)
    PROVE  TypeInv'
<1> DEFINE count == NewCount(job[h][1], instances[job[h][2]])
<1>1. job[h] \in DelayKeys /\ job[h][2] \in Apps
  BY KeyType DEF TypeInv, JobInv, GetAppInstances, Scaling
<1>2. CASE Return(h)
  BY <1>2, ReturnTypeInv DEF TypeInv, TypeOK, GetAppInstances, marathon
<1>3. CASE ~ Return(h)
  <2>1. /\ pc' = [pc EXCEPT ![h] = "put"]
        /\ target' = [target EXCEPT ![h] = count]
        /\ UNCHANGED <<job, samples, delay, marathon, up, keys, stats, held, witness>>
    BY <1>3 DEF GetAppInstances
  <2>2. count \in -1..(MaxInstances + 1)
    BY <1>1, BoundAssumption DEF TypeInv, TypeOK, NewCount
  <2> HIDE DEF count
  <2>3. JobInv'
    BY <1>1, <2>1 DEF TypeInv, TypeOK, JobInv, Scaling
  <2>4. TypeOK'
    BY <2>1, <2>2 DEF TypeInv, TypeOK, marathon, Pcs
  <2> QED
    BY <2>3, <2>4 DEF TypeInv
<1> QED
  BY <1>2, <1>3

LEMMA ScaleAppTypeInv ==
    ASSUME TypeInv, NEW h \in Handlers, ScaleApp(h)
    PROVE  TypeInv'
BY KeyType DEF TypeInv, TypeOK, JobInv, Scaling, Pcs, ScaleApp, Accepts, work

LEMMA SetDelayTypeInv ==
    ASSUME TypeInv, NEW h \in Handlers, SetDelay(h)
    PROVE  TypeInv'
<1>1. job[h] \in DelayKeys
  BY DEF TypeInv, JobInv, SetDelay, Scaling
<1> QED
  BY <1>1, ReturnTypeInv DEF TypeInv, TypeOK, SetDelay, marathon

LEMMA HandleMetricsTypeInv ==
    ASSUME TypeInv, NEW h \in Handlers, NEW k \in SampleKeys, NEW l \in Loads,
           HandleMetrics(h, k, l)
    PROVE  TypeInv'
BY KeyType DEF TypeInv, TypeOK, JobInv, HandleMetrics, marathon, work

LEMMA DieTypeInv ==
    ASSUME TypeInv, Die
    PROVE  TypeInv'
<1> USE DEF TypeInv, TypeOK, JobInv, Die
<1>1. NoStats \in [Apps -> Stat] /\ NoWitness \in [Apps -> SUBSET Loads]
  BY StatType DEF NoStats, NoWitness
<1>2. held' \in [Handlers -> SUBSET DelayKeys]
  OBVIOUS
<1>3. /\ pc' \in [Handlers -> Pcs]
      /\ \A h \in Handlers : pc'[h] = "idle" /\ job'[h] = NoJob
      /\ target' \in [Handlers -> -1..(MaxInstances + 1)]
  BY BoundAssumption DEF Pcs
<1>4. JobInv'
  BY <1>3 DEF Scaling
<1> QED
  BY <1>1, <1>2, <1>3, <1>4 DEF marathon

LEMMA RedeployTypeInv ==
    ASSUME TypeInv, NEW a \in Apps, Redeploy(a)
    PROVE  TypeInv'
<1> USE DEF Redeploy, StopApp, DeleteApp, CreateApp, StartApp
<1>1. instances' \in [Apps -> 0..MaxInstances]
  BY BoundAssumption DEF TypeInv, TypeOK
<1>2. charm' \in [Apps -> {"settled", "stopped", "deleted", "created"}]
  BY DEF TypeInv, TypeOK
<1>3. deployed' \subseteq Apps
  BY DEF TypeInv, TypeOK
<1>4. UNCHANGED <<samples, delay, up, pc, work, held, witness>>
  BY DEF work
<1> QED
  BY <1>1, <1>2, <1>3, <1>4 DEF TypeInv, TypeOK, JobInv, work

\* The type invariant is inductive.
LEMMA NextTypeInv == TypeInv /\ [Next]_vars => TypeInv'
<1> SUFFICES ASSUME TypeInv, [Next]_vars
             PROVE  TypeInv'
  OBVIOUS
<1>1. ASSUME NEW h \in Handlers, CheckState(h) PROVE TypeInv'
  <2>1. CASE Tick(h)
    BY <2>1, TickTypeInv
  <2>2. ASSUME NEW k \in SampleKeys, GetSample(h, k) PROVE TypeInv'
    BY <2>2, GetSampleTypeInv
  <2>3. CASE StatsDone(h) \/ CheckDone(h)
    <3> USE DEF StatsDone, CheckDone, TypeInv, TypeOK
    <3>1. pc' \in [Handlers -> Pcs] /\ witness' \in [Handlers -> [Apps -> SUBSET Loads]]
      <4>1. CASE StatsDone(h)
        BY <4>1 DEF Pcs
      <4>2. CASE CheckDone(h)
        BY <4>2 DEF Pcs, NoWitness
      <4> QED
        BY <2>3, <4>1, <4>2
    <3>2. JobInv'
      BY <2>3 DEF JobInv, Scaling, work
    <3> QED
      BY <2>3, <3>1, <3>2 DEF marathon, work
  <2>4. ASSUME NEW a \in Apps, Visit(h, a) PROVE TypeInv'
    BY <2>4, VisitTypeInv
  <2>5. CASE CheckDelay(h)
    BY <2>5, CheckDelayTypeInv
  <2>6. CASE GetAppInstances(h)
    BY <2>6, GetAppInstancesTypeInv
  <2>7. CASE ScaleApp(h)
    BY <2>7, ScaleAppTypeInv
  <2>8. CASE SetDelay(h)
    BY <2>8, SetDelayTypeInv
  <2>9. CASE Panic(h)
    BY <2>9, DieTypeInv DEF Panic
  <2> QED
    BY <1>1, <2>1, <2>2, <2>3, <2>4, <2>5, <2>6, <2>7, <2>8, <2>9 DEF CheckState
<1>2. ASSUME NEW h \in Handlers, NEW k \in SampleKeys, SampleExpires(h, k) PROVE TypeInv'
  BY <1>2 DEF TypeInv, TypeOK, JobInv, SampleExpires, marathon, work
<1>3. ASSUME NEW k \in DelayKeys, DelayExpires(k) PROVE TypeInv'
  BY <1>3 DEF TypeInv, TypeOK, JobInv, DelayExpires, marathon, work
<1>4. CASE Kill
  BY <1>4, DieTypeInv DEF Kill
<1>5. CASE Respawn
  BY <1>5 DEF TypeInv, TypeOK, JobInv, Respawn, marathon, work
<1>6. CASE UNCHANGED vars
  BY <1>6 DEF TypeInv, TypeOK, JobInv, vars
<1> QED
  BY <1>1, <1>2, <1>3, <1>4, <1>5, <1>6, HandleMetricsTypeInv, RedeployTypeInv,
     AppsAssumption DEF Next

\* The inductive form: types, and a goroutine works on an application and an action
\* exactly while it is inside scaleMesos.
THEOREM TypeInvariant == Spec => []TypeInv
BY InitTypeInv, NextTypeInv, PTL DEF Spec

\* Every variable keeps its type: counts, targets and delay keys included, whatever
\* the requests meet.
THEOREM TypeCorrect == Spec => []TypeOK
<1>1. TypeInv => TypeOK
  BY DEF TypeInv
<1> QED
  BY <1>1, TypeInvariant, PTL
==============================================================================
