-------------------------- MODULE JujuScalerProofs --------------------------
(***************************************************************************)
(* Proofs about JujuScaler, for any set of units, any loads and any limits.*)
(***************************************************************************)
EXTENDS JujuScaler, FiniteSetTheorems, TLAPS

Scaling == {"isKey", "cli", "list", "del", "setKey"}
Removing == {"list", "del", "setKey"}

\* Inside scaleJuju the goroutine works for an action.
JobInv == pc \in Scaling => action \in Actions

\* The goroutine waits for its script while there is one, and the script works for
\* the same action.
ChildInv ==
    cli["child"].step # "none" => pc = "cli" /\ cli["child"].choice = action

TypeInv == TypeOK /\ JobInv /\ ChildInv

-----------------------------------------------------------------------------
(* Type correctness *)

LEMMA StatType ==
    /\ EmptyStat \in Stat
    /\ \A s \in Stat, l \in Loads : AddSample(s, l) \in Stat
BY JujuLoadsAssumption DEF Stat, EmptyStat, AddSample

Process == [step : {"none", "status", "act"}, choice : Actions \cup {NoAction},
            saw : [Units -> Lives]]

LEMMA NoCliType == NoCli \in Process /\ NoCli.step = "none"
BY DEF NoCli, Process, Lives

LEMMA ChoiceType == \A v : Choice(v) \in Actions
BY DEF Choice, Actions

LEMMA InitTypeInv == Init => TypeInv
<1> SUFFICES ASSUME Init PROVE TypeInv
  OBVIOUS
<1>1. cli \in [Clis -> Process] /\ stat \in Stat
  BY NoCliType, StatType DEF Init
<1>2. units \in [Units -> Lives] /\ samples \in [Units -> SUBSET Loads]
  BY DEF Init, Lives
<1>3. ChildInv
  BY NoCliType DEF Init, ChildInv, Clis
<1> QED
  BY <1>1, <1>2, <1>3 DEF Init, TypeInv, TypeOK, JobInv, Process, Pcs, Scaling, Actions, NoAction

LEMMA EnvironmentTypeInv ==
    ASSUME TypeInv,
           \/ \E u \in Units : UnitStarts(u) \/ UnitGone(u) \/ SampleExpires(u)
           \/ \E u \in Units, l \in Loads : HandleMetrics(u, l)
           \/ \E a \in Actions : DelayExpires(a)
           \/ Respawn
    PROVE  TypeInv'
<1> USE DEF TypeInv, TypeOK, JobInv, ChildInv, server, history
<1>1. ASSUME NEW u \in Units, UnitStarts(u) \/ UnitGone(u) \/ SampleExpires(u)
      PROVE  TypeInv'
  BY <1>1 DEF UnitStarts, UnitGone, SampleExpires, Lives
<1>2. ASSUME NEW u \in Units, NEW l \in Loads, HandleMetrics(u, l)
      PROVE  TypeInv'
  BY <1>2 DEF HandleMetrics
<1>3. ASSUME NEW a \in Actions, DelayExpires(a)
      PROVE  TypeInv'
  BY <1>3 DEF DelayExpires
<1>4. CASE Respawn
  BY <1>4 DEF Respawn
<1> QED
  BY <1>1, <1>2, <1>3, <1>4

LEMMA CheckStateTypeInv ==
    ASSUME TypeInv, CheckState
    PROVE  TypeInv'
<1> USE DEF TypeInv, TypeOK, JobInv, ChildInv, server, history, Pcs, Scaling
<1>1. CASE Tick
  BY <1>1, StatType DEF Tick
<1>2. ASSUME NEW u \in Units, GetSample(u)
      PROVE  TypeInv'
  <2>1. stat' \in Stat
    BY <1>2, StatType DEF GetSample
  <2>2. (stale \/ u \in old) \in BOOLEAN
    OBVIOUS
  <2> QED
    BY <1>2, <2>1, <2>2 DEF GetSample
<1>3. CASE StatsDone
  <2>1. stat' \in Stat
    BY <1>3, StatType DEF StatsDone
  <2>2. /\ pc' \in {"idle", "isKey"} /\ action' \in Actions \cup {NoAction}
        /\ pc' = "isKey" => action' \in Actions
    BY <1>3, ChoiceType DEF StatsDone
  <2> QED
    BY <1>3, <2>1, <2>2 DEF StatsDone
<1>4. CASE CheckDelay
  <2>1. cli' \in [Clis -> Process]
    <3>1. [NoCli EXCEPT !.step = "status", !.choice = action] \in Process
      BY NoCliType DEF Process
    <3> QED
      BY <1>4, <3>1 DEF CheckDelay, Process
  <2>2. ChildInv'
    <3>1. CASE UNCHANGED cli
      BY <1>4, <3>1 DEF CheckDelay
    <3>2. CASE ~ UNCHANGED cli
      <4>1. /\ cli'["child"] = [NoCli EXCEPT !.step = "status", !.choice = action]
            /\ pc' = "cli" /\ action' = action
        BY <1>4, <3>2 DEF CheckDelay, Clis
      <4>2. cli'["child"].choice = action
        BY <4>1 DEF NoCli
      <4> QED
        BY <4>1, <4>2
    <3> QED
      BY <3>1, <3>2
  <2> QED
    BY <1>4, <2>1, <2>2 DEF CheckDelay, Process, Idle, NoAction
<1>5. CASE ListKeys \/ KeysRemoved
  BY <1>5 DEF ListKeys, KeysRemoved
<1>6. ASSUME NEW u \in Units, DelKey(u)
      PROVE  TypeInv'
  BY <1>6 DEF DelKey
<1>7. CASE SetDelay
  BY <1>7 DEF SetDelay, Idle, NoAction
<1> QED
  BY <1>1, <1>2, <1>3, <1>4, <1>5, <1>6, <1>7 DEF CheckState

\* However the script ends, the types of the rest are kept.
LEMMA CliEndsTypeInv ==
    ASSUME TypeInv, NEW c \in Clis, CliEnds(c), cli[c].step # "none",
           units' \in [Units -> Lives]
    PROVE  TypeInv'
<1>1. cli' \in [Clis -> Process] /\ cli'[c].step = "none"
  BY NoCliType DEF CliEnds, TypeInv, TypeOK, Process
<1>2. pc' \in Pcs /\ JobInv'
  BY DEF CliEnds, TypeInv, TypeOK, JobInv, ChildInv, Pcs, Scaling, Clis
<1>3. ChildInv'
  BY <1>1 DEF CliEnds, TypeInv, TypeOK, ChildInv, Clis
<1>4. old' \subseteq Units
  BY DEF CliEnds, TypeInv, TypeOK
<1> QED
  BY <1>1, <1>2, <1>3, <1>4 DEF CliEnds, TypeInv, TypeOK, Process

LEMMA CliTypeInv ==
    ASSUME TypeInv, NEW c \in Clis, Cli(c)
    PROVE  TypeInv'
<1>1. CASE CliFails(c)
  <2>1. units' \in [Units -> Lives]
    BY <1>1 DEF CliFails, TypeInv, TypeOK
  <2> QED
    BY <1>1, <2>1, CliEndsTypeInv DEF CliFails
<1>2. CASE GetStat(c)
  <2>1. cli' \in [Clis -> Process]
    BY <1>2 DEF GetStat, TypeInv, TypeOK, Process
  <2>2. ChildInv'
    BY <1>2 DEF GetStat, TypeInv, TypeOK, ChildInv, Clis, server
  <2> QED
    BY <1>2, <2>1, <2>2 DEF GetStat, TypeInv, TypeOK, JobInv, Process, server, history
<1>3. CASE AddUnit(c)
  <2>1. units' \in [Units -> Lives]
    BY <1>3 DEF AddUnit, TypeInv, TypeOK, Lives
  <2> QED
    BY <1>3, <2>1, CliEndsTypeInv DEF AddUnit
<1>4. CASE RemoveUnit(c)
  <2>1. units' \in [Units -> Lives]
    BY <1>4 DEF RemoveUnit, TypeInv, TypeOK, Lives
  <2> QED
    BY <1>4, <2>1, CliEndsTypeInv DEF RemoveUnit
<1> QED
  BY <1>1, <1>2, <1>3, <1>4 DEF Cli

LEMMA KillTypeInv ==
    ASSUME TypeInv, Kill
    PROVE  TypeInv'
<1>1. cli' \in [Clis -> Process] /\ cli'["child"].step = "none"
  BY NoCliType DEF Kill, TypeInv, TypeOK, Process, Clis
<1>2. stat' \in Stat
  BY StatType DEF Kill
<1>3. interrupted' \in BOOLEAN
  <2>1. interrupted' = (pc \in {"cli", "list", "del", "setKey"})
    BY Zenon DEF Kill
  <2>2. (pc \in {"cli", "list", "del", "setKey"}) \in BOOLEAN
    OBVIOUS
  <2> QED
    BY <2>1, <2>2, Zenon
<1>4. /\ up' = FALSE /\ pc' = "idle" /\ keys' = {} /\ action' = NoAction
      /\ UNCHANGED <<units, samples, delay, old, stale>>
  BY DEF Kill
<1> QED
  BY <1>1, <1>2, <1>3, <1>4 DEF TypeInv, TypeOK, JobInv, ChildInv, Process, Pcs, Scaling, NoAction

LEMMA StepTypeInv == TypeInv /\ [Next]_vars => TypeInv'
<1> SUFFICES ASSUME TypeInv, [Next]_vars PROVE TypeInv'
  OBVIOUS
<1>1. CASE UNCHANGED vars
  BY <1>1 DEF vars, server, history, TypeInv, TypeOK, JobInv, ChildInv
<1>2. CASE Next
  BY <1>2, EnvironmentTypeInv, CheckStateTypeInv, CliTypeInv, KillTypeInv DEF Next
<1> QED
  BY <1>1, <1>2

LEMMA TypeInvariant == Spec => []TypeInv
BY InitTypeInv, StepTypeInv, PTL DEF Spec

\* Every variable of handler, script, Juju and Redis keeps its type.
THEOREM TypeCorrect == Spec => []TypeOK
BY TypeInvariant, PTL DEF TypeInv

-----------------------------------------------------------------------------
(* Fresh evidence: what is old is on its way out of Redis, or the server is down. *)

FreshInv ==
    /\ ~stale
    /\ \A u \in old : samples[u] # {}
    /\ old # {} => pc \in {"list", "del"} \/ ~up
    /\ pc = "del" => old \subseteq keys
    /\ ~up => pc = "idle"

LEMMA InitFresh == Init => FreshInv
BY DEF Init, FreshInv

LEMMA StepFresh == TypeInv /\ FreshInv /\ [Next]_vars => FreshInv'
<1> SUFFICES ASSUME TypeInv, FreshInv, [Next]_vars PROVE FreshInv'
  OBVIOUS
<1> USE DEF FreshInv
<1>t. /\ samples \in [Units -> SUBSET Loads] /\ old \subseteq Units
      /\ cli["child"].step # "none" => pc = "cli"
  BY DEF TypeInv, TypeOK, ChildInv
<1>1. ASSUME NEW u \in Units, UnitStarts(u) \/ UnitGone(u) \/ SampleExpires(u)
      PROVE  FreshInv'
  BY <1>1, <1>t DEF UnitStarts, UnitGone, SampleExpires, server, history
<1>2. ASSUME NEW u \in Units, NEW l \in Loads, HandleMetrics(u, l)
      PROVE  FreshInv'
  BY <1>2, <1>t DEF HandleMetrics, server
<1>3. ASSUME NEW a \in Actions, DelayExpires(a)
      PROVE  FreshInv'
  BY <1>3 DEF DelayExpires, server, history
<1>4. CASE Tick
  BY <1>4 DEF Tick
<1>5. ASSUME NEW u \in Units, GetSample(u)
      PROVE  FreshInv'
  BY <1>5 DEF GetSample
<1>6. CASE StatsDone
  BY <1>6 DEF StatsDone, history
<1>7. CASE CheckDelay
  BY <1>7 DEF CheckDelay, Idle, history
<1>8. CASE ListKeys
  BY <1>8, <1>t DEF ListKeys, history
<1>9. ASSUME NEW u \in Units, DelKey(u)
      PROVE  FreshInv'
  BY <1>9, <1>t DEF DelKey
<1>10. CASE KeysRemoved \/ SetDelay
  BY <1>10 DEF KeysRemoved, SetDelay, Idle, history
<1>11. ASSUME NEW c \in Clis, Cli(c)
       PROVE  FreshInv'
  <2>1. CASE GetStat(c)
    BY <2>1 DEF GetStat, server, history
  <2>2. CASE CliEnds(c)
    <3>1. CASE c = "child" /\ cli[c].step # "none"
      BY <2>2, <3>1, <1>t DEF CliEnds
    <3>2. CASE c = "orphan"
      BY <2>2, <3>2 DEF CliEnds
    <3> QED
      BY <1>11, <2>2, <3>1, <3>2 DEF Clis, Cli, CliFails, GetStat, AddUnit, RemoveUnit
  <2> QED
    BY <1>11, <2>1, <2>2 DEF Cli, CliFails, AddUnit, RemoveUnit
<1>12. CASE Kill
  BY <1>12 DEF Kill
<1>13. CASE Respawn
  BY <1>13 DEF Respawn
<1>14. CASE UNCHANGED vars
  BY <1>14 DEF vars, server, history
<1> QED
  BY <1>1, <1>2, <1>3, <1>4, <1>5, <1>6, <1>7, <1>8, <1>9, <1>10, <1>11, <1>12, <1>13, <1>14
     DEF Next, CheckState

\* A verdict that leads to a call rests on samples from after the previous call.
THEOREM VerdictsAreFresh == Spec => []FreshEvidence
<1>1. FreshInv => FreshEvidence
  BY DEF FreshInv, FreshEvidence
<1> QED
  BY <1>1, InitFresh, StepFresh, TypeInvariant, PTL DEF Spec

-----------------------------------------------------------------------------
(* Units: while no call was interrupted there is one script at most.  For add-unit   *)
(* what it saw is enough, as only it adds; for scale-down the delay key is: a unit   *)
(* on its way out means that the key is there, or that its setter is past the look.  *)

Dying == \E u \in Units : units[u] = "dying"

Alone == cli["orphan"].step = "none"

OnePending == \A u, v \in Units : units[u] = "pending" /\ units[v] = "pending" => u = v

SawPending ==
    cli["child"].step = "act" /\ cli["child"].choice = "add-unit" =>
        \A u \in Units : units[u] = "pending" => cli["child"].saw[u] = "pending"

Blocked == Dying => \/ "scale-down" \in delay
                    \/ pc \in Removing /\ action = "scale-down"

Unblocked == pc = "cli" /\ action = "scale-down" => "scale-down" \notin delay

SawAlive ==
    cli["child"].step = "act" /\ cli["child"].choice = "scale-down" =>
        \A u \in Units : cli["child"].saw[u] # "none" => u \in Alive

UnitsInv ==
    ~interrupted => /\ Alone /\ OnePending /\ SawPending
                    /\ Alive # {} /\ Blocked /\ Unblocked /\ SawAlive

LEMMA AliveDef == \A u \in Units : u \in Alive <=> units[u] \in {"pending", "started"}
BY DEF Alive

LEMMA InitUnits == Init => UnitsInv
BY NoCliType DEF Init, UnitsInv, Alone, OnePending, SawPending, Blocked, Dying,
   Unblocked, SawAlive, Alive, Clis

\* Of more than one element there is another one.
LEMMA Another ==
    ASSUME NEW S, NEW u \in S, Cardinality(S) > 1
    PROVE  \E v \in S : v # u
<1>1. S # {u}
  <2>1. Cardinality({u}) = 1
    BY FS_Singleton
  <2> SUFFICES ASSUME S = {u} PROVE FALSE
    OBVIOUS
  <2> QED
    BY <2>1
<1> QED
  BY <1>1

LEMMA EnvironmentUnits ==
    ASSUME TypeInv, UnitsInv,
           \/ \E u \in Units : UnitStarts(u) \/ UnitGone(u) \/ SampleExpires(u)
           \/ \E u \in Units, l \in Loads : HandleMetrics(u, l)
           \/ \E a \in Actions : DelayExpires(a)
           \/ Respawn
    PROVE  UnitsInv'
<1> USE DEF UnitsInv, Alone, OnePending, SawPending, Blocked, Dying, Unblocked, SawAlive, Alive
<1>t. units \in [Units -> Lives]
  BY DEF TypeInv, TypeOK
<1>1. ASSUME NEW u \in Units, UnitStarts(u)
      PROVE  UnitsInv'
  BY <1>1, <1>t DEF UnitStarts, server, history
<1>2. ASSUME NEW u \in Units, UnitGone(u)
      PROVE  UnitsInv'
  <2>1. /\ \A v \in Units : v \in Alive' <=> v \in Alive
        /\ \A v \in Units : units'[v] = "pending" <=> units[v] = "pending"
        /\ Dying' => Dying
    BY <1>2, <1>t DEF UnitGone
  <2> QED
    BY <1>2, <2>1 DEF UnitGone, server, history
<1>3. ASSUME NEW u \in Units, SampleExpires(u)
      PROVE  UnitsInv'
  BY <1>3 DEF SampleExpires, server
<1>4. ASSUME NEW u \in Units, NEW l \in Loads, HandleMetrics(u, l)
      PROVE  UnitsInv'
  BY <1>4 DEF HandleMetrics, server
<1>5. ASSUME NEW a \in Actions, DelayExpires(a)
      PROVE  UnitsInv'
  BY <1>5 DEF DelayExpires, server, history
<1>6. CASE Respawn
  BY <1>6 DEF Respawn
<1> QED
  BY <1>1, <1>2, <1>3, <1>4, <1>5, <1>6

LEMMA CheckStateUnits ==
    ASSUME TypeInv, UnitsInv, CheckState
    PROVE  UnitsInv'
<1> USE DEF UnitsInv, Alone, OnePending, SawPending, Blocked, Dying, Unblocked, SawAlive,
            Alive, Removing
<1>t. cli \in [Clis -> Process] /\ (cli["child"].step # "none" => pc = "cli")
  BY DEF TypeInv, TypeOK, ChildInv, Process
<1>1. CASE Tick
  BY <1>1 DEF Tick
<1>2. ASSUME NEW u \in Units, GetSample(u)
      PROVE  UnitsInv'
  BY <1>2 DEF GetSample
<1>3. CASE StatsDone
  BY <1>3 DEF StatsDone, history
<1>4. CASE CheckDelay
  <2>1. CASE UNCHANGED cli
    BY <1>4, <2>1, <1>t DEF CheckDelay, Idle, history
  <2>2. CASE ~ UNCHANGED cli
    <3>1. /\ cli'["child"] = [NoCli EXCEPT !.step = "status", !.choice = action]
          /\ cli'["orphan"] = cli["orphan"]
          /\ action \notin delay /\ pc' = "cli" /\ pc = "isKey"
          /\ UNCHANGED <<units, delay, action, interrupted>>
      BY <1>4, <2>2, <1>t DEF CheckDelay, Clis, Process, history
    <3>2. cli'["child"].step = "status"
      BY <3>1 DEF NoCli
    <3> QED
      BY <3>1, <3>2
  <2> QED
    BY <2>1, <2>2
<1>5. CASE ListKeys
  BY <1>5 DEF ListKeys, history
<1>6. ASSUME NEW u \in Units, DelKey(u)
      PROVE  UnitsInv'
  BY <1>6 DEF DelKey
<1>7. CASE KeysRemoved
  BY <1>7 DEF KeysRemoved, history
<1>8. CASE SetDelay
  BY <1>8 DEF SetDelay, Idle, history
<1> QED
  BY <1>1, <1>2, <1>3, <1>4, <1>5, <1>6, <1>7, <1>8 DEF CheckState

\* The only script ends.
LEMMA ChildEndsUnits ==
    ASSUME TypeInv, UnitsInv, ~interrupted, CliEnds("child"),
           cli["child"].step # "none",
           OnePending', Alive' # {}, Dying' => Dying \/ action = "scale-down"
    PROVE  UnitsInv'
<1>1. /\ cli'["child"].step = "none" /\ cli'["orphan"] = cli["orphan"]
      /\ pc = "cli" /\ pc' = "list"
      /\ UNCHANGED <<delay, action, interrupted>>
  BY NoCliType DEF CliEnds, TypeInv, TypeOK, ChildInv, Clis
<1>2. Blocked'
  BY <1>1 DEF UnitsInv, Blocked, Removing
<1> QED
  BY <1>1, <1>2 DEF UnitsInv, Alone, SawPending, Unblocked, SawAlive

LEMMA CliUnits ==
    ASSUME TypeInv, UnitsInv, NEW c \in Clis, Cli(c)
    PROVE  UnitsInv'
<1>1. CASE interrupted
  <2>1. interrupted'
    BY <1>1 DEF Cli, CliFails, GetStat, AddUnit, RemoveUnit, CliEnds, history
  <2> QED
    BY <2>1 DEF UnitsInv
<1>2. CASE ~interrupted
  <2>1. c = "child"
    BY <1>2 DEF UnitsInv, Alone, Clis, Cli, CliFails, GetStat, AddUnit, RemoveUnit
  <2>2. /\ Alone /\ OnePending /\ SawPending /\ Alive # {}
        /\ Blocked /\ Unblocked /\ SawAlive
    BY <1>2 DEF UnitsInv
  <2>3. /\ cli[c].step # "none" /\ pc = "cli" /\ cli[c].choice = action
        /\ cli \in [Clis -> Process] /\ units \in [Units -> Lives]
    BY <2>1 DEF Cli, CliFails, GetStat, AddUnit, RemoveUnit, TypeInv, TypeOK, ChildInv, Process
  <2>4. CASE CliFails(c)
    <3>1. OnePending' /\ Alive' # {} /\ (Dying' => Dying)
      BY <2>2, <2>4 DEF CliFails, OnePending, Alive, Dying
    <3> QED
      BY <1>2, <2>1, <2>3, <2>4, <3>1, ChildEndsUnits DEF CliFails
  <2>5. CASE GetStat(c)
    <3>1. /\ cli'["child"].step = "act" /\ cli'["child"].choice = action
          /\ cli'["child"].saw = units /\ cli'["orphan"] = cli["orphan"]
          /\ UNCHANGED <<units, delay, pc, action, interrupted>>
      BY <2>1, <2>3, <2>5 DEF GetStat, Clis, Process, server, history
    <3>2. SawPending'
      BY <3>1 DEF SawPending
    <3>3. SawAlive'
      <4>1. action = "scale-down" => ~Dying
        BY <2>2, <2>3 DEF Blocked, Unblocked, Removing
      <4>2. action = "scale-down" => \A u \in Units : units[u] # "none" => u \in Alive
        BY <4>1, <2>3 DEF Dying, Alive, Lives
      <4> QED
        BY <3>1, <4>2 DEF SawAlive, Alive
    <3> QED
      BY <2>2, <3>1, <3>2, <3>3
         DEF UnitsInv, Alone, OnePending, Alive, Blocked, Dying, Unblocked
  <2>6. CASE AddUnit(c)
    <3>1. cli["child"].step = "act" /\ cli["child"].choice = "add-unit"
      BY <2>1, <2>6 DEF AddUnit
    <3>2. CASE UNCHANGED units
      <4>1. OnePending' /\ Alive' # {} /\ (Dying' => Dying)
        BY <2>2, <3>2 DEF OnePending, Alive, Dying
      <4> QED
        BY <1>2, <2>1, <2>3, <2>6, <4>1, ChildEndsUnits DEF AddUnit
    <3>3. CASE ~ UNCHANGED units
      <4>1. /\ \A v \in Units : units[v] # "pending"
            /\ \E u \in Units : units[u] = "none" /\ units' = [units EXCEPT ![u] = "pending"]
        BY <2>1, <2>2, <2>6, <3>1, <3>3 DEF AddUnit, NonePending, SawPending
      <4>2. PICK u \in Units : units[u] = "none" /\ units' = [units EXCEPT ![u] = "pending"]
        BY <4>1
      <4>3. OnePending' /\ u \in Alive' /\ (Dying' => Dying)
        BY <2>3, <4>1, <4>2 DEF OnePending, Alive, Dying
      <4> QED
        BY <1>2, <2>1, <2>3, <2>6, <4>3, ChildEndsUnits DEF AddUnit
    <3> QED
      BY <3>2, <3>3
  <2>7. CASE RemoveUnit(c)
    <3>1. /\ cli["child"].step = "act" /\ cli["child"].choice = "scale-down"
          /\ action = "scale-down"
      BY <2>1, <2>3, <2>7 DEF RemoveUnit
    <3>2. OnePending' /\ Alive' # {}
      <4> DEFINE seen == {u \in Units : cli["child"].saw[u] # "none"}
      <4>1. CASE UNCHANGED units
        BY <2>2, <4>1 DEF OnePending, Alive
      <4>2. CASE ~ UNCHANGED units
        <5>1. /\ Cardinality(seen) > 1
              /\ \E u \in seen :
                     units' = [units EXCEPT ![u] = IF @ = "none" THEN @ ELSE "dying"]
          BY <2>1, <2>7, <4>2 DEF RemoveUnit
        <5>2. PICK u \in seen :
                     units' = [units EXCEPT ![u] = IF @ = "none" THEN @ ELSE "dying"]
          BY <5>1
        <5>3. PICK v \in seen : v # u
          BY <5>1, Another
        <5>4. v \in Alive
          BY <2>2, <3>1 DEF SawAlive
        <5>5. v \in Alive'
          BY <2>3, <5>2, <5>3, <5>4 DEF Alive
        <5>6. OnePending'
          BY <2>2, <2>3, <5>2 DEF OnePending
        <5> QED
          BY <5>5, <5>6
      <4> QED
        BY <4>1, <4>2
    <3> QED
      BY <1>2, <2>1, <2>3, <2>7, <3>1, <3>2, ChildEndsUnits DEF RemoveUnit
  <2> QED
    BY <2>4, <2>5, <2>6, <2>7 DEF Cli
<1> QED
  BY <1>1, <1>2

LEMMA KillUnits ==
    ASSUME TypeInv, UnitsInv, Kill
    PROVE  UnitsInv'
<1> SUFFICES ASSUME ~interrupted' PROVE UnitsInv'
  BY DEF UnitsInv
<1>1. ~interrupted /\ pc \notin {"cli", "list", "del", "setKey"}
  BY DEF Kill
<1>2. /\ cli'["child"].step = "none" /\ cli'["orphan"] = cli["child"]
      /\ cli["child"].step = "none"
      /\ pc' = "idle" /\ UNCHANGED <<units, delay>>
  BY <1>1, NoCliType DEF Kill, TypeInv, ChildInv
<1> QED
  BY <1>1, <1>2 DEF UnitsInv, Alone, OnePending, SawPending, Alive, Blocked, Dying,
     Unblocked, SawAlive, Removing

LEMMA StepUnits == TypeInv /\ UnitsInv /\ [Next]_vars => UnitsInv'
<1> SUFFICES ASSUME TypeInv, UnitsInv, [Next]_vars PROVE UnitsInv'
  OBVIOUS
<1>1. CASE UNCHANGED vars
  BY <1>1 DEF vars, server, history, UnitsInv, Alone, OnePending, SawPending, Alive,
     Blocked, Dying, Unblocked, SawAlive
<1>2. CASE Next
  BY <1>2, EnvironmentUnits, CheckStateUnits, CliUnits, KillUnits DEF Next
<1> QED
  BY <1>1, <1>2

LEMMA UnitsInvariant == Spec => []UnitsInv
BY InitUnits, StepUnits, TypeInvariant, PTL DEF Spec

\* Scaling never takes the last unit of a service, as long as no call was cut off.
THEOREM LastUnitStays == Spec => []KeepsAUnit
<1>1. UnitsInv => KeepsAUnit
  BY DEF UnitsInv, KeepsAUnit
<1> QED
  BY <1>1, UnitsInvariant, PTL

\* At most one unit is being added, as long as no call was cut off.
THEOREM OneUnitAtATime == Spec => []OneAtATime
<1>1. UnitsInv => OneAtATime
  <2> DEFINE P == {u \in Units : units[u] = "pending"}
  <2> SUFFICES ASSUME UnitsInv, ~interrupted PROVE Cardinality(P) <= 1
    BY DEF OneAtATime
  <2>1. \A u, v \in P : u = v
    BY DEF UnitsInv, OnePending
  <2>2. CASE P = {}
    BY <2>2, FS_EmptySet
  <2>3. CASE P # {}
    <3>1. PICK u \in P : TRUE
      BY <2>3
    <3>2. P = {u}
      BY <2>1, <3>1
    <3> QED
      BY <3>2, FS_Singleton
  <2> QED
    BY <2>2, <2>3
<1> QED
  BY <1>1, UnitsInvariant, PTL
=============================================================================
