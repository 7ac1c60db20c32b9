----------------------------- MODULE JujuScaler -----------------------------
(***************************************************************************)
(* The Juju half of the monitor-server: JujuCharmHandler, the script       *)
(* jujuapicli it runs to add or to remove a unit, and one service of Juju, *)
(* whose machines post their load.                                         *)
(*                                                                         *)
(* The script is a process of its own: it looks at the status of the       *)
(* service, and then acts on what it saw.  When the monitor-server is      *)
(* killed the script goes on, and may run next to the one that the         *)
(* respawned server starts.                                                *)
(***************************************************************************)
EXTENDS Integers, FiniteSets, LoadStats

CONSTANTS Units,      \* bound: the units, and machines, Juju can have at a time
          Loads,      \* the loads a machine can post, in percent
          ScaleUp,    \* -j-up
          ScaleDown   \* -j-down

ASSUME JujuLoadsAssumption == Loads \subseteq Int
ASSUME JujuLimitsAssumption == {ScaleUp, ScaleDown} \subseteq Int

Lives == {"none", "pending", "started", "dying"}
Actions == {"add-unit", "scale-down"}
Clis == {"child", "orphan"}

VARIABLES
    units,       \* Juju: the life of each unit
    samples,     \* Redis: the key "metric:<service>:<machine>", if it is there
    delay,       \* Redis: the delay keys that exist
    up,          \* whether the monitor-server runs
    pc,          \* where the goroutine of checkState is
    keys,        \* the keys KEYS returned that are still to be read or deleted
    stat,        \* the running total of avgStat
    action,      \* the action scaleJuju was called with
    cli,         \* the script: the handler's child, and one that lost its parent
    \* history, which no action reads
    old,         \* samples posted before the handler's last call of the script ended
    stale,       \* whether avgStat has counted one of them
    interrupted  \* whether the server was killed during a call

server == <<up, pc, keys, stat, action>>
history == <<old, stale, interrupted>>
vars == <<units, samples, delay, server, cli, history>>

Pcs == {"idle", "get", "isKey", "cli", "list", "del", "setKey"}
NoAction == "none"
NoCli == [step |-> "none", choice |-> NoAction, saw |-> [u \in Units |-> "none"]]
Alive == {u \in Units : units[u] \in {"pending", "started"}}

Init ==
    /\ units \in [Units -> {"none", "started"}]
    /\ Alive # {}
    /\ samples = [u \in Units |-> {}]
    /\ delay = {}
    /\ up = TRUE
    /\ pc = "idle"
    /\ keys = {}
    /\ stat = EmptyStat
    /\ action = NoAction
    /\ cli = [c \in Clis |-> NoCli]
    /\ old = {}
    /\ stale = FALSE
    /\ interrupted = FALSE

-----------------------------------------------------------------------------
(* Juju, the agents and Redis *)

UnitStarts(u) ==
    /\ units[u] = "pending"
    /\ units' = [units EXCEPT ![u] = "started"]
    /\ UNCHANGED <<samples, delay, server, cli, history>>

UnitGone(u) ==
    /\ units[u] = "dying"
    /\ units' = [units EXCEPT ![u] = "none"]
    /\ UNCHANGED <<samples, delay, server, cli, history>>

Posts(u) == up /\ units[u] \in {"started", "dying"}

\* handleMetrics: the agent next to a unit posts, until the unit is gone.
HandleMetrics(u, l) ==
    /\ Posts(u)
    /\ samples' = [samples EXCEPT ![u] = {l}]
    /\ old' = old \ {u}
    /\ UNCHANGED <<units, delay, server, cli, stale, interrupted>>

\* The five minutes of a sample run out.  Assumption: not while its agent posts,
\* every five seconds, and the server answers.
SampleExpires(u) ==
    /\ samples[u] # {} /\ ~Posts(u)
    /\ samples' = [samples EXCEPT ![u] = {}]
    /\ old' = old \ {u}
    /\ UNCHANGED <<units, delay, server, cli, stale, interrupted>>

\* Mutant of DelayExpires: the keys have no time to live.
DelayStays(a) ==
    /\ a \in delay /\ a \notin delay
    /\ UNCHANGED vars

\* The delay runs out.  Assumption: Juju removes a unit within the delay.
DelayExpires(a) ==
    /\ a \in delay
    /\ a = "scale-down" => \A u \in Units : units[u] # "dying"
    /\ delay' = delay \ {a}
    /\ UNCHANGED <<units, samples, server, cli, history>>

-----------------------------------------------------------------------------
(* JujuCharmHandler.checkState and avgStat *)

Tick ==
    /\ up /\ pc = "idle"
    /\ pc' = "get"
    /\ keys' = {u \in Units : samples[u] # {}}
    /\ stat' = EmptyStat
    /\ stale' = FALSE
    /\ UNCHANGED <<units, samples, delay, up, action, cli, old, interrupted>>

\* One GET; a key that has gone does not unmarshal and is skipped.
GetSample(u) ==
    /\ up /\ pc = "get" /\ u \in keys
    /\ keys' = keys \ {u}
    /\ \/ \E l \in samples[u] : stat' = AddSample(stat, l)
       \/ samples[u] = {} /\ UNCHANGED stat
    /\ stale' = (stale \/ u \in old)
    /\ UNCHANGED <<units, samples, delay, up, pc, action, cli, old, interrupted>>

\* Mutant of Choice: the names of Marathon's actions.
ChoiceVerdict(verdict) == verdict

Choice(verdict) == IF verdict = "scale-up" THEN "add-unit" ELSE "scale-down"

\* The service has no entry in stats, its load is within the limits, or scaleUp or
\* scaleDown is called.
StatsDone ==
    /\ up /\ pc = "get" /\ keys = {}
    /\ LET verdict == IF stat.count = 0 THEN NoAction
                      ELSE Verdict(Average(stat), ScaleUp, ScaleDown)
       IN  IF verdict = NoAction
           THEN pc' = "idle" /\ UNCHANGED action
           ELSE pc' = "isKey" /\ action' = Choice(verdict)
    /\ stat' = EmptyStat
    /\ UNCHANGED <<units, samples, delay, up, keys, cli, history>>

-----------------------------------------------------------------------------
(* scaleJuju *)

Idle == pc' = "idle" /\ action' = NoAction

\* isKey(delayKey), then exec.Command(...): the script starts.
CheckDelay ==
    /\ up /\ pc = "isKey"
    /\ \/ action \in delay /\ Idle /\ UNCHANGED cli
       \/ /\ action \notin delay
          /\ pc' = "cli"
          /\ cli' = [cli EXCEPT !["child"] = [NoCli EXCEPT !.step = "status", !.choice = action]]
          /\ UNCHANGED action
    /\ UNCHANGED <<units, samples, delay, up, keys, stat, history>>

\* KEYS "metric:<service>:*", of removeKeys.
ListKeys ==
    /\ up /\ pc = "list"
    /\ pc' = "del"
    /\ keys' = {u \in Units : samples[u] # {}}
    /\ UNCHANGED <<units, samples, delay, up, stat, action, cli, history>>

\* Mutant of DelKey: the pattern matches no key (as in marathon_client.go).
DelNothing(u) ==
    /\ up /\ pc = "del" /\ u \in keys
    /\ keys' = keys \ {u}
    /\ UNCHANGED <<units, samples, delay, up, pc, stat, action, cli, history>>

\* One DEL, whatever the key holds by now.
DelKey(u) ==
    /\ up /\ pc = "del" /\ u \in keys
    /\ keys' = keys \ {u}
    /\ samples' = [samples EXCEPT ![u] = {}]
    /\ old' = old \ {u}
    /\ UNCHANGED <<units, delay, up, pc, stat, action, cli, stale, interrupted>>

KeysRemoved ==
    /\ up /\ pc = "del" /\ keys = {}
    /\ pc' = "setKey"
    /\ UNCHANGED <<units, samples, delay, up, keys, stat, action, cli, history>>

\* Mutant of SetDelay: the key that is set is not the one that is looked for.
SetDelayOther ==
    /\ up /\ pc = "setKey"
    /\ delay' = delay \cup {"add-unit"}
    /\ Idle
    /\ UNCHANGED <<units, samples, up, keys, stat, cli, history>>

\* setBoolKey(delayKey): also when the script has failed or done nothing.
SetDelay ==
    /\ up /\ pc = "setKey"
    /\ delay' = delay \cup {action}
    /\ Idle
    /\ UNCHANGED <<units, samples, up, keys, stat, cli, history>>

-----------------------------------------------------------------------------
(* jujuapicli *)

\* The script ends; whoever waits for it goes on, whatever its exit status.
CliEnds(c) ==
    /\ cli' = [cli EXCEPT ![c] = NoCli]
    /\ pc' = IF c = "child" THEN "list" ELSE pc
    /\ old' = IF c = "child" THEN {u \in Units : samples[u] # {}} ELSE old
    /\ UNCHANGED <<samples, delay, up, keys, stat, action, stale, interrupted>>

\* No connection, no login, an exception.
CliFails(c) ==
    /\ cli[c].step # "none"
    /\ CliEnds(c)
    /\ UNCHANGED units

\* env.get_stat()
GetStat(c) ==
    /\ cli[c].step = "status"
    /\ cli' = [cli EXCEPT ![c].step = "act", ![c].saw = units]
    /\ UNCHANGED <<units, samples, delay, server, history>>

\* Mutant of NonePending: only idle agents are asked for.
PendingOrNot(c) == TRUE

NonePending(c) == \A u \in Units : cli[c].saw[u] # "pending"

\* add-unit: not while a unit was pending or an agent busy.
AddUnit(c) ==
    /\ cli[c].step = "act" /\ cli[c].choice = "add-unit"
    /\ \/ /\ NonePending(c)
          /\ \E u \in Units : units[u] = "none" /\ units' = [units EXCEPT ![u] = "pending"]
       \/ UNCHANGED units
    /\ CliEnds(c)

\* scale-down: of more than one unit, the first in the order of a dictionary goes,
\* if it is still there; otherwise the message raises a TypeError.
RemoveUnit(c) ==
    /\ cli[c].step = "act" /\ cli[c].choice = "scale-down"
    /\ LET seen == {u \in Units : cli[c].saw[u] # "none"}
       IN  IF Cardinality(seen) > 1
           THEN \E u \in seen :
                    units' = [units EXCEPT ![u] = IF @ = "none" THEN @ ELSE "dying"]
           ELSE UNCHANGED units
    /\ CliEnds(c)

-----------------------------------------------------------------------------
(* upstart *)

\* The server is killed; a script it waits for goes on alone.  Bound: once.
Kill ==
    /\ up /\ cli["orphan"] = NoCli /\ ~interrupted
    /\ up' = FALSE
    /\ pc' = "idle"
    /\ keys' = {}
    /\ stat' = EmptyStat
    /\ action' = NoAction
    /\ cli' = [child |-> NoCli, orphan |-> cli["child"]]
    /\ interrupted' = (pc \in {"cli", "list", "del", "setKey"})
    /\ UNCHANGED <<units, samples, delay, old, stale>>

\* resetDb, before the web server and the tickers start.
Respawn ==
    /\ ~up
    /\ up' = TRUE
    /\ samples' = [u \in Units |-> {}]
    /\ old' = {}
    /\ UNCHANGED <<units, delay, pc, keys, stat, action, cli, stale, interrupted>>

CheckState ==
    \/ Tick \/ (\E u \in Units : GetSample(u)) \/ StatsDone
    \/ CheckDelay \/ ListKeys \/ (\E u \in Units : DelKey(u)) \/ KeysRemoved \/ SetDelay

Cli(c) == GetStat(c) \/ AddUnit(c) \/ RemoveUnit(c) \/ CliFails(c)

Next ==
    \/ \E u \in Units : UnitStarts(u) \/ UnitGone(u) \/ SampleExpires(u)
    \/ \E u \in Units, l \in Loads : HandleMetrics(u, l)
    \/ \E a \in Actions : DelayExpires(a)
    \/ CheckState
    \/ \E c \in Clis : Cli(c)
    \/ Kill
    \/ Respawn

Spec == Init /\ [][Next]_vars

-----------------------------------------------------------------------------
TypeOK ==
    /\ units \in [Units -> Lives]
    /\ samples \in [Units -> SUBSET Loads]
    /\ delay \subseteq Actions
    /\ up \in BOOLEAN
    /\ pc \in Pcs
    /\ keys \subseteq Units
    /\ stat \in Stat
    /\ action \in Actions \cup {NoAction}
    /\ cli \in [Clis -> [step : {"none", "status", "act"}, choice : Actions \cup {NoAction},
                         saw : [Units -> Lives]]]
    /\ old \subseteq Units
    /\ stale \in BOOLEAN /\ interrupted \in BOOLEAN

\* The service never loses its last unit to scaling, although a unit that is on its
\* way out still counts in the status: the delay key keeps the next scale-down off
\* until the unit is gone.  A server killed during a call has set no key yet, and
\* its script may still be running.  Concerns scaleJuju and jujuapicli.
KeepsAUnit == interrupted \/ Alive # {}

\* A service has at most one unit that is being added, however long that takes and
\* however often the delay runs out meanwhile: the script's look at the status
\* decides.  Not so when two scripts look at the same time.
OneAtATime == interrupted \/ Cardinality({u \in Units : units[u] = "pending"}) <= 1

\* A verdict that leads to a call rests on samples posted after the previous call:
\* removeKeys forgets all the others, though it lists and deletes key by key while
\* agents post.
FreshEvidence == pc \in {"isKey", "cli"} => ~stale

-----------------------------------------------------------------------------
(* Liveness: goroutine and script run, agents post (what they post is free: a load   *)
(* may stay as it is for ever), delay keys expire, Juju starts and removes units,    *)
(* upstart respawns.                                                                 *)
Fairness ==
    /\ WF_vars(CheckState)
    /\ \A u \in Units : WF_vars(samples[u] = {} /\ \E l \in Loads : HandleMetrics(u, l))
    /\ \A u \in Units : WF_vars(UnitStarts(u)) /\ WF_vars(UnitGone(u))
    /\ \A c \in Clis : WF_vars(Cli(c))
    /\ \A a \in Actions : WF_vars(DelayExpires(a))
    /\ WF_vars(Respawn)

FairSpec == Spec /\ Fairness

Overloaded == \A u \in Units : \A l \in samples[u] : l > ScaleUp

\* Under a load that stays above the limit the script is run to add a unit, again
\* and again, unless the server is killed again and again: no delay key, failed
\* script or expired sample stops that.
OverloadIsAnswered ==
    <>[](up /\ Overloaded /\ Alive # {}) => []<>(cli["child"].choice = "add-unit")
=============================================================================
