------------------------------ MODULE AppCharm ------------------------------
(***************************************************************************)
(* A charm that runs an application on Marathon: AnsibleHooks writes what  *)
(* Juju knows to the host variables of ansible and plays the tasks tagged  *)
(* with the hook's name; the handlers they notify keep the values in a     *)
(* file of the charm (vars/app_vars.yaml), render vars/create.json and     *)
(* redeploy the application.                                               *)
(*                                                                         *)
(* All the charms of this kind have the handlers of restcomm.  They have   *)
(* two kinds of relations: those that compare only the host ("mysql"; in   *)
(* other charms redis and haproxy) and those that compare host and port    *)
(* and ignore an empty host ("loadbalancer"; restcomm, recorder, ...).     *)
(*                                                                         *)
(* Around it, external: Juju, which runs one hook at a time, with a fixed  *)
(* view of the model, and again when the operator resolves a failed one;   *)
(* and Marathon.                                                           *)
(***************************************************************************)
EXTENDS Naturals, Sequences

CONSTANTS Hosts,      \* host names a remote unit can set
          Rests,      \* the rest of its data: port, or user and password
          Confs,      \* values of the charm's configuration
          Empty,      \* the empty value
          App,        \* the application's id
          MaxEvents   \* bound: what happens to the model of Juju

ASSUME EmptyAssumption == Empty \notin Hosts \cup Rests \cup Confs
ASSUME MaxEventsAssumption == MaxEvents \in Nat

Relations == {"mysql", "loadbalancer"}
Hooks == Relations \cup {"install", "config-changed", "start", "upgrade-charm", "stop"}
NoHook == "none"

NoData == <<Empty, Empty>>
Data == {NoData} \cup (Hosts \X Rests)

\* The *_VAR variables: the configuration, and each relation's data.
Vars == [conf : Confs \cup {Empty}, mysql : Data, loadbalancer : Data]
NoVars == [conf |-> Empty, mysql |-> NoData, loadbalancer |-> NoData]

VARIABLES
    \* Juju
    model,    \* the configuration and the relation data
    pending,  \* the hooks to run
    hook,     \* the hook that runs or has failed
    events,   \* how much has happened to the model
    \* the hook's process
    pc,       \* where it is
    facts,    \* the variables of the play
    plan,     \* the notified handlers still to run, in their order in handlers.yaml
    \* files
    yaml,     \* ansible's host variables: "missing", "empty" or "full"
    appVars,  \* vars/app_vars.yaml
    create,   \* vars/create.json
    \* Marathon
    app,      \* how it has the application, and with which variables
    \* history
    missed,   \* a relation's change was recorded, and not deployed
    lost,     \* relations whose data an upgrade took out of appVars
    killed    \* the hook's process was killed while it rewrote yaml

juju == <<model, pending, hook, events>>
files == <<yaml, appVars, create>>
history == <<missed, lost, killed>>
vars == <<juju, pc, facts, plan, files, app, history>>

Pcs == {"idle", "read", "open", "dump", "play", "handlers", "failed", "gone"}
HandlerNames == {"vars", "json", "stop", "delete", "create", "instance"}
NoApp == [at |-> "absent", vars |-> NoVars]

Init ==
    /\ model \in {[NoVars EXCEPT !.conf = c] : c \in Confs}
    /\ pending = {"install", "config-changed", "start"}
    /\ hook = NoHook
    /\ events = 0
    /\ pc = "idle"
    /\ facts = NoVars
    /\ plan = <<>>
    /\ yaml = "missing"
    /\ appVars = NoVars
    /\ create = NoVars
    /\ app = NoApp
    /\ missed = FALSE
    /\ lost = {}
    /\ killed = FALSE

-----------------------------------------------------------------------------
(* Juju *)

\* The model changes between hooks: the unit is still wanted.
Between == pc \in {"idle", "failed"} /\ events < MaxEvents
           /\ "stop" \notin pending /\ hook # "stop"

ConfigSet(c) ==
    /\ Between /\ c # model.conf
    /\ model' = [model EXCEPT !.conf = c]
    /\ pending' = pending \cup {"config-changed"}
    /\ events' = events + 1
    /\ UNCHANGED <<hook, pc, facts, plan, files, app, history>>

RelationSet(r, d) ==
    /\ Between /\ d # model[r]
    /\ model' = [model EXCEPT ![r] = d]
    /\ pending' = pending \cup {r}
    /\ events' = events + 1
    /\ UNCHANGED <<hook, pc, facts, plan, files, app, history>>

\* A new revision of the charm is unpacked over the old one, with its own, empty
\* vars/app_vars.yaml.
UpgradeCharm ==
    /\ Between /\ pc = "idle" /\ "install" \notin pending
    /\ appVars' = NoVars
    /\ lost' = {r \in Relations : model[r] # NoData}
    /\ pending' = pending \cup {"upgrade-charm", "config-changed"}
    /\ events' = events + 1
    /\ UNCHANGED <<model, hook, pc, facts, plan, yaml, create, app, missed, killed>>

DestroyUnit ==
    /\ Between /\ pc = "idle" /\ pending = {}
    /\ pending' = {"stop"}
    /\ UNCHANGED <<model, hook, events, pc, facts, plan, files, app, history>>

\* install, config-changed and start come first; upgrade-charm before its
\* config-changed.
May(h) ==
    /\ h # "install" => "install" \notin pending
    /\ h \notin {"install", "upgrade-charm"} => "upgrade-charm" \notin pending
    /\ h \in Relations => "start" \notin pending
    /\ h = "start" => "config-changed" \notin pending

RunHook(h) ==
    /\ pc = "idle" /\ h \in pending /\ May(h)
    /\ hook' = h
    /\ pending' = pending \ {h}
    /\ pc' = "read"
    /\ UNCHANGED <<model, events, facts, plan, files, app, history>>

\* "juju resolved --retry": the hook runs again, and sees the model as it is now.
Resolved ==
    /\ pc = "failed"
    /\ pc' = "read"
    /\ UNCHANGED <<juju, facts, plan, files, app, history>>

-----------------------------------------------------------------------------
(* AnsibleHooks.execute *)

\* What a failure of the hook leaves behind when its first handler has run: the
\* guard of a relation's task finds nothing new next time.
Missed == hook \in Relations /\ plan # <<>> /\ Head(plan) # "vars"

Fails ==
    /\ pc' = "failed"
    /\ plan' = <<>>
    /\ facts' = NoVars
    /\ missed' = (missed \/ Missed)

\* juju_state_to_yaml reads the file, or makes one; of an empty file yaml.load
\* returns None, which has no update().
ReadYaml ==
    /\ pc = "read"
    /\ \/ /\ yaml # "empty"
          /\ pc' = "open"
          /\ yaml' = IF yaml = "missing" THEN "empty" ELSE yaml
          /\ UNCHANGED <<facts, plan, missed>>
       \/ /\ yaml = "empty"
          /\ Fails
          /\ UNCHANGED yaml
    /\ UNCHANGED <<juju, appVars, create, app, lost, killed>>

\* open(yaml_path, "w+")
OpenYaml ==
    /\ pc = "open"
    /\ pc' = "dump"
    /\ yaml' = "empty"
    /\ UNCHANGED <<juju, facts, plan, appVars, create, app, history>>

DumpYaml ==
    /\ pc = "dump"
    /\ pc' = "play"
    /\ yaml' = "full"
    /\ UNCHANGED <<juju, facts, plan, appVars, create, app, history>>

\* Mutant of Differs: only the host is looked at, in every relation.
DiffersHost(r, d, old) == IF r = "mysql" THEN d[1] # old[1] ELSE d[1] # Empty /\ d[1] # old[1]

\* The "when" of a relation's set_fact.
Differs(r, d, old) == IF r = "mysql" THEN d[1] # old[1] ELSE d[1] # Empty /\ d # old

Dump == <<"vars", "json">>
Restart == <<"delete", "create", "instance">>

Notified(h, old) ==
    CASE h = "install" -> Dump
      [] h = "config-changed" -> Dump \o Restart
      [] h = "start" -> Restart
      [] h = "stop" -> <<"stop", "delete">>
      [] h \in Relations /\ Differs(h, model[h], old[h]) -> Dump \o Restart
      [] OTHER -> <<>>

\* The tasks tagged with the hook's name, over vars_files.
Play ==
    /\ pc = "play"
    /\ pc' = "handlers"
    /\ facts' = CASE hook = "config-changed" -> [appVars EXCEPT !.conf = model.conf]
                  [] hook \in Relations /\ Differs(hook, model[hook], appVars[hook])
                       -> [appVars EXCEPT ![hook] = model[hook]]
                  [] OTHER -> appVars
    /\ plan' = Notified(hook, appVars)
    /\ UNCHANGED <<juju, files, app, history>>

-----------------------------------------------------------------------------
(* handlers.yaml *)

Handle(name) == pc = "handlers" /\ plan # <<>> /\ Head(plan) = name
Handled == plan' = Tail(plan) /\ UNCHANGED <<juju, pc, facts, yaml, lost, killed>>

\* Mutant of DumpVars: of the database only the host is kept.
DumpHosts ==
    /\ Handle("vars") /\ Handled
    /\ appVars' = [facts EXCEPT !.mysql = <<@[1]>>]
    /\ UNCHANGED <<create, app, missed>>

\* "dump config", first item.
DumpVars ==
    /\ Handle("vars") /\ Handled
    /\ appVars' = facts
    /\ UNCHANGED <<create, app, missed>>

\* "dump config", second item.
DumpJson ==
    /\ Handle("json") /\ Handled
    /\ create' = facts
    /\ UNCHANGED <<appVars, app, missed>>

\* "stop mesos app": PUT instances 0, which Marathon refuses for an unknown id.
StopMesosApp ==
    /\ Handle("stop") /\ Handled
    /\ app.at # "absent"
    /\ app' = IF app.at = "running" THEN [app EXCEPT !.at = "stopped"] ELSE app
    /\ UNCHANGED <<appVars, create, missed>>

\* Mutant of DeleteMesosApp: status_code: 200.
DeleteKnownApp ==
    /\ Handle("delete") /\ Handled
    /\ app.at # "absent"
    /\ app' = NoApp
    /\ UNCHANGED <<appVars, create, missed>>

\* "delete mesos app": 200 and 404 will do.
DeleteMesosApp ==
    /\ Handle("delete") /\ Handled
    /\ app' = NoApp
    /\ UNCHANGED <<appVars, create, missed>>

\* Mutant of CreateMesosApp: the template asks for an instance at once.
CreateRunning ==
    /\ Handle("create") /\ Handled
    /\ app' \in {app, [at |-> "running", vars |-> create]}
    /\ UNCHANGED <<appVars, create, missed>>

\* "create mesos app": a curl whose exit status is 0 whatever Marathon answers.
CreateMesosApp ==
    /\ Handle("create") /\ Handled
    /\ \/ app.at = "absent" /\ app' = [at |-> "posted", vars |-> create]
       \/ UNCHANGED app
    /\ UNCHANGED <<appVars, create, missed>>

\* "create app instance": PUT instances 1.  It makes up for what was missed.
CreateAppInstance ==
    /\ Handle("instance") /\ Handled
    /\ app.at # "absent"
    /\ app' = [app EXCEPT !.at = "running"]
    /\ missed' = FALSE
    /\ UNCHANGED <<appVars, create>>

\* The hook fails at a handler or after the last.  A handler that fails, after its
\* retries where it has some, was not carried out; or it was, and only the answer was
\* lost, or the process was killed after it: its own action, followed by this one.
HandlerFails ==
    /\ pc = "handlers"
    /\ Fails
    /\ UNCHANGED <<juju, files, app, lost, killed>>

\* The play is over.
HookEnds ==
    /\ pc = "handlers" /\ plan = <<>>
    /\ pc' = IF hook = "stop" THEN "gone" ELSE "idle"
    /\ hook' = NoHook
    /\ facts' = NoVars
    /\ lost' = lost \ {hook}
    /\ UNCHANGED <<model, pending, events, plan, files, app, missed, killed>>

\* The hook's process is killed, or the dump raises an exception, before the handlers
\* (HandlerFails is also their kill).
Kill ==
    /\ pc \in {"open", "dump", "play"} /\ ~killed
    /\ Fails
    /\ killed' = TRUE
    /\ UNCHANGED <<juju, files, app, lost>>

-----------------------------------------------------------------------------
HookProcess == ReadYaml \/ OpenYaml \/ DumpYaml \/ Play \/ HookEnds

Handler == DumpVars \/ DumpJson \/ StopMesosApp \/ DeleteMesosApp \/ CreateMesosApp
           \/ CreateAppInstance

Next ==
    \/ \E c \in Confs : ConfigSet(c)
    \/ \E r \in Relations, d \in Data : RelationSet(r, d)
    \/ UpgradeCharm
    \/ DestroyUnit
    \/ \E h \in Hooks : RunHook(h)
    \/ Resolved
    \/ HookProcess
    \/ Handler
    \/ HandlerFails
    \/ Kill

Spec == Init /\ [][Next]_vars

-----------------------------------------------------------------------------
TypeOK ==
    /\ model \in Vars
    /\ pending \subseteq Hooks
    /\ hook \in Hooks \cup {NoHook}
    /\ events \in 0 .. MaxEvents
    /\ pc \in Pcs
    /\ facts \in Vars
    /\ \A i \in DOMAIN plan : plan[i] \in HandlerNames
    /\ yaml \in {"missing", "empty", "full"}
    /\ appVars \in Vars
    /\ create \in Vars
    /\ app \in [at : {"absent", "posted", "running", "stopped"}, vars : Vars]
    /\ missed \in BOOLEAN /\ killed \in BOOLEAN
    /\ lost \subseteq Relations

Quiet == pc = "idle" /\ pending = {}

\* When all hooks have run, whatever failed and was retried on the way, Marathon
\* runs the application with the configuration, the database host and the balancer
\* of now.  Two things are beyond the charm: a change it recorded before the hook
\* failed, which the retry takes for old news (missed), and relation data that an
\* upgrade of the charm removed from its file (lost).  Concerns the guards of the
\* relations' tasks, "dump config", "restart" and the order of the handlers.
SettledIsCurrent ==
    Quiet /\ ~missed =>
        /\ app.at = "running"
        /\ app.vars.conf = model.conf
        /\ "mysql" \notin lost => app.vars.mysql[1] = model.mysql[1]
        /\ "loadbalancer" \notin lost /\ model.loadbalancer # NoData
               => app.vars.loadbalancer = model.loadbalancer

\* The charm as the monitor-server sees it: Marathon's side of this module through
\* the eyes of MarathonScaler, without its handlers.
Scaler == INSTANCE MarathonScaler WITH
    Handlers <- {}, Apps <- {App}, Slots <- {}, Loads <- {}, ScaleUp <- 0,
    ScaleDown <- 0, ScaleDelay <- 0, IgnoreList <- {}, Redeployed <- {App},
    MaxInstances <- 1, Crashes <- FALSE, MarathonFaults <- TRUE, RedisFaults <- FALSE,
    samples <- <<>>, delay <- {}, up <- TRUE, pc <- <<>>, keys <- <<>>, stats <- <<>>,
    job <- <<>>, target <- <<>>, held <- <<>>, witness <- <<>>,
    deployed <- IF app.at = "absent" THEN {} ELSE {App},
    instances <- [a \in {App} |-> IF app.at = "running" THEN 1 ELSE 0],
    charm <- [a \in {App} |-> CASE app.at = "absent" -> "deleted"
                                 [] app.at = "posted" -> "created"
                                 [] app.at = "running" -> "settled"
                                 [] app.at = "stopped" -> "stopped"]

\* Every change the hooks make to the application, retries after failures included,
\* is a step of the charm that MarathonScaler composes with the scaling handlers.
RedeploysAsTheScalerAssumes == [][Scaler!Redeploy(App)]_(Scaler!marathon)

-----------------------------------------------------------------------------
(* Liveness: Juju runs what is pending, a hook's process runs, the operator resolves *)
(* failed hooks; and what a hook that is retried again and again asks of the disk,   *)
(* of Marathon and of its own end is done at last.                                   *)

\* The n-th step before the end of a hook is done; Marathon takes what is created.
Passes(n) ==
    /\ Len(plan) = n
    /\ HookEnds \/ Handler
    /\ CreateMesosApp => app' # app

Fairness ==
    /\ WF_vars((\E h \in Hooks : RunHook(h)) \/ Resolved \/ HookProcess \/ Handler \/ HandlerFails)
    /\ \A n \in 0 .. 5 : SF_vars(Passes(n))

FairSpec == Spec /\ Fairness

\* What no retry repairs: an empty file of host variables, in the hands of a hook
\* that failed; and a hook stop whose application is already gone.
Stuck == pc = "failed" /\ (yaml = "empty" \/ (hook = "stop" /\ app.at = "absent"))

\* All hooks end, stop included, after failures as well, unless the unit comes to
\* one of the two states that no retry repairs.  One is left behind by a process that
\* is killed while it rewrites the host variables: no later hook can read them.  The
\* other by a redeployment that was missed, or by an earlier run of stop itself, whose
\* DELETE was carried out although the hook then failed: the PUT that comes first
\* fails each time.  In particular a hook killed with the file full, or in a handler,
\* does end when it is retried.
HooksEnd == <>[](pc \in {"idle", "gone"} /\ pending = {}) \/ []<>Stuck
=============================================================================
