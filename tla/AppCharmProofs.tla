--------------------------- MODULE AppCharmProofs ---------------------------
(***************************************************************************)
(* Proofs about AppCharm, for any data of relations and any bound: its     *)
(* types, that its hooks redeploy as MarathonScaler assumes, and that what *)
(* they leave on Marathon when all have run is current.                    *)
(***************************************************************************)
EXTENDS AppCharm, SequenceTheorems, TLAPS

AppType == [at : {"absent", "posted", "running", "stopped"}, vars : Vars]

\* What hooks other than stop notify.
Starting == HandlerNames \ {"stop"}

\* The plan is a sequence, and a stop hook never starts the application again: what
\* it has stopped it deletes before it ends.
PlanInv ==
    /\ plan \in Seq(HandlerNames)
    /\ hook # "stop" => plan \in Seq(Starting)
    /\ pc = "idle" => hook = NoHook
    /\ pc \notin {"idle", "gone"} => hook \in Hooks
    /\ app.at = "stopped" => hook = "stop"
    /\ hook = "stop" /\ pc = "handlers" =>
           /\ plan \in {<<"stop", "delete">>, <<"delete">>, <<>>}
           /\ plan = <<>> => app.at # "stopped"

TypeInv == TypeOK /\ PlanInv

-----------------------------------------------------------------------------
(* Data and plans *)

LEMMA NoVarsType == NoVars \in Vars /\ NoApp \in AppType
BY DEF NoVars, Vars, NoData, Data, NoApp, AppType

LEMMA VarsUpdate ==
    ASSUME NEW v \in Vars, NEW m \in Vars
    PROVE  /\ [v EXCEPT !.conf = m.conf] \in Vars
           /\ \A r \in Relations : [v EXCEPT ![r] = m[r]] \in Vars
<1>1. [v EXCEPT !.conf = m.conf] \in Vars
  BY DEF Vars
<1>2. [v EXCEPT !["mysql"] = m["mysql"]] \in Vars
  BY DEF Vars
<1>3. [v EXCEPT !["loadbalancer"] = m["loadbalancer"]] \in Vars
  BY DEF Vars
<1> QED
  BY <1>1, <1>2, <1>3 DEF Relations

LEMMA VarsSet ==
    ASSUME NEW v \in Vars
    PROVE  /\ \A c \in Confs : [v EXCEPT !.conf = c] \in Vars
           /\ \A r \in Relations, d \in Data : [v EXCEPT ![r] = d] \in Vars
<1>1. \A c \in Confs : [v EXCEPT !.conf = c] \in Vars
  BY DEF Vars
<1>2. \A d \in Data : [v EXCEPT !["mysql"] = d] \in Vars
  BY DEF Vars
<1>3. \A d \in Data : [v EXCEPT !["loadbalancer"] = d] \in Vars
  BY DEF Vars
<1> QED
  BY <1>1, <1>2, <1>3 DEF Relations

LEMMA PlanTypes ==
    /\ Dump \in Seq(Starting) /\ Restart \in Seq(Starting)
    /\ Dump \o Restart \in Seq(Starting)
    /\ <<"stop", "delete">> \in Seq(HandlerNames)
    /\ <<>> \in Seq(Starting) /\ <<>> \in Seq(HandlerNames)
    /\ \A p \in Seq(Starting) : p \in Seq(HandlerNames)
<1>1. Dump \in Seq(Starting) /\ Restart \in Seq(Starting)
  BY DEF Dump, Restart, Starting, HandlerNames
<1>2. Dump \o Restart \in Seq(Starting)
  BY <1>1
<1>3. <<"stop", "delete">> \in Seq(HandlerNames)
  BY DEF HandlerNames
<1>4. \A p \in Seq(Starting) : p \in Seq(HandlerNames)
  BY DEF Starting
<1> QED
  BY <1>1, <1>2, <1>3, <1>4

LEMMA NotifiedType ==
    ASSUME NEW h, NEW old
    PROVE  /\ Notified(h, old) \in Seq(HandlerNames)
           /\ h # "stop" => Notified(h, old) \in Seq(Starting)
           /\ h = "stop" => Notified(h, old) = <<"stop", "delete">>
BY PlanTypes DEF Notified, Relations

LEMMA AppUpdate ==
    ASSUME NEW a \in AppType, NEW s \in {"absent", "posted", "running", "stopped"}
    PROVE  [a EXCEPT !.at = s] \in AppType /\ [a EXCEPT !.at = s].at = s
BY DEF AppType

-----------------------------------------------------------------------------
(* Type correctness *)

LEMMA InitTypeInv == Init => TypeInv
<1> SUFFICES ASSUME Init PROVE TypeInv
  OBVIOUS
<1>1. model \in Vars
  <2>1. PICK c \in Confs : model = [NoVars EXCEPT !.conf = c]
    BY DEF Init
  <2> QED
    BY <2>1, NoVarsType, VarsSet
<1>2. /\ app = NoApp /\ app.at = "absent" /\ app \in AppType
      /\ facts \in Vars /\ appVars \in Vars /\ create \in Vars
  BY NoVarsType DEF Init, NoApp
<1>3. PlanInv
  BY <1>2, PlanTypes DEF Init, PlanInv
<1>4. \A i \in DOMAIN plan : plan[i] \in HandlerNames
  BY <1>3 DEF PlanInv
<1>5. hook \in Hooks \cup {NoHook} /\ pending \subseteq Hooks /\ lost \subseteq Relations
  BY DEF Init, Hooks
<1>6. events \in 0 .. MaxEvents
  BY MaxEventsAssumption DEF Init
<1>7. /\ yaml = "missing" /\ pc = "idle" /\ missed = FALSE /\ killed = FALSE
  BY DEF Init
<1> QED
  BY <1>1, <1>2, <1>3, <1>4, <1>5, <1>6, <1>7
     DEF TypeInv, TypeOK, Pcs, AppType

LEMMA JujuTypeInv ==
    ASSUME TypeInv,
           \/ \E c \in Confs : ConfigSet(c)
           \/ \E r \in Relations, d \in Data : RelationSet(r, d)
           \/ UpgradeCharm \/ DestroyUnit \/ Resolved
           \/ \E h \in Hooks : RunHook(h)
    PROVE  TypeInv'
<1> USE MaxEventsAssumption DEF TypeInv, TypeOK, PlanInv, Between, juju, files, history, Hooks, Pcs
<1>1. ASSUME NEW c \in Confs, ConfigSet(c)
      PROVE  TypeInv'
  <2>1. model' \in Vars
    BY <1>1, VarsSet DEF ConfigSet
  <2> QED
    BY <1>1, <2>1 DEF ConfigSet
<1>2. ASSUME NEW r \in Relations, NEW d \in Data, RelationSet(r, d)
      PROVE  TypeInv'
  <2>1. model' \in Vars
    BY <1>2, VarsSet DEF RelationSet
  <2>2. pending' \subseteq Hooks /\ events' \in 0 .. MaxEvents
    BY <1>2 DEF RelationSet
  <2>3. UNCHANGED <<hook, pc, facts, plan, files, app, history>>
    BY <1>2 DEF RelationSet
  <2> QED
    BY <2>1, <2>2, <2>3
<1>3. CASE UpgradeCharm
  BY <1>3, NoVarsType DEF UpgradeCharm
<1>4. CASE DestroyUnit
  BY <1>4 DEF DestroyUnit
<1>5. CASE Resolved
  BY <1>5 DEF Resolved
<1>6. ASSUME NEW h \in Hooks, RunHook(h)
      PROVE  TypeInv'
  <2>1. app.at # "stopped" /\ plan \in Seq(Starting)
    BY <1>6 DEF RunHook, NoHook
  <2>2. /\ hook' = h /\ pc' = "read" /\ pending' \subseteq Hooks
        /\ UNCHANGED <<model, events, facts, plan, files, app, history>>
    BY <1>6 DEF RunHook
  <2>3. PlanInv'
    BY <2>1, <2>2
  <2> QED
    BY <2>2, <2>3
<1> QED
  BY <1>1, <1>2, <1>3, <1>4, <1>5, <1>6

LEMMA FailsTypeInv ==
    ASSUME TypeInv, Fails, pc \notin {"idle", "gone"}, yaml' \in {"missing", "empty", "full"},
           killed' \in BOOLEAN, UNCHANGED <<juju, appVars, create, app, lost>>
    PROVE  TypeInv'
<1>1. missed' \in BOOLEAN
  <2>1. missed' = (missed \/ Missed)
    BY Zenon DEF Fails
  <2> QED
    BY <2>1, Zenon
<1>2. /\ facts' \in Vars /\ pc' = "failed" /\ plan' = <<>>
      /\ plan' \in Seq(HandlerNames) /\ plan' \in Seq(Starting)
  BY NoVarsType, PlanTypes DEF Fails
<1>3. \A i \in DOMAIN plan' : plan'[i] \in HandlerNames
  BY <1>2
<1> QED
  BY <1>1, <1>2, <1>3 DEF TypeInv, TypeOK, PlanInv, juju, Pcs

LEMMA HookTypeInv ==
    ASSUME TypeInv, HookProcess
    PROVE  TypeInv'
<1>1. CASE ReadYaml
  <2>1. CASE yaml # "empty"
    BY <1>1, <2>1 DEF ReadYaml, TypeInv, TypeOK, PlanInv, juju, Pcs, NoHook
  <2>2. CASE yaml = "empty"
    BY <1>1, <2>2, FailsTypeInv DEF ReadYaml, TypeInv, TypeOK
  <2> QED
    BY <2>1, <2>2
<1>2. CASE OpenYaml
  BY <1>2 DEF OpenYaml, TypeInv, TypeOK, PlanInv, juju, history, Pcs
<1>3. CASE DumpYaml
  BY <1>3 DEF DumpYaml, TypeInv, TypeOK, PlanInv, juju, history, Pcs
<1>4. CASE Play
  <2>1. facts' \in Vars
    BY <1>4, VarsUpdate DEF Play, TypeInv, TypeOK
  <2>2. /\ plan' \in Seq(HandlerNames) /\ (hook # "stop" => plan' \in Seq(Starting))
        /\ (hook = "stop" => plan' = <<"stop", "delete">>)
    BY <1>4, NotifiedType DEF Play
  <2>3. \A i \in DOMAIN plan' : plan'[i] \in HandlerNames
    BY <2>2
  <2> QED
    BY <1>4, <2>1, <2>2, <2>3 DEF Play, TypeInv, TypeOK, PlanInv, juju, files, history, Pcs
<1>5. CASE HookEnds
  <2>1. app.at # "stopped"
    BY <1>5 DEF HookEnds, TypeInv, PlanInv
  <2> QED
    BY <1>5, <2>1, NoVarsType
       DEF HookEnds, TypeInv, TypeOK, PlanInv, files, Pcs, NoHook, Hooks, Relations
<1> QED
  BY <1>1, <1>2, <1>3, <1>4, <1>5 DEF HookProcess

\* A handler is done: its place in the plan of a stop hook is known.
LEMMA HandledPlan ==
    ASSUME TypeInv, NEW name, Handle(name), Handled
    PROVE  /\ plan' \in Seq(HandlerNames)
           /\ \A i \in DOMAIN plan' : plan'[i] \in HandlerNames
           /\ hook # "stop" => plan' \in Seq(Starting) /\ name \in Starting
           /\ hook = "stop" =>
                \/ name = "stop" /\ plan' = <<"delete">>
                \/ name = "delete" /\ plan' = <<>>
<1>1. plan' = Tail(plan) /\ plan # <<>> /\ Head(plan) = name /\ pc = "handlers"
  BY DEF Handle, Handled
<1>2. plan' \in Seq(HandlerNames)
  BY <1>1 DEF TypeInv, PlanInv
<1>3. \A i \in DOMAIN plan' : plan'[i] \in HandlerNames
  BY <1>2
<1>5. hook # "stop" => plan' \in Seq(Starting) /\ name \in Starting
  BY <1>1 DEF TypeInv, PlanInv
<1>4. ASSUME hook = "stop"
      PROVE  \/ name = "stop" /\ plan' = <<"delete">>
             \/ name = "delete" /\ plan' = <<>>
  <2>1. CASE plan = <<"stop", "delete">>
    BY <1>1, <2>1
  <2>2. CASE plan = <<"delete">>
    BY <1>1, <2>2
  <2> QED
    BY <1>1, <1>4, <2>1, <2>2 DEF TypeInv, PlanInv
<1> QED
  BY <1>2, <1>3, <1>4, <1>5

LEMMA OnlyStopStops ==
    ASSUME TypeInv, Handle("stop")
    PROVE  hook = "stop"
<1> SUFFICES ASSUME hook # "stop" PROVE FALSE
  OBVIOUS
<1>1. plan \in Seq(Starting) /\ plan # <<>> /\ Head(plan) = "stop"
  BY DEF TypeInv, PlanInv, Handle
<1>2. Head(plan) \in Starting
  BY <1>1
<1> QED
  BY <1>1, <1>2 DEF Starting

LEMMA HandlerTypeInv ==
    ASSUME TypeInv, Handler
    PROVE  TypeInv'
<1> USE DEF TypeInv, TypeOK, PlanInv, Handled, Handle, juju
<1>t. app \in AppType
  BY DEF AppType
<1>1. CASE DumpVars
  BY <1>1, HandledPlan DEF DumpVars
<1>2. CASE DumpJson
  BY <1>2, HandledPlan DEF DumpJson
<1>3. CASE StopMesosApp
  <2>1. app' \in AppType
    BY <1>3, <1>t, AppUpdate DEF StopMesosApp
  <2>2. hook = "stop" => plan' = <<"delete">>
    BY <1>3, HandledPlan DEF StopMesosApp
  <2>3. hook = "stop"
    BY <1>3, OnlyStopStops DEF StopMesosApp
  <2> QED
    BY <1>3, <2>1, <2>2, <2>3, HandledPlan DEF StopMesosApp, AppType
<1>4. CASE DeleteMesosApp
  BY <1>4, HandledPlan, NoVarsType DEF DeleteMesosApp, AppType, NoApp
<1>5. CASE CreateMesosApp
  <2>1. app' \in AppType /\ app'.at = "stopped" => app' = app
    BY <1>5, <1>t DEF CreateMesosApp, AppType
  <2> QED
    BY <1>5, <2>1, HandledPlan DEF CreateMesosApp, AppType
<1>6. CASE CreateAppInstance
  <2>1. app' \in AppType /\ app'.at = "running"
    BY <1>6, <1>t, AppUpdate DEF CreateAppInstance
  <2> QED
    BY <1>6, <2>1, HandledPlan DEF CreateAppInstance, AppType
<1> QED
  BY <1>1, <1>2, <1>3, <1>4, <1>5, <1>6 DEF Handler

LEMMA FailingTypeInv ==
    ASSUME TypeInv, HandlerFails \/ Kill
    PROVE  TypeInv'
<1>1. CASE HandlerFails
  <2>1. /\ Fails /\ pc \notin {"idle", "gone"} /\ UNCHANGED <<juju, appVars, create, app, lost>>
        /\ yaml' = yaml /\ killed' = killed
    BY <1>1 DEF HandlerFails, files
  <2> QED
    BY <2>1, FailsTypeInv DEF TypeInv, TypeOK
<1>2. CASE Kill
  <2>1. /\ Fails /\ pc \notin {"idle", "gone"} /\ UNCHANGED <<juju, appVars, create, app, lost>>
        /\ yaml' = yaml /\ killed' = TRUE
    BY <1>2 DEF Kill, files
  <2> QED
    BY <2>1, FailsTypeInv DEF TypeInv, TypeOK
<1> QED
  BY <1>1, <1>2

LEMMA StepTypeInv == TypeInv /\ [Next]_vars => TypeInv'
<1> SUFFICES ASSUME TypeInv, [Next]_vars PROVE TypeInv'
  OBVIOUS
<1>1. CASE UNCHANGED vars
  BY <1>1 DEF vars, juju, files, history, TypeInv, TypeOK, PlanInv
<1>2. CASE Next
  BY <1>2, JujuTypeInv, HookTypeInv, HandlerTypeInv, FailingTypeInv DEF Next
<1> QED
  BY <1>1, <1>2

LEMMA TypeInvariant == Spec => []TypeInv
BY InitTypeInv, StepTypeInv, PTL DEF Spec

\* Every variable of Juju, the hook's process, the charm's files and Marathon keeps
\* its type.
THEOREM TypeCorrect == Spec => []TypeOK
BY TypeInvariant, PTL DEF TypeInv

-----------------------------------------------------------------------------
(* Refinement: what MarathonScaler assumes of a charm *)

\* The state of an application, as MarathonScaler has it.
LEMMA Mapping ==
    ASSUME TypeInv, TypeInv', Handler \/ UNCHANGED app
    PROVE  [Scaler!Redeploy(App)]_(Scaler!marathon)
<1> USE DEF Scaler!Redeploy, Scaler!marathon, Scaler!work
<1>t. app \in AppType /\ app' \in AppType
  BY DEF TypeInv, TypeOK, AppType
<1>1. CASE UNCHANGED app
  BY <1>1
<1>2. CASE StopMesosApp /\ app' # app
  <2>1. app.at = "running" /\ app'.at = "stopped"
    BY <1>2, <1>t, AppUpdate DEF StopMesosApp
  <2> QED
    BY <2>1 DEF Scaler!StopApp
<1>3. CASE DeleteMesosApp
  <2>1. app'.at = "absent"
    BY <1>3 DEF DeleteMesosApp, NoApp
  <2> QED
    BY <2>1 DEF Scaler!DeleteApp
<1>4. CASE CreateMesosApp /\ app' # app
  <2>1. app.at = "absent" /\ app'.at = "posted"
    BY <1>4 DEF CreateMesosApp
  <2> QED
    BY <2>1 DEF Scaler!CreateApp
<1>5. CASE CreateAppInstance
  <2>1. app.at \in {"posted", "running"} /\ app'.at = "running"
    <3>1. app.at # "stopped"
      BY <1>5, HandledPlan DEF CreateAppInstance, TypeInv, PlanInv
    <3> QED
      BY <1>5, <1>t, <3>1, AppUpdate DEF CreateAppInstance, AppType
  <2> QED
    BY <2>1 DEF Scaler!StartApp
<1> QED
  BY <1>1, <1>2, <1>3, <1>4, <1>5 DEF Handler, DumpVars, DumpJson

LEMMA OnlyHandlersDeploy ==
    ASSUME TypeInv, [Next]_vars, ~Handler
    PROVE  UNCHANGED app
BY DEF Next, vars, ConfigSet, RelationSet, UpgradeCharm, DestroyUnit, RunHook, Resolved,
   HookProcess, ReadYaml, OpenYaml, DumpYaml, Play, HookEnds, HandlerFails, Kill

\* Whatever hooks, failures and upgrades do, Marathon's side moves as the charm that
\* MarathonScaler composes with its handlers.
THEOREM RedeploysAsAssumed == Spec => RedeploysAsTheScalerAssumes
<1>1. TypeInv /\ TypeInv' /\ [Next]_vars => [Scaler!Redeploy(App)]_(Scaler!marathon)
  <2> SUFFICES ASSUME TypeInv, TypeInv', [Next]_vars
               PROVE  [Scaler!Redeploy(App)]_(Scaler!marathon)
    OBVIOUS
  <2>1. Handler \/ UNCHANGED app
    BY OnlyHandlersDeploy
  <2> QED
    BY <2>1, Mapping
<1> QED
  BY <1>1, TypeInvariant, PTL DEF Spec, RedeploysAsTheScalerAssumes

-----------------------------------------------------------------------------
(* The course of a hook: how far it is in its handlers *)

Redeploying == Relations \cup {"config-changed"}

Full == <<"vars", "json", "delete", "create", "instance">>
FromJson == <<"json", "delete", "create", "instance">>
FromCreate == <<"create", "instance">>
FromInstance == <<"instance">>
JsonOnly == <<"json">>
StopAll == <<"stop", "delete">>
DeleteOnly == <<"delete">>

\* What may be left of the plan of a hook; nothing of any.
Plans(h) ==
    CASE h = "install" -> {Dump, JsonOnly, <<>>}
      [] h \in Redeploying -> {Full, FromJson, Restart, FromCreate, FromInstance, <<>>}
      [] h = "start" -> {Restart, FromCreate, FromInstance, <<>>}
      [] h = "stop" -> {StopAll, DeleteOnly, <<>>}
      [] OTHER -> {<<>>}

CourseInv ==
    /\ pc # "handlers" => plan = <<>>
    /\ plan \in Plans(hook)

LEMMA PlanSteps ==
    /\ Dump \o Restart = Full
    /\ Head(Full) = "vars" /\ Tail(Full) = FromJson
    /\ Head(FromJson) = "json" /\ Tail(FromJson) = Restart
    /\ Head(Restart) = "delete" /\ Tail(Restart) = FromCreate
    /\ Head(FromCreate) = "create" /\ Tail(FromCreate) = FromInstance
    /\ Head(FromInstance) = "instance" /\ Tail(FromInstance) = <<>>
    /\ Head(Dump) = "vars" /\ Tail(Dump) = JsonOnly
    /\ Head(JsonOnly) = "json" /\ Tail(JsonOnly) = <<>>
    /\ Head(StopAll) = "stop" /\ Tail(StopAll) = DeleteOnly
    /\ Head(DeleteOnly) = "delete" /\ Tail(DeleteOnly) = <<>>
<1>1. Dump \o Restart = Full
  <2>1. /\ Dump \in Seq(HandlerNames) /\ Restart \in Seq(HandlerNames)
        /\ Full \in Seq(HandlerNames)
        /\ Len(Dump) = 2 /\ Len(Restart) = 3 /\ Len(Full) = 5
        /\ \A i \in 1 .. 2 : Full[i] = Dump[i]
        /\ \A i \in 3 .. 5 : Full[i] = Restart[i - 2]
    BY DEF Dump, Restart, Full, HandlerNames
  <2>2. /\ Dump \o Restart \in Seq(HandlerNames)
        /\ Len(Dump \o Restart) = Len(Dump) + Len(Restart)
        /\ \A i \in 1 .. Len(Dump) + Len(Restart) :
              (Dump \o Restart)[i] = IF i <= Len(Dump) THEN Dump[i] ELSE Restart[i - Len(Dump)]
    BY <2>1, ConcatProperties, Zenon
  <2>3. \A i \in 1 .. 5 : (Dump \o Restart)[i] = Full[i]
    BY <2>1, <2>2
  <2> QED
    BY <2>1, <2>2, <2>3, SeqEqual
<1>2. /\ Head(Full) = "vars" /\ Tail(Full) = FromJson
      /\ Head(FromJson) = "json" /\ Tail(FromJson) = Restart
  BY DEF Full, FromJson, Restart
<1>3. /\ Head(Restart) = "delete" /\ Tail(Restart) = FromCreate
      /\ Head(FromCreate) = "create" /\ Tail(FromCreate) = FromInstance
      /\ Head(FromInstance) = "instance" /\ Tail(FromInstance) = <<>>
  BY DEF Restart, FromCreate, FromInstance
<1>4. /\ Head(Dump) = "vars" /\ Tail(Dump) = JsonOnly
      /\ Head(JsonOnly) = "json" /\ Tail(JsonOnly) = <<>>
  BY DEF Dump, JsonOnly
<1>5. /\ Head(StopAll) = "stop" /\ Tail(StopAll) = DeleteOnly
      /\ Head(DeleteOnly) = "delete" /\ Tail(DeleteOnly) = <<>>
  BY DEF StopAll, DeleteOnly
<1> QED
  BY <1>1, <1>2, <1>3, <1>4, <1>5

LEMMA PlansDiffer ==
    /\ <<>> \notin {Full, FromJson, Restart, FromCreate, FromInstance, Dump, JsonOnly}
    /\ Full \notin {FromJson, Restart, FromCreate, FromInstance, JsonOnly}
    /\ FromJson \notin {Restart, FromCreate, FromInstance, Dump, JsonOnly}
    /\ Restart \notin {FromCreate, FromInstance, Dump, JsonOnly}
    /\ FromCreate \notin {FromInstance, Dump, JsonOnly}
    /\ FromInstance \notin {Dump, JsonOnly}
    /\ Dump # JsonOnly
    /\ {StopAll, DeleteOnly} \cap {Full, FromJson, Restart, FromCreate, FromInstance} = {}
BY DEF Dump, Restart, Full, FromJson, FromCreate, FromInstance, JsonOnly, StopAll, DeleteOnly

LEMMA PlansOf ==
    /\ Plans("install") = {Dump, JsonOnly, <<>>}
    /\ \A h \in Redeploying :
          Plans(h) = {Full, FromJson, Restart, FromCreate, FromInstance, <<>>}
    /\ Plans("start") = {Restart, FromCreate, FromInstance, <<>>}
    /\ Plans("stop") = {StopAll, DeleteOnly, <<>>}
    /\ \A h : h \notin Redeploying \cup {"install", "start", "stop"} => Plans(h) = {<<>>}
<1> USE DEF Plans, Redeploying, Relations
<1>1. Plans("install") = {Dump, JsonOnly, <<>>}
  OBVIOUS
<1>2. \A h \in Redeploying :
          Plans(h) = {Full, FromJson, Restart, FromCreate, FromInstance, <<>>}
  OBVIOUS
<1>3. Plans("start") = {Restart, FromCreate, FromInstance, <<>>}
  OBVIOUS
<1>4. Plans("stop") = {StopAll, DeleteOnly, <<>>}
  OBVIOUS
<1>5. \A h : h \notin Redeploying \cup {"install", "start", "stop"} => Plans(h) = {<<>>}
  OBVIOUS
<1> QED
  BY <1>1, <1>2, <1>3, <1>4, <1>5

\* Where a handler stands in its hook, and what comes after it.
LEMMA HandlerPlace ==
    ASSUME CourseInv, NEW name, Handle(name), plan' = Tail(plan), UNCHANGED hook
    PROVE  /\ plan' \in Plans(hook)
           /\ name = "vars" =>
                \/ hook \in Redeploying /\ plan = Full /\ plan' = FromJson
                \/ hook = "install" /\ plan = Dump /\ plan' = JsonOnly
           /\ name = "json" =>
                \/ hook \in Redeploying /\ plan = FromJson /\ plan' = Restart
                \/ hook = "install" /\ plan = JsonOnly /\ plan' = <<>>
           /\ name = "stop" => hook = "stop"
           /\ name = "delete" =>
                \/ hook \in Redeploying \cup {"start"} /\ plan = Restart /\ plan' = FromCreate
                \/ hook = "stop"
           /\ name = "create" =>
                hook \in Redeploying \cup {"start"} /\ plan = FromCreate /\ plan' = FromInstance
           /\ name = "instance" =>
                hook \in Redeploying \cup {"start"} /\ plan = FromInstance /\ plan' = <<>>
<1>1. plan # <<>> /\ Head(plan) = name /\ plan \in Plans(hook)
  BY DEF Handle, CourseInv
<1>2. CASE hook = "install"
  BY <1>1, <1>2, PlanSteps, PlansOf
<1>3. CASE hook \in Redeploying
  <2>1. hook # "install" /\ hook # "start"
    BY <1>3 DEF Redeploying, Relations
  <2>2. plan \in {Full, FromJson, Restart, FromCreate, FromInstance}
    BY <1>1, <1>3, <2>1, PlansOf
  <2>3. plan' \in {FromJson, Restart, FromCreate, FromInstance, <<>>}
    BY <2>2, PlanSteps
  <2>4. plan' \in Plans(hook)
    BY <1>3, <2>1, <2>3, PlansOf
  <2>5. \/ name = "vars" /\ plan = Full /\ plan' = FromJson
        \/ name = "json" /\ plan = FromJson /\ plan' = Restart
        \/ name = "delete" /\ plan = Restart /\ plan' = FromCreate
        \/ name = "create" /\ plan = FromCreate /\ plan' = FromInstance
        \/ name = "instance" /\ plan = FromInstance /\ plan' = <<>>
    BY <1>1, <2>2, PlanSteps
  <2> QED
    BY <1>3, <2>4, <2>5
<1>4. CASE hook = "start"
  <2>1. hook \notin Redeploying
    BY <1>4 DEF Redeploying, Relations
  <2>2. plan \in {Restart, FromCreate, FromInstance}
    BY <1>1, <1>4, <2>1, PlansOf
  <2>3. plan' \in {FromCreate, FromInstance, <<>>}
    BY <2>2, PlanSteps
  <2>4. plan' \in Plans(hook)
    BY <1>4, <2>1, <2>3, PlansOf
  <2>5. \/ name = "delete" /\ plan = Restart /\ plan' = FromCreate
        \/ name = "create" /\ plan = FromCreate /\ plan' = FromInstance
        \/ name = "instance" /\ plan = FromInstance /\ plan' = <<>>
    BY <1>1, <2>2, PlanSteps
  <2> QED
    BY <1>4, <2>4, <2>5
<1>5. CASE hook = "stop"
  <2>1. hook \notin Redeploying
    BY <1>5 DEF Redeploying, Relations
  <2> QED
    BY <1>1, <1>5, <2>1, PlanSteps, PlansOf
<1>6. CASE hook \notin Redeploying \cup {"install", "start", "stop"}
  BY <1>1, <1>6, PlansOf
<1> QED
  BY <1>2, <1>3, <1>4, <1>5, <1>6

LEMMA PlanOfHook ==
    ASSUME NEW h, NEW old
    PROVE  /\ Notified(h, old) \in Plans(h)
           /\ h = "config-changed" => Notified(h, old) = Full
           /\ h \in Relations => Notified(h, old) = IF Differs(h, model[h], old[h]) THEN Full ELSE <<>>
           /\ h = "install" => Notified(h, old) = Dump
           /\ h = "start" => Notified(h, old) = Restart
           /\ h = "upgrade-charm" => Notified(h, old) = <<>>
           /\ h = "stop" => Notified(h, old) = StopAll
BY PlanSteps DEF Notified, Plans, Redeploying, Relations, StopAll

LEMMA NothingPlanned == \A h : <<>> \in Plans(h)
BY DEF Plans

-----------------------------------------------------------------------------
(* What settles *)

\* Data that the charm takes for the relation's: of the database it compares the host,
\* and an empty host of a balancer it ignores.
Agrees(r, d, m) == IF r = "mysql" THEN d[1] = m[1] ELSE m = NoData \/ d = m

\* start comes before the relations' hooks, and config-changed after install.
OrderInv ==
    /\ hook \in Relations => "start" \notin pending
    /\ "start" \in pending \/ hook = "start" => ~missed
    /\ "install" \in pending \/ hook = "install" => "config-changed" \in pending

\* The variables of a play: what the hook is about from Juju, the rest from appVars.
FactsInv ==
    pc = "handlers" =>
        /\ facts.conf = IF hook = "config-changed" THEN model.conf ELSE appVars.conf
        /\ \A r \in Relations : IF hook = r THEN Agrees(r, facts[r], model[r])
                                            ELSE facts[r] = appVars[r]
        /\ plan \in {Full, Dump} \/ appVars = facts

\* appVars is behind the model only where a hook is due or runs, or an upgrade was.
KeptInv ==
    /\ "config-changed" \in pending \/ hook = "config-changed" \/ appVars.conf = model.conf
    /\ \A r \in Relations : r \in pending \/ hook = r \/ r \in lost
                            \/ Agrees(r, appVars[r], model[r])

\* create.json is behind appVars only if config-changed is due or has not come to it, or
\* a relation's hook is there, or was.
JsonInv ==
    /\ \/ create = appVars
       \/ "config-changed" \in pending
       \/ hook = "config-changed" /\ (pc # "handlers" \/ plan \in {Full, FromJson})
       \/ missed
       \/ hook \in Relations /\ plan = FromJson
    /\ hook # "start" /\ plan \in {Restart, FromCreate, FromInstance} => create = appVars

Redeploys == {FromJson, Restart, FromCreate, FromInstance}

\* The application is behind create.json only if a hook that redeploys it is due or has
\* not ended, or did not end well.
DeployInv ==
    /\ \/ app.at = "running" /\ app.vars = create
       \/ {"start", "config-changed", "stop"} \cap pending # {}
       \/ hook \in {"start", "config-changed"} /\ (pc # "handlers" \/ plan # <<>>)
       \/ missed
       \/ hook \in Relations /\ plan \in Redeploys
       \/ hook = "stop" \/ pc = "gone"
    /\ plan = FromCreate => app.at = "absent"
    /\ plan = FromInstance => app.at = "absent" \/ app.vars = create

SettleInv == TypeInv /\ CourseInv /\ OrderInv /\ FactsInv /\ KeptInv /\ JsonInv /\ DeployInv

LEMMA Changed ==
    ASSUME NEW v \in Vars
    PROVE  /\ \A c : [v EXCEPT !.conf = c].conf = c
           /\ \A c : \A r \in Relations : [v EXCEPT !.conf = c][r] = v[r]
           /\ \A d : \A r \in Relations : [v EXCEPT ![r] = d].conf = v.conf
           /\ \A d : \A r \in Relations : [v EXCEPT ![r] = d][r] = d
           /\ \A d : \A r \in Relations, s \in Relations :
                 s # r => [v EXCEPT ![r] = d][s] = v[s]
<1>1. \A c : [v EXCEPT !.conf = c].conf = c
  BY DEF Vars
<1>2. \A c : \A r \in Relations : [v EXCEPT !.conf = c][r] = v[r]
  BY DEF Vars, Relations
<1>3. \A d : \A r \in Relations : [v EXCEPT ![r] = d].conf = v.conf
  BY DEF Vars, Relations
<1>4. \A d : \A r \in Relations : [v EXCEPT ![r] = d][r] = d
  BY DEF Vars, Relations
<1>5. \A d : \A r \in Relations, s \in Relations : s # r => [v EXCEPT ![r] = d][s] = v[s]
  BY DEF Vars, Relations
<1> QED
  BY <1>1, <1>2, <1>3, <1>4, <1>5

LEMMA DataOf == \A v \in Vars, r \in Relations : v[r] \in Data
BY DEF Vars, Relations

LEMMA HostOfData == \A d \in Data : d[1] = Empty => d = NoData
BY EmptyAssumption DEF Data, NoData

LEMMA AgreesWithItself == \A r, d : Agrees(r, d, d)
BY DEF Agrees

\* What the guard of a relation's task lets pass for old news is.
LEMMA OldNews ==
    ASSUME NEW r \in Relations, NEW d \in Data, NEW old, ~Differs(r, d, old)
    PROVE  Agrees(r, old, d)
BY HostOfData DEF Differs, Agrees, Relations

LEMMA HooksDiffer ==
    /\ NoHook \notin Hooks
    /\ Relations \cap {"install", "config-changed", "start", "upgrade-charm", "stop"} = {}
    /\ Relations \subseteq Hooks /\ Relations \subseteq Redeploying
BY DEF NoHook, Hooks, Relations, Redeploying

\* The first handler of a plan.
LEMMA HeadOfPlan ==
    ASSUME NEW name, Handle(name)
    PROVE  /\ plan \in {Full, Dump} => name = "vars"
           /\ plan \in {FromJson, JsonOnly} => name = "json"
           /\ plan \in {Restart, DeleteOnly} => name = "delete"
           /\ plan = FromCreate => name = "create"
           /\ plan = FromInstance => name = "instance"
           /\ plan = StopAll => name = "stop"
BY PlanSteps DEF Handle

-----------------------------------------------------------------------------
(* Juju's steps *)

LEMMA InitSettleInv == Init => SettleInv
<1> SUFFICES ASSUME Init PROVE SettleInv
  OBVIOUS
<1>1. TypeInv
  BY InitTypeInv
<1>2. plan = <<>> /\ hook = NoHook /\ pc = "idle" /\ lost = {} /\ missed = FALSE
      /\ appVars = NoVars /\ create = NoVars
      /\ pending = {"install", "config-changed", "start"}
  BY DEF Init
<1>3. CourseInv
  BY <1>2, NothingPlanned DEF CourseInv
<1>4. OrderInv
  BY <1>2, HooksDiffer DEF OrderInv, Hooks
<1>5. FactsInv
  BY <1>2 DEF FactsInv
<1>6. KeptInv
  <2>1. ASSUME NEW r \in Relations
        PROVE  Agrees(r, appVars[r], model[r])
    <3>1. PICK c \in Confs : model = [NoVars EXCEPT !.conf = c]
      BY DEF Init
    <3>2. model[r] = NoVars[r]
      BY <3>1, NoVarsType, Changed
    <3> QED
      BY <1>2, <3>2, AgreesWithItself
  <2> QED
    BY <1>2, <2>1 DEF KeptInv
<1>7. JsonInv /\ DeployInv
  BY <1>2, PlansDiffer DEF JsonInv, DeployInv
<1> QED
  BY <1>1, <1>3, <1>4, <1>5, <1>6, <1>7 DEF SettleInv

\* Where no hook's process runs, nothing is planned.
LEMMA BetweenHooks ==
    ASSUME SettleInv, pc \in {"idle", "failed"}
    PROVE  /\ plan = <<>> /\ plan \notin {Full, FromJson, Restart, FromCreate, FromInstance}
           /\ pc # "handlers" /\ pc # "gone"
           /\ pc = "idle" => hook = NoHook /\ hook \notin Hooks
BY PlansDiffer, HooksDiffer DEF SettleInv, CourseInv, TypeInv, PlanInv

\* A change of the model, or an upgrade, is followed by the hooks it asks for.
LEMMA ModelSettleInv ==
    ASSUME SettleInv, TypeInv',
           \/ \E c \in Confs : ConfigSet(c)
           \/ \E r \in Relations, d \in Data : RelationSet(r, d)
           \/ UpgradeCharm
    PROVE  SettleInv'
<1>1. /\ pending \subseteq pending' /\ pending' \subseteq pending \cup (Relations
            \cup {"config-changed", "upgrade-charm"})
      /\ pc \in {"idle", "failed"}
      /\ UNCHANGED <<hook, pc, facts, plan, create, app, missed>>
      /\ "config-changed" \notin pending' => appVars' = appVars
  BY DEF ConfigSet, RelationSet, UpgradeCharm, Between, files, history
<1>2. /\ plan = <<>> /\ plan \notin {Full, FromJson, Restart, FromCreate, FromInstance}
      /\ pc # "handlers" /\ pc # "gone"
  BY <1>1, BetweenHooks
<1>3. CourseInv'
  BY <1>1 DEF SettleInv, CourseInv, Plans
<1>4. OrderInv'
  BY <1>1, HooksDiffer DEF SettleInv, OrderInv
<1>5. FactsInv'
  BY <1>1, <1>2 DEF FactsInv
<1>6. KeptInv'
  <2>1. ASSUME NEW c \in Confs, ConfigSet(c)
        PROVE  KeptInv'
    <3>1. \A r \in Relations : [model EXCEPT !.conf = c][r] = model[r]
      BY Changed DEF SettleInv, TypeInv, TypeOK
    <3>2. \A r \in Relations : model'[r] = model[r]
      BY <2>1, <3>1 DEF ConfigSet
    <3> QED
      BY <2>1, <3>2 DEF ConfigSet, files, history, SettleInv, KeptInv
  <2>2. ASSUME NEW r \in Relations, NEW d \in Data, RelationSet(r, d)
        PROVE  KeptInv'
    <3>1. model'.conf = model.conf /\ \A s \in Relations : s # r => model'[s] = model[s]
      BY <2>2, Changed DEF RelationSet, SettleInv, TypeInv, TypeOK
    <3>2. r \in pending' /\ UNCHANGED <<hook, appVars, lost>> /\ pending \subseteq pending'
      BY <2>2 DEF RelationSet, files, history
    <3> QED
      BY <3>1, <3>2 DEF SettleInv, KeptInv
  <2>3. CASE UpgradeCharm
    <3>1. \A r \in Relations : NoVars[r] = NoData
      BY DEF NoVars, Relations
    <3>2. ASSUME NEW r \in Relations, r \notin lost'
          PROVE  Agrees(r, appVars'[r], model'[r])
      BY <2>3, <3>1, <3>2, AgreesWithItself DEF UpgradeCharm
    <3> QED
      BY <2>3, <3>2 DEF UpgradeCharm, KeptInv
  <2> QED
    BY <2>1, <2>2, <2>3
<1>7. JsonInv'
  BY <1>1, <1>2 DEF SettleInv, JsonInv
<1>8. DeployInv'
  BY <1>1, <1>2, Zenon DEF SettleInv, DeployInv, Redeploys
<1> QED
  BY <1>3, <1>4, <1>5, <1>6, <1>7, <1>8 DEF SettleInv

LEMMA DestroySettleInv ==
    ASSUME SettleInv, TypeInv', DestroyUnit
    PROVE  SettleInv'
<1>1. /\ pending = {} /\ pending' = {"stop"} /\ pc = "idle" /\ hook = NoHook
      /\ plan = <<>> /\ hook \notin Relations
      /\ UNCHANGED <<model, hook, pc, facts, plan, appVars, create, app, missed, lost>>
  BY BetweenHooks, HooksDiffer DEF DestroyUnit, Between, files, history
<1>2. CourseInv' /\ OrderInv'
  BY <1>1, HooksDiffer DEF SettleInv, CourseInv, OrderInv, Hooks, Plans
<1>3. FactsInv' /\ KeptInv'
  BY <1>1 DEF SettleInv, FactsInv, KeptInv
<1>4. JsonInv' /\ DeployInv'
  BY <1>1, BetweenHooks DEF SettleInv, JsonInv, DeployInv
<1> QED
  BY <1>2, <1>3, <1>4 DEF SettleInv

\* A hook that was due runs.
LEMMA RunSettleInv ==
    ASSUME SettleInv, TypeInv', NEW h \in Hooks, RunHook(h)
    PROVE  SettleInv'
<1>1. /\ pending' = pending \ {h} /\ h \in pending /\ hook' = h /\ pc = "idle" /\ pc' = "read"
      /\ May(h)
      /\ UNCHANGED <<model, facts, plan, appVars, create, app, missed, lost>>
  BY DEF RunHook, files, history
<1>2. hook = NoHook /\ hook \notin Hooks /\ hook \notin Relations /\ plan = <<>>
      /\ plan \notin {Full, FromJson, Restart, FromCreate, FromInstance}
  BY <1>1, BetweenHooks, HooksDiffer
<1>3. CourseInv'
  BY <1>1, <1>2, NothingPlanned DEF CourseInv
<1>4. OrderInv'
  BY <1>1, <1>2, HooksDiffer DEF SettleInv, OrderInv, May
<1>5. FactsInv'
  BY <1>1 DEF FactsInv
<1>6. KeptInv'
  BY <1>1, <1>2, HooksDiffer DEF SettleInv, KeptInv, Hooks
<1>7. JsonInv'
  BY <1>1, <1>2, HooksDiffer DEF SettleInv, JsonInv, Hooks
<1>8. DeployInv'
  BY <1>1, <1>2, HooksDiffer DEF SettleInv, DeployInv, Hooks
<1> QED
  BY <1>3, <1>4, <1>5, <1>6, <1>7, <1>8 DEF SettleInv

-----------------------------------------------------------------------------
(* The hook's process *)

\* On its way to its handlers a hook changes nothing that settles.
LEMMA MoveSettleInv ==
    ASSUME SettleInv, TypeInv',
           pc \in {"failed", "read", "open", "dump"}, pc' \in {"read", "open", "dump", "play"},
           UNCHANGED <<juju, facts, plan, appVars, create, app, missed, lost>>
    PROVE  SettleInv'
<1>1. UNCHANGED <<model, pending, hook, facts, plan, appVars, create, app, missed, lost>>
  BY DEF juju
<1>2. plan = <<>> /\ plan \notin {Full, FromJson, Restart, FromCreate, FromInstance}
  BY <1>1, PlansDiffer DEF SettleInv, CourseInv
<1>3. CourseInv' /\ OrderInv'
  BY <1>1, <1>2, NothingPlanned DEF SettleInv, CourseInv, OrderInv
<1>4. FactsInv' /\ KeptInv'
  BY <1>1 DEF SettleInv, FactsInv, KeptInv
<1>5. JsonInv' /\ DeployInv'
  BY <1>1, <1>2 DEF SettleInv, JsonInv, DeployInv, Redeploys
<1> QED
  BY <1>3, <1>4, <1>5 DEF SettleInv

\* A hook that fails will be run again; what the retry will not make up for is missed.
LEMMA FailSettleInv ==
    ASSUME SettleInv, TypeInv', Fails, pc \notin {"idle", "gone"},
           UNCHANGED <<juju, appVars, create, app, lost>>
    PROVE  SettleInv'
<1>1. /\ pc' = "failed" /\ plan' = <<>>
      /\ UNCHANGED <<model, pending, hook, appVars, create, app, lost>>
  BY DEF Fails, juju
<1>2. /\ missed => missed'
      /\ missed' => missed \/ Missed
      /\ Missed => missed'
  BY Zenon DEF Fails
<1>3. plan' \notin {Full, FromJson, Restart, FromCreate, FromInstance}
  BY <1>1, PlansDiffer
<1>4. hook \in Relations /\ plan \in Redeploys => missed'
  BY <1>2, PlansDiffer, PlanSteps DEF Missed, Redeploys
<1>5. CourseInv'
  BY <1>1, NothingPlanned DEF CourseInv
<1>6. OrderInv'
  BY <1>1, <1>2, HooksDiffer DEF SettleInv, OrderInv, Missed
<1>7. FactsInv' /\ KeptInv'
  BY <1>1 DEF SettleInv, FactsInv, KeptInv
<1>8. JsonInv'
  BY <1>1, <1>2, <1>3, <1>4 DEF SettleInv, JsonInv, Redeploys
<1>9. DeployInv'
  BY <1>1, <1>2, <1>3, <1>4 DEF SettleInv, DeployInv
<1> QED
  BY <1>5, <1>6, <1>7, <1>8, <1>9 DEF SettleInv

\* The play decides what a hook is about, and which handlers run.
LEMMA PlaySettleInv ==
    ASSUME SettleInv, TypeInv', Play
    PROVE  SettleInv'
<1>1. /\ pc = "play" /\ pc' = "handlers" /\ plan' = Notified(hook, appVars)
      /\ facts' = CASE hook = "config-changed" -> [appVars EXCEPT !.conf = model.conf]
                    [] hook \in Relations /\ Differs(hook, model[hook], appVars[hook])
                         -> [appVars EXCEPT ![hook] = model[hook]]
                    [] OTHER -> appVars
      /\ UNCHANGED <<model, pending, hook, appVars, create, app, missed, lost>>
  BY DEF Play, juju, files, history
<1>2. plan = <<>> /\ hook \in Hooks /\ appVars \in Vars /\ model \in Vars
  BY <1>1 DEF SettleInv, CourseInv, TypeInv, PlanInv, TypeOK
<1>3. /\ plan' \in Plans(hook)
      /\ hook = "config-changed" => plan' = Full
      /\ hook \in Relations => plan' \in {Full, <<>>}
      /\ hook = "install" => plan' = Dump
      /\ hook = "start" => plan' = Restart
      /\ hook = "upgrade-charm" => plan' = <<>>
      /\ hook = "stop" => plan' = StopAll
  BY <1>1, PlanOfHook
<1>4. /\ plan' \notin {FromJson, FromCreate, FromInstance}
      /\ hook # "start" => plan' # Restart
  BY <1>2, <1>3, PlansDiffer DEF Hooks
<1>5. CourseInv'
  BY <1>1, <1>3 DEF CourseInv
<1>6. OrderInv' /\ KeptInv'
  BY <1>1 DEF SettleInv, OrderInv, KeptInv
<1>7. FactsInv'
  <2>1. CASE hook = "config-changed"
    <3>1. facts' = [appVars EXCEPT !.conf = model.conf] /\ hook \notin Relations
      BY <1>1, <2>1, HooksDiffer
    <3>2. facts'.conf = model.conf /\ \A r \in Relations : facts'[r] = appVars[r]
      BY <1>2, <3>1, Changed
    <3> QED
      BY <1>1, <1>3, <2>1, <3>1, <3>2 DEF FactsInv
  <2>2. CASE hook \in Relations /\ Differs(hook, model[hook], appVars[hook])
    <3>1. hook # "config-changed" /\ facts' = [appVars EXCEPT ![hook] = model[hook]]
      BY <1>1, <2>2, HooksDiffer
    <3>2. /\ facts'.conf = appVars.conf /\ facts'[hook] = model[hook]
          /\ \A r \in Relations : r # hook => facts'[r] = appVars[r]
      <4> DEFINE new == [appVars EXCEPT ![hook] = model[hook]]
      <4>1. new.conf = appVars.conf
        BY <1>2, <2>2, Changed
      <4>2. new[hook] = model[hook]
        BY <1>2, <2>2, Changed
      <4>3. \A r \in Relations : r # hook => new[r] = appVars[r]
        BY <1>2, <2>2, Changed
      <4> QED
        BY <3>1, <4>1, <4>2, <4>3
    <3>3. plan' = Full
      BY <1>1, <2>2, PlanOfHook
    <3> QED
      BY <1>1, <3>1, <3>2, <3>3, AgreesWithItself DEF FactsInv
  <2>3. CASE hook # "config-changed" /\ ~(hook \in Relations
                                          /\ Differs(hook, model[hook], appVars[hook]))
    <3>1. facts' = appVars
      BY <1>1, <2>3
    <3>2. hook \in Relations => Agrees(hook, appVars[hook], model[hook])
      BY <1>2, <2>3, OldNews, DataOf
    <3> QED
      BY <1>1, <2>3, <3>1, <3>2 DEF FactsInv
  <2> QED
    BY <2>1, <2>2, <2>3
<1>8. JsonInv'
  BY <1>1, <1>2, <1>3, <1>4, PlansDiffer DEF SettleInv, JsonInv
<1>9. DeployInv'
  BY <1>1, <1>2, <1>3, <1>4, PlansDiffer DEF SettleInv, DeployInv, Redeploys
<1> QED
  BY <1>5, <1>6, <1>7, <1>8, <1>9 DEF SettleInv

\* A hook that ends has kept what it was about, and has nothing left to deploy.
LEMMA EndSettleInv ==
    ASSUME SettleInv, TypeInv', HookEnds
    PROVE  SettleInv'
<1>1. /\ pc = "handlers" /\ plan = <<>> /\ plan' = <<>> /\ hook' = NoHook
      /\ pc' = IF hook = "stop" THEN "gone" ELSE "idle"
      /\ lost' = lost \ {hook}
      /\ UNCHANGED <<model, pending, appVars, create, app, missed>>
  BY DEF HookEnds, files
<1>2. /\ plan \notin {Full, Dump, FromJson, Restart, FromCreate, FromInstance}
      /\ plan \notin Redeploys
      /\ hook' \notin Relations \cup {"config-changed", "start", "install", "stop"}
  BY <1>1, PlansDiffer, HooksDiffer DEF Redeploys, Hooks
<1>3. CourseInv' /\ OrderInv' /\ FactsInv'
  BY <1>1, <1>2, NothingPlanned DEF SettleInv, CourseInv, OrderInv, FactsInv
<1>4. KeptInv'
  <2>1. /\ appVars = facts
        /\ hook = "config-changed" => facts.conf = model.conf
        /\ \A r \in Relations : hook = r => Agrees(r, facts[r], model[r])
    BY <1>1, <1>2 DEF SettleInv, FactsInv
  <2>2. "config-changed" \in pending' \/ appVars'.conf = model'.conf
    BY <1>1, <2>1 DEF SettleInv, KeptInv
  <2>3. ASSUME NEW r \in Relations
        PROVE  r \in pending' \/ r \in lost' \/ Agrees(r, appVars'[r], model'[r])
    BY <1>1, <2>1 DEF SettleInv, KeptInv
  <2> QED
    BY <2>2, <2>3 DEF KeptInv
<1>5. JsonInv'
  BY <1>1, <1>2 DEF SettleInv, JsonInv
<1>6. DeployInv'
  BY <1>1, <1>2 DEF SettleInv, DeployInv
<1> QED
  BY <1>3, <1>4, <1>5, <1>6 DEF SettleInv

-----------------------------------------------------------------------------
(* The handlers *)

\* Whatever a handler does, the hook goes on in its plan.
LEMMA HandledSettles ==
    ASSUME SettleInv, NEW name, Handle(name), Handled
    PROVE  /\ pc = "handlers" /\ CourseInv' /\ facts' = facts
           /\ UNCHANGED <<model, pending, hook, pc, lost>>
           /\ name # "vars" /\ UNCHANGED appVars => appVars = facts /\ FactsInv' /\ KeptInv'
<1>1. /\ pc = "handlers" /\ plan' = Tail(plan) /\ facts' = facts
      /\ UNCHANGED <<model, pending, hook, pc, lost>>
  BY DEF Handle, Handled, juju
<1>2. CourseInv'
  BY <1>1, HandlerPlace DEF SettleInv, CourseInv
<1>3. ASSUME name # "vars", UNCHANGED appVars
      PROVE  appVars = facts /\ FactsInv' /\ KeptInv'
  <2>1. appVars = facts
    BY <1>1, <1>3, HeadOfPlan DEF SettleInv, FactsInv
  <2> QED
    BY <1>1, <1>3, <2>1 DEF SettleInv, FactsInv, KeptInv
<1> QED
  BY <1>1, <1>2, <1>3

LEMMA VarsSettleInv ==
    ASSUME SettleInv, TypeInv', DumpVars
    PROVE  SettleInv'
<1>1. /\ Handle("vars") /\ Handled /\ appVars' = facts
      /\ UNCHANGED <<create, app, missed>>
  BY DEF DumpVars
<1>2. /\ pc = "handlers" /\ CourseInv' /\ facts' = facts
      /\ UNCHANGED <<model, pending, hook, pc, lost>>
  BY <1>1, HandledSettles
<1>3. \/ hook \in Redeploying /\ plan = Full /\ plan' = FromJson
      \/ hook = "install" /\ plan = Dump /\ plan' = JsonOnly
  BY <1>1, HandlerPlace DEF SettleInv, Handled, juju
<1>4. OrderInv'
  BY <1>1, <1>2 DEF SettleInv, OrderInv
<1>5. FactsInv'
  BY <1>1, <1>2 DEF SettleInv, FactsInv
<1>6. KeptInv'
  BY <1>1, <1>2 DEF SettleInv, FactsInv, KeptInv
<1>7. JsonInv'
  BY <1>1, <1>2, <1>3, PlansDiffer DEF SettleInv, OrderInv, JsonInv, Redeploying
<1>8. DeployInv'
  BY <1>1, <1>2, <1>3, PlansDiffer, HooksDiffer
     DEF SettleInv, OrderInv, DeployInv, Redeploying, Redeploys
<1> QED
  BY <1>2, <1>4, <1>5, <1>6, <1>7, <1>8 DEF SettleInv

LEMMA JsonSettleInv ==
    ASSUME SettleInv, TypeInv', DumpJson
    PROVE  SettleInv'
<1>1. Handle("json") /\ Handled /\ create' = facts /\ UNCHANGED <<appVars, app, missed>>
  BY DEF DumpJson
<1>2. /\ pc = "handlers" /\ CourseInv' /\ appVars = facts /\ FactsInv' /\ KeptInv'
      /\ UNCHANGED <<model, pending, hook, pc, lost>>
  BY <1>1, HandledSettles
<1>3. \/ hook \in Redeploying /\ plan = FromJson /\ plan' = Restart
      \/ hook = "install" /\ plan = JsonOnly /\ plan' = <<>>
  BY <1>1, HandlerPlace DEF SettleInv, Handled, juju
<1>4. OrderInv'
  BY <1>1, <1>2 DEF SettleInv, OrderInv
<1>5. JsonInv'
  BY <1>1, <1>2 DEF JsonInv
<1>6. DeployInv'
  BY <1>1, <1>2, <1>3, PlansDiffer DEF SettleInv, OrderInv, DeployInv, Redeploying, Redeploys
<1> QED
  BY <1>2, <1>4, <1>5, <1>6 DEF SettleInv

LEMMA StopSettleInv ==
    ASSUME SettleInv, TypeInv', StopMesosApp
    PROVE  SettleInv'
<1>1. Handle("stop") /\ Handled /\ UNCHANGED <<appVars, create, missed>>
  BY DEF StopMesosApp
<1>2. /\ CourseInv' /\ FactsInv' /\ KeptInv'
      /\ UNCHANGED <<model, pending, hook, pc, lost>>
  BY <1>1, HandledSettles
<1>3. hook = "stop"
  BY <1>1, OnlyStopStops DEF SettleInv
<1>4. plan' \notin {Full, FromJson, Restart, FromCreate, FromInstance}
  BY <1>2, <1>3, PlansOf, PlansDiffer DEF CourseInv
<1>5. OrderInv' /\ JsonInv'
  BY <1>1, <1>2, <1>3, <1>4, HooksDiffer DEF SettleInv, OrderInv, JsonInv
<1>6. DeployInv'
  BY <1>2, <1>3, <1>4 DEF DeployInv
<1> QED
  BY <1>2, <1>5, <1>6 DEF SettleInv

LEMMA DeleteSettleInv ==
    ASSUME SettleInv, TypeInv', DeleteMesosApp
    PROVE  SettleInv'
<1>1. /\ Handle("delete") /\ Handled /\ app' = NoApp /\ app'.at = "absent"
      /\ UNCHANGED <<appVars, create, missed>>
  BY DEF DeleteMesosApp, NoApp
<1>2. /\ pc = "handlers" /\ CourseInv' /\ FactsInv' /\ KeptInv'
      /\ UNCHANGED <<model, pending, hook, pc, lost>>
  BY <1>1, HandledSettles
<1>3. \/ hook \in Redeploying \cup {"start"} /\ plan = Restart /\ plan' = FromCreate
      \/ hook = "stop"
  BY <1>1, HandlerPlace DEF SettleInv, Handled, juju
<1>4. hook = "stop" => plan' \notin {Full, FromJson, Restart, FromCreate, FromInstance}
  BY <1>2, PlansOf, PlansDiffer DEF CourseInv
<1>5. OrderInv'
  BY <1>1, <1>2 DEF SettleInv, OrderInv
<1>6. JsonInv'
  BY <1>1, <1>2, <1>3, <1>4, PlansDiffer, HooksDiffer DEF SettleInv, JsonInv
<1>7. DeployInv'
  BY <1>1, <1>2, <1>3, <1>4, PlansDiffer DEF DeployInv, Redeploying, Redeploys
<1> QED
  BY <1>2, <1>5, <1>6, <1>7 DEF SettleInv

LEMMA CreateSettleInv ==
    ASSUME SettleInv, TypeInv', CreateMesosApp
    PROVE  SettleInv'
<1>1. Handle("create") /\ Handled /\ UNCHANGED <<appVars, create, missed>>
  BY DEF CreateMesosApp
<1>2. /\ pc = "handlers" /\ CourseInv' /\ FactsInv' /\ KeptInv'
      /\ UNCHANGED <<model, pending, hook, pc, lost>>
  BY <1>1, HandledSettles
<1>3. hook \in Redeploying \cup {"start"} /\ plan = FromCreate /\ plan' = FromInstance
  BY <1>1, HandlerPlace DEF SettleInv, Handled, juju
<1>4. app.at = "absent"
  BY <1>3 DEF SettleInv, DeployInv
<1>5. app'.at = "absent" \/ app'.vars = create
  BY <1>4 DEF CreateMesosApp
<1>6. OrderInv'
  BY <1>1, <1>2 DEF SettleInv, OrderInv
<1>7. JsonInv'
  BY <1>1, <1>2, <1>3, PlansDiffer DEF SettleInv, JsonInv
<1>8. DeployInv'
  BY <1>1, <1>2, <1>3, <1>5, PlansDiffer DEF DeployInv, Redeploying, Redeploys
<1> QED
  BY <1>2, <1>6, <1>7, <1>8 DEF SettleInv

LEMMA InstanceSettleInv ==
    ASSUME SettleInv, TypeInv', CreateAppInstance
    PROVE  SettleInv'
<1>1. /\ Handle("instance") /\ Handled /\ app.at # "absent"
      /\ app' = [app EXCEPT !.at = "running"] /\ missed' = FALSE
      /\ UNCHANGED <<appVars, create>>
  BY DEF CreateAppInstance
<1>2. /\ pc = "handlers" /\ CourseInv' /\ FactsInv' /\ KeptInv'
      /\ UNCHANGED <<model, pending, hook, pc, lost>>
  BY <1>1, HandledSettles
<1>3. hook \in Redeploying \cup {"start"} /\ plan = FromInstance /\ plan' = <<>>
  BY <1>1, HandlerPlace DEF SettleInv, Handled, juju
<1>4. app'.at = "running" /\ app'.vars = create
  <2>1. app.vars = create
    BY <1>1, <1>3 DEF SettleInv, DeployInv
  <2>2. app \in AppType
    BY DEF SettleInv, TypeInv, TypeOK, AppType
  <2> QED
    BY <1>1, <2>1, <2>2 DEF AppType
<1>5. OrderInv'
  BY <1>1, <1>2 DEF SettleInv, OrderInv
<1>6. create = appVars \/ "config-changed" \in pending
  <2>1. CASE hook = "start"
    <3>1. ~missed
      BY <2>1 DEF SettleInv, OrderInv
    <3> QED
      BY <2>1, <3>1, HooksDiffer DEF SettleInv, JsonInv
  <2>2. CASE hook # "start"
    BY <1>3, <2>2 DEF SettleInv, JsonInv
  <2> QED
    BY <2>1, <2>2
<1>7. JsonInv'
  BY <1>1, <1>2, <1>3, <1>6, PlansDiffer DEF JsonInv
<1>8. DeployInv'
  BY <1>1, <1>3, <1>4, PlansDiffer DEF DeployInv
<1> QED
  BY <1>2, <1>5, <1>7, <1>8 DEF SettleInv

-----------------------------------------------------------------------------
(* What has settled is current *)

LEMMA StepSettleInv == SettleInv /\ [Next]_vars => SettleInv'
<1> SUFFICES ASSUME SettleInv, [Next]_vars PROVE SettleInv'
  OBVIOUS
<1>1. TypeInv'
  BY StepTypeInv DEF SettleInv
<1>2. CASE UNCHANGED vars
  BY <1>1, <1>2 DEF vars, juju, files, history, SettleInv, CourseInv, OrderInv, FactsInv,
     KeptInv, JsonInv, DeployInv, Plans
<1>3. CASE \/ \E c \in Confs : ConfigSet(c)
           \/ \E r \in Relations, d \in Data : RelationSet(r, d)
           \/ UpgradeCharm
  BY <1>1, <1>3, ModelSettleInv
<1>4. CASE DestroyUnit
  BY <1>1, <1>4, DestroySettleInv
<1>5. CASE \E h \in Hooks : RunHook(h)
  BY <1>1, <1>5, RunSettleInv
<1>6. CASE Resolved \/ HookProcess
  <2>1. CASE ReadYaml /\ yaml = "empty"
    <3>1. /\ Fails /\ pc \notin {"idle", "gone"}
          /\ UNCHANGED <<juju, appVars, create, app, lost>>
      BY <2>1 DEF ReadYaml
    <3> QED
      BY <1>1, <3>1, FailSettleInv
  <2>2. CASE Resolved \/ (ReadYaml /\ yaml # "empty") \/ OpenYaml \/ DumpYaml
    <3>1. /\ pc \in {"failed", "read", "open", "dump"}
          /\ pc' \in {"read", "open", "dump", "play"}
          /\ UNCHANGED <<juju, facts, plan, appVars, create, app, missed, lost>>
      BY <2>2 DEF Resolved, ReadYaml, OpenYaml, DumpYaml, files, history
    <3> QED
      BY <1>1, <3>1, MoveSettleInv
  <2>3. CASE Play
    BY <1>1, <2>3, PlaySettleInv
  <2>4. CASE HookEnds
    BY <1>1, <2>4, EndSettleInv
  <2>5. \/ ReadYaml /\ yaml = "empty"
        \/ Resolved \/ (ReadYaml /\ yaml # "empty") \/ OpenYaml \/ DumpYaml
        \/ Play \/ HookEnds
    BY <1>6 DEF HookProcess
  <2> QED
    BY <2>1, <2>2, <2>3, <2>4, <2>5, Zenon
<1>7. CASE Handler
  BY <1>1, <1>7, VarsSettleInv, JsonSettleInv, StopSettleInv, DeleteSettleInv,
     CreateSettleInv, InstanceSettleInv DEF Handler
<1>8. CASE HandlerFails \/ Kill
  <2>1. /\ Fails /\ pc \notin {"idle", "gone"}
        /\ UNCHANGED <<juju, appVars, create, app, lost>>
    BY <1>8 DEF HandlerFails, Kill, files
  <2> QED
    BY <1>1, <2>1, FailSettleInv
<1> QED
  BY <1>2, <1>3, <1>4, <1>5, <1>6, <1>7, <1>8 DEF Next

LEMMA SettledCurrent == SettleInv => SettledIsCurrent
<1> SUFFICES ASSUME SettleInv, Quiet, ~missed PROVE SettledIsCurrent
  BY DEF SettledIsCurrent
<1>1. /\ pc = "idle" /\ pending = {} /\ hook = NoHook /\ plan = <<>>
      /\ hook \notin Relations \cup {"config-changed", "start", "stop"}
  BY BetweenHooks, HooksDiffer DEF Quiet, Hooks
<1>2. app.at = "running" /\ app.vars = create
  BY <1>1 DEF SettleInv, DeployInv
<1>3. create = appVars
  BY <1>1 DEF SettleInv, JsonInv
<1>4. appVars.conf = model.conf
  BY <1>1 DEF SettleInv, KeptInv
<1>5. \A r \in Relations : r \in lost \/ Agrees(r, appVars[r], model[r])
  BY <1>1 DEF SettleInv, KeptInv
<1>6. "mysql" \notin lost => appVars.mysql[1] = model.mysql[1]
  BY <1>5 DEF Agrees, Relations
<1>7. "loadbalancer" \notin lost /\ model.loadbalancer # NoData
          => appVars.loadbalancer = model.loadbalancer
  BY <1>5 DEF Agrees, Relations
<1> QED
  BY <1>2, <1>3, <1>4, <1>6, <1>7 DEF SettledIsCurrent

\* When all hooks have run, after whatever failures, retries and upgrades, Marathon runs
\* the application with the configuration and the relation data of now, but for what was
\* missed and what was lost.
THEOREM SettledAppIsCurrent == Spec => []SettledIsCurrent
BY InitSettleInv, StepSettleInv, SettledCurrent, PTL DEF Spec
=============================================================================
