-------------------------- MODULE K8sMasterProofs ---------------------------
(***************************************************************************)
(* Proofs about K8sMaster, for any releases, any data of the etcd relation *)
(* and any number of events: its types, that what is installed is what is  *)
(* configured, and that what is served is what was rendered.               *)
(***************************************************************************)
EXTENDS K8sMaster, SequenceTheorems, TLAPS

FileNames == {"apiserver", "scheduler", "distribution"}

\* The files relation_changed has still to render, by the next of them.
FromScheduler == <<"scheduler", "distribution">>
FromDistribution == <<"distribution">>
Todos == {Files, FromScheduler, FromDistribution, <<>>}

-----------------------------------------------------------------------------
(* The files, in their order *)

LEMMA FilesNamed == {Files[i] : i \in DOMAIN Files} = FileNames
BY DEF Files, FileNames

LEMMA TodoSet == {SubSeq(Files, i, 3) : i \in 1 .. 4} = Todos
<1>1. /\ SubSeq(Files, 1, 3) = Files
      /\ SubSeq(Files, 2, 3) = FromScheduler
      /\ SubSeq(Files, 3, 3) = FromDistribution
      /\ SubSeq(Files, 4, 3) = <<>>
  <2>1. /\ Files \in Seq(FileNames) /\ Len(Files) = 3
        /\ FromScheduler \in Seq(FileNames) /\ FromDistribution \in Seq(FileNames)
        /\ Len(FromScheduler) = 2 /\ Len(FromDistribution) = 1
        /\ \A i \in 1 .. 3 : Files[i] \in FileNames
        /\ \A i \in 1 .. 2 : FromScheduler[i] = Files[i + 1]
        /\ FromDistribution[1] = Files[3]
    BY DEF Files, FromScheduler, FromDistribution, FileNames
  <2>2. SubSeq(Files, 1, 3) = Files
    BY <2>1, SubSeqFull
  <2>3. SubSeq(Files, 2, 3) = FromScheduler
    <3>1. /\ SubSeq(Files, 2, 3) \in Seq(FileNames)
          /\ Len(SubSeq(Files, 2, 3)) = 2
          /\ \A i \in 1 .. 2 : SubSeq(Files, 2, 3)[i] = Files[2 + i - 1]
      BY <2>1, SubSeqProperties
    <3> QED
      BY <2>1, <3>1, SeqEqual
  <2>4. SubSeq(Files, 3, 3) = FromDistribution
    <3>1. /\ SubSeq(Files, 3, 3) \in Seq(FileNames)
          /\ Len(SubSeq(Files, 3, 3)) = 1
          /\ \A i \in 1 .. 1 : SubSeq(Files, 3, 3)[i] = Files[3 + i - 1]
      BY <2>1, SubSeqProperties
    <3> QED
      BY <2>1, <3>1, SeqEqual
  <2>5. SubSeq(Files, 4, 3) = <<>>
    BY SubSeqEmpty
  <2> QED
    BY <2>2, <2>3, <2>4, <2>5
<1>2. 1 .. 4 = {1, 2, 3, 4}
  OBVIOUS
<1> QED
  BY <1>1, <1>2 DEF Todos

LEMMA TodoSteps ==
    /\ Head(Files) = "apiserver" /\ Tail(Files) = FromScheduler
    /\ Head(FromScheduler) = "scheduler" /\ Tail(FromScheduler) = FromDistribution
    /\ Head(FromDistribution) = "distribution" /\ Tail(FromDistribution) = <<>>
    /\ Files # <<>> /\ FromScheduler # <<>> /\ FromDistribution # <<>>
    /\ Files # FromScheduler /\ Files # FromDistribution /\ FromScheduler # FromDistribution
BY DEF Files, FromScheduler, FromDistribution

-----------------------------------------------------------------------------
(* Types, and what the place of the hook's process says *)

Contents == Etcds \cup Versions \cup {"addresses", None}
Process == [conf : Contents, bin : Versions \cup {None}]

TableInv ==
    /\ file \in [FileNames -> Contents]
    /\ proc \in [Daemons -> Process]

Building == {"branch", "check", "clean", "master", "checkout", "make", "leave", "isdir", "link"}
Serving == {"render", "restart"}

\* Which hook is where.  "local" is not built.
HookInv ==
    /\ hook = None <=> pc = "idle"
    /\ pc \in Building => hook = "config-changed"
    /\ pc \in Building \ {"branch", "link"} => version # "local"
    /\ pc = "restart" => todo # <<>>
    /\ pc \in Serving => etcd # None

\* While git moves between branches there are no binaries; those that are there were
\* built from the branch git is at; and past "make" that is the configured version.
BuildInv ==
    /\ pc \in {"master", "checkout", "make"} => output.bin = "none"
    /\ output.bin # "none" => output.of = branch
    /\ pc \in {"make", "leave", "isdir"} => branch = version
    /\ pc = "link" /\ version # "local" => branch = version

TypeInv == TypeOK /\ TableInv /\ HookInv /\ BuildInv

Output == [bin : {"none", "some", "all"}, of : Versions \cup {None}]

LEMMA InitTypeInv == Init => TypeInv
<1> SUFFICES ASSUME Init PROVE TypeInv
  OBVIOUS
<1>1. file = [f \in FileNames |-> None] /\ file \in [FileNames -> Contents]
  BY FilesNamed DEF Init, Contents
<1>2. proc = [d \in Daemons |-> NoProc] /\ NoProc \in Process
  BY DEF Init, Process, Contents, NoProc
<1>3. output \in Output /\ output.bin = "none"
  BY DEF Init, Output, NoOutput
<1>4. todo \in Todos /\ pc = "idle" /\ events \in 0 .. MaxEvents
  BY MaxEventsAssumption DEF Init, Todos
<1>5. TypeOK
  BY <1>1, <1>2, <1>3, <1>4, FilesNamed, TodoSet
     DEF Init, TypeOK, Versions, Output, Pcs, Hooks, Process
<1>6. TableInv
  BY <1>1, <1>2 DEF TableInv
<1> QED
  BY <1>3, <1>4, <1>5, <1>6 DEF Init, TypeInv, HookInv, BuildInv, Building, Serving

\* What changes between hooks leaves the disk and the process of the hook alone.
LEMMA JujuTypeInv ==
    ASSUME TypeInv,
           \/ \E v \in Versions : ConfigSet(v)
           \/ \E e \in Etcds : EtcdSet(e)
           \/ \E d \in Daemons : DaemonDies(d)
           \/ \E h \in Hooks : RunHook(h)
           \/ Resolved
    PROVE  TypeInv'
<1> USE DEF TypeInv, TypeOK, TableInv, HookInv, BuildInv, disk, juju
<1>t. Start(hook) \in Pcs /\ \A h \in Hooks : Start(h) \in Pcs
  BY DEF Start, Pcs
<1>1. ASSUME NEW v \in Versions, ConfigSet(v)
      PROVE  TypeInv'
  BY <1>1, MaxEventsAssumption DEF ConfigSet, Happens, Building, Serving, Hooks
<1>2. ASSUME NEW e \in Etcds, EtcdSet(e)
      PROVE  TypeInv'
  BY <1>2, MaxEventsAssumption, NoneAssumption DEF EtcdSet, Happens, Building, Serving, Hooks
<1>3. ASSUME NEW d \in Daemons, DaemonDies(d)
      PROVE  TypeInv'
  <2>1. NoProc \in Process
    BY DEF NoProc, Process, Contents
  <2>2. proc' \in [Daemons -> Process]
    BY <1>3, <2>1 DEF DaemonDies
  <2>3. \A x \in Daemons : proc'[x].bin \in Versions \cup {None}
    BY <2>2 DEF Process
  <2> QED
    BY <1>3, <2>2, <2>3, MaxEventsAssumption DEF DaemonDies, Happens, Building, Serving, Hooks
<1>4. ASSUME NEW h \in Hooks, RunHook(h)
      PROVE  TypeInv'
  <2>1. h # None
    BY NoneAssumption
  <2> QED
    BY <1>4, <1>t, <2>1 DEF RunHook, Start, Building, Serving
<1>5. CASE Resolved
  <2>1. hook # None
    BY <1>5 DEF Resolved
  <2> QED
    BY <1>5, <1>t, <2>1 DEF Resolved, Start, Building, Serving
<1> QED
  BY <1>1, <1>2, <1>3, <1>4, <1>5

\* config_changed, up to the links.
LEMMA BuildTypeInv ==
    ASSUME TypeInv,
           \/ ReadBranch \/ DecideBuild \/ MakeClean \/ CheckoutMaster \/ Checkout \/ Make
           \/ BuildFails \/ LeaveSentinel \/ IsDir \/ Install
    PROVE  TypeInv'
<1> USE DEF TypeInv, TypeOK, TableInv, HookInv, BuildInv, disk, juju, Goto, Building, Serving,
            Pcs
<1>n. NoOutput \in Output /\ NoOutput.bin = "none"
  BY DEF NoOutput, Output
<1>1. CASE ReadBranch
  BY <1>1 DEF ReadBranch
<1>2. CASE DecideBuild
  BY <1>2 DEF DecideBuild, MustBuild
<1>3. CASE MakeClean
  BY <1>3, <1>n DEF MakeClean, Output
<1>4. CASE CheckoutMaster
  BY <1>4 DEF CheckoutMaster, Versions
<1>5. CASE Checkout
  BY <1>5 DEF Checkout
<1>6. CASE Make
  <2>1. PICK built \in {"all", "some", "none"} :
            output' = IF built = "none" THEN output ELSE [bin |-> built, of |-> branch]
    BY <1>6 DEF Make
  <2>2. output' \in Output /\ (output'.bin # "none" => output'.of = branch)
    BY <1>6, <2>1 DEF Make, Output
  <2> QED
    BY <1>6, <2>2 DEF Make, Output
<1>7. CASE BuildFails
  <2>1. output' \in Output /\ (output'.bin # "none" => output'.of = branch)
    BY <1>7 DEF BuildFails, HalfClean, Output
  <2> QED
    BY <1>7, <2>1 DEF BuildFails, Output
<1>8. CASE LeaveSentinel
  BY <1>8 DEF LeaveSentinel
<1>9. CASE IsDir
  BY <1>9 DEF IsDir
<1>10. CASE Install
  <2>1. links' \in {None, "opt", "local"}
    BY <1>10 DEF Install, Partly
  <2> QED
    BY <1>10, <2>1 DEF Install
<1> QED
  BY <1>1, <1>2, <1>3, <1>4, <1>5, <1>6, <1>7, <1>8, <1>9, <1>10

LEMMA RenderedType ==
    ASSUME TypeInv, NEW f \in FileNames
    PROVE  Rendered(f) \in Contents
BY DEF Rendered, FileNames, Contents, TypeInv, TypeOK

LEMMA TodoTypes ==
    ASSUME NEW t \in Todos, t # <<>>
    PROVE  Head(t) \in FileNames /\ Tail(t) \in Todos
BY TodoSteps DEF Todos, FileNames

LEMMA LinkedType ==
    ASSUME TypeInv
    PROVE  Linked \in Versions \cup {None}
BY DEF Linked, Versions, TypeInv, TypeOK, Output

\* A restarted daemon is down, or up with its file and the linked binary.
LEMMA RestartProc ==
    ASSUME TypeInv, Restart, Head(todo) \in Daemons
    PROVE  /\ proc' \in [Daemons -> Process]
           /\ \A d \in Daemons \ {Head(todo)} : proc'[d] = proc[d]
           /\ proc'[Head(todo)] # NoProc => proc'[Head(todo)].conf = file[Head(todo)]
<1> DEFINE h == Head(todo)
           up == [conf |-> file[h], bin |-> Linked]
<1>1. proc \in [Daemons -> Process] /\ file[h] \in Contents
  BY DEF TypeInv, TableInv, Daemons, FileNames
<1>2. NoProc \in Process /\ up \in Process
  BY <1>1, LinkedType DEF NoProc, Process, Contents
<1>3. \E p \in {NoProc, up} : proc' = [proc EXCEPT ![h] = p]
  BY DEF Restart
<1>4. PICK p \in {NoProc, up} : proc' = [proc EXCEPT ![h] = p]
  BY <1>3
<1>5. p \in Process /\ (p # NoProc => p.conf = file[h])
  BY <1>2
<1> HIDE DEF up, h
<1> QED
  BY <1>1, <1>4, <1>5 DEF h

\* relation_changed.
LEMMA ServeTypeInv ==
    ASSUME TypeInv, TemplateData \/ RenderFile \/ Restart \/ NotifyMinions
    PROVE  TypeInv'
<1> USE DEF TypeInv, TypeOK, TableInv, HookInv, BuildInv, disk, juju, Building, Serving, Pcs,
            Ended
<1>t. todo \in Todos
  BY TodoSet
<1>1. CASE TemplateData
  <2>1. todo' \in Todos
    BY <1>1, <1>t DEF TemplateData, Todos
  <2> QED
    BY <1>1, <2>1, TodoSet DEF TemplateData
<1>2. CASE RenderFile
  <2>1. Head(todo) \in FileNames /\ todo' \in Todos
    BY <1>2, <1>t, TodoTypes DEF RenderFile
  <2>2. file' \in [FileNames -> Contents] /\ DOMAIN file' = {Files[i] : i \in DOMAIN Files}
    BY <1>2, <2>1, RenderedType, FilesNamed DEF RenderFile
  <2> QED
    BY <1>2, <2>1, <2>2, TodoSet DEF RenderFile
<1>3. CASE Restart
  <2>1. todo' \in Todos
    BY <1>3, <1>t, TodoTypes DEF Restart
  <2>2. proc' \in [Daemons -> Process]
    BY <1>3, RestartProc DEF Restart
  <2>3. \A x \in Daemons : proc'[x].bin \in Versions \cup {None}
    BY <2>2 DEF Process
  <2> QED
    BY <1>3, <2>1, <2>2, <2>3, TodoSet DEF Restart
<1>4. CASE NotifyMinions
  BY <1>4 DEF NotifyMinions
<1> QED
  BY <1>1, <1>2, <1>3, <1>4

LEMMA KillTypeInv ==
    ASSUME TypeInv, Kill
    PROVE  TypeInv'
<1> USE DEF TypeInv, TypeOK, TableInv, HookInv, BuildInv, disk, juju, Building, Serving, Pcs
<1>1. todo' \in {SubSeq(Files, i, 3) : i \in 1 .. 4}
  BY TodoSet DEF Kill, Todos
<1>2. output' \in Output /\ (output'.bin # "none" => output'.of = branch)
  BY DEF Kill, HalfClean, Output
<1>3. HookInv' /\ BuildInv' /\ TableInv'
  BY <1>2 DEF Kill
<1>4. events' \in 0 .. MaxEvents /\ cut' \in BOOLEAN
  BY MaxEventsAssumption DEF Kill
<1>5. TypeOK'
  BY <1>1, <1>2, <1>4 DEF Kill, Output
<1> QED
  BY <1>3, <1>5

LEMMA StepTypeInv == TypeInv /\ [Next]_vars => TypeInv'
<1> SUFFICES ASSUME TypeInv, [Next]_vars PROVE TypeInv'
  OBVIOUS
<1>1. CASE UNCHANGED vars
  BY <1>1 DEF vars, juju, disk, TypeInv, TypeOK, TableInv, HookInv, BuildInv
<1> QED
  BY <1>1, JujuTypeInv, BuildTypeInv, ServeTypeInv, KillTypeInv DEF Next, HookProcess, Build

LEMMA TypeInvariant == Spec => []TypeInv
BY InitTypeInv, StepTypeInv, PTL DEF Spec

\* Every variable keeps its type; binaries are always those of some version, since
\* make never runs at a detached head.
THEOREM TypeCorrect == Spec => []TypeOK
BY TypeInvariant, PTL DEF TypeInv

-----------------------------------------------------------------------------
(* Installed is configured: until install has run, config-changed is pending, runs or *)
(* has failed; after it nothing touches binaries and links.                           *)

ToInstall ==
    \/ "config-changed" \in pending
    \/ hook = "config-changed" /\ pc \in Building \cup {"failed"}

LinkInv == ToInstall \/ Linked = version

LEMMA InitLink == Init => LinkInv
BY DEF Init, LinkInv, ToInstall

\* The disk of a hook that is past install, or not config-changed, stays as it is.
LEMMA LinksStay ==
    ASSUME TypeInv, [Next]_vars, ~ToInstall
    PROVE  UNCHANGED <<output, links>>
BY DEF TypeInv, HookInv, Building, ToInstall, Next, HookProcess, Build, vars, juju, disk, ConfigSet,
       EtcdSet, DaemonDies, RunHook, Resolved, Goto, ReadBranch, DecideBuild, MakeClean,
       CheckoutMaster, Checkout, Make, BuildFails, LeaveSentinel, IsDir, Install, TemplateData,
       RenderFile, Restart, NotifyMinions, HalfClean, Kill

\* A hook gets past install only by install.
LEMMA OnlyInstallInstalls ==
    ASSUME TypeInv, [Next]_vars, ToInstall, ~ToInstall'
    PROVE  Install /\ pc' = "data"
<1> USE DEF ToInstall, Building
<1>1. ASSUME NEW h \in Hooks, RunHook(h)
      PROVE  FALSE
  BY <1>1 DEF RunHook, Start
<1>2. CASE Resolved
  BY <1>2 DEF Resolved, Start, juju
<1>3. CASE \/ \E v \in Versions : ConfigSet(v)
           \/ \E e \in Etcds : EtcdSet(e)
           \/ \E d \in Daemons : DaemonDies(d)
           \/ UNCHANGED vars
  BY <1>3 DEF ConfigSet, EtcdSet, DaemonDies, vars, juju, Happens
<1>4. CASE Build \/ BuildFails \/ ReadBranch \/ DecideBuild \/ LeaveSentinel \/ IsDir
  BY <1>4 DEF Build, MakeClean, CheckoutMaster, Checkout, Make, BuildFails, ReadBranch,
              DecideBuild, LeaveSentinel, IsDir, Goto, juju
<1>5. CASE TemplateData \/ RenderFile \/ Restart \/ NotifyMinions \/ Kill
  BY <1>5 DEF TemplateData, RenderFile, Restart, NotifyMinions, Kill, juju, TypeInv, HookInv
<1>6. CASE Install
  BY <1>6 DEF Install, juju
<1> QED
  BY <1>1, <1>2, <1>3, <1>4, <1>5, <1>6 DEF Next, HookProcess

\* What install links is the configured version: the binaries were built from the
\* branch, and the branch is the version.
LEMMA InstallLinks ==
    ASSUME TypeInv, Install, pc' = "data"
    PROVE  (Linked = version)'
<1>1. /\ links' = IF version = "local" THEN "local" ELSE "opt"
      /\ Installable
      /\ UNCHANGED <<version, output>>
  BY DEF Install, juju
<1>2. CASE version = "local"
  BY <1>1, <1>2 DEF Linked
<1>3. CASE version # "local"
  <2>1. output.bin = "all" /\ output.of = version
    BY <1>1, <1>3 DEF Install, Installable, TypeInv, BuildInv
  <2> QED
    BY <1>1, <1>3, <2>1 DEF Linked
<1> QED
  BY <1>2, <1>3

LEMMA StepLink == TypeInv /\ LinkInv /\ [Next]_vars => LinkInv'
<1> SUFFICES ASSUME TypeInv, LinkInv, [Next]_vars, ~ToInstall' PROVE (Linked = version)'
  BY DEF LinkInv
<1>1. CASE ToInstall
  BY <1>1, OnlyInstallInstalls, InstallLinks
<1>2. CASE ~ToInstall
  <2>1. UNCHANGED <<output, links>>
    BY <1>2, LinksStay
  <2>2. version' = version
    BY <1>2 DEF ToInstall, Next, HookProcess, Build, vars, juju, ConfigSet, EtcdSet, DaemonDies,
                RunHook, Resolved, ReadBranch, DecideBuild, MakeClean, CheckoutMaster, Checkout,
                Make, BuildFails, LeaveSentinel, IsDir, Install, TemplateData, RenderFile, Restart,
                NotifyMinions, Kill
  <2> QED
    BY <1>2, <2>1, <2>2 DEF LinkInv, Linked
<1> QED
  BY <1>1, <1>2

\* When all hooks have run the links lead to binaries of the configured version,
\* through any failed, killed or superseded builds.
THEOREM ConfiguredIsInstalled == Spec => []InstalledIsConfigured
<1>1. TypeInv /\ LinkInv => InstalledIsConfigured
  BY DEF LinkInv, ToInstall, Building, InstalledIsConfigured, Settled
<1> QED
  BY <1>1, InitLink, StepLink, TypeInvariant, PTL DEF Spec

-----------------------------------------------------------------------------
(* Served is rendered: a daemon that runs has the file as it is, but for the moment   *)
(* between the file and the restart; and a hook that renders brings all files up to   *)
(* date, one after the other.                                                         *)

\* The file that has been written and whose daemon has not been restarted.
Between(f) == pc = "restart" /\ Head(todo) = f

\* The files that the hook is through with.
Done(f) ==
    CASE f = "apiserver" -> todo # Files
      [] f = "scheduler" -> todo \in {FromDistribution, <<>>}
      [] f = "distribution" -> todo = <<>>

ConfInv ==
    ~cut => \A d \in Daemons : proc[d] # NoProc => proc[d].conf = file[d] \/ Between(d)

RenderInv ==
    pc \in Serving => \A f \in FileNames : Done(f) \/ Between(f) => file[f] = Rendered(f)

AllRendered ==
    \/ pending # {}
    \/ hook # None
    \/ etcd = None
    \/ told = version /\ \A f \in FileNames : file[f] = Rendered(f)

ServedInv == ConfInv /\ RenderInv /\ AllRendered

LEMMA InitServed == Init => ServedInv
BY DEF Init, ServedInv, ConfInv, RenderInv, AllRendered, Serving

\* Nothing that ServedInv is about is touched.
LEMMA OtherServed ==
    ASSUME TypeInv, ServedInv, UNCHANGED <<version, etcd, pending, hook, told, file, proc, cut>>,
           pc \notin Serving, pc' \notin Serving
    PROVE  ServedInv'
<1>1. \A f \in FileNames : Rendered(f)' = Rendered(f)
  BY DEF Rendered, FileNames
<1>2. ConfInv'
  BY DEF ServedInv, ConfInv, Between, Serving
<1>3. AllRendered'
  BY <1>1 DEF ServedInv, AllRendered
<1> QED
  BY <1>2, <1>3 DEF ServedInv, RenderInv

LEMMA JujuServed ==
    ASSUME TypeInv, ServedInv,
           \/ \E v \in Versions : ConfigSet(v)
           \/ \E e \in Etcds : EtcdSet(e)
           \/ \E d \in Daemons : DaemonDies(d)
           \/ \E h \in Hooks : RunHook(h)
           \/ Resolved
    PROVE  ServedInv'
<1>1. pc \notin Serving /\ pc' \notin Serving /\ UNCHANGED <<file, cut>>
  BY DEF ConfigSet, EtcdSet, DaemonDies, RunHook, Resolved, Happens, Start, Serving, disk
<1>2. \A d \in Daemons : proc'[d] = proc[d] \/ proc'[d] = NoProc
  BY DEF ConfigSet, EtcdSet, DaemonDies, RunHook, Resolved, TypeInv, TableInv
<1>3. ConfInv'
  BY <1>1, <1>2 DEF ServedInv, ConfInv, Between, Serving
<1>4. pending' # {} \/ hook' # None
  BY NoneAssumption DEF ConfigSet, EtcdSet, DaemonDies, RunHook, Resolved, TypeInv, HookInv, juju
<1> QED
  BY <1>1, <1>3, <1>4 DEF ServedInv, RenderInv, AllRendered

\* render_file: the file is as it should be, and if it was not, its daemon is next.
LEMMA RenderServed ==
    ASSUME TypeInv, ServedInv, RenderFile
    PROVE  ServedInv'
<1> DEFINE f == Head(todo)
<1>t. todo \in Todos /\ todo # <<>> /\ f \in FileNames /\ file \in [FileNames -> Contents]
  BY TodoSet, TodoTypes DEF RenderFile, TypeInv, TypeOK, TableInv
<1>1. /\ file'[f] = Rendered(f)
      /\ \A g \in FileNames \ {f} : file'[g] = file[g]
      /\ UNCHANGED <<juju, proc, cut>>
      /\ pc = "render"
  BY <1>t DEF RenderFile
<1>2. \/ pc' = "restart" /\ todo' = todo
      \/ pc' = "render" /\ todo' = Tail(todo) /\ file[f] = Rendered(f)
  BY DEF RenderFile
<1>3. \A g \in FileNames : Rendered(g)' = Rendered(g)
  BY <1>1 DEF Rendered, FileNames, juju
<1>4. ConfInv'
  <2> SUFFICES ASSUME ~cut, NEW d \in Daemons, proc[d] # NoProc
               PROVE  proc[d].conf = file'[d] \/ Between(d)'
    BY <1>1 DEF ConfInv
  <2>1. proc[d].conf = file[d] /\ d \in FileNames
    BY <1>1 DEF ServedInv, ConfInv, Between, Daemons, FileNames
  <2>2. file'[d] = file[d] \/ (d = f /\ pc' = "restart" /\ todo' = todo)
    BY <1>1, <1>2, <2>1
  <2> QED
    BY <2>1, <2>2 DEF Between
<1>5. RenderInv'
  <2> SUFFICES ASSUME NEW g \in FileNames, Done(g)' \/ Between(g)'
               PROVE  file'[g] = Rendered(g)
    BY <1>3 DEF RenderInv
  <2>1. CASE g = f
    BY <1>1, <2>1
  <2>2. CASE g # f
    <3>1. Done(g)
      BY <1>t, <1>2, <2>2, TodoSteps DEF Done, Between, Todos, FileNames
    <3> QED
      BY <1>1, <2>2, <3>1 DEF ServedInv, RenderInv, Serving
  <2> QED
    BY <2>1, <2>2
<1>6. AllRendered'
  BY <1>1 DEF juju, AllRendered, TypeInv, HookInv
<1> QED
  BY <1>4, <1>5, <1>6 DEF ServedInv

\* service_restart: the daemon has its file, or is down.
LEMMA RestartServed ==
    ASSUME TypeInv, ServedInv, Restart
    PROVE  ServedInv'
<1> DEFINE f == Head(todo)
<1>t. todo \in Todos /\ todo # <<>> /\ f \in FileNames
  BY TodoSet, TodoTypes DEF Restart, TypeInv, TypeOK, HookInv
<1>1. /\ pc = "restart" /\ pc' = "render" /\ todo' = Tail(todo)
      /\ UNCHANGED <<juju, disk, cut>>
  BY DEF Restart
<1>2. \A g \in FileNames : Rendered(g)' = Rendered(g) /\ file'[g] = file[g]
  BY <1>1 DEF Rendered, FileNames, juju, disk
<1>3. ConfInv'
  <2> SUFFICES ASSUME ~cut, NEW d \in Daemons, proc'[d] # NoProc
               PROVE  proc'[d].conf = file[d]
    BY <1>1 DEF ConfInv, disk
  <2>1. CASE d = f
    BY <2>1, RestartProc
  <2>2. CASE d # f
    <3>1. proc'[d] = proc[d]
      BY <2>2, RestartProc DEF Restart
    <3> QED
      BY <2>2, <3>1 DEF ServedInv, ConfInv, Between
  <2> QED
    BY <2>1, <2>2
<1>4. RenderInv'
  <2> SUFFICES ASSUME NEW g \in FileNames, Done(g)'
               PROVE  file[g] = Rendered(g)
    BY <1>1, <1>2 DEF RenderInv, Between
  <2>1. Done(g) \/ Between(g)
    BY <1>t, <1>1, TodoSteps DEF Done, Between, Todos, FileNames
  <2> QED
    BY <1>1, <2>1 DEF ServedInv, RenderInv, Serving
<1>5. AllRendered'
  BY <1>1 DEF juju, AllRendered, TypeInv, HookInv
<1> QED
  BY <1>3, <1>4, <1>5 DEF ServedInv

\* The hook ends: with nothing to render yet, or with everything rendered.
LEMMA EndServed ==
    ASSUME TypeInv, ServedInv, TemplateData \/ NotifyMinions
    PROVE  ServedInv'
<1>1. UNCHANGED <<version, etcd, file, proc, cut>>
  BY DEF TemplateData, NotifyMinions, disk
<1>2. \A f \in FileNames : Rendered(f)' = Rendered(f)
  BY <1>1 DEF Rendered, FileNames
<1>3. ConfInv'
  BY <1>1 DEF TemplateData, NotifyMinions, ServedInv, ConfInv, Between
<1>4. CASE TemplateData
  <2>1. RenderInv'
    BY <1>1, <1>4, TodoSteps DEF TemplateData, Ended, RenderInv, Serving, Done, Between, FileNames
  <2>2. AllRendered'
    BY <1>1, <1>4 DEF TemplateData, Ended, AllRendered, TypeInv, HookInv
  <2> QED
    BY <1>3, <2>1, <2>2 DEF ServedInv
<1>5. CASE NotifyMinions
  <2>1. \A f \in FileNames : file[f] = Rendered(f)
    BY <1>5, TodoSteps DEF NotifyMinions, ServedInv, RenderInv, Serving, Done, FileNames
  <2>2. AllRendered'
    BY <1>1, <1>2, <1>5, <2>1 DEF NotifyMinions, AllRendered
  <2>3. RenderInv'
    BY <1>5 DEF NotifyMinions, Ended, RenderInv, Serving
  <2> QED
    BY <1>3, <2>2, <2>3 DEF ServedInv
<1> QED
  BY <1>4, <1>5

LEMMA KillServed ==
    ASSUME TypeInv, ServedInv, Kill
    PROVE  ServedInv'
<1>1. /\ UNCHANGED <<pending, hook, file, proc>> /\ hook # None /\ pc' = "failed"
      /\ cut' = (cut \/ pc = "restart")
  BY DEF Kill, TypeInv, HookInv
<1>2. ConfInv'
  BY <1>1 DEF ServedInv, ConfInv, Between
<1> QED
  BY <1>1, <1>2 DEF ServedInv, RenderInv, Serving, AllRendered

LEMMA StepServed == TypeInv /\ ServedInv /\ [Next]_vars => ServedInv'
<1> SUFFICES ASSUME TypeInv, ServedInv, [Next]_vars PROVE ServedInv'
  OBVIOUS
<1>1. CASE \/ ReadBranch \/ DecideBuild \/ Build \/ BuildFails \/ LeaveSentinel \/ IsDir
           \/ Install
  BY <1>1, OtherServed
     DEF ReadBranch, DecideBuild, Build, MakeClean, CheckoutMaster, Checkout, Make, BuildFails,
         LeaveSentinel, IsDir, Install, Goto, juju, disk, Serving
<1>2. CASE UNCHANGED vars
  <2>1. \A f \in FileNames : Rendered(f)' = Rendered(f)
    BY <1>2 DEF vars, juju, Rendered, FileNames
  <2> QED
    BY <1>2, <2>1 DEF vars, juju, disk, ServedInv, ConfInv, RenderInv, AllRendered, Between, Done
<1> QED
  BY <1>1, <1>2, JujuServed, RenderServed, RestartServed, EndServed, KillServed
     DEF Next, HookProcess

\* When all hooks have run and none was killed before a restart, the daemons that run
\* have the present data, and the minions know the version.
THEOREM RenderedIsServed == Spec => []ServedIsRendered
<1>1. TypeInv /\ ServedInv => ServedIsRendered
  BY DEF TypeInv, HookInv, ServedInv, ConfInv, AllRendered, Between, ServedIsRendered, Settled,
         Rendered, FileNames, Daemons
<1> QED
  BY <1>1, InitServed, StepServed, TypeInvariant, PTL DEF Spec
=============================================================================
