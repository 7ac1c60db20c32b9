------------------------------ MODULE K8sMaster ------------------------------
(***************************************************************************)
(* The kubernetes-master charm: config-changed builds the configured       *)
(* version of kubernetes in a git repository, links the binaries and goes  *)
(* on as relation-changed does: it renders the configuration of the        *)
(* daemons, restarts those whose file has changed, and tells the minions   *)
(* the version.  A file .broken_build is to make a failed build run again. *)
(*                                                                         *)
(* The scheduler stands for the controller-manager as well, the etcd       *)
(* relation for the minions' (both run relation_changed).  External: git,  *)
(* make, upstart and nginx, and Juju, which runs one hook at a time and    *)
(* runs a failed one again.                                                *)
(***************************************************************************)
EXTENDS Naturals, Sequences

CONSTANTS Releases,   \* versions that are tags
          Etcds,      \* what the etcd relation can say
          None,       \* nothing there
          MaxEvents   \* bound: changes of the model, deaths of processes

ASSUME ReleasesAssumption == Releases \cap {"master", "local", "detached"} = {}
ASSUME MaxEventsAssumption == MaxEvents \in Nat

Versions == Releases \cup {"master", "local"}
Daemons == {"apiserver", "scheduler"}
Files == <<"apiserver", "scheduler", "distribution">>
Hooks == {"config-changed", "etcd-relation-changed"}

ASSUME NoneAssumption == None \notin Etcds \cup Versions \cup Hooks

VARIABLES
    \* Juju
    version,   \* config["version"]
    etcd,      \* the etcd relation's data
    pending,   \* the hooks to run
    hook,      \* the hook that runs or has failed
    told,      \* the version the minions' relation has
    events,    \* how much has happened
    \* the hook's process
    pc,        \* where it is
    failed,    \* last_build_failed
    todo,      \* the files relation_changed has still to render
    \* the disk
    branch,    \* the branch git has checked out
    output,    \* the binaries in the output directory, and what they were built from
    sentinel,  \* whether .broken_build is there
    links,     \* where the links in /usr/local/bin lead: "opt" if one leads there
    file,      \* the rendered files
    \* upstart and nginx
    proc,      \* the daemons that run: their configuration and their binary
    \* history
    cut        \* the process was killed between a file and its restart

juju == <<version, etcd, pending, hook, told, events>>
disk == <<branch, output, sentinel, links, file>>
vars == <<juju, pc, failed, todo, disk, proc, cut>>

Pcs == {"idle", "branch", "check", "clean", "master", "checkout", "make", "leave", "isdir",
        "link", "data", "render", "restart", "notify", "failed"}
NoOutput == [bin |-> "none", of |-> None]
NoProc == [conf |-> None, bin |-> None]

\* After install.py: a clone at a tag, that is, at no branch.
Init ==
    /\ version \in Releases \cup {"master"}
    /\ etcd = None
    /\ pending = {"config-changed"}
    /\ hook = None
    /\ told = None
    /\ events = 0
    /\ pc = "idle"
    /\ failed = FALSE
    /\ todo = <<>>
    /\ branch = "detached"
    /\ output = NoOutput
    /\ sentinel = FALSE
    /\ links = None
    /\ file = [f \in {Files[i] : i \in DOMAIN Files} |-> None]
    /\ proc = [d \in Daemons |-> NoProc]
    /\ cut = FALSE

-----------------------------------------------------------------------------
(* Juju, the operator and the machine *)

Happens == pc \in {"idle", "failed"} /\ events < MaxEvents /\ events' = events + 1

ConfigSet(v) ==
    /\ Happens /\ v # version
    /\ version' = v
    /\ pending' = pending \cup {"config-changed"}
    /\ UNCHANGED <<etcd, hook, told, pc, failed, todo, disk, proc, cut>>

EtcdSet(e) ==
    /\ Happens /\ e # etcd
    /\ etcd' = e
    /\ pending' = pending \cup {"etcd-relation-changed"}
    /\ UNCHANGED <<version, hook, told, pc, failed, todo, disk, proc, cut>>

\* A daemon dies; update=... makes Juju run config-changed.
DaemonDies(d) ==
    /\ Happens /\ proc[d] # NoProc
    /\ proc' = [proc EXCEPT ![d] = NoProc]
    /\ pending' = pending \cup {"config-changed"}
    /\ UNCHANGED <<version, etcd, hook, told, pc, failed, todo, disk, cut>>

Start(h) == IF h = "config-changed" THEN "branch" ELSE "data"

\* The first config-changed comes before the relations.
RunHook(h) ==
    /\ pc = "idle" /\ h \in pending
    /\ h # "config-changed" => links # None
    /\ hook' = h
    /\ pending' = pending \ {h}
    /\ pc' = Start(h)
    /\ UNCHANGED <<version, etcd, told, events, failed, todo, disk, proc, cut>>

\* "juju resolved --retry"
Resolved ==
    /\ pc = "failed"
    /\ pc' = Start(hook)
    /\ UNCHANGED <<juju, failed, todo, disk, proc, cut>>

-----------------------------------------------------------------------------
(* config_changed *)

Goto(from, to) == pc = from /\ pc' = to

\* check_sentinel is entered: is .broken_build there?
ReadBranch ==
    /\ Goto("branch", IF version = "local" THEN "link" ELSE "check")
    /\ failed' = sentinel
    /\ UNCHANGED <<juju, todo, disk, proc, cut>>

\* Rebuild if current version is different or last build failed.
MustBuild == branch # version \/ failed

DecideBuild ==
    /\ Goto("check", IF MustBuild THEN "clean" ELSE "leave")
    /\ UNCHANGED <<juju, failed, todo, disk, proc, cut>>

\* Mutant of MakeClean: old binaries stay.
MakeCleanNot ==
    /\ Goto("clean", "master")
    /\ UNCHANGED <<juju, failed, todo, disk, proc, cut>>

\* make clean
MakeClean ==
    /\ Goto("clean", "master")
    /\ output' = NoOutput
    /\ UNCHANGED <<juju, failed, todo, branch, sentinel, links, file, proc, cut>>

\* git checkout master
CheckoutMaster ==
    /\ Goto("master", "checkout")
    /\ branch' = "master"
    /\ UNCHANGED <<juju, failed, todo, output, sentinel, links, file, proc, cut>>

\* git branch -D, git fetch, and git reset of master or git checkout -b of a tag.
Checkout ==
    /\ Goto("checkout", "make")
    /\ branch' = version
    /\ UNCHANGED <<juju, failed, todo, output, sentinel, links, file, proc, cut>>

\* make all: its exit status is not looked at.
Make ==
    /\ Goto("make", "leave")
    /\ \E built \in {"all", "some", "none"} :
           output' = IF built = "none" THEN output ELSE [bin |-> built, of |-> branch]
    /\ UNCHANGED <<juju, failed, todo, branch, sentinel, links, file, proc, cut>>

\* make clean does not come to its end: some of the old binaries are left.
HalfClean ==
    /\ pc = "clean" /\ output.bin # "none"
    /\ output' = [output EXCEPT !.bin = "some"]

\* A command of build() fails: check_sentinel touches the file and the hook ends.
BuildFails ==
    /\ pc \in {"clean", "master", "checkout"}
    /\ pc' = "failed"
    /\ sentinel' = TRUE
    /\ HalfClean \/ UNCHANGED output
    /\ UNCHANGED <<juju, failed, todo, branch, links, file, proc, cut>>

\* check_sentinel is left in peace.
LeaveSentinel ==
    /\ Goto("leave", "isdir")
    /\ sentinel' = FALSE
    /\ failed' = FALSE
    /\ UNCHANGED <<juju, todo, branch, output, links, file, proc, cut>>

\* Mutant of IsDir: a missing output directory is not noticed.
IsDirNot ==
    /\ Goto("isdir", "link")
    /\ UNCHANGED <<juju, failed, todo, disk, proc, cut>>

\* if not output_path.isdir(): broken_build.touch()
IsDir ==
    /\ Goto("isdir", "link")
    /\ sentinel' = (sentinel \/ output.bin = "none")
    /\ UNCHANGED <<juju, failed, todo, branch, output, links, file, proc, cut>>

\* Every binary has to be there; and a link that leads nowhere (exists() is false of
\* it) is in the way of a new one.
Installable ==
    IF version = "local" THEN links # "opt" \/ output.bin = "all" ELSE output.bin = "all"

\* The binaries of "local" are those the operator has put into files/output of the
\* charm, which comes without: they may be missing, unless links lead to them already.
Unbundled == version = "local" /\ links # "local"

\* Links that are made before the first binary is missed, of those that are there.
\* Some to the charm's own directory make no difference to what comes after.
Partly == IF version # "local" /\ output.bin = "some" THEN {links, "opt"} ELSE {links}

\* Mutant of Install: the links lead to a directory of the version.
InstallVersioned ==
    /\ pc = "link"
    /\ \/ Installable /\ pc' = "data" /\ links' = version
       \/ /\ ~Installable \/ Unbundled
          /\ pc' = "failed" /\ links' \in Partly
    /\ UNCHANGED <<juju, failed, todo, branch, output, sentinel, file, proc, cut>>

\* KubernetesInstaller.install; it ends in exit(1) or OSError when it cannot link.
Install ==
    /\ pc = "link"
    /\ \/ Installable /\ pc' = "data" /\ links' = IF version = "local" THEN "local" ELSE "opt"
       \/ /\ ~Installable \/ Unbundled
          /\ pc' = "failed" /\ links' \in Partly
    /\ UNCHANGED <<juju, failed, todo, branch, output, sentinel, file, proc, cut>>

-----------------------------------------------------------------------------
(* relation_changed *)

Ended == pc' = "idle" /\ hook' = None

\* get_template_data, and the check of the required key.
TemplateData ==
    /\ pc = "data"
    /\ IF etcd = None
       THEN Ended /\ UNCHANGED todo
       ELSE pc' = "render" /\ todo' = Files /\ UNCHANGED hook
    /\ UNCHANGED <<version, etcd, pending, told, events, failed, disk, proc, cut>>

\* Of the template data, what the templates mention.
Rendered(f) ==
    CASE f = "apiserver" -> etcd
      [] f = "scheduler" -> "addresses"
      [] f = "distribution" -> version

Running(f) == f \in Daemons => proc[f] # NoProc

\* render_file(...) or not service_running(...)
RenderFile ==
    /\ pc = "render" /\ todo # <<>>
    /\ LET f == Head(todo)
       IN  /\ file' = [file EXCEPT ![f] = Rendered(f)]
           /\ IF file[f] # Rendered(f) \/ ~Running(f)
              THEN pc' = "restart" /\ UNCHANGED todo
              ELSE todo' = Tail(todo) /\ UNCHANGED pc
    /\ UNCHANGED <<juju, failed, branch, output, sentinel, links, proc, cut>>

\* The version a link leads to, if it leads to a binary.
Linked == CASE links = "local" -> "local"
            [] links = "opt" /\ output.bin = "all" -> output.of
            [] OTHER -> None

\* service_restart, whose result nobody looks at; nginx is reloaded.
Restart ==
    /\ pc = "restart"
    /\ pc' = "render"
    /\ todo' = Tail(todo)
    /\ IF Head(todo) \in Daemons
       THEN proc' \in {[proc EXCEPT ![Head(todo)] = p] :
                           p \in {NoProc} \cup IF Linked = None THEN {}
                                 ELSE {[conf |-> file[Head(todo)], bin |-> Linked]}}
       ELSE UNCHANGED proc
    /\ UNCHANGED <<juju, failed, disk, cut>>

\* Mutant of NotifyMinions: only the first time.
NotifyOnce ==
    /\ pc = "render" /\ todo = <<>>
    /\ told' = IF told = None THEN version ELSE told
    /\ Ended
    /\ UNCHANGED <<version, etcd, pending, events, failed, todo, disk, proc, cut>>

\* notify_minions, and the hook ends.
NotifyMinions ==
    /\ pc = "render" /\ todo = <<>>
    /\ told' = version
    /\ Ended
    /\ UNCHANGED <<version, etcd, pending, events, failed, todo, disk, proc, cut>>

\* The process is killed; in the middle of make or make clean, with some of the
\* binaries there.
Kill ==
    /\ pc \notin {"idle", "failed"} /\ events < MaxEvents
    /\ events' = events + 1
    /\ pc' = "failed"
    /\ todo' = <<>>
    /\ failed' = FALSE
    /\ \/ UNCHANGED output
       \/ HalfClean
       \/ pc = "make" /\ output' = [bin |-> "some", of |-> branch]
    /\ cut' = (cut \/ pc = "restart")
    /\ UNCHANGED <<version, etcd, pending, hook, told, branch, sentinel, links, file, proc>>

-----------------------------------------------------------------------------
Build == MakeClean \/ CheckoutMaster \/ Checkout \/ Make

HookProcess ==
    \/ ReadBranch \/ DecideBuild \/ LeaveSentinel \/ IsDir \/ Install
    \/ TemplateData \/ RenderFile \/ Restart \/ NotifyMinions

Next ==
    \/ \E v \in Versions : ConfigSet(v)
    \/ \E e \in Etcds : EtcdSet(e)
    \/ \E d \in Daemons : DaemonDies(d)
    \/ \E h \in Hooks : RunHook(h)
    \/ Resolved
    \/ HookProcess
    \/ Build
    \/ BuildFails
    \/ Kill

Spec == Init /\ [][Next]_vars

Fairness ==
    /\ \A h \in Hooks : WF_vars(RunHook(h))
    /\ WF_vars(Resolved)
    /\ WF_vars(HookProcess)
    /\ WF_vars(Build \/ BuildFails)
    /\ SF_vars(MakeClean) /\ SF_vars(CheckoutMaster) /\ SF_vars(Checkout)
    /\ SF_vars(Make /\ output'.bin = "all")

FairSpec == Spec /\ Fairness

-----------------------------------------------------------------------------
TypeOK ==
    /\ version \in Versions
    /\ etcd \in Etcds \cup {None}
    /\ pending \subseteq Hooks
    /\ hook \in Hooks \cup {None}
    /\ told \in Versions \cup {None}
    /\ events \in 0 .. MaxEvents
    /\ pc \in Pcs
    /\ failed \in BOOLEAN /\ sentinel \in BOOLEAN /\ cut \in BOOLEAN
    /\ todo \in {SubSeq(Files, i, 3) : i \in 1 .. 4}
    /\ branch \in Versions \cup {"detached"}
    /\ output \in [bin : {"none", "some", "all"}, of : Versions \cup {None}]
    /\ links \in {None, "opt", "local"}
    /\ DOMAIN file = {Files[i] : i \in DOMAIN Files}
    /\ \A d \in Daemons : proc[d].bin \in Versions \cup {None}

Settled == pc = "idle" /\ pending = {}

\* When all hooks have run the links lead to a complete set of binaries, built from
\* the version that is configured, whatever failed, was killed or was configured
\* back and forth on the way: a build interrupted on "master" is not taken for
\* master, nor old binaries for new ones.  Concerns build, check_sentinel, install.
InstalledIsConfigured == Settled => Linked = version

\* The daemons that run do so with the files as they are, the files have the
\* present data, and the minions know the version -- except after a kill between a
\* file and the restart of its daemon, since the file is then as it should be.
\* Concerns relation_changed and render_file; a restart that fails leaves a daemon
\* down, not stale.
ServedIsRendered ==
    Settled /\ etcd # None /\ ~cut =>
        /\ told = version
        /\ file["distribution"] = version
        /\ \A d \in Daemons : proc[d] # NoProc => proc[d].conf = Rendered(d)

\* What retries do not repair: some binaries of the configured version are there, and
\* nothing calls for a build; and "local" while its binaries are missing, or a link
\* leads to one that is gone.
Stuck ==
    /\ pc = "failed"
    /\ IF version = "local" THEN links # "local"
       ELSE branch = version /\ ~sentinel /\ output.bin = "some"

\* All hooks end well in time, when git and make do what they are asked again and
\* again, unless the unit fails in a state that no retry repairs.  One is left behind
\* by a make that builds some binaries only, or is killed on the way, and by a make
\* clean that is killed and then no longer wanted, since the old version is configured
\* again: the branch is the right one, no sentinel is there.  The other concerns
\* "local".  Any other half build, with a sentinel or of another branch, is made again.
HooksEnd == <>[]Settled \/ []<>Stuck

\* The daemons that run are of the configured version (README.md: "this charm
\* supports changing the version of kubernetes binaries").
RunsConfiguredVersion ==
    Settled => \A d \in Daemons : proc[d] # NoProc => proc[d].bin = version
=============================================================================
