------------------------------ MODULE Collector ------------------------------
(***************************************************************************)
(* The Collector of monitor-agent-docker: it learns of containers from a   *)
(* listing and from Docker's events, runs one goroutine per container that *)
(* registers, follows the container's stats stream and unregisters, and    *)
(* passes every Interval-th stat over an unbuffered channel to one writer. *)
(***************************************************************************)
EXTENDS Naturals, Sequences

CONSTANTS
    Containers,     \* container ids
    Labelled,       \* the containers with an application label or variable
    Workers,        \* bound: goroutines that are past NewMonitor at one time
    Interval,       \* every Interval-th stat is forwarded
    MaxRuns,        \* bound: how often a container is started
    MaxStats,       \* bound: stats that a stream carries
    MaxEvents,      \* bound: no container starts with as many events undelivered
    DockerFaults    \* whether requests to Docker may fail and stats streams break

ASSUME LabelledAssumption == Labelled \subseteq Containers
ASSUME IntervalAssumption == Interval \in Nat \ {0}
ASSUME BoundsAssumption == MaxRuns \in Nat \ {0} /\ {MaxStats, MaxEvents} \subseteq Nat
ASSUME FaultsAssumption == DockerFaults \in BOOLEAN

VARIABLES
    \* Docker
    run,        \* how often a container has been started
    alive,      \* the containers that run
    events,     \* start and restart events on their way to the listener
    \* the collector
    main,       \* where Run is
    listed,     \* the containers that ListContainers has returned
    spawned,    \* per container, goroutines of "go c.handle(id)" not yet past NewMonitor
    pc,         \* where a goroutine past NewMonitor is
    who,        \* the container it is for
    stream,     \* the run of that container whose stats it receives
    registered, \* c.registered
    count,      \* the i of its sampler: stats received
    held,       \* the stat its sampler waits to send, if any
    writing,    \* the stat the writer is busy with, if any
    \* history
    reported,   \* the runs of which a stat reached the writer
    broken      \* the runs for which a request failed or whose stream broke

docker == <<run, alive>>
workers == <<pc, who, stream>>
pipe == <<count, held, writing, reported>>
vars == <<run, alive, events, main, listed, spawned, pc, who, stream, registered, count,
          held, writing, reported, broken>>

Nobody == "nobody"

Init ==
    /\ run \in [Containers -> {0, 1}]
    /\ alive = {c \in Containers : run[c] = 1}
    /\ events = <<>>
    /\ main = "listen"
    /\ listed = {}
    /\ spawned = [c \in Containers |-> 0]
    /\ pc = [w \in Workers |-> "free"]
    /\ who = [w \in Workers |-> Nobody]
    /\ stream = [w \in Workers |-> 0]
    /\ registered = {}
    /\ count = [w \in Workers |-> 0]
    /\ held = [w \in Workers |-> {}]
    /\ writing = {}
    /\ reported = {}
    /\ broken = {}

-----------------------------------------------------------------------------
(* Docker *)

\* Mutant of Listening: the listener is added after the containers are listed.
ListeningLate == main = "range"

\* Whether c.client.AddEventListener(ch) has been called.
Listening == main \in {"list", "spawn", "range"}

\* A container starts: the listener gets a "start", and with "docker restart" a
\* "restart" after it.
Start(c) ==
    /\ c \notin alive /\ run[c] < MaxRuns /\ Len(events) < MaxEvents
    /\ alive' = alive \cup {c}
    /\ run' = [run EXCEPT ![c] = @ + 1]
    /\ IF Listening
       THEN \E news \in {<<c>>, <<c, c>>} : events' = events \o news
       ELSE UNCHANGED events
    /\ UNCHANGED <<main, listed, spawned, workers, registered, pipe, broken>>

\* A container stops.  The events of that are ignored.
Stop(c) ==
    /\ c \in alive
    /\ alive' = alive \ {c}
    /\ UNCHANGED <<run, events, main, listed, spawned, workers, registered, pipe, broken>>

-----------------------------------------------------------------------------
(* Run *)

AddEventListener ==
    /\ main = "listen"
    /\ main' = "list"
    /\ UNCHANGED <<docker, events, listed, spawned, workers, registered, pipe, broken>>

\* ListContainers, without All: the containers that run when Docker is asked.
ListContainers ==
    /\ main = "list"
    /\ main' = "spawn"
    /\ listed' = alive
    /\ UNCHANGED <<docker, events, spawned, workers, registered, pipe, broken>>

\* A goroutine for each of them.
HandleListed ==
    /\ main = "spawn"
    /\ main' = "range"
    /\ spawned' = [c \in Containers |-> IF c \in listed THEN 1 ELSE 0]
    /\ listed' = {}
    /\ UNCHANGED <<docker, events, workers, registered, pipe, broken>>

\* Either request fails, and the agent ends before it has started a goroutine.
RunFails ==
    /\ DockerFaults /\ main \in {"listen", "list"}
    /\ main' = "failed"
    /\ UNCHANGED <<docker, events, listed, spawned, workers, registered, pipe, broken>>

\* The loop over the events.
HandleEvent ==
    /\ main = "range" /\ events # <<>>
    /\ events' = Tail(events)
    /\ spawned' = [spawned EXCEPT ![Head(events)] = @ + 1]
    /\ UNCHANGED <<docker, main, listed, workers, registered, pipe, broken>>

-----------------------------------------------------------------------------
(* handle *)

\* Mutant of NewMonitor: containers without an application are not left out.
NewMonitorAny(c) ==
    /\ spawned[c] > 0
    /\ spawned' = [spawned EXCEPT ![c] = @ - 1]
    /\ \E w \in Workers :
           /\ pc[w] = "free" /\ held[w] = {}
           /\ pc' = [pc EXCEPT ![w] = "register"]
           /\ who' = [who EXCEPT ![w] = c]
    /\ UNCHANGED <<docker, events, main, listed, stream, registered, pipe, broken>>

\* NewMonitor inspects the container and gives up on one without an application, or
\* when the request fails.
NewMonitor(c) ==
    /\ spawned[c] > 0
    /\ spawned' = [spawned EXCEPT ![c] = @ - 1]
    /\ \/ /\ c \notin Labelled
          /\ UNCHANGED <<pc, who, broken>>
       \/ /\ c \in Labelled /\ DockerFaults
          /\ broken' = broken \cup {<<c, run[c]>>}
          /\ UNCHANGED <<pc, who>>
       \/ /\ c \in Labelled
          /\ UNCHANGED broken
          /\ \E w \in Workers :
                 /\ pc[w] = "free" /\ held[w] = {}
                 /\ pc' = [pc EXCEPT ![w] = "register"]
                 /\ who' = [who EXCEPT ![w] = c]
    /\ UNCHANGED <<docker, events, main, listed, stream, registered, pipe>>

\* Mutant of Register: a container that is registered is registered again.
RegisterAgain(w) ==
    /\ pc[w] = "register"
    /\ registered' = registered \cup {who[w]}
    /\ pc' = [pc EXCEPT ![w] = "connect"]
    /\ UNCHANGED <<docker, events, main, listed, spawned, who, stream, pipe, broken>>

\* c.register(id), under the mutex: the goroutine of a registered container returns.
Register(w) ==
    /\ pc[w] = "register"
    /\ IF who[w] \in registered
       THEN /\ pc' = [pc EXCEPT ![w] = "free"]
            /\ who' = [who EXCEPT ![w] = Nobody]
            /\ UNCHANGED registered
       ELSE /\ pc' = [pc EXCEPT ![w] = "connect"]
            /\ registered' = registered \cup {who[w]}
            /\ UNCHANGED who
    /\ UNCHANGED <<docker, events, main, listed, spawned, stream, pipe, broken>>

\* m.client.Stats(...) opens the stream of the container's present run, or returns
\* at once because there is none.
Connect(w) ==
    /\ pc[w] = "connect"
    /\ \/ /\ who[w] \in alive
          /\ pc' = [pc EXCEPT ![w] = "stream"]
          /\ stream' = [stream EXCEPT ![w] = run[who[w]]]
          /\ UNCHANGED broken
       \/ /\ who[w] \notin alive \/ DockerFaults
          /\ pc' = [pc EXCEPT ![w] = "unregister"]
          /\ broken' = IF who[w] \in alive THEN broken \cup {<<who[w], run[who[w]]>>} ELSE broken
          /\ UNCHANGED stream
    /\ UNCHANGED <<docker, events, main, listed, spawned, who, registered, pipe>>

Follows(w) == who[w] \in alive /\ stream[w] = run[who[w]]

\* A stat arrives.  The sampler takes it when it is not waiting to send, and keeps
\* the first of every Interval.
Sample(w) ==
    /\ pc[w] = "stream" /\ Follows(w)
    /\ held[w] = {} /\ count[w] < MaxStats
    /\ count' = [count EXCEPT ![w] = @ + 1]
    /\ IF count[w] % Interval = 0
       THEN held' = [held EXCEPT ![w] = {<<who[w], stream[w]>>}]
       ELSE UNCHANGED held
    /\ UNCHANGED <<docker, events, main, listed, spawned, workers, registered, writing, reported, broken>>

\* The stream ends with the run it follows, or breaks: m.handle returns, and its
\* sampler has nothing more to receive.
StreamEnds(w) ==
    /\ pc[w] = "stream"
    /\ ~Follows(w) \/ DockerFaults
    /\ pc' = [pc EXCEPT ![w] = "unregister"]
    /\ stream' = [stream EXCEPT ![w] = 0]
    /\ count' = [count EXCEPT ![w] = 0]
    /\ broken' = IF Follows(w) THEN broken \cup {<<who[w], stream[w]>>} ELSE broken
    /\ UNCHANGED <<docker, events, main, listed, spawned, who, registered, held, writing, reported>>

\* c.unregister(id), and the end of the goroutine.
Unregister(w) ==
    /\ pc[w] = "unregister"
    /\ registered' = registered \ {who[w]}
    /\ pc' = [pc EXCEPT ![w] = "free"]
    /\ who' = [who EXCEPT ![w] = Nobody]
    /\ UNCHANGED <<docker, events, main, listed, spawned, stream, pipe, broken>>

-----------------------------------------------------------------------------
(* The channel c.ch and the goroutine of NewCollector *)

\* ch <- Stats{...}: sender and writer meet.  The sender may be a sampler that has
\* outlived its stream.
Send(w) ==
    /\ held[w] # {} /\ writing = {}
    /\ writing' = held[w]
    /\ held' = [held EXCEPT ![w] = {}]
    /\ UNCHANGED <<docker, events, main, listed, spawned, workers, registered, count, reported, broken>>

\* w.Write(s) returns; its error is dropped.
Write ==
    /\ writing # {}
    /\ reported' = reported \cup writing
    /\ writing' = {}
    /\ UNCHANGED <<docker, events, main, listed, spawned, workers, registered, count, held, broken>>

-----------------------------------------------------------------------------
Handle(w) == Register(w) \/ Connect(w) \/ StreamEnds(w) \/ Unregister(w)

Run == AddEventListener \/ ListContainers \/ HandleListed \/ RunFails \/ HandleEvent

Next ==
    \/ \E c \in Containers : Start(c) \/ Stop(c) \/ NewMonitor(c)
    \/ \E w \in Workers : Handle(w) \/ Sample(w) \/ Send(w)
    \/ Run
    \/ Write

Spec == Init /\ [][Next]_vars

\* The Go scheduler runs what can run, senders on a channel are served in turn, and
\* Docker delivers stats while a container runs.
Fairness ==
    /\ WF_vars(Run) /\ WF_vars(Write)
    /\ \A c \in Containers : WF_vars(NewMonitor(c))
    /\ \A w \in Workers : WF_vars(Handle(w)) /\ WF_vars(Sample(w)) /\ SF_vars(Send(w))

FairSpec == Spec /\ Fairness

-----------------------------------------------------------------------------
Stats == Labelled \X (0..MaxRuns)

TypeOK ==
    /\ run \in [Containers -> 0..MaxRuns]
    /\ alive \subseteq Containers
    /\ events \in Seq(Containers)
    /\ main \in {"listen", "list", "spawn", "range", "failed"}
    /\ listed \subseteq Containers
    /\ spawned \in [Containers -> Nat]
    /\ pc \in [Workers -> {"free", "register", "connect", "stream", "unregister"}]
    /\ who \in [Workers -> Labelled \cup {Nobody}]
    /\ stream \in [Workers -> 0..MaxRuns]
    /\ registered \subseteq Labelled
    /\ count \in [Workers -> 0..MaxStats]
    /\ held \in [Workers -> SUBSET Stats]
    /\ writing \subseteq Stats
    /\ reported \subseteq Stats
    /\ broken \subseteq Stats

Monitoring == {"connect", "stream", "unregister"}

\* However often a container is announced, by the listing, its start and its
\* restart, at most one goroutine follows its stats, and the registry says which
\* containers are followed: a container is not counted twice, and it is not shut
\* out after its goroutine is gone.
OneMonitorPerContainer ==
    /\ \A w \in Workers : pc[w] \in Monitoring => who[w] \in registered
    /\ \A c \in registered : \E w \in Workers : pc[w] \in Monitoring /\ who[w] = c
    /\ \A v, w \in Workers :
           pc[v] \in Monitoring /\ pc[w] \in Monitoring /\ who[v] = who[w] => v = w

\* The r-th run of c, once up, is reported to the writer, unless it ends before that,
\* or Docker failed a request about it or broke its stream (nothing is retried).
Reported(c, r) ==
    (c \in alive /\ run[c] = r) ~>
        \/ <<c, r>> \in reported \cup broken
        \/ c \notin alive \/ run[c] # r
        \/ main = "failed"

\* A container that runs is eventually reported, whether it was there before the
\* agent, started while the agent came up, or later, and whatever happens to the
\* streams of other containers.
FirstRunsReported == \A c \in Labelled : Reported(c, 1)

\* The same of every run.  False: the goroutine of a restart returns when that of
\* the previous run has not unregistered yet.
ContainersReported == \A c \in Labelled, r \in 1..MaxRuns : Reported(c, r)
==============================================================================
