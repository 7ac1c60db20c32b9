--------------------------- MODULE CollectorProofs ---------------------------
(* Proofs about Collector, for any containers, any number of goroutines, runs and   *)
(* stats, and streams that may break.                                              *)
EXTENDS Collector, TLAPS

-----------------------------------------------------------------------------
(* Type correctness *)

\* A goroutine past NewMonitor is for a container with an application.
BusyInv == \A w \in Workers : pc[w] # "free" => who[w] \in Labelled

TypeInv == TypeOK /\ BusyInv

LEMMA InitTypeInv == Init => TypeInv
BY BoundsAssumption, LabelledAssumption DEF Init, TypeInv, TypeOK, BusyInv, Nobody

LEMMA StartTypeInv == ASSUME NEW c \in Containers, TypeInv, Start(c) PROVE TypeInv'
<1> USE DEF TypeInv, TypeOK, BusyInv, docker, workers, pipe
<1>1. run' \in [Containers -> 0..MaxRuns]
  BY BoundsAssumption DEF Start
<1>2. events' \in Seq(Containers)
  <2>1. CASE Listening
    <3>1. PICK news \in {<<c>>, <<c, c>>} : events' = events \o news
      BY <2>1 DEF Start
    <3>2. news \in Seq(Containers)
      <4>1. CASE news = <<c>>
        BY <4>1
      <4>2. CASE news = <<c, c>>
        BY <4>2
      <4> QED
        BY <4>1, <4>2
    <3> QED
      BY <3>1, <3>2
  <2>2. CASE ~Listening
    BY <2>2 DEF Start
  <2> QED
    BY <2>1, <2>2
<1>3. alive' \subseteq Containers /\ UNCHANGED <<main, listed, spawned, workers, registered, pipe, broken>>
  BY DEF Start
<1> QED
  BY <1>1, <1>2, <1>3

\* A failed request and a broken stream are about a run of a labelled container.
LEMMA BrokenTypeInv ==
    ASSUME NEW c \in Labelled, NEW r \in 0..MaxRuns, TypeInv,
           broken' = broken \/ broken' = broken \cup {<<c, r>>}
    PROVE  broken' \subseteq Stats
<1>1. <<c, r>> \in Stats
  BY DEF Stats
<1>2. broken \subseteq Stats
  BY DEF TypeInv, TypeOK
<1> QED
  BY <1>1, <1>2

LEMMA NewMonitorTypeInv == ASSUME NEW c \in Containers, TypeInv, NewMonitor(c) PROVE TypeInv'
<1> USE DEF TypeInv, TypeOK, BusyInv, docker, workers, pipe
<1>1. spawned' \in [Containers -> Nat]
  BY DEF NewMonitor
<1>2. UNCHANGED <<docker, events, main, listed, stream, registered, pipe>>
  BY DEF NewMonitor
<1>3. broken' \subseteq Stats
  <2>1. CASE c \in Labelled
    <3>1. broken' = broken \/ broken' = broken \cup {<<c, run[c]>>}
      BY DEF NewMonitor
    <3>2. run[c] \in 0..MaxRuns
      OBVIOUS
    <3> QED
      BY <2>1, <3>1, <3>2, BrokenTypeInv
  <2>2. CASE c \notin Labelled
    BY <2>2 DEF NewMonitor
  <2> QED
    BY <2>1, <2>2
<1>4. CASE UNCHANGED <<pc, who>>
  BY <1>1, <1>2, <1>3, <1>4
<1>5. CASE c \in Labelled /\ \E w \in Workers : /\ pc' = [pc EXCEPT ![w] = "register"]
                                                /\ who' = [who EXCEPT ![w] = c]
  <2>1. PICK w \in Workers : /\ pc' = [pc EXCEPT ![w] = "register"]
                             /\ who' = [who EXCEPT ![w] = c]
    BY <1>5
  <2>2. /\ pc' \in [Workers -> {"free", "register", "connect", "stream", "unregister"}]
        /\ who' \in [Workers -> Labelled \cup {Nobody}]
    BY <1>5, <2>1
  <2>3. BusyInv'
    BY <1>5, <2>1
  <2> QED
    BY <1>1, <1>2, <1>3, <2>2, <2>3
<1> QED
  BY <1>4, <1>5 DEF NewMonitor

LEMMA RegisterTypeInv == ASSUME NEW w \in Workers, TypeInv, Register(w) PROVE TypeInv'
<1> USE DEF TypeInv, TypeOK, BusyInv, docker, workers, pipe
<1>1. UNCHANGED <<docker, events, main, listed, spawned, stream, pipe, broken>> /\ who[w] \in Labelled
  BY DEF Register
<1>2. CASE who[w] \in registered
  <2>1. /\ pc' = [pc EXCEPT ![w] = "free"]
        /\ who' = [who EXCEPT ![w] = Nobody]
        /\ UNCHANGED registered
    BY <1>2 DEF Register
  <2> QED
    BY <1>1, <2>1
<1>3. CASE who[w] \notin registered
  <2>1. /\ pc' = [pc EXCEPT ![w] = "connect"]
        /\ registered' = registered \cup {who[w]}
        /\ UNCHANGED who
    BY <1>3 DEF Register
  <2> QED
    BY <1>1, <2>1
<1> QED
  BY <1>2, <1>3

LEMMA SampleTypeInv == ASSUME NEW w \in Workers, TypeInv, Sample(w) PROVE TypeInv'
<1> USE DEF TypeInv, TypeOK, BusyInv, docker, workers, pipe
<1>1. UNCHANGED <<docker, events, main, listed, spawned, workers, registered, writing, reported, broken>>
  BY DEF Sample
<1>2. count' \in [Workers -> 0..MaxStats]
  BY BoundsAssumption DEF Sample
<1>3. <<who[w], stream[w]>> \in Stats
  BY DEF Sample, Stats
<1>4. held' \in [Workers -> SUBSET Stats]
  <2>1. \/ held' = [held EXCEPT ![w] = {<<who[w], stream[w]>>}]
        \/ held' = held
    BY DEF Sample
  <2>2. {<<who[w], stream[w]>>} \in SUBSET Stats
    BY <1>3
  <2> HIDE DEF TypeInv
  <2>3. held \in [Workers -> SUBSET Stats]
    BY DEF TypeInv
  <2>4. CASE held' = [held EXCEPT ![w] = {<<who[w], stream[w]>>}]
    BY ONLY <2>2, <2>3, <2>4
  <2> QED
    BY <2>1, <2>3, <2>4
<1> QED
  BY <1>1, <1>2, <1>4

LEMMA NextTypeInv == TypeInv /\ [Next]_vars => TypeInv'
<1> SUFFICES ASSUME TypeInv, [Next]_vars PROVE TypeInv'
  OBVIOUS
<1> USE DEF TypeInv, TypeOK, BusyInv, docker, workers, pipe
<1>1. ASSUME NEW c \in Containers, Start(c) PROVE TypeInv'
  BY <1>1, StartTypeInv
<1>2. ASSUME NEW c \in Containers, Stop(c) PROVE TypeInv'
  BY <1>2 DEF Stop
<1>3. ASSUME NEW c \in Containers, NewMonitor(c) PROVE TypeInv'
  BY <1>3, NewMonitorTypeInv
<1>4. CASE AddEventListener
  BY <1>4 DEF AddEventListener
<1>5. CASE ListContainers
  BY <1>5 DEF ListContainers
<1>6. CASE HandleEvent
  <2>1. Head(events) \in Containers /\ Tail(events) \in Seq(Containers)
    BY <1>6 DEF HandleEvent
  <2>2. spawned' \in [Containers -> Nat]
    BY <1>6, <2>1 DEF HandleEvent
  <2>3. events' \in Seq(Containers) /\ UNCHANGED <<docker, main, listed, workers, registered, pipe, broken>>
    BY <1>6, <2>1 DEF HandleEvent
  <2> QED
    BY <2>2, <2>3
<1>7. ASSUME NEW w \in Workers, Register(w) PROVE TypeInv'
  BY <1>7, RegisterTypeInv
<1>8. ASSUME NEW w \in Workers, Connect(w) PROVE TypeInv'
  <2>1. UNCHANGED <<docker, events, main, listed, spawned, who, registered, pipe>>
    BY <1>8 DEF Connect
  <2>2. PICK next \in {"stream", "unregister"} : pc' = [pc EXCEPT ![w] = next]
    BY <1>8 DEF Connect
  <2>3. who[w] \in Labelled
    BY <1>8 DEF Connect
  <2>4. stream' \in [Workers -> 0..MaxRuns]
    BY <1>8, <2>3, LabelledAssumption DEF Connect
  <2>5. broken' \subseteq Stats
    <3>1. broken' = broken \/ broken' = broken \cup {<<who[w], run[who[w]]>>}
      BY <1>8 DEF Connect
    <3>2. run[who[w]] \in 0..MaxRuns
      BY <2>3, LabelledAssumption
    <3> QED
      BY <2>3, <3>1, <3>2, BrokenTypeInv
  <2> QED
    BY <2>1, <2>2, <2>3, <2>4, <2>5
<1>9. ASSUME NEW w \in Workers, StreamEnds(w) PROVE TypeInv'
  <2>1. UNCHANGED <<docker, events, main, listed, spawned, who, registered, held, writing, reported>>
    BY <1>9 DEF StreamEnds
  <2>2. /\ pc' = [pc EXCEPT ![w] = "unregister"]
        /\ stream' \in [Workers -> 0..MaxRuns]
        /\ count' \in [Workers -> 0..MaxStats]
    BY <1>9, BoundsAssumption DEF StreamEnds
  <2>3. who[w] \in Labelled /\ stream[w] \in 0..MaxRuns
    BY <1>9 DEF StreamEnds
  <2>4. broken' = broken \/ broken' = broken \cup {<<who[w], stream[w]>>}
    BY <1>9 DEF StreamEnds
  <2>5. broken' \subseteq Stats
    BY <2>3, <2>4, BrokenTypeInv
  <2> QED
    BY <2>1, <2>2, <2>3, <2>5
<1>10. ASSUME NEW w \in Workers, Unregister(w) PROVE TypeInv'
  BY <1>10 DEF Unregister
<1>11. ASSUME NEW w \in Workers, Sample(w) PROVE TypeInv'
  BY <1>11, SampleTypeInv
<1>12. ASSUME NEW w \in Workers, Send(w) PROVE TypeInv'
  BY <1>12 DEF Send
<1>13. CASE Write
  BY <1>13 DEF Write
<1>14. CASE RunFails
  BY <1>14 DEF RunFails
<1>15. CASE HandleListed
  BY <1>15 DEF HandleListed
<1>16. CASE UNCHANGED vars
  BY <1>16 DEF vars
<1> QED
  BY <1>1, <1>2, <1>3, <1>4, <1>5, <1>6, <1>7, <1>8, <1>9, <1>10, <1>11, <1>12, <1>13,
     <1>14, <1>15, <1>16 DEF Next, Run, Handle

\* The inductive form: types, and every busy goroutine has its container.
THEOREM TypeInvariant == Spec => []TypeInv
BY InitTypeInv, NextTypeInv, PTL DEF Spec

\* Every variable keeps its type; in particular only labelled containers are ever
\* registered, held for the writer or reported.
THEOREM TypeCorrect == Spec => []TypeOK
<1>1. TypeInv => TypeOK
  BY DEF TypeInv
<1> QED
  BY <1>1, TypeInvariant, PTL

-----------------------------------------------------------------------------
(* The registry *)

LEMMA NewMonitorOneMonitor ==
    ASSUME NEW c \in Containers, TypeInv, OneMonitorPerContainer, NewMonitor(c)
    PROVE  OneMonitorPerContainer'
<1> USE DEF TypeInv, TypeOK, OneMonitorPerContainer, Monitoring
<1>1. UNCHANGED registered
  BY DEF NewMonitor
<1>2. CASE UNCHANGED <<pc, who>>
  BY <1>1, <1>2
<1>3. CASE \E w \in Workers : /\ pc[w] = "free"
                              /\ pc' = [pc EXCEPT ![w] = "register"]
                              /\ who' = [who EXCEPT ![w] = c]
  <2>1. PICK w \in Workers : /\ pc[w] = "free"
                             /\ pc' = [pc EXCEPT ![w] = "register"]
                             /\ who' = [who EXCEPT ![w] = c]
    BY <1>3
  <2>2. \A v \in Workers : /\ pc'[v] \in Monitoring <=> pc[v] \in Monitoring
                           /\ pc[v] \in Monitoring => who'[v] = who[v]
    BY <2>1
  <2> HIDE DEF TypeInv, Monitoring
  <2> QED
    BY <1>1, <2>2
<1> QED
  BY <1>2, <1>3 DEF NewMonitor

LEMMA RegisterOneMonitor ==
    ASSUME NEW w \in Workers, TypeInv, OneMonitorPerContainer, Register(w)
    PROVE  OneMonitorPerContainer'
<1> USE DEF TypeInv, TypeOK, OneMonitorPerContainer, Monitoring
<1>1. pc[w] = "register"
  BY DEF Register
<1>2. CASE who[w] \in registered
  <2>1. /\ pc' = [pc EXCEPT ![w] = "free"]
        /\ who' = [who EXCEPT ![w] = Nobody]
        /\ UNCHANGED registered
    BY <1>2 DEF Register
  <2>2. \A v \in Workers : /\ pc'[v] \in Monitoring <=> pc[v] \in Monitoring
                           /\ pc[v] \in Monitoring => who'[v] = who[v]
    BY <1>1, <2>1
  <2> QED
    BY <2>1, <2>2
<1>3. CASE who[w] \notin registered
  <2>1. /\ pc' = [pc EXCEPT ![w] = "connect"]
        /\ registered' = registered \cup {who[w]}
        /\ UNCHANGED who
    BY <1>3 DEF Register
  <2>2. \A v \in Workers : pc'[v] \in Monitoring <=> v = w \/ pc[v] \in Monitoring
    BY <2>1
  <2>3. \A v \in Workers : pc[v] \in Monitoring => who[v] # who[w]
    BY <1>3
  <2> QED
    BY <2>1, <2>2, <2>3
<1> QED
  BY <1>2, <1>3

LEMMA UnregisterOneMonitor ==
    ASSUME NEW w \in Workers, TypeInv, OneMonitorPerContainer, Unregister(w)
    PROVE  OneMonitorPerContainer'
<1> USE DEF TypeInv, TypeOK, OneMonitorPerContainer, Monitoring
<1>1. /\ pc[w] = "unregister"
      /\ registered' = registered \ {who[w]}
      /\ pc' = [pc EXCEPT ![w] = "free"]
      /\ who' = [who EXCEPT ![w] = Nobody]
  BY DEF Unregister
<1>2. \A v \in Workers : /\ pc'[v] \in Monitoring <=> v # w /\ pc[v] \in Monitoring
                         /\ v # w => who'[v] = who[v]
  BY <1>1
<1>3. \A v \in Workers : v # w /\ pc[v] \in Monitoring => who[v] # who[w]
  BY <1>1
<1> QED
  BY <1>1, <1>2, <1>3

LEMMA NextOneMonitor == TypeInv /\ OneMonitorPerContainer /\ [Next]_vars => OneMonitorPerContainer'
<1> SUFFICES ASSUME TypeInv, OneMonitorPerContainer, [Next]_vars
             PROVE  OneMonitorPerContainer'
  OBVIOUS
<1>1. ASSUME NEW c \in Containers, NewMonitor(c) PROVE OneMonitorPerContainer'
  BY <1>1, NewMonitorOneMonitor
<1>2. ASSUME NEW w \in Workers, Register(w) PROVE OneMonitorPerContainer'
  BY <1>2, RegisterOneMonitor
<1>3. ASSUME NEW w \in Workers, Connect(w) \/ StreamEnds(w) PROVE OneMonitorPerContainer'
  <2>1. PICK next \in {"stream", "unregister"} : pc' = [pc EXCEPT ![w] = next]
    BY <1>3 DEF Connect, StreamEnds
  <2>2. pc[w] \in Monitoring /\ UNCHANGED <<who, registered>>
    BY <1>3 DEF Connect, StreamEnds, Monitoring
  <2>3. \A v \in Workers : pc'[v] \in Monitoring <=> pc[v] \in Monitoring
    BY <2>1, <2>2 DEF TypeInv, TypeOK, Monitoring
  <2> QED
    BY <2>2, <2>3 DEF OneMonitorPerContainer
<1>4. ASSUME NEW w \in Workers, Unregister(w) PROVE OneMonitorPerContainer'
  BY <1>4, UnregisterOneMonitor
<1>5. ASSUME UNCHANGED <<workers, registered>> PROVE OneMonitorPerContainer'
  BY <1>5 DEF OneMonitorPerContainer, Monitoring, workers
<1>6. \/ \E c \in Containers : NewMonitor(c)
      \/ \E w \in Workers : Handle(w)
      \/ UNCHANGED <<workers, registered>>
  BY DEF Next, Start, Stop, Sample, Send, Run, AddEventListener, ListContainers, HandleListed, RunFails,
         HandleEvent, Write, vars, workers
<1> QED
  BY <1>1, <1>2, <1>3, <1>4, <1>5, <1>6 DEF Handle

\* At most one goroutine follows a container, and the registry holds exactly the
\* containers that are followed.
THEOREM OneMonitor == Spec => []OneMonitorPerContainer
<1>1. Init => OneMonitorPerContainer
  BY DEF Init, OneMonitorPerContainer, Monitoring
<1> QED
  BY <1>1, TypeInvariant, NextOneMonitor, PTL DEF Spec
==============================================================================
