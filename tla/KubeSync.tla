------------------------------- MODULE KubeSync -------------------------------
(***************************************************************************)
(* The synchronisation of pods and namespaces to the store                 *)
(* (internal/service/kube_event.go, internal/repo/kube_pod.go and          *)
(* kube_namespace.go).  An informer reports objects to a kubeHandler, which*)
(* puts events in one bounded queue; LoopHandler takes batches from it and *)
(* starts a goroutine per event, as many at a time as the semaphore allows;*)
(* each retries its write to the store.                                    *)
(*                                                                         *)
(* An object is known by its key (kind, cluster, namespace, name); what is *)
(* written of it is its version.  Absent stands for no object and no row.  *)
(***************************************************************************)
EXTENDS Naturals, Sequences, SequencesExt

CONSTANTS
    Objects,      \* keys of pods and namespaces
    QueueCap,     \* SafeListLimited(2000)
    BatchSize,    \* PopBackBy(500)
    Slots,        \* eventConcurrency slots of the semaphore
    Retries,      \* DEFAULT_RETRIES
    MaxVersion,   \* bound: versions the objects go through
    Relists,      \* whether a watch breaks, so that objects are listed again
    MaxErrors     \* bound: inserts and updates of the store that fail

ASSUME SyncAssumption ==
    /\ QueueCap \in Nat \ {0} /\ BatchSize \in Nat \ {0} /\ Retries \in Nat \ {0}
    /\ Slots # {} /\ MaxVersion \in Nat /\ MaxErrors \in Nat
    /\ Relists \in BOOLEAN

VARIABLES
    cluster,   \* version of each object in the cluster
    version,   \* the newest version: the cluster counts them over all objects
    seen,      \* version in the informer's cache: what it last reported
    queue,     \* eventQueue, oldest first
    batch,     \* events LoopHandler has popped and not started
    running,   \* event and attempts of the goroutine in each slot
    store,     \* version in the row of each object
    errors,    \* failed inserts and updates so far
    disturbed  \* objects of which an event was lost, overtaken or given up

vars == <<cluster, version, seen, queue, batch, running, store, errors, disturbed>>

Absent == 0
Versions == 0..MaxVersion
Event == [obj : Objects, type : {"upsert", "delete"}, version : Versions]
Idle == [tries |-> 0]
Running == [event : Event, tries : 0..Retries - 1]

TypeOK ==
    /\ cluster \in [Objects -> Versions] /\ version \in Versions
    /\ seen \in [Objects -> Versions] /\ store \in [Objects -> Versions]
    /\ queue \in Seq(Event) /\ Len(queue) <= QueueCap
    /\ batch \in Seq(Event) /\ Len(batch) <= BatchSize
    /\ running \in [Slots -> Running \cup {Idle}]
    /\ errors \in 0..MaxErrors /\ disturbed \subseteq Objects

Init ==
    /\ cluster = [o \in Objects |-> Absent] /\ version = 0
    /\ seen = cluster /\ store = cluster
    /\ queue = <<>> /\ batch = <<>> /\ running = [x \in Slots |-> Idle]
    /\ errors = 0 /\ disturbed = {}

EventOf(o, v) == [obj |-> o, version |-> v,
                  type |-> IF v = Absent THEN "delete" ELSE "upsert"]
Busy(x) == running[x] # Idle
-----------------------------------------------------------------------------
\* The cluster creates or changes an object, or deletes it.
Change(o) ==
    /\ version < MaxVersion /\ version' = version + 1
    /\ cluster' = [cluster EXCEPT ![o] = version']
    /\ UNCHANGED <<seen, queue, batch, running, store, errors, disturbed>>

Vanish(o) ==
    /\ cluster[o] # Absent /\ cluster' = [cluster EXCEPT ![o] = Absent]
    /\ UNCHANGED <<version, seen, queue, batch, running, store, errors, disturbed>>

\* Fault: the queue has no limit.
SendEventUnbounded(o, v) == queue' = Append(queue, EventOf(o, v)) /\ UNCHANGED disturbed

\* PushFront: a full queue refuses the event, and nobody looks at the answer.
SendEvent(o, v) ==
    IF Len(queue) < QueueCap
    THEN queue' = Append(queue, EventOf(o, v)) /\ UNCHANGED disturbed
    ELSE disturbed' = disturbed \cup {o} /\ UNCHANGED queue

\* OnAdd, OnUpdate, OnDelete: the watch reports how an object differs.
Report(o) ==
    /\ seen[o] # cluster[o] /\ seen' = [seen EXCEPT ![o] = cluster[o]]
    /\ SendEvent(o, cluster[o])
    /\ UNCHANGED <<cluster, version, batch, running, store, errors>>

\* A deletion found by listing again is reported as a tombstone, which is
\* neither a Pod nor a Namespace: sendEvent drops it.
Tombstone(o) ==
    /\ Relists /\ seen[o] # Absent /\ cluster[o] = Absent
    /\ seen' = [seen EXCEPT ![o] = Absent] /\ disturbed' = disturbed \cup {o}
    /\ UNCHANGED <<cluster, version, queue, batch, running, store, errors>>

\* Fault: an update that changes nothing is not reported.
ResyncSilent(o) == seen[o] # Absent /\ UNCHANGED vars

\* The resync of every 5 minutes reports an update of each object in the cache.
Resync(o) ==
    /\ seen[o] # Absent /\ SendEvent(o, seen[o])
    /\ UNCHANGED <<cluster, version, seen, batch, running, store, errors>>

\* Fault: the newest events are popped first.
PopNewest ==
    /\ batch = <<>> /\ queue # <<>>
    /\ LET n == IF Len(queue) < BatchSize THEN Len(queue) ELSE BatchSize IN
       /\ batch' = Reverse(SubSeq(queue, Len(queue) - n + 1, Len(queue)))
       /\ queue' = SubSeq(queue, 1, Len(queue) - n)
    /\ UNCHANGED <<cluster, version, seen, running, store, errors, disturbed>>

\* LoopHandler pops the oldest events once it has started those it had.
Pop ==
    /\ batch = <<>> /\ queue # <<>>
    /\ LET n == IF Len(queue) < BatchSize THEN Len(queue) ELSE BatchSize IN
       batch' = SubSeq(queue, 1, n) /\ queue' = SubSeq(queue, n + 1, Len(queue))
    /\ UNCHANGED <<cluster, version, seen, running, store, errors, disturbed>>

\* loopHandler acquires the semaphore and starts a goroutine.
Start(x) ==
    /\ batch # <<>> /\ ~ Busy(x)
    /\ running' = [running EXCEPT ![x] = [event |-> Head(batch), tries |-> 0]]
    /\ batch' = Tail(batch)
    /\ disturbed' = disturbed \cup
          {o \in {Head(batch).obj} : \E y \in Slots : Busy(y) /\ running[y].event.obj = o}
    /\ UNCHANGED <<cluster, version, seen, queue, store, errors>>

\* One insert or update under the repository's lock.
Write(x) ==
    /\ Busy(x) /\ running[x].event.type = "upsert"
    /\ store' = [store EXCEPT ![running[x].event.obj] = running[x].event.version]
    /\ running' = [running EXCEPT ![x] = Idle]
    /\ UNCHANGED <<cluster, version, seen, queue, batch, errors, disturbed>>

\* A write that fails is tried again; after the last try the event is given up.  A
\* delete always fails: it names the row in the value it passes and not in a condition,
\* and the value has no primary key, so the store refuses it.
WriteFails(x) ==
    /\ Busy(x)
    /\ \/ running[x].event.type = "delete" /\ UNCHANGED errors
       \/ running[x].event.type = "upsert" /\ errors < MaxErrors /\ errors' = errors + 1
    /\ IF running[x].tries + 1 < Retries
       THEN running' = [running EXCEPT ![x].tries = @ + 1] /\ UNCHANGED disturbed
       ELSE running' = [running EXCEPT ![x] = Idle]
            /\ disturbed' = disturbed \cup {running[x].event.obj}
    /\ UNCHANGED <<cluster, version, seen, queue, batch, store>>
-----------------------------------------------------------------------------
Next ==
    \/ \E o \in Objects : Change(o) \/ Vanish(o) \/ Report(o) \/ Tombstone(o) \/ Resync(o)
    \/ Pop
    \/ \E x \in Slots : Start(x) \/ Write(x) \/ WriteFails(x)

Spec == Init /\ [][Next]_vars

(***************************************************************************)
(* LoopHandler and its goroutines run, an update fails a bounded number of *)
(* times, the informer reports what it sees, and its periodic resync finds *)
(* the queue with room again and again.                                    *)
(***************************************************************************)
Fairness ==
    /\ WF_vars(Pop) /\ WF_vars(\E x \in Slots : Start(x))
    /\ \A x \in Slots : WF_vars(Write(x) \/ WriteFails(x))
    /\ \A o \in Objects : WF_vars(Report(o)) /\ SF_vars(Len(queue) < QueueCap /\ Resync(o))

FairSpec == Spec /\ Fairness
-----------------------------------------------------------------------------
\* Events wait in the batch, then in the queue; one is the newest of its object if none
\* of the object follows.
Pending == batch \o queue
Newest(i) == \A j \in DOMAIN Pending : j > i => Pending[j].obj # Pending[i].obj
Waits(o) == \E i \in DOMAIN Pending : Pending[i].obj = o

\* The goroutines that write an event of o.
Writers(o) == {x \in Slots : Busy(x) /\ running[x].event.obj = o}

\* An object none of whose events was lost, overtaken or given up (a deletion always is)
\* has its newest version in the newest event on the way, or in its row when none is on
\* the way: the queue, the batches and the retries keep the order of its events, and
\* never are two of them written at a time.
UndisturbedIsCurrent ==
    \A o \in Objects \ disturbed :
        /\ \A x, y \in Writers(o) : x = y
        /\ \A i \in DOMAIN Pending :
              Pending[i].obj = o /\ Newest(i) => Pending[i].version = seen[o]
        /\ ~ Waits(o) => \A x \in Writers(o) : running[x].event.version = seen[o]
        /\ ~ Waits(o) /\ Writers(o) = {} => store[o] = seen[o]

\* An object that lives on and changes no more has its version in the store in
\* the end and for good, whatever was lost or overtaken, deletions included: resync
\* repairs it.
LivingObjectsConverge ==
    \A o \in Objects : \A v \in 1..MaxVersion :
        <>[](cluster[o] = v) => <>[](store[o] = v)

\* "syncClusterResourcesToStore 同步各个已配置集群信息" (synchronise the configured clusters,
\* task.go:10): a deletion that is handled with no other event of its object on the way,
\* and without any fault of the store, takes the object's row out of it.
HandledAlone(o) ==
    \E x \in Slots : ~ Waits(o) /\ Writers(o) = {x} /\ running[x].event.type = "delete"
DeletesAreWritten == \A o \in Objects : HandledAlone(o) ~> store[o] = Absent
=============================================================================
