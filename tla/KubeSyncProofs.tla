--------------------------- MODULE KubeSyncProofs ---------------------------
(* Theorems about KubeSync, for any objects, versions, goroutines, tries    *)
(* and capacities.                                                         *)
EXTENDS KubeSync, TLAPS

-----------------------------------------------------------------------------
(* Types.                                                                  *)

\* An event of an object is an event.
LEMMA EventType ==
    ASSUME NEW o \in Objects, NEW v \in Versions
    PROVE  EventOf(o, v) \in Event /\ EventOf(o, v).obj = o /\ EventOf(o, v).version = v
BY DEF EventOf, Event

\* A goroutine that runs has an event; one that does not has none.
LEMMA RunningType ==
    ASSUME TypeOK, NEW x \in Slots
    PROVE  Busy(x) => running[x] \in Running /\ running[x].event \in Event
                      /\ running[x].event.obj \in Objects
                      /\ running[x].event.version \in Versions
BY DEF TypeOK, Busy, Running, Event

\* The store is empty and nothing was reported.
LEMMA TypeInit == Init => TypeOK
BY SyncAssumption DEF Init, TypeOK, Versions, Absent, Event

\* The queue takes an event or refuses it.
LEMMA SendType ==
    ASSUME TypeOK, NEW o \in Objects, NEW v \in Versions, SendEvent(o, v)
    PROVE  queue' \in Seq(Event) /\ Len(queue') <= QueueCap /\ disturbed' \subseteq Objects
<1>1. EventOf(o, v) \in Event
  BY EventType
<1>2. /\ queue \in Seq(Event) /\ Len(queue) <= QueueCap /\ disturbed \subseteq Objects
      /\ QueueCap \in Nat
  BY SyncAssumption DEF TypeOK
<1>3. CASE Len(queue) < QueueCap
  <2>1. queue' = Append(queue, EventOf(o, v)) /\ disturbed' = disturbed
    BY <1>3 DEF SendEvent
  <2> QED BY <1>1, <1>2, <1>3, <2>1
<1>4. CASE ~ (Len(queue) < QueueCap)
  BY <1>2, <1>4 DEF SendEvent
<1> QED BY <1>3, <1>4

\* What Pop takes and what it leaves.
LEMMA PopType ==
    ASSUME TypeOK, Pop
    PROVE  /\ batch' \in Seq(Event) /\ queue' \in Seq(Event)
           /\ Len(batch') <= BatchSize /\ Len(queue') <= QueueCap
           /\ Len(batch') + Len(queue') = Len(queue)
           /\ \A i \in 1..Len(batch') : batch'[i] = queue[i]
           /\ \A i \in 1..Len(queue') : queue'[i] = queue[i + Len(batch')]
<1> DEFINE n == IF Len(queue) < BatchSize THEN Len(queue) ELSE BatchSize
<1>1. /\ queue \in Seq(Event) /\ Len(queue) \in Nat /\ n \in 0..Len(queue) /\ n <= BatchSize
      /\ Len(queue) <= QueueCap
  BY SyncAssumption DEF TypeOK
<1>2. batch' = SubSeq(queue, 1, n) /\ queue' = SubSeq(queue, n + 1, Len(queue))
  BY DEF Pop
<1> HIDE DEF n
<1>3. /\ batch' \in Seq(Event) /\ Len(batch') = n
      /\ \A i \in 1..n : batch'[i] = queue[i]
  BY <1>1, <1>2
<1>4. /\ queue' \in Seq(Event) /\ Len(queue') = Len(queue) - n
      /\ \A i \in 1..Len(queue) - n : queue'[i] = queue[i + n]
  BY <1>1, <1>2
<1>5. Len(batch') <= BatchSize /\ Len(queue') <= QueueCap /\ Len(batch') + Len(queue') = Len(queue)
  BY <1>1, <1>3, <1>4, SyncAssumption
<1> QED BY <1>3, <1>4, <1>5

\* Every step keeps the types.
LEMMA TypeStep == TypeOK /\ [Next]_vars => TypeOK'
<1> SUFFICES ASSUME TypeOK, [Next]_vars PROVE TypeOK'
  OBVIOUS
<1>1. ASSUME NEW o \in Objects, Change(o) PROVE TypeOK'
  <2>1. version' \in Versions
    BY <1>1, SyncAssumption DEF Change, TypeOK, Versions
  <2> QED BY <1>1, <2>1 DEF Change, TypeOK
<1>2. ASSUME NEW o \in Objects, Vanish(o) PROVE TypeOK'
  <2>1. Absent \in Versions
    BY SyncAssumption DEF Absent, Versions
  <2> QED BY <1>2, <2>1 DEF Vanish, TypeOK
<1>3. ASSUME NEW o \in Objects, Report(o) PROVE TypeOK'
  <2>1. cluster[o] \in Versions
    BY DEF TypeOK
  <2>2. queue' \in Seq(Event) /\ Len(queue') <= QueueCap /\ disturbed' \subseteq Objects
    BY <1>3, <2>1, SendType DEF Report
  <2> QED BY <1>3, <2>1, <2>2 DEF Report, TypeOK
<1>4. ASSUME NEW o \in Objects, Tombstone(o) PROVE TypeOK'
  <2>1. Absent \in Versions
    BY SyncAssumption DEF Absent, Versions
  <2> QED BY <1>4, <2>1 DEF Tombstone, TypeOK
<1>5. ASSUME NEW o \in Objects, Resync(o) PROVE TypeOK'
  <2>1. seen[o] \in Versions
    BY DEF TypeOK
  <2>2. queue' \in Seq(Event) /\ Len(queue') <= QueueCap /\ disturbed' \subseteq Objects
    BY <1>5, <2>1, SendType DEF Resync
  <2> QED BY <1>5, <2>2 DEF Resync, TypeOK
<1>6. CASE Pop
  <2>1. UNCHANGED <<cluster, version, seen, running, store, errors, disturbed>>
    BY <1>6 DEF Pop
  <2>2. /\ batch' \in Seq(Event) /\ queue' \in Seq(Event)
        /\ Len(batch') <= BatchSize /\ Len(queue') <= QueueCap
    BY <1>6, PopType
  <2> QED BY <2>1, <2>2 DEF TypeOK
<1>7. ASSUME NEW x \in Slots, Start(x) PROVE TypeOK'
  <2>1. /\ Head(batch) \in Event /\ Tail(batch) \in Seq(Event) /\ Len(Tail(batch)) <= BatchSize
        /\ Head(batch).obj \in Objects
    <3>1. /\ batch \in Seq(Event) /\ batch # <<>> /\ Len(batch) <= BatchSize
          /\ BatchSize \in Nat
      BY <1>7, SyncAssumption DEF Start, TypeOK
    <3>2. Head(batch) \in Event /\ Tail(batch) \in Seq(Event) /\ Len(Tail(batch)) <= BatchSize
      BY <3>1
    <3>3. Head(batch).obj \in Objects
      BY <3>2 DEF Event
    <3> QED BY <3>2, <3>3
  <2>2. [event |-> Head(batch), tries |-> 0] \in Running
    BY <2>1, SyncAssumption DEF Running
  <2>3. disturbed' \subseteq Objects
    BY <1>7, <2>1 DEF Start, TypeOK
  <2>4. running' \in [Slots -> Running \cup {Idle}]
    BY <1>7, <2>2 DEF Start, TypeOK
  <2> QED BY <1>7, <2>1, <2>3, <2>4 DEF Start, TypeOK
<1>8. ASSUME NEW x \in Slots, Write(x) PROVE TypeOK'
  <2>1. running[x].event.obj \in Objects /\ running[x].event.version \in Versions
    BY <1>8, RunningType DEF Write
  <2> QED BY <1>8, <2>1 DEF Write, TypeOK
<1>9. ASSUME NEW x \in Slots, WriteFails(x) PROVE TypeOK'
  <2>1. /\ running[x] \in Running /\ running[x].event \in Event /\ running[x].event.obj \in Objects
        /\ running[x].tries \in 0..Retries - 1
    BY <1>9, RunningType DEF WriteFails, Running
  <2>2. errors' \in 0..MaxErrors
    BY <1>9, SyncAssumption DEF WriteFails, TypeOK
  <2>3. running' \in [Slots -> Running \cup {Idle}]
    <3>1. CASE running[x].tries + 1 < Retries
      <4>1. running' = [running EXCEPT ![x].tries = running[x].tries + 1]
        BY <1>9, <3>1 DEF WriteFails
      <4>2. running[x].tries + 1 \in 0..Retries - 1
        BY <2>1, <3>1, SyncAssumption
      <4>3. [running[x] EXCEPT !.tries = running[x].tries + 1] \in Running
        BY <2>1, <4>2 DEF Running
      <4> QED BY <4>1, <4>3 DEF TypeOK
    <3>2. CASE ~ (running[x].tries + 1 < Retries)
      BY <1>9, <3>2 DEF WriteFails, TypeOK
    <3> QED BY <3>1, <3>2
  <2>4. disturbed' \subseteq Objects
    BY <1>9, <2>1 DEF WriteFails, TypeOK
  <2> QED BY <1>9, <2>2, <2>3, <2>4 DEF WriteFails, TypeOK
<1>10. CASE UNCHANGED vars
  BY <1>10 DEF vars, TypeOK
<1> QED
  BY <1>1, <1>2, <1>3, <1>4, <1>5, <1>6, <1>7, <1>8, <1>9, <1>10 DEF Next

-----------------------------------------------------------------------------
(* The events that wait, by their places.                                  *)

\* They are those of the batch and then those of the queue.
LEMMA PendingType ==
    ASSUME TypeOK
    PROVE  /\ Len(Pending) = Len(batch) + Len(queue) /\ Len(Pending) \in Nat
           /\ DOMAIN Pending = 1..Len(Pending)
           /\ Len(batch) \in Nat /\ Len(queue) \in Nat
           /\ \A i \in 1..Len(Pending) : Pending[i] =
                 IF i <= Len(batch) THEN batch[i] ELSE queue[i - Len(batch)]
<1>1. batch \in Seq(Event) /\ queue \in Seq(Event)
  BY DEF TypeOK
<1> QED BY <1>1 DEF Pending

\* A step that moves the waiting events keeps what holds of them, when nothing else
\* changed that concerns them.
LEMMA SamePending ==
    ASSUME UndisturbedIsCurrent, UNCHANGED <<seen, running, store>>, disturbed \subseteq disturbed',
           DOMAIN Pending' = DOMAIN Pending, \A i \in DOMAIN Pending : Pending'[i] = Pending[i]
    PROVE  UndisturbedIsCurrent'
<1>1. \A i \in DOMAIN Pending : Newest(i)' <=> Newest(i)
  BY DEF Newest
<1>2. \A o : Waits(o)' <=> Waits(o)
  BY DEF Waits
<1>3. \A o : Writers(o)' = Writers(o)
  BY DEF Writers, Busy
<1> QED BY <1>1, <1>2, <1>3 DEF UndisturbedIsCurrent

\* An event that joins the queue, with the version that was reported last, is the newest
\* of its object and leaves those of the others as they are.
LEMMA NewPending ==
    ASSUME TypeOK, UndisturbedIsCurrent, NEW o \in Objects, NEW v \in Versions,
           queue' = Append(queue, EventOf(o, v)), UNCHANGED <<batch, running, store, disturbed>>,
           seen' = [seen EXCEPT ![o] = v]
    PROVE  UndisturbedIsCurrent'
<1> DEFINE n == Len(Pending)
<1>1. /\ Pending \in Seq(Event) /\ n \in Nat /\ DOMAIN Pending = 1..n
      /\ Pending' = Append(Pending, EventOf(o, v))
  BY EventType DEF TypeOK, Pending
<1>2. /\ DOMAIN Pending' = 1..n + 1 /\ Pending'[n + 1] = EventOf(o, v)
      /\ \A i \in 1..n : Pending'[i] = Pending[i]
  BY <1>1, EventType
<1>3. EventOf(o, v).obj = o /\ EventOf(o, v).version = v
  BY EventType
<1>4. \A p : Writers(p)' = Writers(p)
  BY DEF Writers, Busy
<1> HIDE DEF n
<1> SUFFICES ASSUME NEW p \in Objects \ disturbed
             PROVE  /\ \A x, y \in Writers(p) : x = y
                    /\ \A i \in 1..n + 1 :
                          Pending'[i].obj = p /\ Newest(i)' => Pending'[i].version = seen'[p]
                    /\ ~ Waits(p)' => \A x \in Writers(p) : running[x].event.version = seen'[p]
                    /\ ~ Waits(p)' /\ Writers(p) = {} => store[p] = seen'[p]
  BY <1>2, <1>4 DEF UndisturbedIsCurrent
<1>5. \A x, y \in Writers(p) : x = y
  BY DEF UndisturbedIsCurrent
<1>6. CASE p = o
  <2>1. Waits(p)'
    BY <1>1, <1>2, <1>3, <1>6 DEF Waits
  <2>2. seen'[p] = v
    BY <1>6 DEF TypeOK
  <2>3. ASSUME NEW i \in 1..n, Pending'[i].obj = p PROVE ~ Newest(i)'
    <3>1. n + 1 > i /\ n + 1 \in DOMAIN Pending'
      BY <1>1, <1>2
    <3> QED BY <1>2, <1>3, <1>6, <2>3, <3>1 DEF Newest
  <2>4. \A i \in 1..n + 1 : i \in 1..n \/ i = n + 1
    BY <1>1
  <2> QED BY <1>2, <1>3, <1>5, <2>1, <2>2, <2>3, <2>4
<1>7. CASE p # o
  <2>1. seen'[p] = seen[p]
    BY <1>7 DEF TypeOK
  <2>2. \A i \in 1..n + 1 : i \in 1..n \/ i = n + 1
    BY <1>1
  <2>3. ASSUME NEW i \in 1..n, Newest(i)' PROVE Newest(i)
    <3>1. \A j \in 1..n : j \in DOMAIN Pending'
      BY <1>1, <1>2
    <3> QED BY <1>1, <1>2, <2>3, <3>1 DEF Newest
  <2>4. \A i \in 1..n + 1 :
            Pending'[i].obj = p /\ Newest(i)' => i \in 1..n /\ Pending[i].obj = p /\ Newest(i)
    BY <1>2, <1>3, <1>7, <2>2, <2>3
  <2>5. Waits(p) => Waits(p)'
    <3>1. \A i \in 1..n : i \in DOMAIN Pending'
      BY <1>1, <1>2
    <3> QED BY <1>1, <1>2, <3>1 DEF Waits
  <2>6. \A i \in 1..n : Pending[i].obj = p /\ Newest(i) => Pending[i].version = seen[p]
    BY <1>1 DEF UndisturbedIsCurrent
  <2>7. \A i \in 1..n + 1 :
            Pending'[i].obj = p /\ Newest(i)' => Pending'[i].version = seen'[p]
    BY <1>2, <2>1, <2>4, <2>6
  <2>8. /\ ~ Waits(p)' => \A x \in Writers(p) : running[x].event.version = seen'[p]
        /\ ~ Waits(p)' /\ Writers(p) = {} => store[p] = seen'[p]
    BY <2>1, <2>5 DEF UndisturbedIsCurrent
  <2> QED BY <1>5, <2>7, <2>8
<1> QED BY <1>6, <1>7

\* The oldest event that waits goes to a goroutine: the object has no other there, unless
\* it is disturbed now.
LEMMA StartStep ==
    ASSUME TypeOK, UndisturbedIsCurrent, NEW x \in Slots, Start(x)
    PROVE  UndisturbedIsCurrent'
<1> DEFINE n == Len(Pending)
           first == Head(batch)
<1>1. /\ batch \in Seq(Event) /\ queue \in Seq(Event) /\ batch # <<>> /\ ~ Busy(x)
      /\ batch' = Tail(batch)
      /\ UNCHANGED <<queue, seen, store>>
  BY DEF Start, TypeOK
<1>2. running' = [running EXCEPT ![x] = [event |-> first, tries |-> 0]]
  BY DEF Start
<1>3. /\ Pending \in Seq(Event) /\ n \in Nat \ {0} /\ DOMAIN Pending = 1..n /\ Pending[1] = first
      /\ DOMAIN Pending' = 1..n - 1
      /\ \A i \in 1..n - 1 : Pending'[i] = Pending[i + 1]
  BY <1>1 DEF Pending
<1>4. /\ Busy(x)' /\ running'[x].event = first
      /\ \A y \in Slots \ {x} : running'[y] = running[y]
  <2>1. running'[x] = [event |-> first, tries |-> 0]
    BY <1>2 DEF TypeOK
  <2>2. running'[x] # Idle
    BY <2>1 DEF Idle
  <2> QED BY <1>2, <2>1, <2>2 DEF Busy, TypeOK
<1> HIDE DEF n, first
<1> SUFFICES ASSUME NEW p \in Objects \ disturbed'
             PROVE  /\ \A y, z \in Writers(p)' : y = z
                    /\ \A i \in 1..n - 1 :
                          Pending'[i].obj = p /\ Newest(i)' => Pending'[i].version = seen[p]
                    /\ ~ Waits(p)' => \A y \in Writers(p)' : running'[y].event.version = seen[p]
                    /\ ~ Waits(p)' /\ Writers(p)' = {} => store[p] = seen[p]
  BY <1>1, <1>3 DEF UndisturbedIsCurrent
<1>5. p \notin disturbed /\ (first.obj = p => Writers(p) = {})
  BY DEF Start, Writers, first
<1>6. \A i \in 1..n - 1 : i + 1 \in 1..n
  BY <1>3
<1>7. ASSUME NEW i \in 1..n - 1, Newest(i)' PROVE Newest(i + 1)
  <2> SUFFICES ASSUME NEW j \in 1..n, j > i + 1 PROVE Pending[j].obj # Pending[i + 1].obj
    BY <1>3 DEF Newest
  <2>1. j - 1 \in 1..n - 1 /\ j - 1 > i /\ (j - 1) + 1 = j
    BY <1>3
  <2>2. Pending'[j - 1].obj # Pending'[i].obj
    BY <1>3, <1>7, <2>1 DEF Newest
  <2>3. Pending'[j - 1] = Pending[j] /\ Pending'[i] = Pending[i + 1]
    BY <1>3, <2>1
  <2> QED BY <2>2, <2>3
<1>8. \A i \in 1..n - 1 : Pending'[i].obj = p /\ Newest(i)' => Pending'[i].version = seen[p]
  <2> TAKE i \in 1..n - 1
  <2> HAVE Pending'[i].obj = p /\ Newest(i)'
  <2>1. i + 1 \in DOMAIN Pending /\ Pending'[i] = Pending[i + 1] /\ Newest(i + 1)
    BY <1>3, <1>6, <1>7
  <2> QED BY <1>5, <2>1 DEF UndisturbedIsCurrent
<1>9. ASSUME NEW j \in 2..n, Pending[j].obj = p PROVE Waits(p)'
  <2>1. j - 1 \in DOMAIN Pending' /\ (j - 1) + 1 = j
    BY <1>3
  <2>2. Pending'[j - 1] = Pending[j]
    BY <1>3, <2>1
  <2> QED BY <1>9, <2>1, <2>2 DEF Waits
<1>10. \A j \in 1..n : j = 1 \/ j \in 2..n
  BY <1>3
<1>11. CASE first.obj = p
  <2>1. Writers(p)' = {x}
    BY <1>4, <1>5, <1>11 DEF Writers, Busy
  <2>2. ~ Waits(p)' => first.version = seen[p]
    <3> HAVE ~ Waits(p)'
    <3>1. \A j \in 2..n : Pending[j].obj # p
      BY <1>9
    <3>2. 1 \in DOMAIN Pending
      BY <1>3
    <3>3. Newest(1)
      BY <1>3, <1>10, <1>11, <3>1 DEF Newest
    <3> QED BY <1>3, <1>5, <1>11, <3>2, <3>3 DEF UndisturbedIsCurrent
  <2> QED BY <1>4, <1>8, <2>1, <2>2
<1>12. CASE first.obj # p
  <2>1. Writers(p)' = Writers(p) /\ x \notin Writers(p)
    BY <1>1, <1>4, <1>12 DEF Writers, Busy
  <2>2. \A y \in Writers(p) : running'[y] = running[y]
    BY <1>4, <2>1 DEF Writers
  <2>3. Waits(p) => Waits(p)'
    <3> HAVE Waits(p)
    <3>1. PICK j \in 1..n : Pending[j].obj = p
      BY <1>3 DEF Waits
    <3>2. j \in 2..n
      BY <1>3, <1>10, <1>12, <3>1
    <3> QED BY <1>9, <3>1, <3>2
  <2> QED BY <1>5, <1>8, <2>1, <2>2, <2>3 DEF UndisturbedIsCurrent
<1> QED BY <1>11, <1>12

\* A write brings the row of its object to the version of its event, and ends.
LEMMA WriteStep ==
    ASSUME TypeOK, UndisturbedIsCurrent, NEW x \in Slots, Write(x)
    PROVE  UndisturbedIsCurrent'
<1> DEFINE e == running[x].event
<1>1. e.obj \in Objects /\ e.version \in Versions
  BY RunningType DEF Write
<1>2. /\ store' = [store EXCEPT ![e.obj] = e.version] /\ running' = [running EXCEPT ![x] = Idle]
      /\ UNCHANGED <<batch, queue, seen, disturbed>> /\ Busy(x)
  BY DEF Write
<1>3. Pending' = Pending /\ (\A i : Newest(i)' <=> Newest(i)) /\ \A p : Waits(p)' <=> Waits(p)
  BY <1>2 DEF Pending, Newest, Waits
<1>4. \A p \in Objects : Writers(p)' = Writers(p) \ {x}
  BY <1>2 DEF Writers, Busy, TypeOK
<1>5. x \in Writers(e.obj)
  BY <1>2 DEF Writers
<1>6. \A y \in Slots \ {x} : running'[y] = running[y]
  BY <1>2 DEF TypeOK
<1>7. \A p \in Objects : store'[p] = IF p = e.obj THEN e.version ELSE store[p]
  BY <1>1, <1>2 DEF TypeOK
<1> SUFFICES ASSUME NEW p \in Objects \ disturbed
             PROVE  /\ \A y, z \in Writers(p)' : y = z
                    /\ \A i \in DOMAIN Pending :
                          Pending[i].obj = p /\ Newest(i) => Pending[i].version = seen[p]
                    /\ ~ Waits(p) => \A y \in Writers(p)' : running'[y].event.version = seen[p]
                    /\ ~ Waits(p) /\ Writers(p)' = {} => store'[p] = seen[p]
  BY <1>2, <1>3 DEF UndisturbedIsCurrent
<1>8. /\ \A y, z \in Writers(p)' : y = z
      /\ \A i \in DOMAIN Pending :
            Pending[i].obj = p /\ Newest(i) => Pending[i].version = seen[p]
  BY <1>4 DEF UndisturbedIsCurrent
<1>9. ~ Waits(p) => \A y \in Writers(p)' : running'[y].event.version = seen[p]
  <2>1. \A y \in Writers(p)' : y \in Writers(p) /\ y \in Slots \ {x}
    BY <1>4 DEF Writers
  <2> QED BY <1>6, <2>1 DEF UndisturbedIsCurrent
<1>10. ~ Waits(p) /\ Writers(p)' = {} => store'[p] = seen[p]
  <2>1. CASE p = e.obj
    BY <1>5, <1>7, <2>1 DEF UndisturbedIsCurrent
  <2>2. CASE p # e.obj
    <3>1. x \notin Writers(p)
      BY <2>2 DEF Writers
    <3> QED BY <1>4, <1>7, <2>2, <3>1 DEF UndisturbedIsCurrent
  <2> QED BY <2>1, <2>2
<1> QED BY <1>8, <1>9, <1>10

\* A write that fails is tried again with the same event, or disturbs its object.
LEMMA FailStep ==
    ASSUME TypeOK, UndisturbedIsCurrent, NEW x \in Slots, WriteFails(x)
    PROVE  UndisturbedIsCurrent'
<1>1. /\ UNCHANGED <<batch, queue, seen, store>> /\ Busy(x) /\ disturbed \subseteq disturbed'
      /\ running[x] \in Running
  BY RunningType DEF WriteFails
<1>2. Pending' = Pending /\ (\A i : Newest(i)' <=> Newest(i)) /\ \A p : Waits(p)' <=> Waits(p)
  BY <1>1 DEF Pending, Newest, Waits
<1>3. \A y \in Slots \ {x} : running'[y] = running[y]
  BY DEF WriteFails, TypeOK
<1>4. \/ Busy(x)' /\ running'[x].event = running[x].event
      \/ running'[x] = Idle /\ running[x].event.obj \in disturbed'
  <2>1. CASE running[x].tries + 1 < Retries
    <3>1. running'[x] = [running[x] EXCEPT !.tries = @ + 1]
      BY <2>1 DEF WriteFails, TypeOK
    <3>2. "event" \in DOMAIN running'[x] /\ "event" \notin DOMAIN Idle
      BY <1>1, <3>1 DEF Running, Idle
    <3> QED BY <1>1, <3>1, <3>2 DEF Busy, Running
  <2>2. CASE ~ (running[x].tries + 1 < Retries)
    BY <2>2 DEF WriteFails, TypeOK
  <2> QED BY <2>1, <2>2
<1>5. \A p \in Objects \ disturbed' :
         /\ Writers(p)' = Writers(p)
         /\ \A y \in Writers(p) : running'[y].event = running[y].event
  BY <1>1, <1>3, <1>4 DEF Writers, Busy
<1> QED BY <1>1, <1>2, <1>5 DEF UndisturbedIsCurrent

-----------------------------------------------------------------------------
SyncInv == TypeOK /\ UndisturbedIsCurrent

\* Nothing is known of the cluster and no row is there.
LEMMA SyncInit == Init => SyncInv
<1> SUFFICES ASSUME Init PROVE UndisturbedIsCurrent
  BY TypeInit DEF SyncInv
<1>1. DOMAIN Pending = {}
  BY DEF Init, Pending
<1>2. \A o : Writers(o) = {}
  BY DEF Init, Writers, Busy
<1> QED BY <1>1, <1>2 DEF Init, UndisturbedIsCurrent

\* Every step keeps what is undisturbed current.
LEMMA SyncStep == SyncInv /\ [Next]_vars => SyncInv'
<1> SUFFICES ASSUME SyncInv, [Next]_vars PROVE UndisturbedIsCurrent'
  BY TypeStep DEF SyncInv
<1>0. TypeOK /\ UndisturbedIsCurrent
  BY DEF SyncInv
<1>1. ASSUME UNCHANGED <<batch, queue, seen, running, store>>, disturbed \subseteq disturbed'
      PROVE  UndisturbedIsCurrent'
  BY <1>0, <1>1, SamePending DEF Pending
<1>2. ASSUME NEW o \in Objects, Change(o) \/ Vanish(o) PROVE UndisturbedIsCurrent'
  BY <1>1, <1>2 DEF Change, Vanish
<1>3. ASSUME NEW o \in Objects, NEW v \in Versions, SendEvent(o, v),
             seen' = [seen EXCEPT ![o] = v], UNCHANGED <<batch, running, store>>
      PROVE  UndisturbedIsCurrent'
  <2>1. CASE Len(queue) < QueueCap
    BY <1>0, <1>3, <2>1, NewPending DEF SendEvent
  <2>2. CASE ~ (Len(queue) < QueueCap)
    <3>1. disturbed' = disturbed \cup {o} /\ Pending' = Pending
      BY <1>3, <2>2 DEF SendEvent, Pending
    <3>2. \A p \in Objects \ {o} : seen'[p] = seen[p]
      BY <1>0, <1>3 DEF TypeOK
    <3>3. (\A i : Newest(i)' <=> Newest(i)) /\ \A p : Waits(p)' <=> Waits(p)
      BY <3>1 DEF Newest, Waits
    <3>4. \A p : Writers(p)' = Writers(p)
      BY <1>3 DEF Writers, Busy
    <3> QED BY <1>0, <1>3, <3>1, <3>2, <3>3, <3>4 DEF UndisturbedIsCurrent
  <2> QED BY <2>1, <2>2
<1>4. ASSUME NEW o \in Objects, Report(o) PROVE UndisturbedIsCurrent'
  <2>1. cluster[o] \in Versions
    BY <1>0 DEF TypeOK
  <2> QED BY <1>3, <1>4, <2>1 DEF Report
<1>5. ASSUME NEW o \in Objects, Resync(o) PROVE UndisturbedIsCurrent'
  <2>1. seen[o] \in Versions /\ seen = [seen EXCEPT ![o] = seen[o]]
    BY <1>0 DEF TypeOK
  <2> QED BY <1>3, <1>5, <2>1 DEF Resync
<1>6. ASSUME NEW o \in Objects, Tombstone(o) PROVE UndisturbedIsCurrent'
  <2>1. /\ disturbed' = disturbed \cup {o} /\ UNCHANGED <<batch, queue, running, store>>
        /\ \A p \in Objects \ {o} : seen'[p] = seen[p]
    BY <1>0, <1>6 DEF Tombstone, TypeOK
  <2>2. Pending' = Pending /\ (\A i : Newest(i)' <=> Newest(i)) /\ \A p : Waits(p)' <=> Waits(p)
    BY <2>1 DEF Pending, Newest, Waits
  <2>3. \A p : Writers(p)' = Writers(p)
    BY <2>1 DEF Writers, Busy
  <2> QED BY <1>0, <2>1, <2>2, <2>3 DEF UndisturbedIsCurrent
<1>7. CASE Pop
  <2>1. TypeOK'
    BY <1>0, TypeStep
  <2>2. batch = <<>> /\ UNCHANGED <<seen, running, store, disturbed>>
    BY <1>7 DEF Pop
  <2>3. /\ Len(batch') + Len(queue') = Len(queue)
        /\ \A i \in 1..Len(batch') : batch'[i] = queue[i]
        /\ \A i \in 1..Len(queue') : queue'[i] = queue[i + Len(batch')]
    BY <1>0, <1>7, PopType
  <2>4. /\ Len(Pending) = Len(queue) /\ DOMAIN Pending = 1..Len(queue) /\ Len(queue) \in Nat
        /\ \A i \in 1..Len(queue) : Pending[i] = queue[i]
    BY <1>0, <2>2 DEF Pending, TypeOK
  <2>5. /\ Len(Pending') = Len(queue) /\ DOMAIN Pending' = 1..Len(queue)
        /\ Len(batch') \in Nat /\ Len(queue') \in Nat
        /\ \A i \in 1..Len(queue) : Pending'[i] =
              IF i <= Len(batch') THEN batch'[i] ELSE queue'[i - Len(batch')]
    <3>1. batch' \in Seq(Event) /\ queue' \in Seq(Event)
      BY <2>1 DEF TypeOK
    <3> QED BY <2>3, <3>1 DEF Pending
  <2>6. ASSUME NEW i \in 1..Len(queue) PROVE Pending'[i] = Pending[i]
    <3>1. CASE i <= Len(batch')
      BY <2>3, <2>4, <2>5, <3>1
    <3>2. CASE ~ (i <= Len(batch'))
      <4>1. i - Len(batch') \in 1..Len(queue') /\ (i - Len(batch')) + Len(batch') = i
        BY <2>3, <2>5, <3>2
      <4>2. queue'[i - Len(batch')] = queue[i]
        BY <2>3, <4>1
      <4> QED BY <2>4, <2>5, <3>2, <4>2
    <3> QED BY <3>1, <3>2
  <2> QED BY <1>0, <2>2, <2>4, <2>5, <2>6, SamePending
<1>8. CASE UNCHANGED vars
  BY <1>1, <1>8 DEF vars
<1> QED
  BY <1>0, <1>2, <1>4, <1>5, <1>6, <1>7, <1>8, StartStep, WriteStep, FailStep DEF Next

\* Every variable keeps its type: the queue and the batch never hold more than the code
\* allows, and no event is tried more often.
THEOREM SyncTypeCorrect == Spec => []TypeOK
BY TypeInit, TypeStep, PTL DEF Spec

\* For any number of goroutines and tries and any sizes of queue and batch, the events of
\* an object are written in their order as long as none is lost (to a full queue, to a
\* tombstone or after its last try, as every deletion is) or overtaken: its row is current,
\* or its newest event is on the way.
THEOREM UndisturbedStayCurrent == Spec => []UndisturbedIsCurrent
<1>1. Spec => []SyncInv
  BY SyncInit, SyncStep, PTL DEF Spec
<1>2. SyncInv => UndisturbedIsCurrent
  BY DEF SyncInv
<1> QED BY <1>1, <1>2, PTL
=============================================================================
