-------------------------- MODULE CryptoPoolProofs --------------------------
(***************************************************************************)
(* Theorems about CryptoPool for any set of workers, any number of calls   *)
(* and any number of crashes of worker threads.                            *)
(***************************************************************************)
EXTENDS CryptoPool, SequenceTheorems, FiniteSetTheorems, TLAPS

\* A call that has not been made has no promise, and a closed pool no entries.
CallsInOrder ==
  /\ \A k \in Tasks : promise[k] = "none" <=> k > calls
  /\ phase = "closed" => pending = {}

PoolInv == PoolTypeOK /\ PendingExact /\ WorkConserving /\ CallsInOrder

\* The constructor establishes the invariant.
LEMMA PoolInitInv == PoolInit => PoolInv
<1> SUFFICES ASSUME PoolInit PROVE PoolInv
  OBVIOUS
<1>1. PoolTypeOK
  <2>1. idle \in Seq(Workers)
    <3>1. Cardinality(Workers) \in Nat
      BY PoolConstants, FS_CardinalityType
    <3> QED
      BY <3>1 DEF PoolInit
  <2> QED
    BY <2>1, PoolConstants DEF PoolInit, PoolTypeOK, Tasks
<1>2. PendingExact /\ WorkConserving /\ CallsInOrder
  BY PoolConstants DEF PoolInit, PendingExact, WorkConserving, CallsInOrder, Tasks
<1> QED
  BY <1>1, <1>2 DEF PoolInv

\* postMessage puts tasks, and only tasks, into an inbox.
LEMMA PostMessageType ==
  ASSUME NEW w \in Workers, NEW k \in Tasks, PoolTypeOK, PostMessage(w, k)
  PROVE  inbox' \in [Workers -> Seq(Tasks)]
<1>1. Append(inbox[w], k) \in Seq(Tasks)
  BY AppendProperties DEF PoolTypeOK
<1> QED
  BY <1>1 DEF PostMessage, PoolTypeOK

\* Every step of the main thread and of a worker preserves the invariant.
LEMMA PoolStepInv == PoolInv /\ [PoolNext]_poolVars => PoolInv'
<1> SUFFICES ASSUME PoolInv, [PoolNext]_poolVars PROVE PoolInv'
  OBVIOUS
<1> USE PoolConstants DEF PoolInv, Tasks
<1>1. CASE Dispatch
  <2> USE <1>1 DEF Dispatch, NextId
  <2>1. calls + 1 \in Tasks /\ calls' = calls + 1
    BY DEF PoolTypeOK
  <2>2. CASE idle # <<>>
    <3> USE <2>2
    <3>1. queue = <<>> /\ queue' = queue
      BY DEF WorkConserving, Enqueue
    <3>2. idle' \in Seq(Workers) /\ idle[Len(idle)] \in Workers
      <4>1. Len(idle) \in Nat /\ Len(idle) > 0 /\ Len(idle) - 1 \in 0 .. Len(idle)
        BY DEF PoolTypeOK
      <4>2. idle' = SubSeq(idle, 1, Len(idle) - 1)
        BY DEF PopIdle
      <4> QED
        BY <4>1, <4>2, ElementOfSeq, SubSeqProperties DEF PoolTypeOK
    <3>3. inbox' \in [Workers -> Seq(Tasks)]
      BY <2>1, <3>2, PostMessageType
    <3>4. PoolTypeOK'
      BY <2>1, <3>1, <3>2, <3>3 DEF PoolTypeOK
    <3>5. WorkConserving'
      BY <3>1 DEF WorkConserving
    <3>6. PendingExact' /\ CallsInOrder'
      BY <2>1 DEF PendingExact, CallsInOrder, PoolTypeOK
    <3> QED
      BY <3>4, <3>5, <3>6
  <2>3. CASE idle = <<>>
    <3> USE <2>3
    <3>1. queue' = Append(queue, calls + 1) /\ idle' = idle /\ inbox' = inbox
      BY DEF Enqueue
    <3>2. PoolTypeOK'
      BY <2>1, <3>1, AppendProperties DEF PoolTypeOK
    <3>3. WorkConserving'
      BY <3>1 DEF WorkConserving
    <3>4. PendingExact' /\ CallsInOrder'
      BY <2>1 DEF PendingExact, CallsInOrder, PoolTypeOK
    <3> QED
      BY <3>2, <3>3, <3>4
  <2> QED
    BY <2>2, <2>3
<1>2. CASE DispatchRefused
  BY <1>2 DEF DispatchRefused, PoolTypeOK, PendingExact, WorkConserving, CallsInOrder
<1>3. CASE Close
  <2>1. PoolTypeOK'
    BY <1>3 DEF Close, PoolTypeOK
  <2> QED
    BY <1>3, <2>1 DEF Close, PendingExact, WorkConserving, CallsInOrder
<1>4. CASE CloseFinish
  BY <1>4 DEF CloseFinish, RejectPending, PoolTypeOK, PendingExact, WorkConserving,
              CallsInOrder
<1>5. ASSUME NEW w \in Workers, OnMessage(w)
      PROVE  PoolInv'
  <2> DEFINE r == Head(outbox[w])
  <2> USE <1>5
  <2>1. /\ r \in Reply
        /\ outbox' \in [Workers -> Seq(Reply)]
        /\ UNCHANGED <<calls, workers, phase, thread>>
    BY HeadTailProperties DEF OnMessage, PoolTypeOK
  <2>2. r.id \in Tasks /\ r.ok \in BOOLEAN
    BY <2>1 DEF Reply
  <2>3. CASE r.id \in pending
    <3> USE <2>3
    <3>1. /\ pending' = pending \ {r.id}
          /\ promise' = [promise EXCEPT ![r.id] = IF r.ok THEN "resolved" ELSE "rejected"]
          /\ Release(w)
      BY DEF OnMessage, DeletePending
    <3>2. /\ promise' \in [Tasks -> {"none", "unsettled", "resolved", "rejected", "refused"}]
          /\ promise'[r.id] \in {"resolved", "rejected"}
          /\ \A k \in Tasks : k # r.id => promise'[k] = promise[k]
      BY <3>1, <2>2 DEF PoolTypeOK
    <3>3. /\ queue' \in Seq(Tasks)
          /\ idle' \in Seq(Workers)
          /\ inbox' \in [Workers -> Seq(Tasks)]
          /\ WorkConserving'
      <4>1. CASE queue # <<>>
        <5>1. queue' = Tail(queue) /\ PostMessage(w, Head(queue)) /\ idle' = idle
          BY <3>1, <4>1 DEF Release
        <5>2. Head(queue) \in Tasks /\ Tail(queue) \in Seq(Tasks)
          BY <4>1, HeadTailProperties DEF PoolTypeOK
        <5> QED
          BY <5>1, <5>2, <4>1, PostMessageType DEF PoolTypeOK, WorkConserving
      <4>2. CASE queue = <<>>
        <5>1. idle' = Append(idle, w) /\ queue' = queue /\ inbox' = inbox
          BY <3>1, <4>2 DEF Release
        <5> QED
          BY <5>1, <4>2, AppendProperties DEF PoolTypeOK, WorkConserving
      <4> QED
        BY <4>1, <4>2
    <3>4. PoolTypeOK'
      BY <2>1, <3>1, <3>2, <3>3 DEF PoolTypeOK
    <3>5. promise[r.id] = "unsettled"
      BY <2>2 DEF PendingExact
    <3>6. PendingExact'
      BY <2>2, <3>1, <3>2 DEF PendingExact
    <3>7. CallsInOrder'
      BY <2>1, <2>2, <3>1, <3>2, <3>5 DEF CallsInOrder
    <3> QED
      BY <3>3, <3>4, <3>6, <3>7
  <2>4. CASE r.id \notin pending
    <3>1. UNCHANGED <<pending, promise, queue, idle, inbox>>
      BY <2>4 DEF OnMessage
    <3> QED
      BY <2>1, <3>1 DEF PoolTypeOK, PendingExact, WorkConserving, CallsInOrder
  <2> QED
    BY <2>3, <2>4
<1>6. ASSUME NEW w \in Workers, WorkerRun(w)
      PROVE  PoolInv'
  <2>1. PICK ok \in BOOLEAN :
          outbox' = [outbox EXCEPT ![w] = Append(@, [id |-> Head(inbox[w]), ok |-> ok])]
    BY <1>6 DEF WorkerRun
  <2>2. Head(inbox[w]) \in Tasks /\ Tail(inbox[w]) \in Seq(Tasks)
    BY <1>6, HeadTailProperties DEF WorkerRun, PoolTypeOK
  <2>3. outbox' \in [Workers -> Seq(Reply)]
    BY <2>1, <2>2, AppendProperties DEF PoolTypeOK, Reply
  <2>4. inbox' \in [Workers -> Seq(Tasks)]
    BY <1>6, <2>2 DEF WorkerRun, PoolTypeOK
  <2> QED
    BY <1>6, <2>3, <2>4 DEF WorkerRun, PoolTypeOK, PendingExact, WorkConserving,
                            CallsInOrder
<1>7. ASSUME NEW w \in Workers, Terminate(w) \/ WorkerError(w)
      PROVE  PoolInv'
  <2>1. /\ thread' \in [Workers -> {"running", "crashed", "terminated"}]
        /\ inbox' \in [Workers -> Seq(Tasks)]
        /\ UNCHANGED <<calls, promise, pending, queue, idle, workers, phase, outbox>>
    <3>1. <<>> \in Seq(Tasks)
      OBVIOUS
    <3>2. CASE Terminate(w)
      BY <3>1, <3>2 DEF Terminate, PoolTypeOK
    <3>3. CASE WorkerError(w)
      BY <3>1, <3>3 DEF WorkerError, PoolTypeOK
    <3> QED
      BY <1>7, <3>2, <3>3
  <2> QED
    BY <2>1 DEF PoolTypeOK, PendingExact, WorkConserving, CallsInOrder
<1>8. CASE UNCHANGED poolVars
  BY <1>8 DEF poolVars, PoolTypeOK, PendingExact, WorkConserving, CallsInOrder
<1> QED
  BY <1>1, <1>2, <1>3, <1>4, <1>5, <1>6, <1>7, <1>8 DEF PoolNext

\* The invariant holds in every reachable state.
THEOREM PoolInvariant == PoolSpec => []PoolInv
  BY PoolInitInv, PoolStepInv, PTL DEF PoolSpec

\* Every variable keeps its type: a message, an id or a worker never ends up
\* where another kind of thing is expected.
THEOREM PoolTyped == PoolSpec => []PoolTypeOK
  BY PoolInvariant, PTL DEF PoolInv

\* No promise is lost from _pending and none stays there once settled, through
\* replies, ignored late replies, crashes and close().
THEOREM PoolPendingExact == PoolSpec => []PendingExact
  BY PoolInvariant, PTL DEF PoolInv

\* A task never waits while a worker is idle.
THEOREM PoolWorkConserving == PoolSpec => []WorkConserving
  BY PoolInvariant, PTL DEF PoolInv

\* Once close() has resolved, every call ever made has a settled promise, also
\* those whose worker died.
THEOREM PoolClosedSettlesAll == PoolSpec => []ClosedSettlesAll
<1>1. PoolInv => ClosedSettlesAll
  <2> SUFFICES ASSUME PoolInv, phase = "closed", NEW k \in 1 .. calls
               PROVE  promise[k] \in Settled
    BY DEF ClosedSettlesAll
  <2>1. k \in Tasks /\ ~(k > calls)
    BY PoolConstants DEF PoolInv, PoolTypeOK, Tasks
  <2> QED
    BY <2>1 DEF PoolInv, PoolTypeOK, PendingExact, CallsInOrder, Settled
<1> QED
  BY <1>1, PoolInvariant, PTL
-----------------------------------------------------------------------------
(* The pool implements TaskService.                                         *)

\* Every step of the pool is a step of the service it promises, or is invisible.
LEMMA PoolStepSimulation ==
  PoolInv /\ [PoolNext]_poolVars => [Service!ServiceNext]_(Service!serviceVars)
<1> SUFFICES ASSUME PoolInv, [PoolNext]_poolVars
             PROVE  [Service!ServiceNext]_(Service!serviceVars)
  OBVIOUS
<1> USE DEF Service!ServiceNext, Service!serviceVars, Tasks
<1>1. CASE Dispatch
  BY <1>1 DEF Dispatch, NextId, Service!Submit
<1>2. CASE DispatchRefused
  BY <1>2 DEF DispatchRefused, Service!Submit
<1>3. CASE Close
  BY <1>3 DEF Close, Service!BeginClose
<1>4. CASE CloseFinish
  BY <1>4 DEF CloseFinish, RejectPending, Service!EndClose, PoolInv, PendingExact,
              PoolTypeOK
<1>5. ASSUME NEW w \in Workers, OnMessage(w)
      PROVE  [Service!ServiceNext]_(Service!serviceVars)
  <2> DEFINE r == Head(outbox[w])
  <2>1. r \in Reply
    BY <1>5, HeadTailProperties DEF OnMessage, PoolInv, PoolTypeOK
  <2>2. CASE r.id \in pending
    <3>1. r.id \in Tasks /\ r.ok \in BOOLEAN
      BY <2>1 DEF Reply
    <3>2. promise[r.id] = "unsettled" /\ phase # "closed"
      BY <2>2, <3>1 DEF PoolInv, PendingExact, CallsInOrder
    <3>3. /\ promise' = [promise EXCEPT ![r.id] = IF r.ok THEN "resolved" ELSE "rejected"]
          /\ UNCHANGED <<calls, phase>>
      BY <1>5, <2>2 DEF OnMessage
    <3>4. Service!Settle(r.id, IF r.ok THEN "resolved" ELSE "rejected")
      BY <3>2, <3>3 DEF Service!Settle
    <3>5. (IF r.ok THEN "resolved" ELSE "rejected") \in {"resolved", "rejected"}
      OBVIOUS
    <3> QED
      BY <3>1, <3>4, <3>5
  <2>3. CASE r.id \notin pending
    BY <1>5, <2>3 DEF OnMessage
  <2> QED
    BY <2>2, <2>3
<1>6. ASSUME NEW w \in Workers, WorkerRun(w) \/ Terminate(w) \/ WorkerError(w)
      PROVE  [Service!ServiceNext]_(Service!serviceVars)
  BY <1>6 DEF WorkerRun, Terminate, WorkerError
<1>7. CASE UNCHANGED poolVars
  BY <1>7 DEF poolVars
<1> QED
  BY <1>1, <1>2, <1>3, <1>4, <1>5, <1>6, <1>7 DEF PoolNext

\* To its callers the pool is a TaskService, whatever its workers do.
THEOREM PoolImplementsTaskService == PoolSpec => ImplementsTaskService
<1>1. PoolInit => Service!ServiceInit
  BY DEF PoolInit, Service!ServiceInit, Tasks
<1> QED
  BY <1>1, PoolInvariant, PoolStepSimulation, PTL
  DEF PoolSpec, ImplementsTaskService, Service!ServiceSpec

\* A settled promise is never settled again or taken back.
THEOREM PoolSettleOnce == PoolSpec => SettleOnce
<1>1. PoolInv /\ [PoolNext]_poolVars =>
        [\A k \in Tasks : promise[k] \in Settled => promise'[k] = promise[k]]_poolVars
  <2> SUFFICES ASSUME PoolInv, [PoolNext]_poolVars,
                      NEW k \in Tasks, promise[k] \in Settled
               PROVE  promise'[k] = promise[k]
    OBVIOUS
  <2>1. [Service!ServiceNext]_(Service!serviceVars)
    BY PoolStepSimulation
  <2>2. CASE Service!Submit
    <3>1. k # calls + 1
      BY DEF PoolInv, CallsInOrder, Settled, PoolTypeOK, Tasks
    <3> QED
      BY <2>2, <3>1 DEF Service!Submit, PoolInv, PoolTypeOK
  <2>3. ASSUME NEW l \in Tasks, NEW outcome, Service!Settle(l, outcome)
        PROVE  promise'[k] = promise[k]
    BY <2>3 DEF Service!Settle, PoolInv, PoolTypeOK, Settled
  <2>4. CASE Service!BeginClose \/ Service!EndClose
    BY <2>4 DEF Service!BeginClose, Service!EndClose, Settled, Tasks
  <2> QED
    BY <2>1, <2>2, <2>3, <2>4 DEF Service!ServiceNext, Service!serviceVars, Tasks
<1> QED
  BY <1>1, PoolInvariant, PTL DEF PoolSpec, SettleOnce

-----------------------------------------------------------------------------
(* Where tasks are.                                                         *)

Holds(w) == InInbox(w) \cup InOutbox(w)
IsIdle(w) == \E i \in 1 .. Len(idle) : idle[i] = w
Load(w) == Len(inbox[w]) + Len(outbox[w])

\* QueueFifo, and what it rests on: a new call has an id above all others, and a
\* pool that is not open queues nothing.
FifoInv ==
  /\ QueueFifo
  /\ \A k \in InQueue \cup Held : k <= calls
  /\ phase # "open" => queue = <<>>

\* A worker of an open pool has not been terminated, and is idle, or has one task,
\* or is dead and has lost it.
WorkerFits(w) ==
  /\ thread[w] # "terminated"
  /\ Load(w) <= 1
  /\ IsIdle(w) => Load(w) = 0
  /\ thread[w] # "crashed" /\ ~IsIdle(w) => Load(w) = 1

\* Such is every worker, and none is on the idle stack twice.
CrewInv ==
  /\ \A i, j \in 1 .. Len(idle) : idle[i] = idle[j] => i = j
  /\ \A w \in Workers : WorkerFits(w)

\* The tasks of an open pool: a worker has pending tasks only, and no task is with
\* two workers; one that is nowhere was lost with a worker thread; the occupancy
\* figures count lost tasks too.
TaskInv ==
  /\ Held \subseteq pending
  /\ \A w, v \in Workers : w # v => Holds(w) \cap Holds(v) = {}
  /\ ~Crashed => pending \subseteq InQueue \cup Held
  /\ workers = Workers
  /\ Len(idle) + Cardinality(pending) = Cardinality(Workers) + Len(queue)

PlaceInv == FifoInv /\ (phase = "open" => CrewInv /\ TaskInv)

Elems(q) == {q[i] : i \in 1 .. Len(q)}
Ids(q) == {q[i].id : i \in 1 .. Len(q)}

\* Appending adds one element at the end.
LEMMA AppendElems ==
  ASSUME NEW S, NEW q \in Seq(S), NEW e \in S
  PROVE  /\ Len(Append(q, e)) = Len(q) + 1
         /\ Elems(Append(q, e)) = Elems(q) \cup {e}
         /\ Ids(Append(q, e)) = Ids(q) \cup {e.id}
         /\ \A i \in 1 .. Len(q) : Append(q, e)[i] = q[i]
         /\ Append(q, e)[Len(q) + 1] = e
<1> DEFINE p == Append(q, e)
<1>1. /\ Len(q) \in Nat
      /\ Len(p) = Len(q) + 1
      /\ \A i \in 1 .. Len(q) : p[i] = q[i]
      /\ p[Len(q) + 1] = e
  BY AppendProperties, LenProperties
<1> HIDE DEF p
<1>2. 1 .. Len(p) = (1 .. Len(q)) \cup {Len(q) + 1}
  BY <1>1
<1>3. Elems(p) = Elems(q) \cup {e} /\ Ids(p) = Ids(q) \cup {e.id}
  BY <1>1, <1>2 DEF Elems, Ids
<1> QED
  BY <1>1, <1>3 DEF p

\* Taking the head off removes the first element.
LEMMA TailElems ==
  ASSUME NEW S, NEW q \in Seq(S), q # <<>>
  PROVE  /\ Len(q) > 0 /\ Len(q) \in Nat
         /\ Len(Tail(q)) = Len(q) - 1
         /\ Head(q) = q[1]
         /\ Elems(q) = {Head(q)} \cup Elems(Tail(q))
         /\ Ids(q) = {Head(q).id} \cup Ids(Tail(q))
         /\ \A i \in 1 .. Len(Tail(q)) : Tail(q)[i] = q[i + 1]
<1> DEFINE p == Tail(q)
<1>1. /\ Len(q) \in Nat /\ Len(q) > 0
      /\ Len(p) = Len(q) - 1
      /\ \A i \in 1 .. Len(p) : p[i] = q[i + 1]
      /\ Head(q) = q[1]
  BY HeadTailProperties, LenProperties, EmptySeq
<1> HIDE DEF p
<1>2. /\ \A i \in 1 .. Len(q) : i = 1 \/ (i - 1 \in 1 .. Len(p) /\ p[i - 1] = q[i])
      /\ \A i \in 1 .. Len(p) : i + 1 \in 1 .. Len(q) /\ p[i] = q[i + 1]
      /\ 1 \in 1 .. Len(q)
  BY <1>1
<1>3. Elems(q) = {Head(q)} \cup Elems(p)
  BY <1>1, <1>2 DEF Elems
<1>4. Ids(q) = {Head(q).id} \cup Ids(p)
  BY <1>1, <1>2 DEF Ids
<1> QED
  BY <1>1, <1>3, <1>4 DEF p

\* postMessage adds the task to what a living worker holds, and is lost on a dead
\* one.
LEMMA Posted ==
  ASSUME PoolTypeOK, NEW w \in Workers, NEW k \in Tasks, PostMessage(w, k)
  PROVE  /\ \A v \in Workers : v # w => inbox'[v] = inbox[v]
         /\ thread[w] # "running" => inbox'[w] = inbox[w]
         /\ thread[w] = "running" =>
              /\ Len(inbox'[w]) = Len(inbox[w]) + 1
              /\ Elems(inbox'[w]) = Elems(inbox[w]) \cup {k}
<1>1. inbox[w] \in Seq(Tasks)
  BY DEF PoolTypeOK
<1>2. inbox' = [inbox EXCEPT ![w] = IF thread[w] = "running" THEN Append(@, k) ELSE @]
  BY DEF PostMessage
<1> QED
  BY <1>1, <1>2, AppendElems DEF PoolTypeOK

\* The ports as sets.
LEMMA Ports ==
  /\ InQueue = Elems(queue)
  /\ Held = UNION {Holds(w) : w \in Workers}
  /\ \A w : Holds(w) = Elems(inbox[w]) \cup Ids(outbox[w])
BY DEF InQueue, Held, Holds, InInbox, InOutbox, Elems, Ids

\* An empty sequence has no elements.
LEMMA EmptyElems == Elems(<<>>) = {} /\ Ids(<<>>) = {} /\ Len(<<>>) = 0
BY DEF Elems, Ids

\* What is in a port is a task.
LEMMA PortsTyped ==
  ASSUME PoolTypeOK
  PROVE  /\ InQueue \cup Held \subseteq Tasks
         /\ \A w \in Workers : Holds(w) \subseteq Tasks
         /\ \A w \in Workers : Len(inbox[w]) \in Nat /\ Len(outbox[w]) \in Nat
<1>1. InQueue \subseteq Tasks
  BY ElementOfSeq DEF PoolTypeOK, InQueue
<1>2. ASSUME NEW w \in Workers
      PROVE  Holds(w) \subseteq Tasks /\ Len(inbox[w]) \in Nat /\ Len(outbox[w]) \in Nat
  <2>1. inbox[w] \in Seq(Tasks) /\ outbox[w] \in Seq(Reply)
    BY DEF PoolTypeOK
  <2>2. InInbox(w) \subseteq Tasks
    BY <2>1, ElementOfSeq DEF InInbox
  <2>3. \A i \in 1 .. Len(outbox[w]) : outbox[w][i] \in Reply
    BY <2>1, ElementOfSeq
  <2>4. InOutbox(w) \subseteq Tasks
    BY <2>3 DEF InOutbox, Reply
  <2> QED
    BY <2>1, <2>2, <2>4, LenProperties DEF Holds
<1> QED
  BY <1>1, <1>2, Ports

\* Steps that start no task, queue none and settle none that waits.
LEMMA FifoKept ==
  ASSUME PoolInv, FifoInv, queue' = queue \/ queue' = <<>>, Held' \subseteq Held,
         \A k \in InQueue' : k \in pending',
         calls' = calls \/ calls' = calls + 1,
         phase' # "open" => queue' = <<>>
  PROVE  FifoInv'
<1>1. InQueue' \subseteq InQueue
  BY EmptyElems, Ports DEF InQueue
<1>2. calls \in Nat /\ InQueue \cup Held \subseteq Nat
  BY PortsTyped DEF PoolInv, PoolTypeOK, Tasks
<1>3. \A i, j \in 1 .. Len(queue') : i < j => queue'[i] < queue'[j]
  BY EmptyElems DEF FifoInv, QueueFifo
<1>4. \A k \in InQueue', l \in Held' : l < k
  BY <1>1 DEF FifoInv, QueueFifo
<1>5. \A k \in InQueue' \cup Held' : k <= calls'
  BY <1>1, <1>2 DEF FifoInv
<1> QED
  BY <1>3, <1>4, <1>5 DEF FifoInv, QueueFifo

\* A worker of an open pool that has replied has nothing but that reply, is not
\* idle, and its task is pending and with no other worker.
LEMMA Replied ==
  ASSUME PoolInv, PlaceInv, phase = "open", NEW w \in Workers, outbox[w] # <<>>
  PROVE  /\ Head(outbox[w]).id \in pending
         /\ ~IsIdle(w)
         /\ Holds(w) = {Head(outbox[w]).id}
         /\ Len(inbox[w]) = 0 /\ Elems(inbox[w]) = {}
         /\ Len(Tail(outbox[w])) = 0 /\ Ids(Tail(outbox[w])) = {}
<1>1. outbox[w] \in Seq(Reply) /\ inbox[w] \in Seq(Tasks)
  BY DEF PoolInv, PoolTypeOK
<1>2. /\ Len(outbox[w]) > 0
      /\ Len(Tail(outbox[w])) = Len(outbox[w]) - 1
      /\ Ids(outbox[w]) = {Head(outbox[w]).id} \cup Ids(Tail(outbox[w]))
  BY <1>1, TailElems
<1>3. Load(w) <= 1 /\ (IsIdle(w) => Load(w) = 0)
  BY DEF PlaceInv, CrewInv, WorkerFits
<1>4. Len(inbox[w]) \in Nat /\ Len(outbox[w]) \in Nat
  BY PortsTyped DEF PoolInv
<1>5. Len(inbox[w]) = 0 /\ Len(outbox[w]) = 1 /\ ~IsIdle(w)
  <2>1. Load(w) <= 1 /\ Len(outbox[w]) > 0
    BY <1>2, <1>3
  <2>2. \A a, b \in Nat : a + b <= 1 /\ b > 0 => a = 0 /\ b = 1 /\ a + b # 0
    OBVIOUS
  <2>3. Len(inbox[w]) = 0 /\ Len(outbox[w]) = 1 /\ Load(w) # 0
    BY <2>1, <2>2, <1>4, Zenon DEF Load
  <2> QED
    BY <2>3, <1>3
<1>6. Elems(inbox[w]) = {} /\ Ids(Tail(outbox[w])) = {}
  BY <1>2, <1>5 DEF Elems, Ids
<1>7. Holds(w) = {Head(outbox[w]).id}
  BY <1>2, <1>6, Ports
<1>8. Holds(w) \subseteq pending
  BY Ports DEF PlaceInv, TaskInv
<1> QED
  BY <1>2, <1>5, <1>6, <1>7, <1>8

\* What a call that finds an idle worker does to the ports: that worker, which had
\* nothing, is no longer idle and holds the new task unless its thread is dead.
LEMMA DispatchedToIdle ==
  ASSUME PoolInv, PlaceInv, Dispatch, idle # <<>>
  PROVE  \E u \in Workers :
           /\ IsIdle(u) /\ ~IsIdle(u)'
           /\ \A v \in Workers : v # u => (IsIdle(v)' <=> IsIdle(v))
           /\ \A v \in Workers : v # u => Holds(v)' = Holds(v) /\ Load(v)' = Load(v)
           /\ thread[u] # "running" => Holds(u)' = Holds(u) /\ Load(u)' = Load(u)
           /\ thread[u] = "running" => /\ Holds(u)' = Holds(u) \cup {calls + 1}
                                       /\ Load(u)' = Load(u) + 1
           /\ Len(idle') = Len(idle) - 1
           /\ \A i, j \in 1 .. Len(idle') : idle'[i] = idle'[j] => i = j
<1>1. /\ phase = "open" /\ calls + 1 \in Tasks
      /\ PoolTypeOK /\ outbox' = outbox
      /\ idle' = SubSeq(idle, 1, Len(idle) - 1)
      /\ PostMessage(idle[Len(idle)], calls + 1)
  BY PoolConstants DEF Dispatch, NextId, PopIdle, PoolInv, PoolTypeOK, Tasks
<1>2. idle \in Seq(Workers) /\ Len(idle) \in Nat /\ Len(idle) > 0
  BY <1>1, LenProperties, EmptySeq DEF PoolTypeOK
<1>3. PICK u \in Workers : u = idle[Len(idle)]
  BY <1>2, ElementOfSeq
<1>4. PICK n \in Nat : n = Len(idle) /\ n > 0
  BY <1>2
<1>5. Len(idle') = n - 1 /\ \A i \in 1 .. n - 1 : idle'[i] = idle[i]
  <2>1. n - 1 \in Int /\ \A i \in 1 .. n - 1 : idle[i] \in Workers
    BY <1>2, <1>4, ElementOfSeq
  <2>2. /\ Len(idle') = IF 1 <= n - 1 THEN n - 1 - 1 + 1 ELSE 0
        /\ \A i \in 1 .. n - 1 - 1 + 1 : idle'[i] = idle[1 + i - 1]
    BY <1>1, <1>4, <2>1, SubSeqProperties
  <2> QED
    BY <1>4, <2>2
<1>6. \A i, j \in 1 .. n : idle[i] = idle[j] => i = j
  BY <1>1, <1>4 DEF PlaceInv, CrewInv
<1>7. \A i, j \in 1 .. Len(idle') : idle'[i] = idle'[j] => i = j
  BY <1>5, <1>6
<1>8. IsIdle(u) /\ ~IsIdle(u)'
  <2>1. n \in 1 .. n /\ idle[n] = u
    BY <1>3, <1>4
  <2>2. \A i \in 1 .. n - 1 : i \in 1 .. n /\ i # n
    OBVIOUS
  <2> QED
    BY <1>4, <1>5, <1>6, <2>1, <2>2 DEF IsIdle
<1>9. \A v \in Workers : v # u => (IsIdle(v)' <=> IsIdle(v))
  <2>1. \A i \in 1 .. n : i = n \/ i \in 1 .. n - 1
    OBVIOUS
  <2>2. \A i \in 1 .. n - 1 : i \in 1 .. n
    OBVIOUS
  <2> QED
    BY <1>3, <1>4, <1>5, <2>1, <2>2 DEF IsIdle
<1>10. /\ \A v \in Workers : v # u => inbox'[v] = inbox[v]
       /\ thread[u] # "running" => inbox'[u] = inbox[u]
       /\ thread[u] = "running" =>
            /\ Len(inbox'[u]) = Len(inbox[u]) + 1
            /\ Elems(inbox'[u]) = Elems(inbox[u]) \cup {calls + 1}
  BY <1>1, <1>3, Posted
<1>11. /\ \A v \in Workers : v # u => Holds(v)' = Holds(v)
       /\ thread[u] # "running" => Holds(u)' = Holds(u)
       /\ thread[u] = "running" => Holds(u)' = Holds(u) \cup {calls + 1}
  <2>1. \A v : /\ Holds(v) = Elems(inbox[v]) \cup Ids(outbox[v])
               /\ Holds(v)' = Elems(inbox'[v]) \cup Ids(outbox[v])
    BY <1>1 DEF Holds, InInbox, InOutbox, Elems, Ids
  <2> QED
    BY <1>10, <2>1
<1>12. /\ \A v \in Workers : v # u => Load(v)' = Load(v)
       /\ thread[u] # "running" => Load(u)' = Load(u)
       /\ thread[u] = "running" => Load(u)' = Load(u) + 1
  <2>1. Len(inbox[u]) \in Nat /\ Len(outbox[u]) \in Nat
    BY <1>1, PortsTyped
  <2>2. \A a, b \in Nat : (a + 1) + b = (a + b) + 1
    OBVIOUS
  <2>3. /\ \A v : Load(v) = Len(inbox[v]) + Len(outbox[v])
        /\ \A v : Load(v)' = Len(inbox'[v]) + Len(outbox[v])
    BY <1>1 DEF Load
  <2> QED
    BY <1>10, <2>1, <2>2, <2>3, Zenon
<1> QED
  BY <1>4, <1>5, <1>7, <1>8, <1>9, <1>11, <1>12, Zenon

\* What the reply of a worker of an open pool does: its task is settled, and the
\* worker gets the oldest queued task or becomes idle.
LEMMA RepliedStep ==
  ASSUME PoolInv, PlaceInv, phase = "open", NEW w \in Workers, OnMessage(w)
  PROVE  /\ \A v \in Workers : v # w => Holds(v)' = Holds(v) /\ Load(v)' = Load(v)
         /\ pending' = pending \ {Head(outbox[w]).id}
         /\ queue # <<>> =>
              /\ queue' = Tail(queue) /\ idle' = idle /\ Head(queue) \in Tasks
              /\ thread[w] = "running" => Holds(w)' = {Head(queue)} /\ Load(w)' = 1
              /\ thread[w] # "running" => Holds(w)' = {} /\ Load(w)' = 0
         /\ queue = <<>> =>
              queue' = <<>> /\ idle' = Append(idle, w) /\ Holds(w)' = {} /\ Load(w)' = 0
<1> DEFINE id == Head(outbox[w]).id
<1>1. PoolTypeOK /\ outbox[w] # <<>> /\ outbox' = [outbox EXCEPT ![w] = Tail(@)]
  BY DEF PoolInv, OnMessage
<1>2. /\ id \in pending
      /\ Len(inbox[w]) = 0 /\ Elems(inbox[w]) = {}
      /\ Len(Tail(outbox[w])) = 0 /\ Ids(Tail(outbox[w])) = {}
  BY <1>1, Replied
<1>3. Release(w) /\ pending' = pending \ {id}
  BY <1>2 DEF OnMessage, DeletePending
<1>4. /\ \A v \in Workers : v # w => outbox'[v] = outbox[v]
      /\ outbox'[w] = Tail(outbox[w])
  BY <1>1 DEF PoolTypeOK
<1>5. \A v : /\ Holds(v) = Elems(inbox[v]) \cup Ids(outbox[v])
             /\ Holds(v)' = Elems(inbox'[v]) \cup Ids(outbox'[v])
  BY DEF Holds, InInbox, InOutbox, Elems, Ids
<1>6. /\ \A v : Load(v) = Len(inbox[v]) + Len(outbox[v])
      /\ \A v : Load(v)' = Len(inbox'[v]) + Len(outbox'[v])
  BY DEF Load
<1>7. CASE queue # <<>>
  <2>1. queue' = Tail(queue) /\ idle' = idle /\ PostMessage(w, Head(queue))
    BY <1>3, <1>7 DEF Release
  <2>2. Head(queue) \in Tasks
    BY <1>1, <1>7, HeadTailProperties DEF PoolTypeOK
  <2>3. /\ \A v \in Workers : v # w => inbox'[v] = inbox[v]
        /\ thread[w] # "running" => inbox'[w] = inbox[w]
        /\ thread[w] = "running" =>
             /\ Len(inbox'[w]) = Len(inbox[w]) + 1
             /\ Elems(inbox'[w]) = Elems(inbox[w]) \cup {Head(queue)}
    BY <1>1, <2>1, <2>2, Posted
  <2>4. /\ \A v \in Workers : v # w => Holds(v)' = Holds(v)
        /\ thread[w] = "running" => Holds(w)' = {Head(queue)}
        /\ thread[w] # "running" => Holds(w)' = {}
    BY <1>2, <1>4, <1>5, <2>3
  <2>5. /\ \A v \in Workers : v # w => Load(v)' = Load(v)
        /\ thread[w] = "running" => Load(w)' = 1
        /\ thread[w] # "running" => Load(w)' = 0
    BY <1>2, <1>4, <1>6, <2>3, (0 + 1) + 0 = 1 /\ 0 + 0 = 0, Zenon
  <2> QED
    BY <1>3, <1>7, <2>1, <2>2, <2>4, <2>5
<1>8. CASE queue = <<>>
  <2>1. queue' = queue /\ idle' = Append(idle, w) /\ inbox' = inbox
    BY <1>3, <1>8 DEF Release
  <2>2. Holds(w)' = {} /\ \A v \in Workers : v # w => Holds(v)' = Holds(v)
    BY <1>2, <1>4, <1>5, <2>1
  <2>3. Load(w)' = 0 /\ \A v \in Workers : v # w => Load(v)' = Load(v)
    BY <1>2, <1>4, <1>6, <2>1, 0 + 0 = 0, Zenon
  <2> QED
    BY <1>3, <1>8, <2>1, <2>2, <2>3
<1> QED
  BY <1>7, <1>8

\* Working on a task moves it from one port of the worker to the other.
LEMMA RanStep ==
  ASSUME PoolTypeOK, NEW w \in Workers, WorkerRun(w)
  PROVE  \A v \in Workers : Holds(v)' = Holds(v) /\ Load(v)' = Load(v)
<1>1. PICK ok \in BOOLEAN :
        outbox' = [outbox EXCEPT ![w] = Append(@, [id |-> Head(inbox[w]), ok |-> ok])]
  BY DEF WorkerRun
<1> DEFINE r == [id |-> Head(inbox[w]), ok |-> ok]
<1>2. inbox[w] \in Seq(Tasks) /\ outbox[w] \in Seq(Reply) /\ inbox[w] # <<>>
  BY DEF WorkerRun, PoolTypeOK
<1>3. r \in Reply /\ r.id = Head(inbox[w])
  BY <1>2, HeadTailProperties DEF Reply
<1>4. /\ \A v \in Workers : v # w => outbox'[v] = outbox[v] /\ inbox'[v] = inbox[v]
      /\ outbox'[w] = Append(outbox[w], r)
      /\ inbox'[w] = Tail(inbox[w])
  BY <1>1 DEF WorkerRun, PoolTypeOK
<1> HIDE DEF r
<1>5. /\ Len(inbox'[w]) = Len(inbox[w]) - 1
      /\ Elems(inbox[w]) = {Head(inbox[w])} \cup Elems(inbox'[w])
  BY <1>2, <1>4, TailElems
<1>6. /\ Len(outbox'[w]) = Len(outbox[w]) + 1
      /\ Ids(outbox'[w]) = Ids(outbox[w]) \cup {Head(inbox[w])}
  BY <1>2, <1>3, <1>4, AppendElems
<1>7. \A v \in Workers : Holds(v)' = Holds(v)
  <2>1. \A v : /\ Holds(v) = Elems(inbox[v]) \cup Ids(outbox[v])
               /\ Holds(v)' = Elems(inbox'[v]) \cup Ids(outbox'[v])
    BY DEF Holds, InInbox, InOutbox, Elems, Ids
  <2> QED
    BY <1>4, <1>5, <1>6, <2>1
<1>8. \A v \in Workers : Load(v)' = Load(v)
  <2>1. Len(inbox[w]) \in Nat /\ Len(outbox[w]) \in Nat
    BY PortsTyped
  <2>2. \A a, b \in Nat : (a - 1) + (b + 1) = a + b
    OBVIOUS
  <2>3. /\ \A v : Load(v) = Len(inbox[v]) + Len(outbox[v])
        /\ \A v : Load(v)' = Len(inbox'[v]) + Len(outbox'[v])
    BY DEF Load
  <2>4. Load(w)' = (Len(inbox[w]) - 1) + (Len(outbox[w]) + 1)
    BY <1>5, <1>6, <2>3
  <2>5. Load(w)' = Load(w)
    BY <2>1, <2>2, <2>3, <2>4, Zenon
  <2>6. \A v \in Workers : v # w => Load(v)' = Load(v)
    BY <1>4, <2>3, Zenon
  <2> QED
    BY <2>5, <2>6
<1> QED
  BY <1>7, <1>8

\* A thread that stops loses what is in its inbox, and nothing else.
LEMMA StoppedStep ==
  ASSUME PoolTypeOK, NEW w \in Workers, Terminate(w) \/ WorkerError(w)
  PROVE  /\ \A v \in Workers : v # w => Holds(v)' = Holds(v) /\ Load(v)' = Load(v)
         /\ Holds(w)' \subseteq Holds(w)
         /\ Load(w)' <= Load(w)
         /\ Load(w)' \in Nat /\ Load(w) \in Nat
<1>1. outbox' = outbox /\ inbox' = [inbox EXCEPT ![w] = <<>>]
  BY DEF Terminate, WorkerError
<1>2. (\A v \in Workers : v # w => inbox'[v] = inbox[v]) /\ inbox'[w] = <<>>
  BY <1>1 DEF PoolTypeOK
<1>3. \A v : /\ Holds(v) = Elems(inbox[v]) \cup Ids(outbox[v])
             /\ Holds(v)' = Elems(inbox'[v]) \cup Ids(outbox[v])
  BY <1>1 DEF Holds, InInbox, InOutbox, Elems, Ids
<1>4. Holds(w)' \subseteq Holds(w) /\ \A v \in Workers : v # w => Holds(v)' = Holds(v)
  BY <1>2, <1>3, EmptyElems
<1>5. /\ \A v : Load(v) = Len(inbox[v]) + Len(outbox[v])
      /\ \A v : Load(v)' = Len(inbox'[v]) + Len(outbox[v])
  BY <1>1 DEF Load
<1>6. Len(inbox[w]) \in Nat /\ Len(outbox[w]) \in Nat
  BY PortsTyped
<1>7. \A a, b \in Nat : 0 + b <= a + b /\ 0 + b \in Nat /\ a + b \in Nat
  OBVIOUS
<1> QED
  BY <1>2, <1>4, <1>5, <1>6, <1>7, EmptyElems, Zenon

\* A late reply, to a pool that is closing or closed, starts nothing.
LEMMA LateReplyStep ==
  ASSUME PoolTypeOK, FifoInv, phase # "open", NEW w \in Workers, OnMessage(w)
  PROVE  queue' = <<>> /\ \A v \in Workers : Holds(v)' \subseteq Holds(v)
<1>1. queue = <<>>
  BY DEF FifoInv
<1>2. queue' = queue /\ inbox' = inbox /\ outbox' = [outbox EXCEPT ![w] = Tail(@)]
  BY <1>1 DEF OnMessage, Release
<1>3. outbox[w] # <<>> /\ outbox[w] \in Seq(Reply)
  BY DEF OnMessage, PoolTypeOK
<1>4. Ids(outbox'[w]) \subseteq Ids(outbox[w])
  BY <1>2, <1>3, TailElems DEF PoolTypeOK
<1>5. \A v \in Workers : v # w => outbox'[v] = outbox[v]
  BY <1>2 DEF PoolTypeOK
<1>6. \A v : /\ Holds(v) = Elems(inbox[v]) \cup Ids(outbox[v])
             /\ Holds(v)' = Elems(inbox[v]) \cup Ids(outbox'[v])
  BY <1>2 DEF Holds, InInbox, InOutbox, Elems, Ids
<1> QED
  BY <1>1, <1>2, <1>4, <1>5, <1>6

\* Every step keeps the queue in the order of the calls and behind the tasks
\* that workers have.
LEMMA FifoStep == PoolInv /\ PoolInv' /\ PlaceInv /\ [PoolNext]_poolVars => FifoInv'
<1> SUFFICES ASSUME PoolInv, PoolInv', PlaceInv, [PoolNext]_poolVars
             PROVE  FifoInv'
  OBVIOUS
<1>1. FifoInv /\ PoolTypeOK /\ calls \in Nat
  BY DEF PlaceInv, PoolInv, PoolTypeOK
<1>2. InQueue \cup Held \subseteq Nat
  BY <1>1, PortsTyped DEF Tasks
<1>3. InQueue = Elems(queue) /\ InQueue' = Elems(queue')
  BY DEF InQueue, Elems
<1>4. /\ Held = UNION {Holds(v) : v \in Workers}
      /\ Held' = UNION {Holds(v)' : v \in Workers}
  BY DEF Held, Holds
<1>5. /\ InQueue \subseteq pending
      /\ \A i, j \in 1 .. Len(queue) : i < j => queue[i] < queue[j]
      /\ \A k \in InQueue, l \in Held : l < k
      /\ \A k \in InQueue \cup Held : k <= calls
  BY <1>1 DEF FifoInv, QueueFifo
<1>6. CASE Dispatch
  <2>1. phase' = "open" /\ calls' = calls + 1 /\ pending' = pending \cup {calls + 1}
    BY <1>6 DEF Dispatch, NextId
  <2>2. CASE idle # <<>>
    <3>1. queue = <<>> /\ queue' = queue
      BY <1>6, <2>2 DEF Dispatch, PoolInv, WorkConserving
    <3>2. InQueue' = {}
      BY <1>3, <3>1, EmptyElems
    <3>3. Held' \subseteq Held \cup {calls + 1}
      BY <1>4, <1>6, <2>2, DispatchedToIdle
    <3>4. \A k \in Held' : k <= calls'
      BY <1>1, <1>2, <1>5, <2>1, <3>3
    <3> QED
      BY <2>1, <3>1, <3>2, <3>4, EmptyElems DEF FifoInv, QueueFifo
  <2>3. CASE idle = <<>>
    <3>1. /\ queue' = Append(queue, calls + 1) /\ inbox' = inbox /\ outbox' = outbox
          /\ queue \in Seq(Tasks) /\ calls + 1 \in Tasks /\ Len(queue) \in Nat
      BY <1>1, <1>6, <2>3, PoolConstants, LenProperties
      DEF Dispatch, Enqueue, NextId, PoolTypeOK, Tasks
    <3>2. /\ Len(queue') = Len(queue) + 1
          /\ Elems(queue') = Elems(queue) \cup {calls + 1}
          /\ \A i \in 1 .. Len(queue) : queue'[i] = queue[i]
          /\ queue'[Len(queue) + 1] = calls + 1
      BY <3>1, AppendElems
    <3>3. Held' = Held
      BY <3>1 DEF Held, InInbox, InOutbox
    <3>4. \A i \in 1 .. Len(queue) : queue[i] \in Nat /\ queue[i] < calls + 1
      BY <1>1, <1>2, <1>5 DEF InQueue
    <3>5. \A i, j \in 1 .. Len(queue') : i < j => queue'[i] < queue'[j]
      <4> SUFFICES ASSUME NEW i \in 1 .. Len(queue'), NEW j \in 1 .. Len(queue'), i < j
                   PROVE  queue'[i] < queue'[j]
        OBVIOUS
      <4>1. i \in 1 .. Len(queue) /\ (j \in 1 .. Len(queue) \/ j = Len(queue) + 1)
        BY <3>1, <3>2
      <4> QED
        BY <4>1, <3>2, <3>4, <1>5
    <3>6. \A k \in InQueue', l \in Held' : l < k
      BY <1>1, <1>2, <1>3, <1>5, <3>2, <3>3
    <3>7. \A k \in InQueue' \cup Held' : k <= calls'
      BY <1>1, <1>2, <1>3, <1>5, <2>1, <3>2, <3>3
    <3>8. InQueue' \subseteq pending'
      BY <1>3, <1>5, <2>1, <3>2
    <3> QED
      BY <2>1, <3>5, <3>6, <3>7, <3>8 DEF FifoInv, QueueFifo
  <2> QED
    BY <2>2, <2>3
<1>7. CASE DispatchRefused \/ Close \/ CloseFinish
  <2>1. /\ inbox' = inbox /\ outbox' = outbox /\ phase' # "open" /\ queue' = <<>>
        /\ calls' = calls \/ calls' = calls + 1
    BY <1>1, <1>7 DEF DispatchRefused, Close, CloseFinish, FifoInv
  <2>2. Held' = Held /\ InQueue' = {}
    BY <1>3, <2>1, EmptyElems DEF Held, InInbox, InOutbox
  <2> QED
    BY <1>1, <2>1, <2>2, FifoKept
<1>8. ASSUME NEW w \in Workers, OnMessage(w), phase # "open"
      PROVE  FifoInv'
  <2>1. queue' = <<>> /\ Held' \subseteq Held
    BY <1>1, <1>4, <1>8, LateReplyStep
  <2>2. calls' = calls /\ InQueue' = {}
    BY <1>3, <1>8, <2>1, EmptyElems DEF OnMessage
  <2> QED
    BY <1>1, <2>1, <2>2, FifoKept
<1>9. ASSUME NEW w \in Workers, OnMessage(w), phase = "open"
      PROVE  FifoInv'
  <2> DEFINE id == Head(outbox[w]).id
  <2>1. /\ \A v \in Workers : v # w => Holds(v)' = Holds(v)
        /\ pending' = pending \ {id}
        /\ queue # <<>> => queue' = Tail(queue) /\ Holds(w)' \subseteq {Head(queue)}
        /\ queue = <<>> => queue' = <<>> /\ Holds(w)' = {}
    BY <1>9, RepliedStep
  <2>2. id \in Holds(w) /\ calls' = calls /\ phase' = phase
    BY <1>9, Replied DEF OnMessage
  <2> HIDE DEF id
  <2>3. id \in Held
    BY <1>4, <2>2
  <2>4. CASE queue = <<>>
    <3>1. queue' = <<>> /\ Held' \subseteq Held /\ InQueue' = {}
      BY <1>3, <1>4, <2>1, <2>4, EmptyElems
    <3> QED
      BY <1>1, <1>9, <2>2, <3>1, FifoKept
  <2>5. CASE queue # <<>>
    <3>1. /\ queue' = Tail(queue) /\ queue \in Seq(Tasks)
          /\ Held' \subseteq Held \cup {Head(queue)}
      BY <1>1, <1>4, <2>1, <2>5 DEF PoolTypeOK
    <3>2. /\ Len(queue) \in Nat /\ Len(queue) > 0
          /\ Len(queue') = Len(queue) - 1
          /\ Head(queue) = queue[1]
          /\ Elems(queue) = {Head(queue)} \cup Elems(queue')
          /\ \A i \in 1 .. Len(queue') : queue'[i] = queue[i + 1]
      BY <2>5, <3>1, TailElems
    <3>3. \A i, j \in 1 .. Len(queue') : i < j => queue'[i] < queue'[j]
      <4> SUFFICES ASSUME NEW i \in 1 .. Len(queue'), NEW j \in 1 .. Len(queue'), i < j
                   PROVE  queue'[i] < queue'[j]
        OBVIOUS
      <4>1. i + 1 \in 1 .. Len(queue) /\ j + 1 \in 1 .. Len(queue) /\ i + 1 < j + 1
        BY <3>2
      <4> QED
        BY <4>1, <3>2, <1>5
    <3>4. \A k \in InQueue' : Head(queue) < k
      <4> SUFFICES ASSUME NEW i \in 1 .. Len(queue') PROVE Head(queue) < queue'[i]
        BY DEF InQueue
      <4>1. i + 1 \in 1 .. Len(queue) /\ 1 \in 1 .. Len(queue) /\ 1 < i + 1
        BY <3>2
      <4> QED
        BY <4>1, <3>2, <1>5
    <3>5. InQueue' \subseteq InQueue /\ Head(queue) \in InQueue
      BY <1>3, <3>2
    <3>6. \A k \in InQueue', l \in Held' : l < k
      BY <1>5, <3>1, <3>4, <3>5
    <3>7. InQueue' \subseteq pending'
      <4>1. \A k \in InQueue : k # id
        BY <1>2, <1>5, <2>3
      <4> QED
        BY <1>5, <2>1, <3>5, <4>1
    <3>8. \A k \in InQueue' \cup Held' : k <= calls'
      BY <1>5, <2>2, <3>1, <3>5
    <3> QED
      BY <1>9, <2>2, <3>3, <3>6, <3>7, <3>8 DEF FifoInv, QueueFifo
  <2> QED
    BY <2>4, <2>5
<1>10. ASSUME NEW w \in Workers, WorkerRun(w) \/ Terminate(w) \/ WorkerError(w)
       PROVE  FifoInv'
  <2>1. /\ queue' = queue /\ pending' = pending /\ calls' = calls /\ phase' = phase
    BY <1>10 DEF WorkerRun, Terminate, WorkerError
  <2>2. \A v \in Workers : Holds(v)' \subseteq Holds(v)
    BY <1>1, <1>10, RanStep, StoppedStep
  <2>3. Held' \subseteq Held /\ InQueue' = InQueue
    BY <1>3, <1>4, <2>1, <2>2
  <2>4. phase' # "open" => queue' = <<>>
    BY <1>1, <2>1 DEF FifoInv
  <2> QED
    BY <1>1, <1>5, <2>1, <2>3, <2>4, FifoKept
<1>11. CASE UNCHANGED poolVars
  <2>1. /\ queue' = queue /\ pending' = pending /\ calls' = calls /\ phase' = phase
        /\ inbox' = inbox /\ outbox' = outbox
    BY <1>11 DEF poolVars
  <2>2. Held' = Held /\ InQueue' = InQueue
    BY <2>1 DEF InQueue, Held, InInbox, InOutbox
  <2>3. phase' # "open" => queue' = <<>>
    BY <1>1, <2>1 DEF FifoInv
  <2> QED
    BY <1>1, <1>5, <2>1, <2>2, <2>3, FifoKept
<1> QED
  BY <1>6, <1>7, <1>8, <1>9, <1>10, <1>11 DEF PoolNext

\* The steps an open pool takes without closing.
LEMMA OpenSteps ==
  ASSUME [PoolNext]_poolVars, phase' = "open"
  PROVE  /\ phase = "open"
         /\ \/ Dispatch
            \/ \E w \in Workers : OnMessage(w) \/ WorkerRun(w) \/ WorkerError(w)
            \/ UNCHANGED poolVars
BY DEF PoolNext, DispatchRefused, Close, CloseFinish, Terminate, Dispatch, OnMessage,
       WorkerRun, WorkerError, poolVars

\* A step that does not touch a worker leaves it as it was.
LEMMA WorkerKept ==
  ASSUME NEW w, WorkerFits(w), thread'[w] = thread[w], Load(w)' = Load(w),
         IsIdle(w)' <=> IsIdle(w)
  PROVE  WorkerFits(w)'
BY Zenon DEF WorkerFits

\* While the pool stays open, no worker gets a second task, none is idle while it
\* has one, and none is put on the idle stack twice.
LEMMA CrewStep ==
  PoolInv /\ PlaceInv /\ [PoolNext]_poolVars /\ phase' = "open" => CrewInv'
<1> SUFFICES ASSUME PoolInv, PlaceInv, [PoolNext]_poolVars, phase' = "open"
             PROVE  CrewInv'
  OBVIOUS
<1>1. phase = "open" /\ PoolTypeOK /\ idle \in Seq(Workers)
  BY OpenSteps DEF PoolInv, PoolTypeOK
<1>2. /\ \A i, j \in 1 .. Len(idle) : idle[i] = idle[j] => i = j
      /\ \A w \in Workers : WorkerFits(w)
  BY <1>1 DEF PlaceInv, CrewInv
<1>3. SUFFICES /\ \A i, j \in 1 .. Len(idle') : idle'[i] = idle'[j] => i = j
               /\ \A v \in Workers : WorkerFits(v)'
  BY DEF CrewInv
<1>4. \A v \in Workers : thread[v] \in {"running", "crashed"}
  BY <1>1, <1>2 DEF WorkerFits, PoolTypeOK
<1>5. CASE Dispatch
  <2>1. thread' = thread
    BY <1>5 DEF Dispatch
  <2>2. CASE idle = <<>>
    <3>1. idle' = idle /\ inbox' = inbox /\ outbox' = outbox
      BY <1>5, <2>2 DEF Dispatch
    <3>2. \A v : Load(v)' = Load(v) /\ (IsIdle(v)' <=> IsIdle(v))
      BY <3>1 DEF Load, IsIdle
    <3> QED
      BY <1>2, <2>1, <3>1, <3>2, WorkerKept
  <2>3. CASE idle # <<>>
    <3>1. PICK u \in Workers :
           /\ IsIdle(u) /\ ~IsIdle(u)'
           /\ \A v \in Workers : v # u => (IsIdle(v)' <=> IsIdle(v))
           /\ \A v \in Workers : v # u => Load(v)' = Load(v)
           /\ thread[u] # "running" => Load(u)' = Load(u)
           /\ thread[u] = "running" => Load(u)' = Load(u) + 1
           /\ \A i, j \in 1 .. Len(idle') : idle'[i] = idle'[j] => i = j
      BY <1>5, <2>3, DispatchedToIdle, Zenon
    <3>2. Load(u) = 0
      BY <1>2, <3>1, Zenon DEF WorkerFits
    <3>3. Load(u)' <= 1 /\ (thread[u] # "crashed" => Load(u)' = 1)
      <4>1. thread[u] = "running" \/ thread[u] = "crashed"
        BY <1>4
      <4>2. CASE thread[u] = "running"
        BY <4>2, <3>1, <3>2
      <4>3. CASE thread[u] = "crashed"
        BY <4>3, <3>1, <3>2
      <4> QED
        BY <4>1, <4>2, <4>3
    <3>4. WorkerFits(u)'
      BY <1>2, <2>1, <3>1, <3>3, Zenon DEF WorkerFits
    <3>5. \A v \in Workers : v # u => WorkerFits(v)'
      BY <1>2, <2>1, <3>1, WorkerKept, Zenon
    <3> QED
      BY <3>1, <3>4, <3>5, Zenon
  <2> QED
    BY <2>2, <2>3
<1>6. ASSUME NEW w \in Workers, OnMessage(w)
      PROVE  /\ \A i, j \in 1 .. Len(idle') : idle'[i] = idle'[j] => i = j
             /\ \A v \in Workers : WorkerFits(v)'
  <2>1. thread' = thread /\ outbox[w] # <<>>
    BY <1>6 DEF OnMessage
  <2>2. ~IsIdle(w)
    BY <1>1, <2>1, Replied
  <2>3. /\ \A v \in Workers : v # w => Load(v)' = Load(v)
        /\ queue # <<>> =>
             /\ idle' = idle
             /\ thread[w] = "running" => Load(w)' = 1
             /\ thread[w] # "running" => Load(w)' = 0
        /\ queue = <<>> => idle' = Append(idle, w) /\ Load(w)' = 0
    BY <1>1, <1>6, RepliedStep
  <2>4. CASE queue # <<>>
    <3>1. \A v : IsIdle(v)' <=> IsIdle(v)
      BY <2>3, <2>4 DEF IsIdle
    <3>2. Load(w)' <= 1 /\ (thread[w] # "crashed" => Load(w)' = 1)
      BY <1>4, <2>3, <2>4
    <3>3. WorkerFits(w)'
      BY <1>2, <2>1, <2>2, <3>1, <3>2, Zenon DEF WorkerFits
    <3>4. \A v \in Workers : v # w => WorkerFits(v)'
      BY <1>2, <2>1, <2>3, <3>1, WorkerKept, Zenon
    <3> QED
      BY <1>2, <2>3, <2>4, <3>3, <3>4, Zenon
  <2>5. CASE queue = <<>>
    <3>1. PICK n \in Nat : n = Len(idle)
      BY <1>1, LenProperties
    <3>2. /\ Len(idle') = n + 1 /\ idle'[n + 1] = w
          /\ \A i \in 1 .. n : idle'[i] = idle[i]
      BY <1>1, <2>3, <2>5, <3>1, AppendElems
    <3>3. \A i \in 1 .. n : idle[i] # w
      BY <2>2, <3>1 DEF IsIdle
    <3>4. \A i \in 1 .. n + 1 : i = n + 1 \/ i \in 1 .. n
      OBVIOUS
    <3>5. \A i \in 1 .. n : i \in 1 .. n + 1
      OBVIOUS
    <3>6. n + 1 \in 1 .. n + 1
      OBVIOUS
    <3>7. \A i, j \in 1 .. Len(idle') : idle'[i] = idle'[j] => i = j
      BY <1>2, <3>1, <3>2, <3>3, <3>4
    <3>8. IsIdle(w)'
      BY <3>2, <3>6 DEF IsIdle
    <3>9. \A v \in Workers : v # w => (IsIdle(v)' <=> IsIdle(v))
      BY <3>1, <3>2, <3>4, <3>5 DEF IsIdle
    <3>10. Load(w)' = 0 /\ Load(w)' <= 1
      BY <2>3, <2>5
    <3>11. WorkerFits(w)'
      BY <1>2, <2>1, <3>8, <3>10, Zenon DEF WorkerFits
    <3>12. \A v \in Workers : v # w => WorkerFits(v)'
      BY <1>2, <2>1, <2>3, <3>9, WorkerKept, Zenon
    <3> QED
      BY <3>7, <3>11, <3>12, Zenon
  <2> QED
    BY <2>4, <2>5
<1>7. ASSUME NEW w \in Workers, WorkerRun(w)
      PROVE  /\ \A i, j \in 1 .. Len(idle') : idle'[i] = idle'[j] => i = j
             /\ \A v \in Workers : WorkerFits(v)'
  <2>1. thread' = thread /\ idle' = idle
    BY <1>7 DEF WorkerRun
  <2>2. \A v \in Workers : Load(v)' = Load(v) /\ (IsIdle(v)' <=> IsIdle(v))
    BY <1>1, <1>7, <2>1, RanStep DEF IsIdle
  <2> QED
    BY <1>2, <2>1, <2>2, WorkerKept
<1>8. ASSUME NEW w \in Workers, WorkerError(w)
      PROVE  /\ \A i, j \in 1 .. Len(idle') : idle'[i] = idle'[j] => i = j
             /\ \A v \in Workers : WorkerFits(v)'
  <2>1. /\ idle' = idle /\ thread'[w] = "crashed"
        /\ \A v \in Workers : v # w => thread'[v] = thread[v]
    BY <1>1, <1>8 DEF WorkerError, PoolTypeOK
  <2>2. \A v : IsIdle(v)' <=> IsIdle(v)
    BY <2>1 DEF IsIdle
  <2>3. /\ \A v \in Workers : v # w => Load(v)' = Load(v)
        /\ Load(w)' <= Load(w) /\ Load(w)' \in Nat /\ Load(w) \in Nat
    BY <1>1, <1>8, StoppedStep
  <2>4. /\ Load(w) <= 1 => Load(w)' <= 1
        /\ Load(w) = 0 => Load(w)' = 0
    BY <2>3
  <2>5. thread'[w] # "terminated"
    BY <2>1
  <2>6. WorkerFits(w)'
    BY <1>2, <2>1, <2>2, <2>4, <2>5, Zenon DEF WorkerFits
  <2>7. \A v \in Workers : v # w => WorkerFits(v)'
    BY <1>2, <2>1, <2>2, <2>3, WorkerKept, Zenon
  <2> QED
    BY <1>2, <2>1, <2>6, <2>7, Zenon
<1>9. CASE UNCHANGED poolVars
  <2>1. thread' = thread /\ idle' = idle /\ inbox' = inbox /\ outbox' = outbox
    BY <1>9 DEF poolVars
  <2>2. \A v : Load(v)' = Load(v) /\ (IsIdle(v)' <=> IsIdle(v))
    BY <2>1 DEF Load, IsIdle
  <2> QED
    BY <1>2, <2>1, <2>2, WorkerKept
<1> QED
  BY <1>5, <1>6, <1>7, <1>8, <1>9, OpenSteps, Zenon

\* _pending is finite, and its size changes by one with the entry.
LEMMA PendingSize ==
  ASSUME PoolTypeOK
  PROVE  /\ Cardinality(pending) \in Nat
         /\ \A k : k \notin pending =>
                  Cardinality(pending \cup {k}) = Cardinality(pending) + 1
         /\ \A k : k \in pending =>
                  Cardinality(pending \ {k}) = Cardinality(pending) - 1
<1>1. IsFiniteSet(Tasks)
  BY PoolConstants, FS_Interval DEF Tasks
<1>2. IsFiniteSet(pending)
  BY <1>1, FS_Subset DEF PoolTypeOK
<1> QED
  BY <1>2, FS_CardinalityType, FS_AddElement, FS_RemoveElement

\* While the pool stays open, workers have pending tasks only, no two have the
\* same, none goes missing without a crash, and the occupancy figures add up.
LEMMA TaskStep ==
  PoolInv /\ PoolInv' /\ PlaceInv /\ [PoolNext]_poolVars /\ phase' = "open" => TaskInv'
<1> SUFFICES ASSUME PoolInv, PoolInv', PlaceInv, [PoolNext]_poolVars, phase' = "open"
             PROVE  TaskInv'
  OBVIOUS
<1>1. phase = "open" /\ PoolTypeOK /\ calls \in Nat
  BY OpenSteps DEF PoolInv, PoolTypeOK
<1>2. /\ Held \subseteq pending
      /\ \A w, v \in Workers : w # v => Holds(w) \cap Holds(v) = {}
      /\ ~Crashed => pending \subseteq InQueue \cup Held
      /\ workers = Workers
      /\ Len(idle) + Cardinality(pending) = Cardinality(Workers) + Len(queue)
  BY <1>1 DEF PlaceInv, TaskInv
<1>3. InQueue = Elems(queue) /\ InQueue' = Elems(queue')
  BY DEF InQueue, Elems
<1>4. /\ Held = UNION {Holds(v) : v \in Workers}
      /\ Held' = UNION {Holds(v)' : v \in Workers}
  BY DEF Held, Holds
<1>5. /\ InQueue \subseteq pending
      /\ \A k \in InQueue, l \in Held : l < k
      /\ \A k \in InQueue \cup Held : k \in Nat /\ k <= calls
  BY <1>1, PortsTyped DEF PlaceInv, FifoInv, QueueFifo, Tasks
<1>6. \A v \in Workers : thread[v] \in {"running", "crashed"}
  BY <1>1 DEF PlaceInv, CrewInv, WorkerFits, PoolTypeOK
<1>7. /\ Cardinality(pending) \in Nat /\ Cardinality(Workers) \in Nat
      /\ Len(idle) \in Nat /\ Len(queue) \in Nat
  BY <1>1, PendingSize, PoolConstants, FS_CardinalityType, LenProperties DEF PoolTypeOK
<1>8. CASE Dispatch
  <2>1. /\ pending' = pending \cup {calls + 1} /\ calls + 1 \in Tasks
        /\ workers' = workers /\ thread' = thread
    BY <1>1, <1>8, PoolConstants DEF Dispatch, NextId, PoolTypeOK, Tasks
  <2>2. calls + 1 \notin pending /\ calls + 1 \notin Held
    <3>1. promise[calls + 1] = "none"
      BY <1>1, <2>1 DEF PoolInv, CallsInOrder
    <3> QED
      BY <1>2, <3>1 DEF PoolInv, PendingExact
  <2>3. Cardinality(pending') = Cardinality(pending) + 1
    BY <1>1, <2>1, <2>2, PendingSize
  <2>4. Crashed' = Crashed
    BY <2>1 DEF Crashed
  <2>5. CASE idle = <<>>
    <3>1. /\ queue' = Append(queue, calls + 1) /\ idle' = idle
          /\ inbox' = inbox /\ outbox' = outbox /\ queue \in Seq(Tasks)
      BY <1>1, <1>8, <2>5 DEF Dispatch, Enqueue, NextId, PoolTypeOK
    <3>2. Len(queue') = Len(queue) + 1 /\ InQueue' = InQueue \cup {calls + 1}
      BY <1>3, <2>1, <3>1, AppendElems
    <3>3. Held' = Held /\ \A v : Holds(v)' = Holds(v)
      BY <3>1 DEF Held, Holds, InInbox, InOutbox
    <3>4. Len(idle') + Cardinality(pending') = Cardinality(Workers) + Len(queue')
      <4>1. \A a, b, c, d \in Nat : a + b = c + d => a + (b + 1) = c + (d + 1)
        OBVIOUS
      <4>2. Len(idle') = Len(idle) /\ Len(queue') = Len(queue) + 1
        BY <3>1, <3>2
      <4>3. Len(idle) + (Cardinality(pending) + 1) = Cardinality(Workers) + (Len(queue) + 1)
        BY <1>2, <1>7, <4>1
      <4> QED
        BY <2>3, <4>2, <4>3
    <3>5. ~Crashed' => pending' \subseteq InQueue' \cup Held'
      BY <1>2, <2>1, <2>4, <3>2, <3>3
    <3> QED
      BY <1>2, <2>1, <3>3, <3>4, <3>5 DEF TaskInv
  <2>6. CASE idle # <<>>
    <3>1. PICK u \in Workers :
            /\ \A v \in Workers : v # u => Holds(v)' = Holds(v)
            /\ thread[u] # "running" => Holds(u)' = Holds(u)
            /\ thread[u] = "running" => Holds(u)' = Holds(u) \cup {calls + 1}
            /\ Len(idle') = Len(idle) - 1
      BY <1>8, <2>6, DispatchedToIdle
    <3>2. queue' = queue /\ InQueue' = InQueue
      BY <1>3, <1>8, <2>6 DEF Dispatch
    <3>3. Held' \subseteq pending'
      BY <1>2, <1>4, <2>1, <3>1
    <3>4. \A w, v \in Workers : w # v => Holds(w)' \cap Holds(v)' = {}
      <4>1. \A v \in Workers : calls + 1 \notin Holds(v)
        BY <1>4, <2>2
      <4> QED
        BY <1>2, <3>1, <4>1
    <3>5. ~Crashed' => pending' \subseteq InQueue' \cup Held'
      <4> SUFFICES ASSUME ~Crashed' PROVE pending' \subseteq InQueue' \cup Held'
        OBVIOUS
      <4>1. thread[u] = "running" /\ ~Crashed
        BY <1>6, <2>4 DEF Crashed
      <4>2. calls + 1 \in Held' /\ Held \subseteq Held'
        BY <1>4, <3>1, <4>1
      <4> QED
        BY <1>2, <2>1, <3>2, <4>1, <4>2
    <3>6. Len(idle') + Cardinality(pending') = Cardinality(Workers) + Len(queue')
      BY <1>2, <1>7, <2>3, <3>1, <3>2
    <3> QED
      BY <1>2, <2>1, <3>3, <3>4, <3>5, <3>6 DEF TaskInv
  <2> QED
    BY <2>5, <2>6
<1>9. ASSUME NEW w \in Workers, OnMessage(w)
      PROVE  TaskInv'
  <2>1. PICK id : id = Head(outbox[w]).id
    OBVIOUS
  <2>2. workers' = workers /\ thread' = thread /\ outbox[w] # <<>>
    BY <1>9 DEF OnMessage
  <2>3. id \in pending /\ Holds(w) = {id}
    BY <1>1, <2>1, <2>2, Replied
  <2>4. /\ \A v \in Workers : v # w => Holds(v)' = Holds(v)
        /\ pending' = pending \ {id}
        /\ queue # <<>> =>
             /\ queue' = Tail(queue) /\ idle' = idle
             /\ thread[w] = "running" => Holds(w)' = {Head(queue)}
             /\ thread[w] # "running" => Holds(w)' = {}
        /\ queue = <<>> =>
             queue' = <<>> /\ idle' = Append(idle, w) /\ Holds(w)' = {}
    BY <1>1, <1>9, <2>1, RepliedStep
  <2>5. Cardinality(pending') = Cardinality(pending) - 1
    BY <1>1, <2>3, <2>4, PendingSize
  <2>6. Crashed' = Crashed
    BY <2>2 DEF Crashed
  <2>7. \A v \in Workers : v # w => id \notin Holds(v)
    BY <1>2, <2>3
  <2>8. id \in Held
    BY <1>4, <2>3
  <2>9. CASE queue # <<>>
    <3>1. queue \in Seq(Tasks)
      BY <1>1 DEF PoolTypeOK
    <3>2. /\ Len(queue') = Len(queue) - 1
          /\ InQueue = {Head(queue)} \cup InQueue'
      BY <1>3, <2>4, <2>9, <3>1, TailElems
    <3>3. /\ Head(queue) \in pending /\ Head(queue) # id
          /\ \A v \in Workers : Head(queue) \notin Holds(v)
      <4>1. Head(queue) \in InQueue
        BY <3>2
      <4>2. Head(queue) \notin Held
        BY <1>5, <4>1
      <4> QED
        BY <1>4, <1>5, <2>8, <4>1, <4>2
    <3>4. Held' \subseteq pending'
      BY <1>2, <1>4, <2>4, <2>7, <3>3
    <3>5. \A u, v \in Workers : u # v => Holds(u)' \cap Holds(v)' = {}
      BY <1>2, <2>4, <3>3
    <3>6. ~Crashed' => pending' \subseteq InQueue' \cup Held'
      <4> SUFFICES ASSUME ~Crashed' PROVE pending' \subseteq InQueue' \cup Held'
        OBVIOUS
      <4>1. thread[w] = "running" /\ ~Crashed
        BY <1>6, <2>6 DEF Crashed
      <4>2. Head(queue) \in Held' /\ Held \subseteq Held' \cup {id}
        BY <1>4, <2>3, <2>4, <2>9, <4>1
      <4> QED
        BY <1>2, <2>4, <3>2, <4>1, <4>2
    <3>7. Len(idle') + Cardinality(pending') = Cardinality(Workers) + Len(queue')
      BY <1>2, <1>7, <2>4, <2>5, <2>9, <3>2
    <3> QED
      BY <1>2, <2>2, <3>4, <3>5, <3>6, <3>7 DEF TaskInv
  <2>10. CASE queue = <<>>
    <3>1. Len(idle') = Len(idle) + 1 /\ queue' = queue /\ InQueue' = InQueue
      <4>1. idle \in Seq(Workers)
        BY <1>1 DEF PoolTypeOK
      <4> QED
        BY <1>3, <2>4, <2>10, <4>1, AppendElems
    <3>2. Held' \subseteq pending'
      BY <1>2, <1>4, <2>4, <2>7, <2>10
    <3>3. \A u, v \in Workers : u # v => Holds(u)' \cap Holds(v)' = {}
      BY <1>2, <2>4, <2>10
    <3>4. ~Crashed' => pending' \subseteq InQueue' \cup Held'
      <4>1. Held \subseteq Held' \cup {id}
        BY <1>4, <2>3, <2>4, <2>10
      <4> QED
        BY <1>2, <2>4, <2>6, <3>1, <4>1
    <3>5. Len(idle') + Cardinality(pending') = Cardinality(Workers) + Len(queue')
      BY <1>2, <1>7, <2>5, <3>1
    <3> QED
      BY <1>2, <2>2, <3>2, <3>3, <3>4, <3>5 DEF TaskInv
  <2> QED
    BY <2>9, <2>10
<1>10. ASSUME NEW w \in Workers, WorkerRun(w)
       PROVE  TaskInv'
  <2>1. UNCHANGED <<pending, queue, idle, workers, thread>>
    BY <1>10 DEF WorkerRun
  <2>2. \A v \in Workers : Holds(v)' = Holds(v)
    BY <1>1, <1>10, RanStep
  <2>3. Held' = Held /\ InQueue' = InQueue /\ Crashed' = Crashed
    BY <1>3, <1>4, <2>1, <2>2 DEF Crashed
  <2> QED
    BY <1>2, <2>1, <2>2, <2>3 DEF TaskInv
<1>11. ASSUME NEW w \in Workers, WorkerError(w)
       PROVE  TaskInv'
  <2>1. UNCHANGED <<pending, queue, idle, workers>> /\ Crashed'
    BY <1>1, <1>11 DEF WorkerError, PoolTypeOK, Crashed
  <2>2. \A v \in Workers : Holds(v)' \subseteq Holds(v)
    BY <1>1, <1>11, StoppedStep
  <2>3. Held' \subseteq Held
    BY <1>4, <2>2
  <2> QED
    BY <1>2, <2>1, <2>2, <2>3 DEF TaskInv
<1>12. CASE UNCHANGED poolVars
  <2>1. UNCHANGED <<pending, queue, idle, workers, thread, inbox, outbox>>
    BY <1>12 DEF poolVars
  <2>2. /\ Held' = Held /\ InQueue' = InQueue /\ Crashed' = Crashed
        /\ \A v : Holds(v)' = Holds(v)
    BY <2>1 DEF Held, Holds, InInbox, InOutbox, InQueue, Crashed
  <2> QED
    BY <1>2, <2>1, <2>2 DEF TaskInv
<1> QED
  BY <1>8, <1>9, <1>10, <1>11, <1>12, OpenSteps

\* The constructor: every worker is on the idle stack, once, and nothing waits.
LEMMA PlaceInit == PoolInit => PlaceInv
<1> SUFFICES ASSUME PoolInit PROVE PlaceInv
  OBVIOUS
<1>1. /\ queue = <<>> /\ pending = {} /\ workers = Workers /\ calls = 0
      /\ \A w \in Workers :
           inbox[w] = <<>> /\ outbox[w] = <<>> /\ thread[w] = "running"
  BY DEF PoolInit
<1>2. \A w \in Workers : Holds(w) = {} /\ Load(w) = 0
  <2>1. \A w \in Workers : Holds(w) = {}
    BY <1>1, Ports, EmptyElems
  <2>2. \A w \in Workers : Load(w) = 0
    BY <1>1, EmptyElems, 0 + 0 = 0, Zenon DEF Load
  <2> QED
    BY <2>1, <2>2
<1>3. InQueue = {} /\ Held = {}
  BY <1>1, <1>2, Ports, EmptyElems
<1>4. FifoInv
  BY <1>1, <1>3, EmptyElems DEF FifoInv, QueueFifo
<1>5. PICK n \in Nat : n = Cardinality(Workers)
  BY PoolConstants, FS_CardinalityType
<1>6. /\ idle \in [1 .. n -> Workers] /\ Len(idle) = n
      /\ \A w \in Workers : \E i \in 1 .. n : idle[i] = w
  <2>1. idle \in [1 .. n -> Workers] /\ \A w \in Workers : \E i \in DOMAIN idle : idle[i] = w
    BY <1>5 DEF PoolInit
  <2> QED
    BY <2>1, LenProperties
<1>7. \A i, j \in 1 .. n : idle[i] = idle[j] => i = j
  <2>1. idle \in Surjection(1 .. n, Workers)
    BY <1>6 DEF Surjection
  <2>2. IsFiniteSet(1 .. n) /\ Cardinality(1 .. n) = n
    BY FS_Interval
  <2>3. idle \in Injection(1 .. n, Workers)
    BY <1>5, <2>1, <2>2, FS_Surjection
  <2> QED
    BY <2>3 DEF Injection, IsInjective
<1>8. \A w \in Workers : IsIdle(w)
  BY <1>6 DEF IsIdle
<1>9. CrewInv
  <2>1. 0 <= 1
    OBVIOUS
  <2>2. \A w \in Workers : WorkerFits(w)
    <3> SUFFICES ASSUME NEW w \in Workers PROVE WorkerFits(w)
      OBVIOUS
    <3>1. thread[w] # "terminated" /\ Load(w) = 0 /\ IsIdle(w)
      BY <1>1, <1>2, <1>8
    <3> QED
      BY <2>1, <3>1, Zenon DEF WorkerFits
  <2> QED
    BY <1>6, <1>7, <2>2 DEF CrewInv
<1>10. TaskInv
  <2>1. Len(idle) + Cardinality(pending) = Cardinality(Workers) + Len(queue)
    BY <1>1, <1>5, <1>6, FS_EmptySet, EmptyElems
  <2> QED
    BY <1>1, <1>2, <1>3, <2>1 DEF TaskInv
<1> QED
  BY <1>4, <1>9, <1>10 DEF PlaceInv

\* The placement invariant holds in every reachable state.
THEOREM PoolPlacement == PoolSpec => []PlaceInv
<1>1. PoolInv /\ PoolInv' /\ PlaceInv /\ [PoolNext]_poolVars => PlaceInv'
  BY FifoStep, CrewStep, TaskStep DEF PlaceInv
<1> QED
  BY <1>1, PlaceInit, PoolInvariant, PTL DEF PoolSpec

\* The queue is served in the order of the calls: a task waits only while it is
\* pending, behind every earlier call, and no worker has a task that came later.
THEOREM PoolQueueFifo == PoolSpec => []QueueFifo
<1>1. PlaceInv => QueueFifo
  BY DEF PlaceInv, FifoInv
<1> QED
  BY <1>1, PoolPlacement, PTL

\* How often a worker is on the idle stack.
LEMMA IdleCount ==
  ASSUME NEW w, \A i, j \in 1 .. Len(idle) : idle[i] = idle[j] => i = j
  PROVE  /\ IsIdle(w) => Cardinality({i \in 1 .. Len(idle) : idle[i] = w}) = 1
         /\ ~IsIdle(w) => Cardinality({i \in 1 .. Len(idle) : idle[i] = w}) = 0
<1>1. ASSUME IsIdle(w)
      PROVE  Cardinality({i \in 1 .. Len(idle) : idle[i] = w}) = 1
  <2>1. PICK n \in 1 .. Len(idle) : idle[n] = w
    BY <1>1 DEF IsIdle
  <2>2. {i \in 1 .. Len(idle) : idle[i] = w} = {n}
    BY <2>1
  <2> QED
    BY <2>2, FS_Singleton
<1>2. ASSUME ~IsIdle(w)
      PROVE  Cardinality({i \in 1 .. Len(idle) : idle[i] = w}) = 0
  <2>1. {i \in 1 .. Len(idle) : idle[i] = w} = {}
    BY <1>2 DEF IsIdle
  <2> QED
    BY <2>1, FS_EmptySet
<1> QED
  BY <1>1, <1>2

\* Whatever the order of calls, replies and crashes, an open pool never gives a
\* worker a second task or leaves one on the idle stack while it works, and while
\* its threads live every pending task is in the queue or with a worker.
THEOREM PoolWorkPlaced == PoolSpec => []WorkPlaced
<1>1. PoolInv /\ PlaceInv => WorkPlaced
  <2> SUFFICES ASSUME PoolInv, PlaceInv PROVE WorkPlaced
    OBVIOUS
  <2>1. OneTaskPerWorker
    <3> SUFFICES ASSUME phase = "open", NEW w \in Workers
                 PROVE  LET load == Len(inbox[w]) + Len(outbox[w])
                                + Cardinality({i \in 1 .. Len(idle) : idle[i] = w})
                        IN  load <= 1 /\ (thread[w] # "crashed" => load = 1)
      BY DEF OneTaskPerWorker
    <3> DEFINE count == Cardinality({i \in 1 .. Len(idle) : idle[i] = w})
    <3>1. CrewInv
      BY DEF PlaceInv
    <3>2. (IsIdle(w) => count = 1) /\ (~IsIdle(w) => count = 0)
      BY <3>1, IdleCount DEF CrewInv
    <3>3. WorkerFits(w)
      BY <3>1 DEF CrewInv
    <3>4. Load(w) \in Nat
      <4>1. Len(inbox[w]) \in Nat /\ Len(outbox[w]) \in Nat
        BY PortsTyped DEF PoolInv
      <4>2. \A a, b \in Nat : a + b \in Nat
        OBVIOUS
      <4> QED
        BY <4>1, <4>2, Zenon DEF Load
    <3> HIDE DEF count
    <3>5. \A a \in Nat : /\ a = 0 => a + 1 = 1 /\ a + 1 <= 1
                         /\ a <= 1 => a + 0 <= 1
                         /\ a = 1 => a + 0 = 1
      OBVIOUS
    <3>6. Load(w) + count <= 1 /\ (thread[w] # "crashed" => Load(w) + count = 1)
      BY <3>2, <3>3, <3>4, <3>5, Zenon DEF WorkerFits
    <3> QED
      BY <3>6 DEF Load, count
  <2>2. NothingLost
    <3> SUFFICES ASSUME phase = "open", ~Crashed
                 PROVE  /\ pending = InQueue \cup Held
                        /\ stats.idle + (stats.inflight - stats.queued) = stats.workers
      BY DEF NothingLost
    <3>1. TaskInv /\ InQueue \subseteq pending
      BY DEF PlaceInv, FifoInv, QueueFifo
    <3>2. pending = InQueue \cup Held
      BY <3>1 DEF TaskInv
    <3>3. /\ Cardinality(pending) \in Nat /\ Cardinality(Workers) \in Nat
          /\ Len(idle) \in Nat /\ Len(queue) \in Nat
      BY PendingSize, PoolConstants, FS_CardinalityType, LenProperties
      DEF PoolInv, PoolTypeOK
    <3>4. /\ workers = Workers
          /\ Len(idle) + Cardinality(pending) = Cardinality(Workers) + Len(queue)
      BY <3>1 DEF TaskInv
    <3>5. Len(idle) + (Cardinality(pending) - Len(queue)) = Cardinality(workers)
      BY <3>3, <3>4
    <3> QED
      BY <3>2, <3>5 DEF stats
  <2> QED
    BY <2>1, <2>2 DEF WorkPlaced
<1> QED
  BY <1>1, PoolInvariant, PoolPlacement, PTL

=============================================================================
