----------------------------- MODULE CryptoPool -----------------------------
(***************************************************************************)
(* The pool of worker threads that runs the RSA operations of handshakes   *)
(* (lib/crypto-pool.js), and the message loop of a worker                  *)
(* (lib/crypto-worker.js).  The main thread and every worker run           *)
(* concurrently and talk through two message ports per worker; each action *)
(* of the main thread is one event callback or one call of the host.       *)
(*                                                                         *)
(* A task is the k-th call of _dispatch.  While the pool is open that is   *)
(* also its id: _nextId starts at 1 and advances once per call.            *)
(***************************************************************************)
EXTENDS Naturals, Sequences, FiniteSets

CONSTANTS
  Workers,     \* the worker threads
  MaxTasks,    \* bound: calls of _dispatch
  MaxCrashes   \* bound: worker threads that die of an error of their own

ASSUME PoolConstants ==
  /\ IsFiniteSet(Workers)
  /\ MaxTasks \in Nat
  /\ MaxCrashes \in Nat

Tasks == 1 .. MaxTasks

VARIABLES
  calls,    \* calls of _dispatch so far
  promise,  \* what has become of the promise each returned
  pending,  \* _pending
  queue,    \* _queue
  idle,     \* _idle, used as a stack
  workers,  \* _workers
  phase,    \* "open", "closing" while close() awaits, "closed" after it
  thread,   \* the operating system thread of each worker
  inbox,    \* messages posted to each worker
  outbox    \* replies each worker has posted, not yet delivered

poolVars == <<calls, promise, pending, queue, idle, workers, phase, thread, inbox, outbox>>

Reply == [id : Tasks, ok : BOOLEAN]

\* The variables have the types the constructor gives them.
PoolTypeOK ==
  /\ calls \in 0 .. MaxTasks
  /\ promise \in [Tasks -> {"none", "unsettled", "resolved", "rejected", "refused"}]
  /\ pending \in SUBSET Tasks
  /\ queue \in Seq(Tasks)
  /\ idle \in Seq(Workers)
  /\ workers \in SUBSET Workers
  /\ phase \in {"open", "closing", "closed"}
  /\ thread \in [Workers -> {"running", "crashed", "terminated"}]
  /\ inbox \in [Workers -> Seq(Tasks)]
  /\ outbox \in [Workers -> Seq(Reply)]

\* The constructor: _spawn pushes every worker on _workers and on _idle.
PoolInit ==
  /\ calls = 0
  /\ promise = [k \in Tasks |-> "none"]
  /\ pending = {}
  /\ queue = <<>>
  /\ idle \in {p \in [1 .. Cardinality(Workers) -> Workers] :
                 \A w \in Workers : \E i \in DOMAIN p : p[i] = w}
  /\ workers = Workers
  /\ phase = "open"
  /\ thread = [w \in Workers |-> "running"]
  /\ inbox = [w \in Workers |-> <<>>]
  /\ outbox = [w \in Workers |-> <<>>]

-----------------------------------------------------------------------------
(* The main thread.                                                         *)

\* worker.postMessage: a message to a dead thread is dropped without notice.
PostMessage(w, k) ==
  inbox' = [inbox EXCEPT ![w] = IF thread[w] = "running" THEN Append(@, k) ELSE @]

\* Plausible bug: ids start at 0.
NextIdFromZero == calls

\* _nextId.
NextId == calls + 1

\* Plausible bug: the idle worker is used but not taken off _idle.
PeekIdle == UNCHANGED idle

\* _idle.pop().
PopIdle == idle' = SubSeq(idle, 1, Len(idle) - 1)

\* Plausible bug: a task is queued at the front, as with unshift().
EnqueueFront(k) == queue' = <<k>> \o queue

\* _queue.push().
Enqueue(k) == queue' = Append(queue, k)

\* _dispatch: the task goes to the worker that became idle last, or waits.  What
\* encrypt(), sign() and verify() make of its result is not looked at.
Dispatch ==
  /\ phase = "open"
  /\ calls < MaxTasks
  /\ calls' = calls + 1
  /\ promise' = [promise EXCEPT ![NextId] = "unsettled"]
  /\ pending' = pending \cup {NextId}
  /\ \/ /\ idle # <<>>
        /\ PopIdle
        /\ PostMessage(idle[Len(idle)], NextId)
        /\ UNCHANGED queue
     \/ /\ idle = <<>>
        /\ Enqueue(NextId)
        /\ UNCHANGED <<idle, inbox>>
  /\ UNCHANGED <<workers, phase, thread, outbox>>

\* _dispatch once close() has been called: 'CryptoPool is closed'.
DispatchRefused ==
  /\ phase # "open"
  /\ calls < MaxTasks
  /\ calls' = calls + 1
  /\ promise' = [promise EXCEPT ![calls + 1] = "refused"]
  /\ UNCHANGED <<pending, queue, idle, workers, phase, thread, inbox, outbox>>

\* Plausible bug: the worker goes back to _idle without looking at the queue.
ReleaseToIdle(w) ==
  /\ idle' = Append(idle, w)
  /\ UNCHANGED <<queue, inbox>>

\* _release: the worker gets the oldest queued task or goes back to _idle.
Release(w) ==
  \/ /\ queue # <<>>
     /\ queue' = Tail(queue)
     /\ PostMessage(w, Head(queue))
     /\ UNCHANGED idle
  \/ /\ queue = <<>>
     /\ idle' = Append(idle, w)
     /\ UNCHANGED <<queue, inbox>>

\* Plausible bug: the entry of a settled promise stays in _pending.
KeepPending(k) == UNCHANGED pending

\* _pending.delete().
DeletePending(k) == pending' = pending \ {k}

\* _onMessage: a reply for a task in _pending settles its promise and releases
\* the worker; any other reply is ignored.
OnMessage(w) ==
  /\ outbox[w] # <<>>
  /\ outbox' = [outbox EXCEPT ![w] = Tail(@)]
  /\ LET r == Head(outbox[w])
     IN  \/ /\ r.id \in pending
            /\ DeletePending(r.id)
            /\ promise' = [promise EXCEPT ![r.id] = IF r.ok THEN "resolved" ELSE "rejected"]
            /\ Release(w)
         \/ /\ r.id \notin pending
            /\ UNCHANGED <<pending, promise, queue, idle, inbox>>
  /\ UNCHANGED <<calls, workers, phase, thread>>

\* close() up to its await: forget workers and queue, ask every thread to stop.
Close ==
  /\ phase = "open"
  /\ phase' = "closing"
  /\ workers' = {}
  /\ idle' = <<>>
  /\ queue' = <<>>
  /\ UNCHANGED <<calls, promise, pending, thread, inbox, outbox>>

\* Plausible bug: close() clears _pending without rejecting what is in it.
RejectNone == UNCHANGED promise

\* The promises left in _pending are rejected.
RejectPending ==
  promise' = [k \in Tasks |-> IF k \in pending THEN "rejected" ELSE promise[k]]

\* close() after its await: every thread has stopped.
CloseFinish ==
  /\ phase = "closing"
  /\ \A w \in Workers : thread[w] # "running"
  /\ phase' = "closed"
  /\ RejectPending
  /\ pending' = {}
  /\ UNCHANGED <<calls, queue, idle, workers, thread, inbox, outbox>>

-----------------------------------------------------------------------------
(* The worker threads.                                                      *)

\* The message handler of crypto-worker.js: one reply for each message, with a
\* result or with the error the operation threw.
WorkerRun(w) ==
  /\ thread[w] = "running"
  /\ inbox[w] # <<>>
  /\ inbox' = [inbox EXCEPT ![w] = Tail(@)]
  /\ \E ok \in BOOLEAN :
       outbox' = [outbox EXCEPT ![w] = Append(@, [id |-> Head(inbox[w]), ok |-> ok])]
  /\ UNCHANGED <<calls, promise, pending, queue, idle, workers, phase, thread>>

\* terminate() takes effect.  Replies posted before that may still be delivered.
Terminate(w) ==
  /\ phase = "closing"
  /\ thread[w] = "running"
  /\ thread' = [thread EXCEPT ![w] = "terminated"]
  /\ inbox' = [inbox EXCEPT ![w] = <<>>]
  /\ UNCHANGED <<calls, promise, pending, queue, idle, workers, phase, outbox>>

\* The thread dies of an error (out of memory): the pool re-emits `error' and
\* does nothing else.  The host listens to the pool's `error'; for one that does
\* not, the emit throws and the process, whose state this is, is gone.
WorkerError(w) ==
  /\ thread[w] = "running"
  /\ Cardinality({v \in Workers : thread[v] = "crashed"}) < MaxCrashes
  /\ thread' = [thread EXCEPT ![w] = "crashed"]
  /\ inbox' = [inbox EXCEPT ![w] = <<>>]
  /\ UNCHANGED <<calls, promise, pending, queue, idle, workers, phase, outbox>>

-----------------------------------------------------------------------------
PoolNext ==
  \/ Dispatch
  \/ DispatchRefused
  \/ Close
  \/ CloseFinish
  \/ \E w \in Workers :
       OnMessage(w) \/ WorkerRun(w) \/ Terminate(w) \/ WorkerError(w)

PoolSpec == PoolInit /\ [][PoolNext]_poolVars

\* Threads are scheduled, messages are delivered, terminate() takes effect and
\* the continuation of close() runs.
PoolFairness ==
  /\ \A w \in Workers : /\ WF_poolVars(OnMessage(w))
                        /\ WF_poolVars(WorkerRun(w))
                        /\ WF_poolVars(Terminate(w))
  /\ WF_poolVars(CloseFinish)

FairPoolSpec == PoolSpec /\ PoolFairness

-----------------------------------------------------------------------------
InQueue == {queue[i] : i \in 1 .. Len(queue)}
InInbox(w) == {inbox[w][i] : i \in 1 .. Len(inbox[w])}
InOutbox(w) == {outbox[w][i].id : i \in 1 .. Len(outbox[w])}
Held == UNION {InInbox(w) \cup InOutbox(w) : w \in Workers}
Settled == {"resolved", "rejected", "refused"}
Crashed == \E w \in Workers : thread[w] = "crashed"

stats == [workers  |-> Cardinality(workers), idle     |-> Len(idle),
          queued   |-> Len(queue),           inflight |-> Cardinality(pending)]

\* _pending holds exactly the tasks whose promise is unsettled: no reply, crash
\* or close loses a promise or settles one twice.
PendingExact == pending = {k \in Tasks : promise[k] = "unsettled"}

\* No task waits while a worker is idle.
WorkConserving == queue # <<>> => idle = <<>>

\* A task waits in the queue only while it is pending and no worker has it, and
\* the queue is in the order of the calls, behind every task already started.
QueueFifo ==
  /\ InQueue \subseteq pending
  /\ \A i, j \in 1 .. Len(queue) : i < j => queue[i] < queue[j]
  /\ \A k \in InQueue, l \in Held : l < k

\* A worker of an open pool has at most one task, and is idle exactly when it
\* has none: LIFO reuse and queueing never hand a worker a second task.  A
\* worker whose thread died may have lost its task, and then is in neither place.
OneTaskPerWorker ==
  phase = "open" => \A w \in Workers :
    LET load == Len(inbox[w]) + Len(outbox[w])
                + Cardinality({i \in 1 .. Len(idle) : idle[i] = w})
    IN  load <= 1 /\ (thread[w] # "crashed" => load = 1)

\* In an open pool whose threads are alive, every pending task is in one place
\* where it will be worked on, and the occupancy figures add up.
NothingLost ==
  phase = "open" /\ ~Crashed =>
    /\ pending = InQueue \cup Held
    /\ stats.idle + (stats.inflight - stats.queued) = stats.workers

\* Every task is where it will be worked on, and nowhere twice.
WorkPlaced == OneTaskPerWorker /\ NothingLost

\* When close() resolves, every promise the pool ever returned has settled.
ClosedSettlesAll ==
  phase = "closed" => \A k \in 1 .. calls : promise[k] \in Settled

\* A settled promise stays as it is.
SettleOnce ==
  [][\A k \in Tasks : promise[k] \in Settled => promise'[k] = promise[k]]_poolVars

\* Every task settles, as long as no worker thread dies.
TaskSettles ==
  \A k \in Tasks : promise[k] = "unsettled" ~> promise[k] \in Settled \/ Crashed

-----------------------------------------------------------------------------
Service == INSTANCE TaskService

\* The pool implements TaskService: workers, ports and crashes are invisible to
\* callers but for the time a promise takes.
ImplementsTaskService == Service!ServiceSpec
=============================================================================
