------------------------------- MODULE Fleet -------------------------------
(***************************************************************************)
(* Sessions on one CryptoPool: the RSA operations that runHandshake awaits *)
(* are tasks of the pool.  Session leaves open when and how those promises *)
(* settle; here they settle as the pool makes them, while connections end, *)
(* worker threads die and the host closes the pool.                        *)
(***************************************************************************)
EXTENDS Session, Sequences

CONSTANTS Workers, MaxTasks, MaxCrashes  \* of CryptoPool

ASSUME FleetConstants == MaxTasks \in Nat /\ MaxCrashes \in Nat

VARIABLES
  calls, promise, poolPending, poolQueue, idle, workers, phase, thread, inbox, outbox,
  task  \* the pool task whose promise run() awaits, or awaited last

Pool == INSTANCE CryptoPool WITH pending <- poolPending, queue <- poolQueue

poolVars == <<calls, promise, poolPending, poolQueue, idle, workers, phase, thread,
              inbox, outbox>>
fleetVars == <<sessionVars, poolVars, task>>

RsaPoints == {"decrypt", "encrypt", "sign"}

FleetInit ==
  /\ SessionInit
  /\ Pool!PoolInit
  /\ task = [s \in Sessions |-> 0]

\* crypto.decrypt, crypto.encrypt, crypto.sign: _dispatch, refused once the pool
\* is closed.
CallPool(s) ==
  /\ Pool!Dispatch \/ Pool!DispatchRefused
  /\ task' = [task EXCEPT ![s] = calls + 1]

\* run() is resumed; if it comes to an RSA operation it calls the pool.
RunStep(s) ==
  /\ Resume(s)
  /\ IF pc'[s] # pc[s] /\ pc'[s] \in RsaPoints THEN CallPool(s)
     ELSE UNCHANGED <<poolVars, task>>

\* Plausible bug: a call that fails is not reported to the handshake.
DeliverResolved(s) == promise[task[s]] = "resolved" /\ Answer(s, "ok")

\* The promise that run() awaits has settled.
Deliver(s) ==
  \/ promise[task[s]] = "resolved" /\ Answer(s, "ok")
  \/ promise[task[s]] \in {"rejected", "refused"} /\ Answer(s, "err")

\* The events of a connection, and the answer of the key loader.
Event(s) ==
  \/ Accept(s) \/ IdleTimeout(s) \/ SocketError(s) \/ SocketClose(s) \/ HostDisconnect(s)
  \/ \E n \in 1..MaxReads : Data(s, n)
  \/ pc[s] = "loadKey" /\ \E result \in {"ok", "missing", "err"} : Answer(s, result)
  \/ pc[s] \in RsaPoints /\ Deliver(s)

\* The pool's own steps: callbacks on the main thread, and the worker threads.
MainStep(w) == Quiet /\ Pool!OnMessage(w)
ThreadStep(w) == Pool!WorkerRun(w) \/ Pool!Terminate(w) \/ Pool!WorkerError(w)
ClosePool == Quiet /\ Pool!Close
CloseFinish == Quiet /\ Pool!CloseFinish

FleetNext ==
  \/ \E s \in Sessions : RunStep(s) \/ (Event(s) /\ UNCHANGED <<poolVars, task>>)
  \/ /\ ClosePool \/ CloseFinish \/ \E w \in Workers : MainStep(w) \/ ThreadStep(w)
     /\ UNCHANGED <<sessionVars, task>>

\* The event loop runs what is ready, armed timers fire, the key loader answers,
\* worker threads are scheduled.  Nothing is assumed of RSA answers, of the
\* peers or of the host.
FleetFairness ==
  /\ \A s \in Sessions :
       /\ WF_fleetVars(RunStep(s))
       /\ WF_fleetVars(IdleTimeout(s) /\ UNCHANGED <<poolVars, task>>)
       /\ WF_fleetVars(/\ pc[s] = "loadKey"
                       /\ \E result \in {"ok", "missing", "err"} : Answer(s, result)
                       /\ UNCHANGED <<poolVars, task>>)
       /\ WF_fleetVars(pc[s] \in RsaPoints /\ Deliver(s) /\ UNCHANGED <<poolVars, task>>)
  /\ \A w \in Workers :
       /\ WF_fleetVars(MainStep(w) /\ UNCHANGED <<sessionVars, task>>)
       /\ WF_fleetVars(Pool!WorkerRun(w) /\ UNCHANGED <<sessionVars, task>>)
       /\ WF_fleetVars(Pool!Terminate(w) /\ UNCHANGED <<sessionVars, task>>)
  /\ WF_fleetVars(CloseFinish /\ UNCHANGED <<sessionVars, task>>)

FleetSpec == FleetInit /\ [][FleetNext]_fleetVars /\ FleetFairness

-----------------------------------------------------------------------------
AwaitsPool(s) == pc[s] \in RsaPoints /\ answer[s] = None

\* The pool works for coroutines only: each pending task is awaited by one run(),
\* and each run() has one at most, so that the pool's load is bounded by the
\* handshakes under way, those of connections that are gone included.
LoadIsAwaited ==
  /\ \A k \in poolPending : \E s \in Sessions : AwaitsPool(s) /\ task[s] = k
  /\ \A s, t \in Sessions : AwaitsPool(s) /\ AwaitsPool(t) /\ s # t => task[s] # task[t]

\* What Session assumes of the pool: whatever run() awaits is answered, also if
\* the pool is closed meanwhile, unless a worker thread has died.
PoolAnswers ==
  \A s \in Sessions :
    pc[s] \in RsaPoints ~> pc[s] \notin RsaPoints \/ \E w \in Workers : thread[w] = "crashed"

\* A coroutine whose operation was lost with a worker thread stays behind after
\* its connection has ended; closing the pool frees it.
LostTasksFreed ==
  \A s \in Sessions : phase # "open" /\ pc[s] \in RsaPoints ~> pc[s] \notin RsaPoints
=============================================================================
