---------------------------- MODULE FleetProofs ----------------------------
(***************************************************************************)
(* Proofs about Fleet, for any number of connections, worker threads,      *)
(* calls and crashes: a fleet is a Session system on a CryptoPool, and all *)
(* that the pool works on is awaited.                                      *)
(***************************************************************************)
EXTENDS Fleet, SessionProofs

-----------------------------------------------------------------------------
(* The parts.                                                               *)

\* A step of the fleet is a step of the sessions, of the pool, or of both.
LEMMA FleetSteps ==
  ASSUME [FleetNext]_fleetVars
  PROVE  [SessionNext]_sessionVars /\ [Pool!PoolNext]_(Pool!poolVars)
<1>1. ASSUME NEW s \in Sessions, RunStep(s)
      PROVE  SessionNext /\ (Pool!PoolNext \/ UNCHANGED poolVars)
  BY <1>1 DEF RunStep, SessionNext, CallPool, Pool!PoolNext
<1>2. ASSUME NEW s \in Sessions, Event(s), UNCHANGED <<poolVars, task>>
      PROVE  SessionNext /\ UNCHANGED poolVars
  <2>1. Accept(s) \/ Callback(s)
    BY <1>2 DEF Event, Deliver, Callback
  <2> QED
    BY <1>2, <2>1 DEF SessionNext
<1>3. ASSUME ClosePool \/ CloseFinish \/ \E w \in Workers : MainStep(w) \/ ThreadStep(w)
      PROVE  Pool!PoolNext
  BY <1>3 DEF ClosePool, CloseFinish, MainStep, ThreadStep, Pool!PoolNext
<1>4. CASE UNCHANGED fleetVars
  BY <1>4 DEF fleetVars, poolVars, Pool!poolVars
<1>5. UNCHANGED poolVars => UNCHANGED Pool!poolVars
  BY DEF poolVars, Pool!poolVars
<1> QED
  BY <1>1, <1>2, <1>3, <1>4, <1>5 DEF FleetNext

\* Composition restricts its parts and adds nothing to them: what is proved of
\* Session and of CryptoPool holds of sessions that share a pool.
THEOREM FleetComposes == FleetSpec => SessionSpec /\ Pool!PoolSpec
<1>1. FleetInit => SessionInit /\ Pool!PoolInit
  BY DEF FleetInit
<1> QED
  BY <1>1, FleetSteps, PTL DEF FleetSpec, SessionSpec, Pool!PoolSpec

-----------------------------------------------------------------------------
(* What the pool works on.                                                  *)

\* What is pending in the pool has been called for and is not settled.
PendingInv ==
  /\ calls \in Nat
  /\ promise \in [Pool!Tasks -> {"none", "unsettled", "resolved", "rejected", "refused"}]
  /\ poolPending \subseteq {k \in 1 .. calls : k <= MaxTasks /\ promise[k] = "unsettled"}

\* A coroutine awaits no call that has not been made, and starts with its
\* connection.
TaskInv ==
  /\ task \in [Sessions -> Nat]
  /\ \A s \in Sessions : task[s] <= calls
  /\ \A s \in Sessions : state[s] = "unborn" => pc[s] = "unborn"

AwaitInv == TypeInv /\ PendingInv /\ TaskInv /\ LoadIsAwaited

\* The pool's steps: entries of _pending appear with a call and go when their
\* promise settles.
LEMMA PendingStep == PendingInv /\ [Pool!PoolNext]_(Pool!poolVars) => PendingInv'
<1> SUFFICES ASSUME PendingInv, [Pool!PoolNext]_(Pool!poolVars) PROVE PendingInv'
  OBVIOUS
<1> USE FleetConstants DEF PendingInv, Pool!Tasks
<1>1. CASE Pool!Dispatch
  BY <1>1 DEF Pool!Dispatch, Pool!NextId
<1>2. CASE Pool!DispatchRefused
  BY <1>2 DEF Pool!DispatchRefused
<1>3. CASE Pool!Close
  BY <1>3 DEF Pool!Close
<1>4. CASE Pool!CloseFinish
  BY <1>4 DEF Pool!CloseFinish, Pool!RejectPending
<1>5. ASSUME NEW w \in Workers, Pool!OnMessage(w)
      PROVE  PendingInv'
  <2> DEFINE id == Head(outbox[w]).id
             end == IF Head(outbox[w]).ok THEN "resolved" ELSE "rejected"
  <2>1. CASE id \in poolPending
    <3>1. /\ calls' = calls /\ poolPending' = poolPending \ {id}
          /\ promise' = [promise EXCEPT ![id] = end]
      BY <1>5, <2>1 DEF Pool!OnMessage, Pool!DeletePending
    <3>2. end \in {"resolved", "rejected"}
      OBVIOUS
    <3> HIDE DEF id, end
    <3>3. promise' \in [Pool!Tasks -> {"none", "unsettled", "resolved", "rejected", "refused"}]
      BY <3>1, <3>2
    <3>4. \A k \in poolPending' : promise'[k] = promise[k]
      BY <3>1
    <3> QED
      BY <3>1, <3>3, <3>4
  <2>2. CASE id \notin poolPending
    BY <1>5, <2>2 DEF Pool!OnMessage
  <2> QED
    BY <2>1, <2>2
<1>6. ASSUME NEW w \in Workers, Pool!WorkerRun(w) \/ Pool!Terminate(w) \/ Pool!WorkerError(w)
      PROVE  PendingInv'
  BY <1>6 DEF Pool!WorkerRun, Pool!Terminate, Pool!WorkerError
<1>7. CASE UNCHANGED Pool!poolVars
  BY <1>7 DEF Pool!poolVars
<1> QED
  BY <1>1, <1>2, <1>3, <1>4, <1>5, <1>6, <1>7 DEF Pool!PoolNext

\* Ending a session does not undo its beginning.
LEMMA EndedIsBorn ==
  ASSUME NEW s \in Sessions, NEW why, NEW x \in Sessions, state'[x] = "unborn"
  PROVE  /\ Disconnect({s}, why) => state[x] = "unborn"
         /\ DisconnectOnce(s, why) => state[x] = "unborn"
         /\ FinalizeOnce(s, why) => state[x] = "unborn"
BY DEF Disconnect, DisconnectOnce, FinalizeOnce, Finalize, endVars

\* Where run() can be once it has been resumed.
LEMMA ResumePoints ==
  ASSUME NEW s \in Sessions, Resume(s)
  PROVE  \/ \E p : /\ pc' = [pc EXCEPT ![s] = p] /\ p \notin RsaPoints
                   /\ answer' \in {answer, [answer EXCEPT ![s] = None]}
         \/ /\ ReadBlob(s) \/ KeyExchange(s)
            /\ answer' = [answer EXCEPT ![s] = None]
<1>1. CASE ReadBlob(s) \/ KeyExchange(s)
  BY <1>1 DEF ReadBlob, KeyExchange, Await
<1>2. ASSUME NEW err, HandshakeFails(s, err)
      PROVE  pc' = [pc EXCEPT ![s] = "done"] /\ answer' = [answer EXCEPT ![s] = None]
  BY <1>2 DEF HandshakeFails, Catch
<1>3. ASSUME NEW d, Decrypted(s, d)
      PROVE  pc' = [pc EXCEPT ![s] = "loadKey"] /\ answer' = [answer EXCEPT ![s] = None]
  BY <1>3 DEF Decrypted, Await
<1>4. CASE \/ ReadHello(s) \/ ReadRejected(s) \/ FrameThrows(s)
           \/ \E why \in Causes : ReadHelloAndEnd(s, why)
  BY <1>4 DEF ReadHello, ReadRejected, FrameThrows, ReadHelloAndEnd, FrameRead, HelloRead,
              Catch, readVars, RsaPoints
<1>5. CASE \/ FrameAbsorbed(s)
           \/ \E why \in Causes : FrameEnds(s, why)
           \/ \E c \in Calls : FrameAnswers(s, c)
           \/ \E t \in Tokens : FrameCollides(s, t)
  <2>1. LoopTest(s) /\ answer' = answer
    BY <1>5 DEF FrameAbsorbed, FrameEnds, FrameAnswers, FrameCollides, FrameRead
  <2>2. \E p \in {"frame", "done"} : pc' = [pc EXCEPT ![s] = p]
    BY <2>1 DEF LoopTest
  <2> QED
    BY <2>1, <2>2 DEF RsaPoints
<1> QED
  BY <1>1, <1>2, <1>3, <1>4, <1>5 DEF Resume, RsaPoints

\* run() is resumed only when what it awaits is settled, and comes to an RSA
\* operation with a fresh promise.
LEMMA ResumedFromPool ==
  ASSUME TypeInv, NEW s \in Sessions, Resume(s)
  PROVE  /\ ~AwaitsPool(s) /\ pc[s] # "unborn"
         /\ \A x \in Sessions \ {s} : pc'[x] = pc[x] /\ answer'[x] = answer[x]
         /\ pc'[s] \in RsaPoints => pc'[s] # pc[s]
         /\ \A x \in Sessions : state'[x] = "unborn" => state[x] = "unborn"
<1>1. /\ pc \in [Sessions -> ReadPoints \cup OffloadPoints \cup {"unborn", "done"}]
      /\ answer \in [Sessions -> {None, "ok", "missing", "err"}]
      /\ state \in [Sessions -> {"unborn", "handshaking", "connected", "closed"}]
  BY DEF TypeInv, RunTypeOK, ReadTypeOK, EndTypeOK
<1>2. \/ pc[s] \in ReadPoints
      \/ pc[s] \in OffloadPoints /\ answer[s] # None
  <2>1. ASSUME NEW err \in Errors, HandshakeFails(s, err)
        PROVE  \/ pc[s] \in ReadPoints
               \/ pc[s] \in OffloadPoints /\ answer[s] # None
    BY <2>1, SessionConstants DEF HandshakeFails, Failures, ReadPoints, OffloadPoints
  <2> QED
    BY <2>1, SessionConstants DEF Resume, ReadBlob, KeyExchange, ReadHello, ReadRejected,
       FrameAbsorbed, FrameThrows, Decrypted, ReadHelloAndEnd, FrameEnds, FrameAnswers,
       FrameCollides, FrameRead, HelloRead, ReadPoints, OffloadPoints
<1>3. \/ \E p : /\ pc' = [pc EXCEPT ![s] = p] /\ p \notin RsaPoints
                /\ answer' \in {answer, [answer EXCEPT ![s] = None]}
      \/ /\ ReadBlob(s) \/ KeyExchange(s)
         /\ answer' = [answer EXCEPT ![s] = None]
  BY ResumePoints
<1>4. /\ \A x \in Sessions \ {s} : pc'[x] = pc[x] /\ answer'[x] = answer[x]
      /\ pc'[s] \in RsaPoints => pc'[s] # pc[s]
  BY <1>1, <1>3 DEF ReadBlob, KeyExchange, Await, RsaPoints
<1>5. ASSUME NEW x \in Sessions, state'[x] = "unborn"
      PROVE  state[x] = "unborn"
  <2>1. \/ state' = state \/ state' = [state EXCEPT ![s] = "connected"]
        \/ \E why : Disconnect({s}, why) \/ DisconnectOnce(s, why)
    BY DEF Resume, ReadBlob, KeyExchange, ReadHello, ReadRejected, FrameAbsorbed,
           FrameThrows, Decrypted, ReadHelloAndEnd, FrameEnds, FrameAnswers, FrameCollides,
           HandshakeFails, Catch, endVars
  <2> QED
    BY <1>1, <1>5, <2>1, EndedIsBorn
<1>6. ~AwaitsPool(s) /\ pc[s] # "unborn"
  BY <1>2 DEF AwaitsPool, RsaPoints, ReadPoints, OffloadPoints
<1> QED
  BY <1>4, <1>5, <1>6

\* What run() awaits at an RSA operation is not settled yet.
LEMMA FreshPromise ==
  ASSUME TypeInv, NEW s \in Sessions, Resume(s), pc'[s] \in RsaPoints
  PROVE  answer'[s] = None
<1>1. ReadBlob(s) \/ KeyExchange(s)
  <2>1. pc \in [Sessions -> ReadPoints \cup OffloadPoints \cup {"unborn", "done"}]
    BY DEF TypeInv, RunTypeOK
  <2> QED
    BY <2>1, ResumePoints DEF RsaPoints
<1> QED
  BY <1>1 DEF ReadBlob, KeyExchange, Await, TypeInv, ReadTypeOK

\* The events of a connection leave a coroutine that awaits the pool alone, but
\* for the one that settles its promise.
LEMMA EventForPool ==
  ASSUME TypeInv, TaskInv, NEW s \in Sessions, Event(s)
  PROVE  /\ \A x \in Sessions : AwaitsPool(x)' => AwaitsPool(x)
         /\ \A x \in Sessions :
              \/ AwaitsPool(x) => AwaitsPool(x)'
              \/ promise[task[x]] \in {"resolved", "rejected", "refused"}
         /\ \A x \in Sessions : state'[x] = "unborn" => state[x] = "unborn"
         /\ \A x \in Sessions : state'[x] = "unborn" => pc'[x] = "unborn"
<1>1. /\ pc \in [Sessions -> ReadPoints \cup OffloadPoints \cup {"unborn", "done"}]
      /\ answer \in [Sessions -> {None, "ok", "missing", "err"}]
      /\ state \in [Sessions -> {"unborn", "handshaking", "connected", "closed"}]
  BY DEF TypeInv, RunTypeOK, ReadTypeOK, EndTypeOK
<1>2. \A x \in Sessions : state[x] = "unborn" => pc[x] = "unborn"
  BY DEF TaskInv
<1>3. CASE Accept(s)
  <2>1. /\ state[s] = "unborn" /\ state' = [state EXCEPT ![s] = "handshaking"]
        /\ pc' = [pc EXCEPT ![s] = "blob"] /\ answer' = answer
    BY <1>3 DEF Accept, readVars
  <2>2. pc[s] = "unborn"
    BY <1>2, <2>1
  <2> QED
    BY <1>1, <1>2, <2>1, <2>2 DEF AwaitsPool, RsaPoints
<1>4. CASE \/ \E n \in 1 .. MaxReads : Data(s, n)
           \/ IdleTimeout(s) \/ SocketError(s) \/ SocketClose(s) \/ HostDisconnect(s)
  <2>1. pc' = pc /\ answer' = answer
    BY <1>4 DEF Data, IdleTimeout, SocketError, SocketClose, HostDisconnect, runVars, readVars
  <2>2. ASSUME NEW x \in Sessions, state'[x] = "unborn"
        PROVE  state[x] = "unborn"
    <3>1. state' = state \/ \E why : Disconnect({s}, why) \/ FinalizeOnce(s, why)
      BY <1>4 DEF Data, IdleTimeout, SocketError, SocketClose, HostDisconnect
    <3> QED
      BY <2>2, <3>1, EndedIsBorn
  <2> QED
    BY <1>2, <2>1, <2>2 DEF AwaitsPool
<1>5. ASSUME NEW result, Answer(s, result), result \in {"ok", "missing", "err"},
             \/ pc[s] = "loadKey"
             \/ promise[task[s]] \in {"resolved", "rejected", "refused"}
      PROVE  /\ \A x \in Sessions : AwaitsPool(x)' => AwaitsPool(x)
             /\ \A x \in Sessions :
                  \/ AwaitsPool(x) => AwaitsPool(x)'
                  \/ promise[task[x]] \in {"resolved", "rejected", "refused"}
             /\ state' = state /\ pc' = pc
  <2>1. pc' = pc /\ answer' = [answer EXCEPT ![s] = result] /\ state' = state
    BY <1>5 DEF Answer, endVars
  <2>2. result # None
    BY <1>5, SessionConstants
  <2> QED
    BY <1>1, <1>5, <2>1, <2>2 DEF AwaitsPool, RsaPoints
<1>6. CASE \/ pc[s] = "loadKey" /\ \E result \in {"ok", "missing", "err"} : Answer(s, result)
           \/ pc[s] \in RsaPoints /\ Deliver(s)
  BY <1>2, <1>5, <1>6 DEF Deliver
<1> QED
  BY <1>3, <1>4, <1>6 DEF Event

\* run() is resumed: a task it calls for is one that no other coroutine awaits.
LEMMA RunAwaits ==
  ASSUME AwaitInv, NEW s \in Sessions, RunStep(s)
  PROVE  TaskInv' /\ LoadIsAwaited'
<1>1. /\ ~AwaitsPool(s) /\ pc[s] # "unborn"
      /\ \A x \in Sessions \ {s} : pc'[x] = pc[x] /\ answer'[x] = answer[x]
      /\ pc'[s] \in RsaPoints => pc'[s] # pc[s]
      /\ \A x \in Sessions : state'[x] = "unborn" => state[x] = "unborn"
  BY ResumedFromPool DEF AwaitInv, RunStep
<1>2. /\ task \in [Sessions -> Nat] /\ \A x \in Sessions : task[x] <= calls
      /\ \A x \in Sessions : state[x] = "unborn" => pc[x] = "unborn"
      /\ calls \in Nat /\ poolPending \subseteq 1 .. calls
  BY DEF AwaitInv, TaskInv, PendingInv
<1>3. /\ \A k \in poolPending : \E x \in Sessions : AwaitsPool(x) /\ task[x] = k
      /\ \A x, y \in Sessions :
           AwaitsPool(x) /\ AwaitsPool(y) /\ x # y => task[x] # task[y]
  BY DEF AwaitInv, LoadIsAwaited
<1>4. \A x \in Sessions \ {s} : AwaitsPool(x)' <=> AwaitsPool(x)
  BY <1>1 DEF AwaitsPool
<1>5. \A x \in Sessions : state'[x] = "unborn" => pc'[x] = "unborn"
  BY <1>1, <1>2
<1>6. CASE pc'[s] \in RsaPoints
  <2>1. /\ Pool!Dispatch \/ Pool!DispatchRefused
        /\ task' = [task EXCEPT ![s] = calls + 1]
    BY <1>1, <1>6 DEF RunStep, CallPool
  <2>2. calls' = calls + 1 /\ poolPending' \subseteq poolPending \cup {calls + 1}
    BY <2>1 DEF Pool!Dispatch, Pool!DispatchRefused, Pool!NextId
  <2>3. answer'[s] = None
    <3>1. Resume(s)
      BY DEF RunStep
    <3> QED
      BY <3>1, <1>6, FreshPromise DEF AwaitInv
  <2>4. AwaitsPool(s)'
    BY <1>6, <2>3 DEF AwaitsPool
  <2>5. /\ task' \in [Sessions -> Nat] /\ task'[s] = calls + 1
        /\ \A x \in Sessions \ {s} : task'[x] = task[x]
    BY <1>2, <2>1
  <2>6. \A x \in Sessions : task'[x] <= calls'
    BY <1>2, <2>2, <2>5
  <2>7. \A x \in Sessions \ {s} : task'[x] # task'[s]
    BY <1>2, <2>5
  <2>8. \A k \in poolPending' : \E x \in Sessions : AwaitsPool(x)' /\ task'[x] = k
    <3> SUFFICES ASSUME NEW k \in poolPending'
                 PROVE  \E x \in Sessions : AwaitsPool(x)' /\ task'[x] = k
      OBVIOUS
    <3>1. CASE k = calls + 1
      BY <2>4, <2>5, <3>1
    <3>2. CASE k \in poolPending
      <4>1. PICK x \in Sessions : AwaitsPool(x) /\ task[x] = k
        BY <1>3, <3>2
      <4>2. x # s
        BY <1>1, <4>1
      <4> QED
        BY <1>4, <2>5, <4>1, <4>2, Zenon
    <3> QED
      BY <2>2, <3>1, <3>2
  <2>9. \A x, y \in Sessions :
          AwaitsPool(x)' /\ AwaitsPool(y)' /\ x # y => task'[x] # task'[y]
    BY <1>3, <1>4, <2>5, <2>7, Zenon
  <2>10. LoadIsAwaited'
    BY <2>8, <2>9, Zenon DEF LoadIsAwaited
  <2> QED
    BY <1>5, <2>5, <2>6, <2>10 DEF TaskInv
<1>7. CASE pc'[s] \notin RsaPoints
  <2>1. task' = task /\ calls' = calls /\ poolPending' = poolPending
    BY <1>7 DEF RunStep, poolVars
  <2>2. ~AwaitsPool(s)'
    BY <1>7 DEF AwaitsPool
  <2>3. \A x \in Sessions : AwaitsPool(x)' <=> AwaitsPool(x)
    BY <1>1, <1>4, <2>2, Zenon
  <2>4. LoadIsAwaited'
    BY <1>3, <2>1, <2>3, Zenon DEF LoadIsAwaited
  <2> QED
    BY <1>2, <1>5, <2>1, <2>4 DEF TaskInv
<1> QED
  BY <1>6, <1>7

\* An event: the one coroutine it may settle for awaited a task that is over.
LEMMA EventAwaits ==
  ASSUME AwaitInv, NEW s \in Sessions, Event(s), UNCHANGED <<poolVars, task>>
  PROVE  TaskInv' /\ LoadIsAwaited'
<1>1. /\ \A x \in Sessions : AwaitsPool(x)' => AwaitsPool(x)
      /\ \A x \in Sessions :
           \/ AwaitsPool(x) => AwaitsPool(x)'
           \/ promise[task[x]] \in {"resolved", "rejected", "refused"}
      /\ \A x \in Sessions : state'[x] = "unborn" => pc'[x] = "unborn"
  BY EventForPool DEF AwaitInv
<1>2. calls' = calls /\ poolPending' = poolPending /\ task' = task
  BY DEF poolVars
<1>3. /\ \A k \in poolPending : \E x \in Sessions : AwaitsPool(x) /\ task[x] = k
      /\ \A x, y \in Sessions :
           AwaitsPool(x) /\ AwaitsPool(y) /\ x # y => task[x] # task[y]
  BY DEF AwaitInv, LoadIsAwaited
<1>4. \A k \in poolPending : promise[k] \notin {"resolved", "rejected", "refused"}
  BY DEF AwaitInv, PendingInv
<1>5. \A k \in poolPending' : \E x \in Sessions : AwaitsPool(x)' /\ task'[x] = k
  BY <1>1, <1>2, <1>3, <1>4, Zenon
<1>6. LoadIsAwaited'
  BY <1>1, <1>2, <1>3, <1>5, Zenon DEF LoadIsAwaited
<1> QED
  BY <1>1, <1>2, <1>6 DEF AwaitInv, TaskInv

\* The pool's own steps only take entries out of _pending.
LEMMA PoolAwaits ==
  ASSUME AwaitInv, UNCHANGED <<sessionVars, task>>,
         ClosePool \/ CloseFinish \/ \E w \in Workers : MainStep(w) \/ ThreadStep(w)
  PROVE  TaskInv' /\ LoadIsAwaited'
<1>1. calls' = calls /\ poolPending' \subseteq poolPending
  BY DEF ClosePool, CloseFinish, MainStep, ThreadStep, Pool!Close, Pool!CloseFinish,
         Pool!OnMessage, Pool!DeletePending, Pool!WorkerRun, Pool!Terminate, Pool!WorkerError
<1>2. pc' = pc /\ answer' = answer /\ state' = state /\ task' = task
  BY DEF sessionVars, runVars, readVars, endVars
<1>3. \A x : AwaitsPool(x)' <=> AwaitsPool(x)
  BY <1>2 DEF AwaitsPool
<1>4. LoadIsAwaited'
  BY <1>1, <1>2, <1>3, Zenon DEF AwaitInv, LoadIsAwaited
<1> QED
  BY <1>1, <1>2, <1>4 DEF AwaitInv, TaskInv

\* The pool works for handshakes under way and for nothing else: every pending
\* task is awaited by a coroutine, each by its own, however connections end and
\* whatever becomes of the workers.
THEOREM FleetLoadIsAwaited == FleetSpec => []LoadIsAwaited
<1>1. FleetInit => AwaitInv
  <2> SUFFICES ASSUME FleetInit PROVE AwaitInv
    OBVIOUS
  <2>1. TypeInv
    BY TypeBegin DEF FleetInit
  <2>2. PendingInv
    BY DEF FleetInit, Pool!PoolInit, PendingInv
  <2>3. TaskInv
    BY DEF FleetInit, SessionInit, Pool!PoolInit, TaskInv
  <2>4. LoadIsAwaited
    BY DEF FleetInit, SessionInit, Pool!PoolInit, LoadIsAwaited, AwaitsPool, RsaPoints
  <2> QED
    BY <2>1, <2>2, <2>3, <2>4 DEF AwaitInv
<1>2. AwaitInv /\ [FleetNext]_fleetVars => AwaitInv'
  <2> SUFFICES ASSUME AwaitInv, [FleetNext]_fleetVars PROVE AwaitInv'
    OBVIOUS
  <2>1. TypeInv' /\ PendingInv'
    BY FleetSteps, TypeStep, PendingStep DEF AwaitInv
  <2>2. CASE UNCHANGED fleetVars
    <3>1. UNCHANGED <<pc, answer, state, task, calls, poolPending>>
      BY <2>2 DEF fleetVars, sessionVars, runVars, readVars, endVars, poolVars
    <3>2. \A x : AwaitsPool(x)' <=> AwaitsPool(x)
      BY <3>1 DEF AwaitsPool
    <3>3. LoadIsAwaited'
      BY <3>1, <3>2, Zenon DEF AwaitInv, LoadIsAwaited
    <3> QED
      BY <2>1, <3>1, <3>3 DEF AwaitInv, TaskInv
  <2> QED
    BY <2>1, <2>2, RunAwaits, EventAwaits, PoolAwaits DEF FleetNext, AwaitInv
<1>3. AwaitInv => LoadIsAwaited
  BY DEF AwaitInv
<1> QED
  BY <1>1, <1>2, <1>3, PTL DEF FleetSpec

=============================================================================
