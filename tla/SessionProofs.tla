--------------------------- MODULE SessionProofs ---------------------------
(***************************************************************************)
(* Theorems about Session for any number of connections, calls, tokens and *)
(* reads.                                                                  *)
(***************************************************************************)
EXTENDS Session, TLAPS

-----------------------------------------------------------------------------
(* Types.                                                                   *)

\* SessionTypeOK in the parts that actions change together: what ending a
\* session changes, its socket, what the handshake sets, the state of run(), and
\* its reads.  What is buffered has been delivered: the bound on the buffer
\* depends on it.
EndTypeOK ==
  /\ state \in [Sessions -> {"unborn", "handshaking", "connected", "closed"}]
  /\ idleTimer \in [Sessions -> BOOLEAN]
  /\ closes \in [Sessions -> Nat]
  /\ cause \in [Sessions -> Causes \cup {None}]
  /\ pending \in [Sessions -> [Tokens -> Calls \cup {None}]]
  /\ call \in [Calls -> CallRecord]
  /\ asked \in SUBSET Calls

SocketTypeOK == socket \in [Sessions -> {None, "open", "ended", "destroyed", "closed"}]

HelloTypeOK ==
  /\ stage \in [Sessions -> {None, "READ_COREID", "GET_COREKEY",
                             "SEND_SESSIONKEY", "GET_HELLO", "DONE"}]
  /\ claimed \in [Sessions -> CoreIds \cup {None}]
  /\ coreId \in [Sessions -> CoreIds \cup {None}]
  /\ handshakes \in [Sessions -> Nat]

RunTypeOK ==
  /\ pc \in [Sessions -> ReadPoints \cup OffloadPoints \cup {"unborn", "done"}]
  /\ handshakeError \in [Sessions -> Errors \cup {None}]

ReadTypeOK ==
  /\ queue \in [Sessions -> 0 .. MaxReads]
  /\ sent \in [Sessions -> 0 .. MaxReads]
  /\ answer \in [Sessions -> {None, "ok", "missing", "err"}]
  /\ \A s \in Sessions : queue[s] <= sent[s]

TypeInv == EndTypeOK /\ SocketTypeOK /\ HelloTypeOK /\ RunTypeOK /\ ReadTypeOK

\* A record of a call stays one when its promise settles.
LEMMA SettledCallType ==
  ASSUME NEW r \in CallRecord,
         NEW st \in {"resolved", "timedOut", "closed", "refused", "failed"}
  PROVE  [r EXCEPT !.status = st, !.timer = FALSE] \in CallRecord
BY DEF CallRecord

\* _finalize leaves everything it touches well typed.
LEMMA FinalizeType ==
  ASSUME NEW S \in SUBSET Sessions, NEW why \in Causes, EndTypeOK, Finalize(S, why)
  PROVE  EndTypeOK'
<1>1. call' \in [Calls -> CallRecord]
  BY SettledCallType DEF Finalize, EndTypeOK
<1>2. pending' \in [Sessions -> [Tokens -> Calls \cup {None}]]
  BY DEF Finalize, EndTypeOK
<1>3. closes' \in [Sessions -> Nat]
  <2>1. \A s \in Sessions : closes[s] \in Nat /\ closes[s] + 1 \in Nat
    BY DEF EndTypeOK
  <2>2. closes' = [s \in Sessions |-> IF s \in S THEN closes[s] + 1 ELSE closes[s]]
    BY DEF Finalize
  <2> QED
    BY <2>1, <2>2
<1> QED
  BY <1>1, <1>2, <1>3 DEF Finalize, EndTypeOK

\* So do the ways to reach it.
LEMMA DisconnectType ==
  ASSUME NEW S \in SUBSET Sessions, NEW why \in Causes, EndTypeOK, SocketTypeOK,
         Disconnect(S, why)
  PROVE  EndTypeOK' /\ SocketTypeOK'
BY FinalizeType DEF Disconnect, SocketTypeOK

LEMMA UnchangedEndType == EndTypeOK /\ UNCHANGED endVars => EndTypeOK'
BY DEF EndTypeOK, endVars, callVars

LEMMA DisconnectOnceType ==
  ASSUME NEW s \in Sessions, NEW why \in Causes, EndTypeOK, SocketTypeOK,
         DisconnectOnce(s, why)
  PROVE  EndTypeOK' /\ SocketTypeOK'
<1>1. CASE state[s] = "closed"
  BY <1>1, UnchangedEndType DEF DisconnectOnce, SocketTypeOK
<1>2. CASE state[s] # "closed"
  BY <1>2, DisconnectType DEF DisconnectOnce
<1> QED
  BY <1>1, <1>2

LEMMA FinalizeOnceType ==
  ASSUME NEW s \in Sessions, NEW why \in Causes, EndTypeOK, FinalizeOnce(s, why)
  PROVE  EndTypeOK'
BY FinalizeType, UnchangedEndType DEF FinalizeOnce

LEMMA CatchType ==
  ASSUME NEW s \in Sessions, NEW err \in Errors,
         EndTypeOK, SocketTypeOK, RunTypeOK, Catch(s, err)
  PROVE  EndTypeOK' /\ SocketTypeOK' /\ RunTypeOK'
<1>1. "error" \in Causes
  BY DEF Causes
<1> QED
  BY <1>1, DisconnectOnceType DEF Catch, RunTypeOK

LEMMA TakeReadType ==
  ASSUME NEW s \in Sessions, ReadTypeOK, HasBytes(s), TakeRead(s), UNCHANGED sent,
         answer' \in [Sessions -> {None, "ok", "missing", "err"}]
  PROVE  ReadTypeOK'
<1>1. /\ queue[s] \in 1 .. MaxReads
      /\ \A x \in Sessions : queue'[x] = IF x = s THEN queue[s] - 1 ELSE queue[x]
      /\ queue' = [queue EXCEPT ![s] = queue[s] - 1]
  BY SessionConstants DEF ReadTypeOK, HasBytes, TakeRead
<1>2. queue[s] - 1 \in 0 .. MaxReads
  BY <1>1, SessionConstants
<1>3. \A x \in Sessions : queue'[x] <= sent'[x]
  BY <1>1, SessionConstants DEF ReadTypeOK
<1> QED
  BY <1>1, <1>2, <1>3 DEF ReadTypeOK

LEMMA AwaitType ==
  ASSUME NEW s \in Sessions, NEW point \in ReadPoints \cup OffloadPoints,
         RunTypeOK, ReadTypeOK, Await(s, point)
  PROVE  /\ pc' \in [Sessions -> ReadPoints \cup OffloadPoints \cup {"unborn", "done"}]
         /\ answer' \in [Sessions -> {None, "ok", "missing", "err"}]
BY DEF Await, RunTypeOK, ReadTypeOK

\* The Hello is read and `handshake' emitted.
LEMMA HelloReadType ==
  ASSUME NEW s \in Sessions, HelloTypeOK, ReadTypeOK, HelloRead(s)
  PROVE  HelloTypeOK' /\ ReadTypeOK'
<1>1. ReadTypeOK'
  BY TakeReadType DEF HelloRead, ReadTypeOK
<1>2. handshakes' \in [Sessions -> Nat]
  BY DEF HelloRead, HelloTypeOK
<1> QED
  BY <1>1, <1>2 DEF HelloRead, HelloTypeOK

LEMMA FrameReadType ==
  ASSUME NEW s \in Sessions, HelloTypeOK, ReadTypeOK, FrameRead(s)
  PROVE  HelloTypeOK' /\ ReadTypeOK'
<1>1. ReadTypeOK'
  BY TakeReadType DEF FrameRead, ReadTypeOK
<1> QED
  BY <1>1 DEF FrameRead, HelloTypeOK, helloVars

LEMMA LoopTestType ==
  ASSUME NEW s \in Sessions, RunTypeOK, LoopTest(s), UNCHANGED handshakeError
  PROVE  RunTypeOK'
BY DEF LoopTest, RunTypeOK, ReadPoints, OffloadPoints

\* A call is resolved, or not, by a message with token t.
LEMMA ResolveType ==
  ASSUME NEW s \in Sessions, NEW t, NEW from \in Calls \cup {None},
         EndTypeOK, Resolve(s, t, from)
  PROVE  /\ pending' \in [Sessions -> [Tokens -> Calls \cup {None}]]
         /\ call' \in [Calls -> CallRecord]
<1>1. pending' \in [Sessions -> [Tokens -> Calls \cup {None}]]
  BY DEF Resolve, DeleteSlot, EndTypeOK
<1>2. \A r \in CallRecord :
        [r EXCEPT !.status = "resolved", !.timer = FALSE, !.got = from] \in CallRecord
  BY DEF CallRecord
<1>3. CASE pending[s][t] = None
  BY <1>1, <1>3 DEF Resolve, EndTypeOK
<1>4. CASE pending[s][t] # None
  <2> DEFINE c == pending[s][t]
  <2>1. call' = [call EXCEPT ![c].status = "resolved", ![c].timer = FALSE, ![c].got = from]
    BY <1>4 DEF Resolve
  <2>2. call' = [call EXCEPT ![c] = [call[c] EXCEPT !.status = "resolved",
                                                    !.timer = FALSE, !.got = from]]
    BY <2>1 DEF EndTypeOK, CallRecord
  <2> QED
    BY <1>1, <1>2, <2>2 DEF EndTypeOK
<1> QED
  BY <1>3, <1>4
\* Types are preserved when run() is resumed.
LEMMA ResumeType ==
  ASSUME NEW s \in Sessions, TypeInv, Resume(s)
  PROVE  TypeInv'
<1> USE DEF TypeInv
<1>1. CASE ReadBlob(s)
  <2>1. "decrypt" \in ReadPoints \cup OffloadPoints
    BY DEF OffloadPoints
  <2>2. RunTypeOK' /\ answer' \in [Sessions -> {None, "ok", "missing", "err"}]
    BY <1>1, <2>1, AwaitType DEF ReadBlob, RunTypeOK
  <2>3. ReadTypeOK'
    BY <1>1, <2>2, TakeReadType DEF ReadBlob
  <2>4. EndTypeOK' /\ SocketTypeOK' /\ HelloTypeOK'
    BY <1>1, UnchangedEndType DEF ReadBlob, SocketTypeOK, HelloTypeOK, helloVars
  <2> QED
    BY <2>2, <2>3, <2>4
<1>2. CASE KeyExchange(s)
  <2>1. {"encrypt", "sign", "hello"} \subseteq ReadPoints \cup OffloadPoints
    BY DEF OffloadPoints, ReadPoints
  <2>2. RunTypeOK' /\ answer' \in [Sessions -> {None, "ok", "missing", "err"}]
    BY <1>2, <2>1, AwaitType DEF KeyExchange, RunTypeOK
  <2>3. ReadTypeOK'
    BY <1>2, <2>2 DEF KeyExchange, ReadTypeOK
  <2>4. HelloTypeOK'
    BY <1>2 DEF KeyExchange, HelloTypeOK
  <2>5. EndTypeOK' /\ SocketTypeOK'
    BY <1>2, UnchangedEndType DEF KeyExchange, SocketTypeOK
  <2> QED
    BY <2>2, <2>3, <2>4, <2>5
<1>3. CASE ReadHello(s)
  <2>1. HelloTypeOK' /\ ReadTypeOK'
    BY <1>3, HelloReadType DEF ReadHello
  <2>2. RunTypeOK'
    BY <1>3 DEF ReadHello, RunTypeOK, ReadPoints
  <2>3. EndTypeOK' /\ SocketTypeOK'
    BY <1>3 DEF ReadHello, EndTypeOK, callVars, SocketTypeOK
  <2> QED
    BY <2>1, <2>2, <2>3
<1>4. CASE ReadRejected(s)
  <2>1. "other" \in Errors
    BY DEF Errors
  <2>2. EndTypeOK' /\ SocketTypeOK' /\ RunTypeOK'
    BY <1>4, <2>1, CatchType DEF ReadRejected
  <2> QED
    BY <1>4, <2>2 DEF ReadRejected, HelloTypeOK, helloVars, ReadTypeOK, readVars
<1>5. CASE FrameAbsorbed(s)
  BY <1>5, FrameReadType, LoopTestType, UnchangedEndType DEF FrameAbsorbed, SocketTypeOK
<1>6. CASE FrameThrows(s)
  <2>1. "other" \in Errors
    BY DEF Errors
  <2> QED
    BY <1>6, <2>1, FrameReadType, CatchType DEF FrameThrows
<1>7. ASSUME NEW d \in CoreIds, Decrypted(s, d)
      PROVE  TypeInv'
  <2>1. "loadKey" \in ReadPoints \cup OffloadPoints
    BY DEF OffloadPoints
  <2>2. RunTypeOK' /\ answer' \in [Sessions -> {None, "ok", "missing", "err"}]
    BY <1>7, <2>1, AwaitType DEF Decrypted, RunTypeOK
  <2>3. HelloTypeOK'
    BY <1>7 DEF Decrypted, HelloTypeOK
  <2>4. EndTypeOK' /\ SocketTypeOK' /\ ReadTypeOK'
    BY <1>7, <2>2, UnchangedEndType DEF Decrypted, SocketTypeOK, ReadTypeOK
  <2> QED
    BY <2>2, <2>3, <2>4
<1>8. ASSUME NEW why \in Causes, ReadHelloAndEnd(s, why)
      PROVE  TypeInv'
  <2>1. EndTypeOK' /\ SocketTypeOK'
    BY <1>8, DisconnectType DEF ReadHelloAndEnd
  <2>2. RunTypeOK'
    BY <1>8 DEF ReadHelloAndEnd, RunTypeOK, Errors
  <2> QED
    BY <1>8, <2>1, <2>2, HelloReadType DEF ReadHelloAndEnd
<1>9. ASSUME NEW why \in Causes, FrameEnds(s, why)
      PROVE  TypeInv'
  BY <1>9, FrameReadType, LoopTestType, DisconnectOnceType DEF FrameEnds
<1>10. ASSUME NEW err \in Errors, HandshakeFails(s, err)
       PROVE  TypeInv'
  <2>1. EndTypeOK' /\ SocketTypeOK' /\ RunTypeOK'
    BY <1>10, CatchType DEF HandshakeFails
  <2>2. answer' \in [Sessions -> {None, "ok", "missing", "err"}] /\ UNCHANGED sent
    BY <1>10 DEF HandshakeFails, ReadTypeOK
  <2>3. ReadTypeOK'
    <3>1. CASE pc[s] = "hello"
      <4>1. HasBytes(s)
        BY <1>10, <3>1 DEF HandshakeFails, Failures, OffloadPoints
      <4> QED
        BY <1>10, <2>2, <3>1, <4>1, TakeReadType DEF HandshakeFails
    <3>2. CASE pc[s] # "hello"
      BY <1>10, <2>2, <3>2 DEF HandshakeFails, ReadTypeOK
    <3> QED
      BY <3>1, <3>2
  <2>4. HelloTypeOK'
    BY <1>10 DEF HandshakeFails, HelloTypeOK, helloVars
  <2> QED
    BY <2>1, <2>3, <2>4
<1>11. ASSUME NEW c \in Calls, FrameAnswers(s, c)
       PROVE  TypeInv'
  <2>1. HelloTypeOK' /\ ReadTypeOK' /\ RunTypeOK'
    BY <1>11, FrameReadType, LoopTestType DEF FrameAnswers
  <2>2. EndTypeOK' /\ SocketTypeOK'
    BY <1>11, ResolveType DEF FrameAnswers, EndTypeOK, SocketTypeOK
  <2> QED
    BY <2>1, <2>2
<1>12. ASSUME NEW t \in Tokens, FrameCollides(s, t)
       PROVE  TypeInv'
  <2>1. HelloTypeOK' /\ ReadTypeOK' /\ RunTypeOK'
    BY <1>12, FrameReadType, LoopTestType DEF FrameCollides
  <2>2. EndTypeOK' /\ SocketTypeOK'
    BY <1>12, ResolveType DEF FrameCollides, EndTypeOK, SocketTypeOK
  <2> QED
    BY <2>1, <2>2
<1> QED
  BY <1>1, <1>2, <1>3, <1>4, <1>5, <1>6, <1>7, <1>8, <1>9, <1>10, <1>11, <1>12 DEF Resume

LEMMA UnchangedRunType ==
  HelloTypeOK /\ RunTypeOK /\ ReadTypeOK /\ UNCHANGED runVars
    => HelloTypeOK' /\ RunTypeOK' /\ ReadTypeOK'
BY DEF HelloTypeOK, RunTypeOK, ReadTypeOK, runVars, helloVars, readVars

\* Types are preserved by every callback.
LEMMA CallbackType ==
  ASSUME NEW s \in Sessions, TypeInv, Callback(s)
  PROVE  TypeInv'
<1> USE DEF TypeInv, Causes
<1>1. ASSUME NEW n \in 1 .. MaxReads, Data(s, n)
      PROVE  TypeInv'
  <2>1. sent[s] \in 0 .. MaxReads /\ queue[s] \in 0 .. MaxReads /\ queue[s] <= sent[s]
    BY DEF ReadTypeOK
  <2>2. sent[s] + n \in 0 .. MaxReads /\ queue[s] + n \in 0 .. MaxReads
    BY <1>1, <2>1, SessionConstants DEF Data
  <2>3. queue[s] + n <= sent[s] + n
    BY <2>1, SessionConstants
  <2>4. ReadTypeOK'
    BY <1>1, <2>2, <2>3 DEF Data, ReadTypeOK
  <2>5. HelloTypeOK' /\ RunTypeOK' /\ SocketTypeOK'
    BY <1>1 DEF Data, HelloTypeOK, helloVars, RunTypeOK, SocketTypeOK
  <2>6. EndTypeOK'
    BY <1>1 DEF Data, ResetIdleTimer, EndTypeOK, callVars
  <2> QED
    BY <2>4, <2>5, <2>6
<1>2. CASE IdleTimeout(s)
  <2>1. CASE state[s] = "closed"
    BY <1>2, <2>1, UnchangedRunType DEF IdleTimeout, EndTypeOK, callVars, SocketTypeOK
  <2>2. CASE state[s] # "closed"
    BY <1>2, <2>2, UnchangedRunType, DisconnectType DEF IdleTimeout
  <2> QED
    BY <2>1, <2>2
<1>3. CASE SocketError(s)
  BY <1>3, UnchangedRunType, FinalizeOnceType DEF SocketError, SocketTypeOK
<1>4. CASE SocketClose(s)
  BY <1>4, UnchangedRunType, FinalizeOnceType DEF SocketClose, SocketTypeOK
<1>5. CASE HostDisconnect(s)
  BY <1>5, UnchangedRunType, DisconnectType DEF HostDisconnect
<1>6. ASSUME NEW result \in {"ok", "missing", "err"}, Answer(s, result)
      PROVE  TypeInv'
  <2>1. ReadTypeOK'
    BY <1>6 DEF Answer, ReadTypeOK
  <2>2. EndTypeOK' /\ SocketTypeOK' /\ HelloTypeOK' /\ RunTypeOK'
    BY <1>6, UnchangedEndType DEF Answer, SocketTypeOK, HelloTypeOK, helloVars, RunTypeOK
  <2> QED
    BY <2>1, <2>2
<1>7. ASSUME NEW c \in Calls, NEW t \in Tokens, Request(s, c, t)
      PROVE  TypeInv'
  <2>1. NewCall(s, t) \in CallRecord
    BY DEF NewCall, CallRecord
  <2>2. EndTypeOK'
    BY <1>7, <2>1 DEF Request, EndTypeOK
  <2> QED
    BY <1>7, <2>2, UnchangedRunType DEF Request, SocketTypeOK
<1>8. ASSUME NEW c \in Calls, NEW t \in Tokens, RequestThrows(s, c, t)
      PROVE  TypeInv'
  <2>1. [NewCall(s, t) EXCEPT !.status = "failed", !.timer = FALSE] \in CallRecord
    BY DEF NewCall, CallRecord
  <2>2. EndTypeOK'
    BY <1>8, <2>1 DEF RequestThrows, DeleteSlot, EndTypeOK
  <2> QED
    BY <1>8, <2>2, UnchangedRunType DEF RequestThrows, SocketTypeOK
<1>9. ASSUME NEW c \in Calls, RequestRefused(s, c)
      PROVE  TypeInv'
  <2>1. [call[c] EXCEPT !.status = "refused", !.on = s] \in CallRecord
    BY DEF EndTypeOK, CallRecord
  <2>2. call' = [call EXCEPT ![c] = [call[c] EXCEPT !.status = "refused", !.on = s]]
    BY <1>9 DEF RequestRefused, EndTypeOK, CallRecord
  <2>3. EndTypeOK'
    BY <1>9, <2>1, <2>2 DEF RequestRefused, EndTypeOK
  <2> QED
    BY <1>9, <2>3, UnchangedRunType DEF RequestRefused, SocketTypeOK
<1> QED
  BY <1>1, <1>2, <1>3, <1>4, <1>5, <1>6, <1>7, <1>8, <1>9 DEF Callback

\* Types are preserved by every step.
LEMMA TypeStep == TypeInv /\ [SessionNext]_sessionVars => TypeInv'
<1> SUFFICES ASSUME TypeInv, [SessionNext]_sessionVars PROVE TypeInv'
  OBVIOUS
<1> USE DEF TypeInv
<1>1. ASSUME NEW s \in Sessions, Accept(s)
      PROVE  TypeInv'
  <2>1. HelloTypeOK' /\ RunTypeOK' /\ SocketTypeOK'
    BY <1>1 DEF Accept, HelloTypeOK, RunTypeOK, SocketTypeOK, ReadPoints
  <2>2. EndTypeOK'
    BY <1>1 DEF Accept, ResetIdleTimer, EndTypeOK, callVars
  <2>3. ReadTypeOK'
    BY <1>1 DEF Accept, ReadTypeOK, readVars
  <2> QED
    BY <2>1, <2>2, <2>3
<1>2. ASSUME NEW c \in Calls, CallTimeout(c)
      PROVE  TypeInv'
  <2>1. [call[c] EXCEPT !.status = "timedOut", !.timer = FALSE] \in CallRecord
    BY SettledCallType DEF EndTypeOK
  <2>2. call' = [call EXCEPT ![c] = [call[c] EXCEPT !.status = "timedOut", !.timer = FALSE]]
    BY <1>2 DEF CallTimeout, EndTypeOK, CallRecord
  <2>3. pending' \in [Sessions -> [Tokens -> Calls \cup {None}]]
    BY <1>2 DEF CallTimeout, DeleteSlot, EndTypeOK
  <2>4. EndTypeOK'
    BY <1>2, <2>1, <2>2, <2>3 DEF CallTimeout, EndTypeOK
  <2> QED
    BY <1>2, <2>4, UnchangedRunType DEF CallTimeout, SocketTypeOK
<1>3. CASE UNCHANGED sessionVars
  BY <1>3, UnchangedRunType, UnchangedEndType DEF sessionVars, SocketTypeOK
<1> QED
  BY <1>1, <1>2, <1>3, ResumeType, CallbackType DEF SessionNext

LEMMA TypeBegin == SessionInit => TypeInv
BY SessionConstants
DEF SessionInit, TypeInv, EndTypeOK, SocketTypeOK, HelloTypeOK, RunTypeOK, ReadTypeOK,
    CallRecord

\* Every variable of every session keeps its type; in particular a read never
\* takes bytes that are not there.
THEOREM SessionTyped == SessionSpec => []SessionTypeOK
<1>1. TypeInv => SessionTypeOK
  BY DEF TypeInv, EndTypeOK, SocketTypeOK, HelloTypeOK, RunTypeOK, ReadTypeOK,
         SessionTypeOK
<1> QED
  BY <1>1, TypeBegin, TypeStep, PTL DEF SessionSpec
-----------------------------------------------------------------------------
(* A session is closed once, if its peer waits for its turn.                *)

\* What holds of each session whose peer waits for its turn.  While run() awaits
\* the pool or the key loader nothing is buffered, so a session closed meanwhile
\* finds its queue empty and closed when it reads on; and bytes that arrive
\* during a read of the handshake are consumed before anything can close the session.
\* Frames may be buffered when the host ends the session between two of them.
LifeInv(s) ==
  /\ closes[s] = IF state[s] = "closed" THEN 1 ELSE 0
  /\ pc[s] = "unborn" <=> state[s] = "unborn"
  /\ state[s] = "unborn" =>
       socket[s] = None /\ ~idleTimer[s] /\ sent[s] = 0 /\ handshakes[s] = 0
  /\ pc[s] = "blob" => stage[s] = "READ_COREID" /\ sent[s] = queue[s] /\ sent[s] <= 1
  /\ pc[s] \in OffloadPoints =>
       queue[s] = 0 /\ sent[s] = 1 /\ stage[s] \notin {"GET_HELLO", "DONE"}
  /\ pc[s] \in {"blob", "hello"} /\ queue[s] > 0 => state[s] # "closed"
  /\ pc[s] \in OffloadPoints \cup {"blob", "hello"} => state[s] \in {"handshaking", "closed"}
  /\ pc[s] = "frame" => state[s] \in {"connected", "closed"}

Life == \A s \in Sessions : LifeInv(s)

\* Session x is left alone by a step.
Untouched(x) ==
  /\ state'[x] = state[x] /\ closes'[x] = closes[x] /\ pc'[x] = pc[x]
  /\ socket'[x] = socket[x] /\ idleTimer'[x] = idleTimer[x]
  /\ sent'[x] = sent[x] /\ queue'[x] = queue[x]
  /\ handshakes'[x] = handshakes[x] /\ stage'[x] = stage[x]

OthersUntouched(s) == \A x \in Sessions \ {s} : Untouched(x)

LEMMA UntouchedLife ==
  ASSUME NEW x \in Sessions, LifeInv(x), Untouched(x)
  PROVE  LifeInv(x)'
BY DEF LifeInv, Untouched

\* _finalize, by what it does to the session and to the others.
LEMMA FinalizeEffect ==
  ASSUME NEW s \in Sessions, NEW why, TypeInv, Finalize({s}, why)
  PROVE  /\ state'[s] = "closed" /\ closes'[s] = closes[s] + 1 /\ ~idleTimer'[s]
         /\ \A x \in Sessions \ {s} : /\ state'[x] = state[x]
                                      /\ closes'[x] = closes[x]
                                      /\ idleTimer'[x] = idleTimer[x]
BY DEF Finalize

LEMMA DisconnectEffect ==
  ASSUME NEW s \in Sessions, NEW why, TypeInv, Disconnect({s}, why)
  PROVE  /\ state'[s] = "closed" /\ closes'[s] = closes[s] + 1 /\ ~idleTimer'[s]
         /\ \A x \in Sessions \ {s} : /\ state'[x] = state[x]
                                      /\ closes'[x] = closes[x]
                                      /\ idleTimer'[x] = idleTimer[x]
                                      /\ socket'[x] = socket[x]
BY FinalizeEffect DEF Disconnect

\* disconnect() and _finalize as guarded by their early return.
EndsOnce(s) ==
  /\ state'[s] = "closed"
  /\ closes'[s] = IF state[s] = "closed" THEN closes[s] ELSE closes[s] + 1
  /\ \A x \in Sessions \ {s} : /\ state'[x] = state[x]
                               /\ closes'[x] = closes[x]
                               /\ idleTimer'[x] = idleTimer[x]

LEMMA DisconnectOnceEffect ==
  ASSUME NEW s \in Sessions, NEW why, TypeInv, DisconnectOnce(s, why)
  PROVE  EndsOnce(s) /\ \A x \in Sessions \ {s} : socket'[x] = socket[x]
BY DisconnectEffect DEF DisconnectOnce, endVars, EndsOnce

LEMMA FinalizeOnceEffect ==
  ASSUME NEW s \in Sessions, NEW why, TypeInv, FinalizeOnce(s, why)
  PROVE  EndsOnce(s)
BY FinalizeEffect DEF FinalizeOnce, endVars, EndsOnce

\* A session that is closed once and whose run() is over has nothing left to break.
LEMMA DoneLife ==
  ASSUME NEW s \in Sessions, LifeInv(s), EndsOnce(s), state[s] # "unborn",
         pc'[s] = "done", TypeInv
  PROVE  LifeInv(s)'
BY DEF LifeInv, EndsOnce, OffloadPoints, ReadPoints, TypeInv, EndTypeOK

LEMMA CatchLife ==
  ASSUME NEW s \in Sessions, NEW err, TypeInv, LifeInv(s), Catch(s, err),
         state[s] # "unborn", UNCHANGED <<sent, helloVars>>,
         \A x \in Sessions \ {s} : queue'[x] = queue[x]
  PROVE  LifeInv(s)' /\ OthersUntouched(s)
<1>1. EndsOnce(s) /\ \A x \in Sessions \ {s} : socket'[x] = socket[x]
  BY DisconnectOnceEffect DEF Catch
<1>2. pc'[s] = "done" /\ \A x \in Sessions \ {s} : pc'[x] = pc[x]
  BY DEF Catch, TypeInv, RunTypeOK
<1>3. LifeInv(s)'
  BY <1>1, <1>2, DoneLife
<1>4. OthersUntouched(s)
  BY <1>1, <1>2 DEF OthersUntouched, Untouched, EndsOnce, helloVars
<1> QED
  BY <1>3, <1>4
LEMMA TakeReadEffect ==
  ASSUME NEW s \in Sessions, TypeInv, TakeRead(s)
  PROVE  queue'[s] = queue[s] - 1 /\ \A x \in Sessions \ {s} : queue'[x] = queue[x]
BY DEF TakeRead, TypeInv, ReadTypeOK

\* After a frame run() is back at a read of a connected session, or done with a
\* closed one.
LEMMA FrameLife ==
  ASSUME NEW s \in Sessions, TypeInv, LifeInv(s), FrameRead(s), LoopTest(s),
         UNCHANGED <<state, closes, socket, idleTimer>>
  PROVE  LifeInv(s)' /\ OthersUntouched(s)
<1>1. /\ pc[s] = "frame" /\ state[s] \in {"connected", "closed"}
      /\ queue'[s] = queue[s] - 1 /\ \A x \in Sessions \ {s} : queue'[x] = queue[x]
      /\ UNCHANGED <<stage, handshakes, sent>>
  BY TakeReadEffect DEF FrameRead, helloVars, LifeInv
<1>2. pc'[s] = (IF state[s] = "connected" THEN "frame" ELSE "done")
      /\ \A x \in Sessions \ {s} : pc'[x] = pc[x]
  BY <1>1 DEF LoopTest, TypeInv, RunTypeOK
<1>3. LifeInv(s)'
  BY <1>1, <1>2 DEF LifeInv, OffloadPoints, ReadPoints
<1>4. OthersUntouched(s)
  BY <1>1, <1>2 DEF OthersUntouched, Untouched
<1> QED
  BY <1>3, <1>4

\* When run() is resumed, LifeInv is kept for its session; the others are left alone.
LEMMA ResumeLife ==
  ASSUME NEW s \in Sessions, TypeInv, LifeInv(s), Resume(s)
  PROVE  LifeInv(s)' /\ OthersUntouched(s)
<1>1. CASE ReadBlob(s)
  <2>1. /\ pc[s] = "blob" /\ queue[s] > 0
        /\ queue'[s] = queue[s] - 1 /\ \A x \in Sessions \ {s} : queue'[x] = queue[x]
        /\ UNCHANGED <<stage, handshakes, sent, state, closes, socket, idleTimer>>
    BY <1>1, TakeReadEffect DEF ReadBlob, HasBytes, helloVars, endVars
  <2>2. pc'[s] = "decrypt" /\ \A x \in Sessions \ {s} : pc'[x] = pc[x]
    BY <1>1 DEF ReadBlob, Await, TypeInv, RunTypeOK
  <2>3. queue[s] \in Nat /\ sent[s] \in Nat
    BY SessionConstants DEF TypeInv, ReadTypeOK
  <2>4. queue'[s] = 0 /\ sent[s] = 1
    BY <2>1, <2>3 DEF LifeInv
  <2>5. LifeInv(s)'
    BY <2>1, <2>2, <2>4 DEF LifeInv, OffloadPoints, ReadPoints
  <2> QED
    BY <2>1, <2>2, <2>5 DEF OthersUntouched, Untouched
<1>2. CASE KeyExchange(s)
  <2>1. /\ UNCHANGED <<handshakes, queue, sent, state, closes, socket, idleTimer>>
        /\ pc[s] \in OffloadPoints
        /\ \/ pc'[s] \in OffloadPoints /\ stage'[s] \notin {"GET_HELLO", "DONE"}
           \/ pc'[s] = "hello"
        /\ \A x \in Sessions \ {s} : pc'[x] = pc[x] /\ stage'[x] = stage[x]
    BY <1>2 DEF KeyExchange, endVars, Await, TypeInv, RunTypeOK, HelloTypeOK, OffloadPoints,
                LifeInv
  <2>2. LifeInv(s)'
    BY <2>1 DEF LifeInv, OffloadPoints, ReadPoints
  <2> QED
    BY <2>1, <2>2 DEF OthersUntouched, Untouched
<1>3. CASE ReadHello(s) \/ \E why \in Causes : ReadHelloAndEnd(s, why)
  <2>1. HelloRead(s)
    BY <1>3 DEF ReadHello, ReadHelloAndEnd
  <2>2. /\ pc[s] = "hello" /\ queue[s] > 0 /\ state[s] = "handshaking" /\ closes[s] = 0
        /\ queue'[s] = queue[s] - 1 /\ \A x \in Sessions \ {s} : queue'[x] = queue[x]
        /\ sent' = sent
        /\ \A x \in Sessions \ {s} : handshakes'[x] = handshakes[x] /\ stage'[x] = stage[x]
    BY <2>1, TakeReadEffect
    DEF HelloRead, HasBytes, LifeInv, ReadPoints, TypeInv, HelloTypeOK
  <2>3. CASE ReadHello(s)
    <3>1. /\ pc'[s] = "frame" /\ state'[s] = "connected"
          /\ \A x \in Sessions \ {s} : pc'[x] = pc[x] /\ state'[x] = state[x]
          /\ UNCHANGED <<closes, socket, idleTimer>>
      BY <2>3 DEF ReadHello, TypeInv, RunTypeOK, EndTypeOK
    <3>2. LifeInv(s)'
      BY <2>2, <3>1 DEF LifeInv, OffloadPoints, ReadPoints
    <3> QED
      BY <2>2, <3>1, <3>2 DEF OthersUntouched, Untouched
  <2>4. ASSUME NEW why \in Causes, ReadHelloAndEnd(s, why)
        PROVE  LifeInv(s)' /\ OthersUntouched(s)
    <3>1. pc'[s] = "done" /\ \A x \in Sessions \ {s} : pc'[x] = pc[x]
      BY <2>4 DEF ReadHelloAndEnd, TypeInv, RunTypeOK
    <3>2. /\ EndsOnce(s)
          /\ \A x \in Sessions \ {s} : socket'[x] = socket[x]
      BY <2>2, <2>4, DisconnectEffect DEF ReadHelloAndEnd, EndsOnce
    <3>3. LifeInv(s)'
      BY <2>2, <3>1, <3>2, DoneLife
    <3> QED
      BY <2>2, <3>1, <3>2, <3>3 DEF OthersUntouched, Untouched, EndsOnce
  <2> QED
    BY <1>3, <2>3, <2>4
<1>4. CASE ReadRejected(s)
  BY <1>4, CatchLife DEF ReadRejected, readVars, LifeInv, ReadPoints
<1>5. CASE FrameAbsorbed(s)
  BY <1>5, FrameLife DEF FrameAbsorbed, endVars
<1>6. CASE FrameThrows(s)
  <2>1. state[s] # "unborn" /\ \A x \in Sessions \ {s} : queue'[x] = queue[x]
    BY <1>6, TakeReadEffect DEF FrameThrows, FrameRead, LifeInv
  <2> QED
    BY <1>6, <2>1, CatchLife DEF FrameThrows, FrameRead
<1>7. ASSUME NEW d \in CoreIds, Decrypted(s, d)
      PROVE  LifeInv(s)' /\ OthersUntouched(s)
  <2>1. /\ UNCHANGED <<handshakes, queue, sent, state, closes, socket, idleTimer>>
        /\ pc[s] = "decrypt" /\ pc'[s] = "loadKey" /\ stage'[s] = "GET_COREKEY"
        /\ \A x \in Sessions \ {s} : pc'[x] = pc[x] /\ stage'[x] = stage[x]
    BY <1>7 DEF Decrypted, endVars, Await, TypeInv, RunTypeOK, HelloTypeOK
  <2>2. LifeInv(s)'
    BY <2>1 DEF LifeInv, OffloadPoints, ReadPoints
  <2> QED
    BY <2>1, <2>2 DEF OthersUntouched, Untouched
<1>8. ASSUME NEW why \in Causes, FrameEnds(s, why)
      PROVE  LifeInv(s)' /\ OthersUntouched(s)
  <2>1. /\ state[s] # "unborn" /\ \A x \in Sessions \ {s} : queue'[x] = queue[x]
        /\ UNCHANGED <<stage, handshakes, sent>>
    BY <1>8, TakeReadEffect DEF FrameEnds, FrameRead, LifeInv, helloVars
  <2>2. EndsOnce(s) /\ \A x \in Sessions \ {s} : socket'[x] = socket[x]
    BY <1>8, DisconnectOnceEffect DEF FrameEnds
  <2>3. pc'[s] = "done" /\ \A x \in Sessions \ {s} : pc'[x] = pc[x]
    BY <1>8, <2>2 DEF FrameEnds, LoopTest, EndsOnce, TypeInv, RunTypeOK
  <2>4. LifeInv(s)'
    BY <2>1, <2>2, <2>3, DoneLife
  <2> QED
    BY <2>1, <2>2, <2>3, <2>4 DEF OthersUntouched, Untouched, EndsOnce
<1>9. ASSUME NEW err \in Errors, HandshakeFails(s, err)
      PROVE  LifeInv(s)' /\ OthersUntouched(s)
  <2>1. pc[s] \in OffloadPoints \cup {"hello"}
    BY <1>9 DEF HandshakeFails, Failures, OffloadPoints
  <2>2. state[s] # "unborn"
    BY <2>1 DEF LifeInv
  <2>3. \A x \in Sessions \ {s} : queue'[x] = queue[x]
    BY <1>9, TakeReadEffect DEF HandshakeFails
  <2> QED
    BY <1>9, <2>2, <2>3, CatchLife DEF HandshakeFails
<1>10. ASSUME NEW c \in Calls, FrameAnswers(s, c)
       PROVE  LifeInv(s)' /\ OthersUntouched(s)
  BY <1>10, FrameLife DEF FrameAnswers
<1>11. ASSUME NEW k \in Tokens, FrameCollides(s, k)
       PROVE  LifeInv(s)' /\ OthersUntouched(s)
  BY <1>11, FrameLife DEF FrameCollides
<1> QED
  BY <1>1, <1>2, <1>3, <1>4, <1>5, <1>6, <1>7, <1>8, <1>9, <1>10, <1>11 DEF Resume

\* No ready read of the handshake is overtaken by code of the host.
LEMMA QuietIsHostTurn == Quiet => HostTurn
BY DEF Quiet, HostTurn

\* A session that a callback or the host closes is not reading bytes of the handshake
\* that it has.
LEMMA ClosedByCallback ==
  ASSUME NEW s \in Sessions, TypeInv, LifeInv(s), HostTurn, EndsOnce(s),
         state[s] # "unborn", UNCHANGED runVars
  PROVE  LifeInv(s)'
<1>1. UNCHANGED <<pc, queue, sent, stage, handshakes>>
  BY DEF runVars, helloVars, readVars
<1>2. pc[s] \in {"blob", "hello"} => ~(queue[s] > 0)
  BY DEF HostTurn, Ready, ReadPoints
<1> QED
  BY <1>1, <1>2
  DEF LifeInv, EndsOnce, OffloadPoints, ReadPoints, TypeInv, EndTypeOK, RunTypeOK

LEMMA CallbackLife ==
  ASSUME ~Pipelining, NEW s \in Sessions, TypeInv, LifeInv(s), Callback(s)
  PROVE  LifeInv(s)' /\ OthersUntouched(s)
<1>1. ASSUME NEW n \in 1 .. MaxReads, Data(s, n)
      PROVE  LifeInv(s)' /\ OthersUntouched(s)
  <2>1. /\ UNCHANGED <<pc, stage, handshakes, state, closes, socket>>
        /\ socket[s] # None /\ sent[s] + n <= Earned(s)
        /\ sent'[s] = sent[s] + n /\ queue'[s] = queue[s] + n
        /\ \A x \in Sessions \ {s} : /\ sent'[x] = sent[x] /\ queue'[x] = queue[x]
                                     /\ idleTimer'[x] = idleTimer[x]
    BY <1>1, SessionConstants
    DEF Data, helloVars, ResetIdleTimer, TypeInv, ReadTypeOK, EndTypeOK
  <2>2. queue[s] \in Nat /\ sent[s] \in Nat /\ n \in Nat /\ n > 0
    BY SessionConstants DEF TypeInv, ReadTypeOK
  <2>3. pc[s] \in ReadPoints => queue[s] = 0 /\ closes[s] = 0
    BY <1>1, <2>2 DEF Data, Quiet, Ready, TypeInv, EndTypeOK
  <2>4. pc[s] \notin OffloadPoints
    BY <2>1, <2>2 DEF LifeInv, Earned
  <2>5. pc[s] = "blob" => sent[s] = 0 /\ n = 1
    BY <2>1, <2>2, <2>3 DEF LifeInv, ReadPoints, Earned
  <2>6. LifeInv(s)'
    BY <2>1, <2>2, <2>3, <2>4, <2>5 DEF LifeInv, ReadPoints, OffloadPoints
  <2> QED
    BY <2>1, <2>6 DEF OthersUntouched, Untouched
<1>2. CASE IdleTimeout(s)
  <2>1. HostTurn /\ UNCHANGED runVars /\ state[s] # "unborn"
    BY <1>2, QuietIsHostTurn DEF IdleTimeout, LifeInv
  <2>2. EndsOnce(s) /\ \A x \in Sessions \ {s} : socket'[x] = socket[x]
    BY <1>2, DisconnectEffect DEF IdleTimeout, EndsOnce, TypeInv, EndTypeOK
  <2>3. LifeInv(s)'
    BY <2>1, <2>2, ClosedByCallback
  <2> QED
    BY <2>1, <2>2, <2>3
    DEF OthersUntouched, Untouched, EndsOnce, runVars, helloVars, readVars
<1>3. CASE SocketError(s) \/ SocketClose(s)
  <2>1. /\ HostTurn /\ UNCHANGED runVars /\ EndsOnce(s)
        /\ \A x \in Sessions \ {s} : socket'[x] = socket[x]
    BY <1>3, QuietIsHostTurn, FinalizeOnceEffect DEF SocketError, SocketClose, TypeInv, SocketTypeOK
  <2>2. socket[s] # None
    BY <1>3, SessionConstants DEF SocketError, SocketClose
  <2>3. LifeInv(s)'
    BY <2>1, <2>2, ClosedByCallback DEF LifeInv
  <2> QED
    BY <2>1, <2>3
    DEF OthersUntouched, Untouched, EndsOnce, runVars, helloVars, readVars
<1>4. CASE HostDisconnect(s)
  <2>1. HostTurn /\ UNCHANGED runVars /\ state[s] \notin {"unborn", "closed"}
    BY <1>4 DEF HostDisconnect, LifeInv
  <2>2. EndsOnce(s) /\ \A x \in Sessions \ {s} : socket'[x] = socket[x]
    BY <1>4, <2>1, DisconnectEffect DEF HostDisconnect, EndsOnce
  <2>3. LifeInv(s)'
    BY <2>1, <2>2, ClosedByCallback
  <2> QED
    BY <2>1, <2>2, <2>3
    DEF OthersUntouched, Untouched, EndsOnce, runVars, helloVars, readVars
<1>5. CASE \/ \E result \in {"ok", "missing", "err"} : Answer(s, result)
           \/ \E c \in Calls, k \in Tokens : Request(s, c, k) \/ RequestThrows(s, c, k)
           \/ \E c \in Calls : RequestRefused(s, c)
  <2>1. UNCHANGED <<pc, stage, handshakes, state, closes, socket, sent, queue, idleTimer>>
    BY <1>5 DEF Answer, Request, RequestThrows, RequestRefused, runVars, helloVars,
                readVars, endVars
  <2> QED
    BY <2>1, UntouchedLife DEF OthersUntouched, Untouched
<1> QED
  BY <1>1, <1>2, <1>3, <1>4, <1>5 DEF Callback

\* Every step keeps LifeInv for every session.
LEMMA LifeStep ==
  ASSUME ~Pipelining
  PROVE  TypeInv /\ Life /\ [SessionNext]_sessionVars => Life'
<1> SUFFICES ASSUME TypeInv, Life, [SessionNext]_sessionVars PROVE Life'
  OBVIOUS
<1>1. ASSUME NEW s \in Sessions, Accept(s) \/ Resume(s) \/ Callback(s)
      PROVE  Life'
  <2>1. LifeInv(s)
    BY DEF Life
  <2>2. ASSUME Accept(s)
        PROVE  LifeInv(s)' /\ OthersUntouched(s)
    <3>1. /\ state[s] = "unborn" /\ state'[s] = "handshaking" /\ pc'[s] = "blob"
          /\ stage'[s] = "READ_COREID"
          /\ UNCHANGED <<sent, queue, handshakes, closes>>
          /\ OthersUntouched(s)
      BY <2>2 DEF Accept, readVars, ResetIdleTimer, OthersUntouched, Untouched, TypeInv,
                  EndTypeOK, RunTypeOK, HelloTypeOK, SocketTypeOK
    <3>2. sent[s] = 0 /\ queue[s] = 0
      BY <2>1, <3>1, SessionConstants DEF LifeInv, TypeInv, ReadTypeOK
    <3> QED
      BY <2>1, <3>1, <3>2 DEF LifeInv, OffloadPoints, ReadPoints
  <2>3. LifeInv(s)' /\ OthersUntouched(s)
    BY <1>1, <2>1, <2>2, ResumeLife, CallbackLife
  <2> QED
    BY <2>3, UntouchedLife DEF Life, OthersUntouched
<1>2. CASE UNCHANGED sessionVars \/ \E c \in Calls : CallTimeout(c)
  <2>1. UNCHANGED <<pc, stage, handshakes, state, closes, socket, sent, queue, idleTimer>>
    BY <1>2 DEF CallTimeout, sessionVars, runVars, helloVars, readVars, endVars
  <2> QED
    BY <2>1, UntouchedLife DEF Life, Untouched
<1> QED
  BY <1>1, <1>2 DEF SessionNext

\* `close' is emitted at most once by a session whose peer waits for its turn,
\* whichever of timeout, socket error, socket close, bad frame, failed handshake,
\* host and gateway race to end it, also while run() awaits the crypto pool.
THEOREM SessionClosesOnce ==
  ASSUME ~Pipelining
  PROVE  SessionSpec => []CloseOnce
<1>1. SessionInit => Life
  <2> SUFFICES ASSUME SessionInit, NEW s \in Sessions PROVE LifeInv(s)
    BY DEF Life
  <2>1. /\ state[s] = "unborn" /\ pc[s] = "unborn" /\ closes[s] = 0 /\ sent[s] = 0
        /\ queue[s] = 0 /\ handshakes[s] = 0 /\ socket[s] = None /\ ~idleTimer[s]
    BY DEF SessionInit
  <2> QED
    BY <2>1 DEF LifeInv, OffloadPoints, ReadPoints
<1>2. Life => CloseOnce
  <2> SUFFICES ASSUME Life, NEW s \in Sessions PROVE closes[s] <= 1
    BY DEF CloseOnce
  <2>1. closes[s] \in {0, 1}
    BY DEF Life, LifeInv
  <2> QED
    BY <2>1
<1>3. TypeInv /\ Life /\ [SessionNext]_sessionVars => Life'
  BY LifeStep
<1> QED
  BY <1>1, <1>2, <1>3, TypeBegin, TypeStep, PTL DEF SessionSpec
-----------------------------------------------------------------------------
(* The calls of request() and the slots of _pending.                        *)

\* CallsSound, and what a device's answer needs: the request it answers was sent
\* with a token.  No assumption on the peer: the calls are sound also when it
\* sends ahead of its turn.
CallsInv ==
  /\ CallsSound
  /\ \A c \in asked : call[c].token \in Tokens

\* A step that leaves the calls alone moves no session away from "connected".
LEMMA KeptCalls ==
  ASSUME CallsInv, UNCHANGED callVars,
         \A s \in Sessions : state[s] = "connected" => state'[s] = "connected"
  PROVE  CallsInv'
BY DEF CallsInv, CallsSound, SlotHolderWaits, WaitingHasTimer, callVars

\* _finalize settles every call that holds a slot of a session it closes, and no
\* call that holds a slot elsewhere: a call holds one slot at most.
LEMMA FinalizeCalls ==
  ASSUME NEW S \in SUBSET Sessions, NEW why, TypeInv, CallsInv, Finalize(S, why)
  PROVE  CallsInv'
<1> DEFINE Settled(c) == \E s \in S, t \in Tokens : pending[s][t] = c
<1>1. \A c \in Calls :
        call'[c] = IF Settled(c)
                   THEN [call[c] EXCEPT !.status = "closed", !.timer = FALSE]
                   ELSE call[c]
  BY DEF Finalize
<1>2. \A c \in Calls : call[c] \in CallRecord
  BY DEF TypeInv, EndTypeOK
<1>3. \A c \in Calls : /\ call'[c].token = call[c].token
                       /\ Settled(c) => call'[c].status = "closed" /\ call'[c].timer = FALSE
                       /\ ~Settled(c) => call'[c] = call[c]
  <2> HIDE DEF Settled
  <2> QED
    BY <1>1, <1>2 DEF CallRecord
<1>4. WaitingHasTimer'
  BY <1>3 DEF CallsInv, CallsSound, WaitingHasTimer
<1>5. SlotHolderWaits'
  <2> SUFFICES ASSUME NEW s \in Sessions, NEW t \in Tokens, pending'[s][t] # None
               PROVE  /\ state'[s] = "connected"
                      /\ call'[pending'[s][t]].status = "waiting"
                      /\ call'[pending'[s][t]].timer
                      /\ call'[pending'[s][t]].on = s
                      /\ call'[pending'[s][t]].token = t
    BY DEF SlotHolderWaits
  <2>1. s \notin S /\ pending'[s][t] = pending[s][t] /\ state'[s] = state[s]
    BY DEF Finalize
  <2>2. pending[s][t] \in Calls
    BY <2>1 DEF TypeInv, EndTypeOK
  <2>3. state[s] = "connected" /\ call[pending[s][t]].status = "waiting"
        /\ call[pending[s][t]].timer /\ call[pending[s][t]].on = s
        /\ call[pending[s][t]].token = t
    BY <2>1 DEF CallsInv, CallsSound, SlotHolderWaits
  <2>4. ~Settled(pending[s][t])
    <3> SUFFICES ASSUME NEW x \in S, NEW k \in Tokens, pending[x][k] = pending[s][t]
                 PROVE  FALSE
      OBVIOUS
    <3>1. call[pending[x][k]].on = x
      BY <2>2, SessionConstants DEF CallsInv, CallsSound, SlotHolderWaits
    <3> QED
      BY <2>1, <2>3, <3>1
  <2> QED
    BY <1>3, <2>1, <2>2, <2>3, <2>4
<1>6. \A c \in asked' : call'[c].token \in Tokens
  BY <1>3 DEF Finalize, CallsInv, TypeInv, EndTypeOK
<1> QED
  BY <1>4, <1>5, <1>6 DEF CallsInv, CallsSound

LEMMA DisconnectOnceCalls ==
  ASSUME NEW s \in Sessions, NEW why, TypeInv, CallsInv,
         DisconnectOnce(s, why) \/ FinalizeOnce(s, why)
  PROVE  CallsInv'
<1>1. CASE state[s] = "closed"
  BY <1>1, KeptCalls DEF DisconnectOnce, FinalizeOnce, endVars
<1>2. CASE state[s] # "closed"
  BY <1>2, FinalizeCalls DEF DisconnectOnce, FinalizeOnce, Disconnect
<1> QED
  BY <1>1, <1>2

\* A slot is emptied, and at most the call that held it is settled.
LEMMA DeleteSlotCalls ==
  ASSUME NEW s \in Sessions \cup {None}, NEW t \in Tokens \cup {None},
         NEW c \in Calls, NEW r \in CallRecord, TypeInv, CallsInv, DeleteSlot(s, t),
         \A d \in Calls : call'[d] = IF d = c THEN r ELSE call[d],
         r.status # "waiting", ~r.timer,
         \A x \in Sessions, k \in Tokens : pending[x][k] = c => x = s /\ k = t,
         r.token \in Tokens, asked' \subseteq asked, UNCHANGED state
  PROVE  CallsInv'
<1>1. \A x \in Sessions, k \in Tokens :
        pending'[x][k] = IF x = s /\ k = t THEN None ELSE pending[x][k]
  BY DEF DeleteSlot, TypeInv, EndTypeOK
<1>2. \A d \in Calls : call'[d] = IF d = c THEN r ELSE call[d]
  OBVIOUS
<1>3. \A x \in Sessions, k \in Tokens : pending[x][k] \in Calls \cup {None}
  BY DEF TypeInv, EndTypeOK
<1>4. WaitingHasTimer'
  BY <1>2 DEF CallsInv, CallsSound, WaitingHasTimer
<1>5. SlotHolderWaits'
  BY <1>1, <1>2, <1>3 DEF CallsInv, CallsSound, SlotHolderWaits
<1>6. \A d \in asked' : call'[d].token \in Tokens
  BY <1>2 DEF CallsInv, TypeInv, EndTypeOK
<1> QED
  BY <1>4, <1>5, <1>6 DEF CallsInv, CallsSound

\* A message with token t resolves the call that holds the slot, if one does.
LEMMA ResolveCalls ==
  ASSUME NEW s \in Sessions, NEW t \in Tokens, NEW from \in Calls \cup {None},
         TypeInv, CallsInv, Resolve(s, t, from), asked' \subseteq asked, UNCHANGED state
  PROVE  CallsInv'
<1>1. CASE pending[s][t] = None
  <2>1. UNCHANGED <<pending, call, state>>
    BY <1>1 DEF Resolve, DeleteSlot, TypeInv, EndTypeOK
  <2> QED
    BY <2>1 DEF CallsInv, CallsSound, SlotHolderWaits, WaitingHasTimer
<1>2. CASE pending[s][t] # None
  <2> DEFINE c == pending[s][t]
             r == [call[c] EXCEPT !.status = "resolved", !.timer = FALSE, !.got = from]
  <2>1. c \in Calls /\ call[c] \in CallRecord
    BY <1>2 DEF TypeInv, EndTypeOK
  <2>2. call[c].on = s /\ call[c].token = t
    BY <1>2 DEF CallsInv, CallsSound, SlotHolderWaits
  <2>3. \A d \in Calls : call'[d] = IF d = c THEN r ELSE call[d]
    BY <1>2, <2>1 DEF Resolve, TypeInv, EndTypeOK, CallRecord
  <2>4. r \in CallRecord /\ r.status # "waiting" /\ ~r.timer /\ r.token \in Tokens
    BY <2>1, <2>2 DEF CallRecord
  <2>5. \A x \in Sessions, k \in Tokens : pending[x][k] = c => x = s /\ k = t
    BY <1>2, <2>2 DEF CallsInv, CallsSound, SlotHolderWaits
  <2>6. DeleteSlot(s, t)
    BY DEF Resolve
  <2> HIDE DEF c, r
  <2> QED
    BY <2>1, <2>3, <2>4, <2>5, <2>6, DeleteSlotCalls
<1> QED
  BY <1>1, <1>2

\* CallsInv is kept when run() is resumed.
LEMMA ResumeCalls ==
  ASSUME NEW s \in Sessions, TypeInv, CallsInv, Resume(s)
  PROVE  CallsInv'
<1>1. CASE ReadBlob(s) \/ KeyExchange(s) \/ FrameAbsorbed(s)
           \/ \E d \in CoreIds : Decrypted(s, d)
  BY <1>1, KeptCalls DEF ReadBlob, KeyExchange, FrameAbsorbed, Decrypted, endVars
<1>2. CASE ReadHello(s)
  BY <1>2, KeptCalls DEF ReadHello, TypeInv, EndTypeOK
<1>3. CASE ReadRejected(s) \/ FrameThrows(s)
  BY <1>3, DisconnectOnceCalls DEF ReadRejected, FrameThrows, Catch
<1>4. ASSUME NEW why \in Causes, ReadHelloAndEnd(s, why) \/ FrameEnds(s, why)
      PROVE  CallsInv'
  BY <1>4, DisconnectOnceCalls, FinalizeCalls DEF ReadHelloAndEnd, FrameEnds, Disconnect
<1>5. ASSUME NEW err \in Errors, HandshakeFails(s, err)
      PROVE  CallsInv'
  BY <1>5, DisconnectOnceCalls DEF HandshakeFails, Catch
<1>6. ASSUME NEW c \in Calls, FrameAnswers(s, c)
      PROVE  CallsInv'
  <2>1. call[c].token \in Tokens
    BY <1>6 DEF FrameAnswers, CallsInv
  <2> QED
    BY <1>6, <2>1, ResolveCalls DEF FrameAnswers
<1>7. ASSUME NEW t \in Tokens, FrameCollides(s, t)
      PROVE  CallsInv'
  BY <1>7, ResolveCalls DEF FrameCollides
<1> QED
  BY <1>1, <1>2, <1>3, <1>4, <1>5, <1>6, <1>7 DEF Resume

\* CallsInv is kept by every callback on a session.
LEMMA CallbackCalls ==
  ASSUME NEW s \in Sessions, TypeInv, CallsInv, Callback(s)
  PROVE  CallsInv'
<1>1. CASE \/ \E n \in 1 .. MaxReads : Data(s, n)
           \/ \E result \in {"ok", "missing", "err"} : Answer(s, result)
  BY <1>1, KeptCalls DEF Data, Answer, endVars
<1>2. CASE IdleTimeout(s)
  <2>1. CASE state[s] = "closed"
    BY <1>2, <2>1, KeptCalls DEF IdleTimeout
  <2>2. CASE state[s] # "closed"
    BY <1>2, <2>2, FinalizeCalls DEF IdleTimeout, Disconnect
  <2> QED
    BY <2>1, <2>2
<1>3. CASE SocketError(s) \/ SocketClose(s)
  BY <1>3, DisconnectOnceCalls DEF SocketError, SocketClose
<1>4. CASE HostDisconnect(s)
  BY <1>4, FinalizeCalls DEF HostDisconnect, Disconnect
<1>5. \* A call that has not been made holds no slot.
      ASSUME NEW c \in Calls, MayRequest(s, c)
      PROVE  \A x \in Sessions, k \in Tokens : pending[x][k] # c
  BY <1>5, SessionConstants DEF MayRequest, CallsInv, CallsSound, SlotHolderWaits
<1>6. ASSUME NEW c \in Calls, NEW t \in Tokens, Request(s, c, t)
      PROVE  CallsInv'
  <2>1. /\ \A x \in Sessions, k \in Tokens :
             pending'[x][k] = IF x = s /\ k = t THEN c ELSE pending[x][k]
        /\ \A d \in Calls : call'[d] = IF d = c THEN NewCall(s, t) ELSE call[d]
        /\ asked' = asked \cup {c} /\ state' = state /\ state[s] = "connected"
        /\ MayRequest(s, c)
    BY <1>6 DEF Request, TypeInv, EndTypeOK
  <2>2. /\ NewCall(s, t).status = "waiting" /\ NewCall(s, t).timer
        /\ NewCall(s, t).on = s /\ NewCall(s, t).token = t
    BY DEF NewCall
  <2>3. WaitingHasTimer'
    BY <2>1, <2>2 DEF CallsInv, CallsSound, WaitingHasTimer
  <2>4. SlotHolderWaits'
    <3> SUFFICES ASSUME NEW x \in Sessions, NEW k \in Tokens, pending'[x][k] # None
                 PROVE  /\ state'[x] = "connected"
                        /\ call'[pending'[x][k]].status = "waiting"
                        /\ call'[pending'[x][k]].timer
                        /\ call'[pending'[x][k]].on = x
                        /\ call'[pending'[x][k]].token = k
      BY DEF SlotHolderWaits
    <3>1. CASE x = s /\ k = t
      BY <2>1, <2>2, <3>1
    <3>2. CASE ~(x = s /\ k = t)
      <4>1. pending'[x][k] = pending[x][k] /\ pending[x][k] \in Calls
        BY <2>1, <3>2 DEF TypeInv, EndTypeOK
      <4>2. call'[pending[x][k]] = call[pending[x][k]]
        BY <1>5, <2>1, <4>1
      <4> QED
        BY <2>1, <4>1, <4>2 DEF CallsInv, CallsSound, SlotHolderWaits
    <3> QED
      BY <3>1, <3>2
  <2>5. \A d \in asked' : call'[d].token \in Tokens
    BY <2>1, <2>2 DEF CallsInv, TypeInv, EndTypeOK
  <2> QED
    BY <2>3, <2>4, <2>5 DEF CallsInv, CallsSound
<1>7. ASSUME NEW c \in Calls, NEW t \in Tokens, RequestThrows(s, c, t)
      PROVE  CallsInv'
  <2> DEFINE r == [NewCall(s, t) EXCEPT !.status = "failed", !.timer = FALSE]
  <2>1. r \in CallRecord /\ r.status # "waiting" /\ ~r.timer /\ r.token \in Tokens
    BY DEF NewCall, CallRecord
  <2>2. \A d \in Calls : call'[d] = IF d = c THEN r ELSE call[d]
    BY <1>7 DEF RequestThrows, TypeInv, EndTypeOK
  <2>3. DeleteSlot(s, t) /\ asked' \subseteq asked /\ UNCHANGED state /\ MayRequest(s, c)
    BY <1>7 DEF RequestThrows
  <2> HIDE DEF r
  <2> QED
    BY <1>5, <2>1, <2>2, <2>3, DeleteSlotCalls
<1>8. ASSUME NEW c \in Calls, RequestRefused(s, c)
      PROVE  CallsInv'
  <2> DEFINE r == [call[c] EXCEPT !.status = "refused", !.on = s]
  <2>1. call[c] \in CallRecord /\ call[c].status = "idle"
    BY <1>8 DEF RequestRefused, MayRequest, TypeInv, EndTypeOK
  <2>2. r.status = "refused" /\ r.timer = call[c].timer /\ r.token = call[c].token
    BY <2>1 DEF CallRecord
  <2>3. /\ \A d \in Calls : call'[d] = IF d = c THEN r ELSE call[d]
        /\ UNCHANGED <<pending, asked, state>> /\ MayRequest(s, c)
    BY <1>8 DEF RequestRefused, TypeInv, EndTypeOK, CallRecord
  <2> HIDE DEF r
  <2>4. WaitingHasTimer'
    BY <2>1, <2>2, <2>3 DEF CallsInv, CallsSound, WaitingHasTimer
  <2>5. SlotHolderWaits'
    BY <1>5, <2>3 DEF CallsInv, CallsSound, SlotHolderWaits, TypeInv, EndTypeOK
  <2>6. \A d \in asked' : call'[d].token \in Tokens
    BY <2>2, <2>3 DEF CallsInv, TypeInv, EndTypeOK
  <2> QED
    BY <2>4, <2>5, <2>6 DEF CallsInv, CallsSound
<1> QED
  BY <1>1, <1>2, <1>3, <1>4, <1>6, <1>7, <1>8 DEF Callback

\* The timer of a call takes away its own slot, or one that is no longer its own.
LEMMA TimeoutCalls ==
  ASSUME NEW c \in Calls, TypeInv, CallsInv, CallTimeout(c)
  PROVE  CallsInv'
<1> DEFINE r == [call[c] EXCEPT !.timer = FALSE, !.status = "timedOut"]
<1>1. call[c] \in CallRecord
  BY DEF TypeInv, EndTypeOK
<1>2. r.status # "waiting" /\ ~r.timer /\ r.token = call[c].token
  BY <1>1 DEF CallRecord
<1>3. /\ \A d \in Calls : call'[d] = IF d = c THEN r ELSE call[d]
      /\ \A x \in Sessions, k \in Tokens :
           pending'[x][k] = IF x = call[c].on /\ k = call[c].token THEN None ELSE pending[x][k]
      /\ UNCHANGED <<asked, state>>
  BY <1>1 DEF CallTimeout, DeleteSlot, TypeInv, EndTypeOK, CallRecord
<1>4. \A x \in Sessions, k \in Tokens :
        pending[x][k] = c => x = call[c].on /\ k = call[c].token
  BY SessionConstants DEF CallsInv, CallsSound, SlotHolderWaits
<1> HIDE DEF r
<1>5. WaitingHasTimer'
  BY <1>2, <1>3 DEF CallsInv, CallsSound, WaitingHasTimer
<1>6. SlotHolderWaits'
  BY <1>3, <1>4 DEF CallsInv, CallsSound, SlotHolderWaits, TypeInv, EndTypeOK
<1>7. \A d \in asked' : call'[d].token \in Tokens
  BY <1>2, <1>3 DEF CallsInv, TypeInv, EndTypeOK
<1> QED
  BY <1>5, <1>6, <1>7 DEF CallsInv, CallsSound

LEMMA CallsStep == TypeInv /\ CallsInv /\ [SessionNext]_sessionVars => CallsInv'
<1> SUFFICES ASSUME TypeInv, CallsInv, [SessionNext]_sessionVars PROVE CallsInv'
  OBVIOUS
<1>1. ASSUME NEW s \in Sessions, Accept(s)
      PROVE  CallsInv'
  BY <1>1, KeptCalls DEF Accept, TypeInv, EndTypeOK
<1>2. CASE UNCHANGED sessionVars
  BY <1>2, KeptCalls DEF sessionVars, endVars
<1> QED
  BY <1>1, <1>2, ResumeCalls, CallbackCalls, TimeoutCalls DEF SessionNext

LEMMA CallsBegin == SessionInit => CallsInv
BY DEF SessionInit, CallsInv, CallsSound, SlotHolderWaits, WaitingHasTimer

\* Whatever reply, timeout, token collision, failed send and end of the session do
\* in whatever order, a slot of _pending belongs to a call that waits for it on a
\* connected session, and a promise of request() is unsettled exactly as long as
\* its timer is armed.
THEOREM SessionCallsSound == SessionSpec => []CallsSound
<1>1. CallsInv => CallsSound
  BY DEF CallsInv
<1> QED
  BY <1>1, TypeBegin, TypeStep, CallsBegin, CallsStep, PTL DEF SessionSpec

=============================================================================
