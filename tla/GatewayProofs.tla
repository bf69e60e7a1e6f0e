--------------------------- MODULE GatewayProofs ---------------------------
(***************************************************************************)
(* Theorems about Gateway for any number of connections and devices: the   *)
(* invariants of its bookkeeping, and that it implements Lifecycle.        *)
(*                                                                         *)
(* A step of the gateway is a step of one session, or stop(), with the     *)
(* listeners as a conjunct.  So the proofs are in two halves.  The first,  *)
(* about sessions only, sorts the steps by what a listener can see of      *)
(* them: a session comes online, ends, does both at once, or does neither. *)
(* The second, about the listeners only, shows what each kind does to      *)
(* _sessions, the registry and the reports.                                *)
(***************************************************************************)
EXTENDS Gateway, SessionProofs

-----------------------------------------------------------------------------
(* What a listener can see of a session.                                    *)

\* What the listeners rely on when they read a session: its error is set only by
\* what ends it, it has a device id exactly since its handshake, and a socket this
\* side has not ended belongs to a live session.
ReportInv(s) ==
  /\ state[s] # "closed" => handshakeError[s] = None
  /\ Live(s) => stage[s] # None
  /\ state[s] \in {"unborn", "handshaking"} => handshakes[s] = 0
  /\ state[s] = "connected" => handshakes[s] > 0
  /\ handshakes[s] = 0 => coreId[s] = None
  /\ handshakes[s] > 0 => coreId[s] \in CoreIds
  /\ pc[s] \in {"loadKey", "encrypt", "sign", "hello"} => claimed[s] \in CoreIds
  /\ pc[s] \in OffloadPoints \cup {"blob", "hello"} => handshakes[s] = 0
  /\ socket[s] = "open" => Live(s)

Reportable == \A s \in Sessions : ReportInv(s)

\* Nothing a listener can see changes in session x.
Keeps(x) ==
  /\ state'[x] = state[x] /\ closes'[x] = closes[x] /\ handshakes'[x] = handshakes[x]
  /\ coreId'[x] = coreId[x] /\ cause'[x] = cause[x]

\* An error is stored exactly when run() failed.
ErrorTells(s) == handshakeError'[s] = None <=> cause'[s] # "error"

\* `handshake' is emitted; `handshake' and then `close'; `close'.
Came(s) ==
  /\ state[s] = "handshaking" /\ state'[s] = "connected" /\ closes'[s] = closes[s]
  /\ handshakes[s] = 0 /\ handshakes'[s] > 0 /\ coreId'[s] \in CoreIds

CameAndWent(s) ==
  /\ state[s] = "handshaking" /\ state'[s] = "closed" /\ closes[s] = 0 /\ closes'[s] > 0
  /\ handshakes[s] = 0 /\ handshakes'[s] > 0 /\ coreId'[s] \in CoreIds
  /\ stage'[s] # None
  /\ ErrorTells(s)

Went(s) ==
  /\ Live(s) /\ state'[s] = "closed" /\ closes[s] = 0 /\ closes'[s] > 0
  /\ handshakes'[s] = handshakes[s] /\ coreId'[s] = coreId[s]
  /\ stage'[s] # None
  /\ ErrorTells(s)

\* The other sessions are left alone, also in what only the gateway looks at.
Apart(s) ==
  \A x \in Sessions \ {s} :
    /\ coreId'[x] = coreId[x] /\ cause'[x] = cause[x]
    /\ handshakeError'[x] = handshakeError[x] /\ claimed'[x] = claimed[x]

LEMMA AsideReport ==
  ASSUME NEW x \in Sessions, ReportInv(x), Untouched(x), coreId'[x] = coreId[x],
         handshakeError'[x] = handshakeError[x], claimed'[x] = claimed[x]
  PROVE  ReportInv(x)'
BY DEF ReportInv, Untouched, Live

\* _finalize, with the reason it is given.
LEMMA FinalizeSeen ==
  ASSUME NEW s \in Sessions, NEW why, TypeInv, Finalize({s}, why)
  PROVE  /\ state'[s] = "closed" /\ closes'[s] = closes[s] + 1 /\ cause'[s] = why
         /\ \A x \in Sessions \ {s} : cause'[x] = cause[x]
BY DEF Finalize

LEMMA DisconnectSeen ==
  ASSUME NEW s \in Sessions, NEW why, TypeInv, Disconnect({s}, why)
  PROVE  /\ state'[s] = "closed" /\ closes'[s] = closes[s] + 1 /\ cause'[s] = why
         /\ socket'[s] # "open"
         /\ \A x \in Sessions \ {s} : cause'[x] = cause[x]
BY FinalizeSeen DEF Disconnect

\* A session that ends in its handshake or in the frame loop.
LEMMA EndReport ==
  ASSUME NEW s \in Sessions, TypeInv, ReportInv(s), state'[s] = "closed",
         pc'[s] = pc[s] \/ pc'[s] = "done", socket'[s] # "open",
         UNCHANGED <<handshakes, coreId, claimed>>
  PROVE  ReportInv(s)'
BY DEF ReportInv, Live, OffloadPoints

\* The catch block of run() ends the session and leaves an error behind, or finds
\* it closed.
LEMMA CatchSeen ==
  ASSUME NEW s \in Sessions, NEW err \in Errors, TypeInv, LifeInv(s), ReportInv(s),
         state[s] # "unborn", Catch(s, err), UNCHANGED helloVars
  PROVE  Apart(s) /\ ReportInv(s)' /\ (Keeps(s) \/ Went(s))
<1>1. /\ handshakeError'[s] = err /\ pc'[s] = "done"
      /\ \A x \in Sessions \ {s} : handshakeError'[x] = handshakeError[x]
      /\ UNCHANGED <<stage, claimed, coreId, handshakes>>
      /\ err # None
  BY GatewayConstants DEF Catch, helloVars, TypeInv, RunTypeOK
<1>2. CASE state[s] = "closed"
  <2>1. UNCHANGED <<state, closes, cause, socket>>
    BY <1>2 DEF Catch, DisconnectOnce, endVars
  <2>2. socket'[s] # "open"
    BY <1>2, <2>1 DEF ReportInv, Live
  <2> QED
    BY <1>1, <1>2, <2>1, <2>2, EndReport DEF Apart, Keeps
<1>3. CASE state[s] # "closed"
  <2>1. Disconnect({s}, "error")
    BY <1>3 DEF Catch, DisconnectOnce
  <2>2. /\ state'[s] = "closed" /\ closes'[s] = closes[s] + 1 /\ cause'[s] = "error"
        /\ socket'[s] # "open" /\ \A x \in Sessions \ {s} : cause'[x] = cause[x]
    BY <2>1, DisconnectSeen
  <2>3. Live(s) /\ closes[s] = 0 /\ stage[s] # None
    BY <1>3 DEF LifeInv, ReportInv, Live, TypeInv, EndTypeOK
  <2>4. Went(s)
    BY <1>1, <2>2, <2>3 DEF Went, ErrorTells
  <2> QED
    BY <1>1, <2>2, <2>4, EndReport DEF Apart
<1> QED
  BY <1>2, <1>3

\* What a step of run() shows to the listeners.
LEMMA ResumeSeen ==
  ASSUME NEW s \in Sessions, TypeInv, LifeInv(s), ReportInv(s), Resume(s)
  PROVE  /\ Apart(s) /\ ReportInv(s)'
         /\ Keeps(s) \/ Came(s) \/ CameAndWent(s) \/ Went(s)
<1> DEFINE Goal == /\ Apart(s) /\ ReportInv(s)'
                   /\ Keeps(s) \/ Came(s) \/ CameAndWent(s) \/ Went(s)
<1>1. CASE ReadBlob(s)
  <2>1. /\ UNCHANGED <<state, closes, cause, socket, handshakeError, stage, claimed, coreId,
                       handshakes>>
        /\ pc[s] = "blob" /\ pc'[s] = "decrypt"
    BY <1>1 DEF ReadBlob, Await, endVars, helloVars, TypeInv, RunTypeOK
  <2> QED
    BY <2>1 DEF Apart, Keeps, ReportInv, Live, OffloadPoints
<1>2. CASE KeyExchange(s)
  <2>1. /\ UNCHANGED <<state, closes, cause, socket, handshakeError, claimed, coreId,
                       handshakes>>
        /\ pc[s] \in {"loadKey", "encrypt", "sign"}
        /\ pc'[s] \in {"encrypt", "sign", "hello"}
        /\ stage'[s] \in {stage[s], "SEND_SESSIONKEY", "GET_HELLO"}
    BY <1>2 DEF KeyExchange, Await, endVars, TypeInv, RunTypeOK, HelloTypeOK
  <2> QED
    BY <2>1, GatewayConstants DEF Apart, Keeps, ReportInv, Live, OffloadPoints
<1>3. ASSUME NEW d \in CoreIds, Decrypted(s, d)
      PROVE  Goal
  <2>1. /\ UNCHANGED <<state, closes, cause, socket, handshakeError, coreId, handshakes>>
        /\ pc[s] = "decrypt" /\ pc'[s] = "loadKey"
        /\ stage'[s] = "GET_COREKEY" /\ claimed'[s] = d
        /\ \A x \in Sessions \ {s} : claimed'[x] = claimed[x]
    BY <1>3 DEF Decrypted, Await, endVars, TypeInv, RunTypeOK, HelloTypeOK
  <2> QED
    BY <2>1, GatewayConstants DEF Apart, Keeps, ReportInv, Live, OffloadPoints
<1>4. \* The Hello is read: the session was handshaking.
      ASSUME HelloRead(s)
      PROVE  /\ state[s] = "handshaking" /\ closes[s] = 0 /\ handshakes[s] = 0
             /\ handshakeError[s] = None /\ handshakes'[s] > 0 /\ coreId'[s] \in CoreIds
             /\ stage'[s] = "DONE" /\ UNCHANGED claimed
             /\ \A x \in Sessions \ {s} : coreId'[x] = coreId[x]
  BY <1>4 DEF HelloRead, HasBytes, LifeInv, ReportInv, ReadPoints, TypeInv, HelloTypeOK
<1>5. CASE ReadHello(s)
  <2>1. /\ state'[s] = "connected" /\ pc'[s] = "frame"
        /\ UNCHANGED <<closes, cause, socket, handshakeError>>
        /\ HelloRead(s)
    BY <1>5 DEF ReadHello, TypeInv, EndTypeOK, RunTypeOK
  <2>2. Came(s)
    BY <1>4, <2>1 DEF Came
  <2>3. ReportInv(s)'
    BY <1>4, <2>1, GatewayConstants
    DEF ReportInv, Live, OffloadPoints, TypeInv, HelloTypeOK
  <2> QED
    BY <1>4, <2>1, <2>2, <2>3 DEF Apart
<1>6. ASSUME NEW why \in Causes, ReadHelloAndEnd(s, why)
      PROVE  Goal
  <2>1. /\ why \in {"host", "error"} /\ HelloRead(s) /\ pc'[s] = "done"
        /\ handshakeError'[s] = IF why = "error" THEN "other" ELSE handshakeError[s]
        /\ \A x \in Sessions \ {s} : handshakeError'[x] = handshakeError[x]
    BY <1>6 DEF ReadHelloAndEnd, TypeInv, RunTypeOK
  <2>2. /\ state'[s] = "closed" /\ closes'[s] = closes[s] + 1 /\ cause'[s] = why
        /\ socket'[s] # "open" /\ \A x \in Sessions \ {s} : cause'[x] = cause[x]
    BY <1>6, DisconnectSeen DEF ReadHelloAndEnd
  <2>3. "other" # None
    BY GatewayConstants DEF Errors
  <2>4. CameAndWent(s)
    BY <1>4, <2>1, <2>2, <2>3, GatewayConstants DEF CameAndWent, ErrorTells
  <2>5. ReportInv(s)'
    BY <1>4, <2>1, <2>2 DEF ReportInv, Live, OffloadPoints, TypeInv, HelloTypeOK
  <2> QED
    BY <1>4, <2>1, <2>2, <2>4, <2>5 DEF Apart
<1>7. CASE ReadRejected(s) \/ FrameThrows(s)
  <2>1. "other" \in Errors /\ Catch(s, "other") /\ UNCHANGED helloVars
        /\ pc[s] \in ReadPoints
    BY <1>7 DEF Errors, ReadRejected, FrameThrows, FrameRead, ReadPoints
  <2>2. state[s] # "unborn"
    BY <2>1 DEF LifeInv, ReadPoints
  <2> QED
    BY <2>1, <2>2, CatchSeen
<1>8. ASSUME NEW err \in Errors, HandshakeFails(s, err)
      PROVE  Goal
  <2>1. pc[s] \in OffloadPoints \cup {"hello"}
    BY <1>8 DEF HandshakeFails, Failures, OffloadPoints
  <2>2. state[s] # "unborn"
    BY <2>1 DEF LifeInv
  <2> QED
    BY <1>8, <2>2, CatchSeen DEF HandshakeFails
<1>9. \* A frame is read: the session is connected, or the host has just ended it.
      ASSUME FrameRead(s)
      PROVE  /\ state[s] \in {"connected", "closed"} /\ pc[s] = "frame"
             /\ closes[s] = IF state[s] = "closed" THEN 1 ELSE 0
             /\ UNCHANGED <<stage, claimed, coreId, handshakes>>
  BY <1>9 DEF FrameRead, helloVars, LifeInv
<1>10. CASE \/ FrameAbsorbed(s)
            \/ \E c \in Calls : FrameAnswers(s, c)
            \/ \E t \in Tokens : FrameCollides(s, t)
  <2>1. /\ FrameRead(s) /\ LoopTest(s)
        /\ UNCHANGED <<state, closes, cause, socket, handshakeError>>
    BY <1>10 DEF FrameAbsorbed, FrameAnswers, FrameCollides, endVars
  <2>2. pc'[s] \in {"frame", "done"}
    BY <2>1 DEF LoopTest, TypeInv, RunTypeOK
  <2> QED
    BY <1>9, <2>1, <2>2 DEF Apart, Keeps, ReportInv, Live, OffloadPoints
<1>11. ASSUME NEW why \in Causes, FrameEnds(s, why)
       PROVE  Goal
  <2>1. /\ FrameRead(s) /\ LoopTest(s) /\ UNCHANGED handshakeError
        /\ why \in {"aes", "host"} /\ DisconnectOnce(s, why)
    BY <1>11 DEF FrameEnds
  <2>2. CASE state[s] = "closed"
    <3>1. UNCHANGED <<state, closes, cause, socket>>
      BY <2>1, <2>2 DEF DisconnectOnce, endVars
    <3>2. pc'[s] = "done" /\ socket'[s] # "open"
      BY <2>1, <2>2, <3>1 DEF LoopTest, TypeInv, RunTypeOK, ReportInv, Live
    <3> QED
      BY <1>9, <2>1, <2>2, <3>1, <3>2, EndReport DEF Apart, Keeps
  <2>3. CASE state[s] # "closed"
    <3>1. /\ state'[s] = "closed" /\ closes'[s] = closes[s] + 1 /\ cause'[s] = why
          /\ socket'[s] # "open" /\ \A x \in Sessions \ {s} : cause'[x] = cause[x]
      BY <2>1, <2>3, DisconnectSeen DEF DisconnectOnce
    <3>2. pc'[s] = "done"
      BY <2>1, <3>1 DEF LoopTest, TypeInv, RunTypeOK
    <3>3. Went(s)
      BY <1>9, <2>1, <2>3, <3>1 DEF Went, ErrorTells, ReportInv, Live
    <3> QED
      BY <1>9, <2>1, <3>1, <3>2, <3>3, EndReport DEF Apart
  <2> QED
    BY <2>2, <2>3
<1> QED
  BY <1>1, <1>2, <1>3, <1>5, <1>6, <1>7, <1>8, <1>10, <1>11 DEF Resume

\* A callback that ends a session stores no error.
LEMMA CallbackEndSeen ==
  ASSUME NEW s \in Sessions, NEW why, TypeInv, LifeInv(s), ReportInv(s),
         state[s] \notin {"unborn", "closed"}, why # "error", Finalize({s}, why),
         socket'[s] # "open", UNCHANGED runVars
  PROVE  Apart(s) /\ ReportInv(s)' /\ Went(s)
<1>1. UNCHANGED <<pc, handshakeError, stage, claimed, coreId, handshakes>>
  BY DEF runVars, helloVars
<1>2. /\ state'[s] = "closed" /\ closes'[s] = closes[s] + 1 /\ cause'[s] = why
      /\ \A x \in Sessions \ {s} : cause'[x] = cause[x]
  BY FinalizeSeen
<1>3. Live(s) /\ closes[s] = 0 /\ stage[s] # None /\ handshakeError[s] = None
  BY DEF LifeInv, ReportInv, Live, TypeInv, EndTypeOK
<1>4. Went(s)
  BY <1>1, <1>2, <1>3 DEF Went, ErrorTells
<1> QED
  BY <1>1, <1>2, <1>4, EndReport DEF Apart

\* What a callback shows to the listeners.
LEMMA CallbackSeen ==
  ASSUME NEW s \in Sessions, TypeInv, LifeInv(s), ReportInv(s), Callback(s)
  PROVE  Apart(s) /\ ReportInv(s)' /\ (Keeps(s) \/ Went(s))
<1>1. ASSUME UNCHANGED <<pc, handshakeError, stage, claimed, coreId, handshakes, state,
                         closes, cause>>,
             socket'[s] = "open" => socket[s] = "open"
      PROVE  Apart(s) /\ ReportInv(s)' /\ Keeps(s)
  BY <1>1 DEF Apart, Keeps, ReportInv, Live
<1>2. CASE \/ \E n \in 1 .. MaxReads : Data(s, n)
           \/ \E result \in {"ok", "missing", "err"} : Answer(s, result)
           \/ \E c \in Calls, k \in Tokens : Request(s, c, k) \/ RequestThrows(s, c, k)
           \/ \E c \in Calls : RequestRefused(s, c)
  BY <1>1, <1>2 DEF Data, Answer, Request, RequestThrows, RequestRefused, runVars,
                    helloVars, endVars
<1>3. CASE IdleTimeout(s)
  <2>1. UNCHANGED runVars /\ state[s] # "unborn"
    BY <1>3 DEF IdleTimeout, LifeInv
  <2>2. CASE state[s] = "closed"
    BY <1>1, <1>3, <2>2 DEF IdleTimeout, runVars, helloVars
  <2>3. CASE state[s] # "closed"
    <3>1. Disconnect({s}, "idle")
      BY <1>3, <2>3 DEF IdleTimeout
    <3> QED
      BY <2>1, <2>3, <3>1, DisconnectSeen, CallbackEndSeen DEF Disconnect
  <2> QED
    BY <2>2, <2>3
<1>4. CASE SocketError(s) \/ SocketClose(s)
  <2>1. /\ UNCHANGED runVars /\ socket[s] # None /\ socket'[s] # "open"
        /\ FinalizeOnce(s, "socketError") \/ FinalizeOnce(s, "socketClose")
    BY <1>4, SessionConstants DEF SocketError, SocketClose, TypeInv, SocketTypeOK
  <2>2. state[s] # "unborn"
    BY <2>1 DEF LifeInv
  <2>3. CASE state[s] = "closed"
    BY <1>1, <2>1, <2>3 DEF FinalizeOnce, endVars, runVars, helloVars
  <2>4. CASE state[s] # "closed"
    BY <2>1, <2>2, <2>4, CallbackEndSeen DEF FinalizeOnce
  <2> QED
    BY <2>3, <2>4
<1>5. CASE HostDisconnect(s)
  <2>1. UNCHANGED runVars /\ state[s] \notin {"unborn", "closed"} /\ Disconnect({s}, "host")
    BY <1>5 DEF HostDisconnect, LifeInv
  <2> QED
    BY <2>1, DisconnectSeen, CallbackEndSeen DEF Disconnect
<1> QED
  BY <1>2, <1>3, <1>4, <1>5 DEF Callback

\* One step of one session, as the listeners see it.
LEMMA StepSeen ==
  ASSUME ~Pipelining, NEW s \in Sessions, TypeInv, Life, Reportable,
         Resume(s) \/ Callback(s)
  PROVE  /\ Reportable'
         /\ \A x \in Sessions \ {s} : Keeps(x)
         /\ Keeps(s) \/ Came(s) \/ CameAndWent(s) \/ Went(s)
<1>1. LifeInv(s) /\ ReportInv(s)
  BY DEF Life, Reportable
<1>2. OthersUntouched(s)
  BY <1>1, ResumeLife, CallbackLife
<1>3. /\ Apart(s) /\ ReportInv(s)'
      /\ Keeps(s) \/ Came(s) \/ CameAndWent(s) \/ Went(s)
  BY <1>1, ResumeSeen, CallbackSeen
<1>4. \A x \in Sessions \ {s} : Keeps(x)
  BY <1>2, <1>3 DEF OthersUntouched, Untouched, Apart, Keeps
<1>5. \A x \in Sessions \ {s} : ReportInv(x)'
  BY <1>2, <1>3, AsideReport DEF OthersUntouched, Apart, Reportable
<1> QED
  BY <1>3, <1>4, <1>5 DEF Reportable

-----------------------------------------------------------------------------
(* The listeners.                                                           *)

GatewayTypeOK ==
  /\ server \in {"down", "listening", "stopping", "stopped"}
  /\ sessions \in SUBSET Sessions
  /\ registry \in [CoreIds -> Sessions \cup {None}]
  /\ failed \in [Sessions -> Verdicts \cup {None}]
  /\ gone \in [Sessions -> Reasons \cup {None}]

\* Every failure has a result; "aborted" is that of a session without an error.
LEMMA FailureReason ==
  ASSUME NEW err, NEW stg
  PROVE  /\ handshakeFailureReason(err, stg) \in Verdicts
         /\ err \in Errors => handshakeFailureReason(err, stg) # "aborted"
         /\ err = None /\ stg # None => handshakeFailureReason(err, stg) = "aborted"
BY GatewayConstants DEF handshakeFailureReason, Verdicts, Errors

LEMMA GoneReason ==
  ASSUME NEW err
  PROVE  /\ disconnectReason(err) \in Reasons
         /\ err \in Errors => disconnectReason(err) # "peer_close"
         /\ err = None => disconnectReason(err) = "peer_close"
BY GatewayConstants DEF disconnectReason, Reasons, Errors

LEMMA ListenersType ==
  ASSUME GatewayTypeOK, Listeners
  PROVE  /\ registry' \in [CoreIds -> Sessions \cup {None}]
         /\ failed' \in [Sessions -> Verdicts \cup {None}]
         /\ gone' \in [Sessions -> Reasons \cup {None}]
<1>1. \A d \in CoreIds : (\E s \in HandshakeEmitted : coreId'[s] = d) =>
        (CHOOSE s \in HandshakeEmitted : coreId'[s] = d) \in Sessions
  BY DEF HandshakeEmitted
<1>2. registry' \in [CoreIds -> Sessions \cup {None}]
  BY <1>1 DEF Listeners, UpdateRegistry, GatewayTypeOK
<1>3. failed' \in [Sessions -> Verdicts \cup {None}]
  BY FailureReason DEF Listeners, ReportEnd, GatewayTypeOK
<1>4. gone' \in [Sessions -> Reasons \cup {None}]
  BY GoneReason DEF Listeners, ReportEnd, GatewayTypeOK
<1> QED
  BY <1>2, <1>3, <1>4

\* Which listeners run.
LEMMA Emitted ==
  ASSUME NEW x \in Sessions
  PROVE  /\ Keeps(x) => x \notin HandshakeEmitted /\ x \notin CloseEmitted
         /\ Came(x) => x \in HandshakeEmitted /\ x \notin CloseEmitted
         /\ CameAndWent(x) => x \in HandshakeEmitted /\ x \in CloseEmitted
         /\ Went(x) => x \notin HandshakeEmitted /\ x \in CloseEmitted
BY DEF HandshakeEmitted, CloseEmitted, Keeps, Came, CameAndWent, Went

\* What the listeners do when nothing is emitted, and for each kind of step.
LEMMA NothingTold ==
  ASSUME GatewayTypeOK, \A x \in Sessions : Keeps(x), Listeners
  PROVE  UNCHANGED <<registry, failed, gone>>
<1>1. HandshakeEmitted = {} /\ CloseEmitted = {}
  BY Emitted DEF HandshakeEmitted, CloseEmitted
<1> QED
  BY <1>1 DEF Listeners, UpdateRegistry, Unregisters, ReportEnd, GatewayTypeOK

LEMMA CameTold ==
  ASSUME NEW s \in Sessions, GatewayTypeOK, Came(s), \A x \in Sessions \ {s} : Keeps(x),
         Listeners
  PROVE  /\ registry' = [registry EXCEPT ![coreId'[s]] = s]
         /\ UNCHANGED <<failed, gone>>
<1>1. HandshakeEmitted = {s} /\ CloseEmitted = {}
  BY Emitted DEF HandshakeEmitted, CloseEmitted
<1>2. \A d \in CoreIds : coreId'[s] = d => (CHOOSE x \in {s} : coreId'[x] = d) = s
  OBVIOUS
<1>3. registry' = [registry EXCEPT ![coreId'[s]] = s]
  BY <1>1, <1>2 DEF Listeners, UpdateRegistry, Unregisters, GatewayTypeOK
<1> QED
  BY <1>1, <1>3 DEF Listeners, ReportEnd, GatewayTypeOK

LEMMA CameAndWentTold ==
  ASSUME NEW s \in Sessions, GatewayTypeOK, CameAndWent(s),
         \A x \in Sessions \ {s} : Keeps(x), Listeners
  PROVE  /\ registry' = [registry EXCEPT ![coreId'[s]] = None]
         /\ gone' = [gone EXCEPT ![s] = disconnectReason(handshakeError'[s])]
         /\ UNCHANGED failed
<1>1. HandshakeEmitted = {s} /\ CloseEmitted = {s}
  BY Emitted DEF HandshakeEmitted, CloseEmitted
<1>2. Succeeded(s) /\ coreId'[s] # None
  BY SessionConstants DEF CameAndWent, Succeeded
<1>3. registry' = [registry EXCEPT ![coreId'[s]] = None]
  BY <1>1 DEF Listeners, UpdateRegistry, Unregisters, GatewayTypeOK
<1> QED
  BY <1>1, <1>2, <1>3 DEF Listeners, ReportEnd, GatewayTypeOK

LEMMA WentTold ==
  ASSUME NEW S \in SUBSET Sessions, TypeInv, Reportable, GatewayTypeOK,
         \A x \in S : Went(x), \A x \in Sessions \ S : Keeps(x), Listeners
  PROVE  /\ registry' = [d \in CoreIds |->
                           IF \E s \in S : coreId[s] = d THEN None ELSE registry[d]]
         /\ \A x \in Sessions \ S : failed'[x] = failed[x] /\ gone'[x] = gone[x]
         /\ \A x \in S : handshakes[x] = 0 =>
              /\ failed'[x] = handshakeFailureReason(handshakeError'[x], stage'[x])
              /\ gone'[x] = gone[x]
         /\ \A x \in S : handshakes[x] > 0 =>
              /\ failed'[x] = failed[x]
              /\ gone'[x] = disconnectReason(handshakeError'[x])
<1>1. HandshakeEmitted = {} /\ CloseEmitted = S
  BY Emitted DEF HandshakeEmitted, CloseEmitted
<1>2. \A x \in S : coreId'[x] = coreId[x] /\ handshakes'[x] = handshakes[x]
  BY DEF Went
<1>3. registry' = [d \in CoreIds |->
                     IF \E s \in S : coreId[s] = d THEN None ELSE registry[d]]
  BY <1>1, <1>2 DEF Listeners, UpdateRegistry, Unregisters
<1>4. \A x \in S : handshakes[x] > 0 => coreId[x] # None
  BY SessionConstants DEF Reportable, ReportInv
<1>5. \A x \in S : handshakes[x] = 0 => ~(handshakes[x] > 0)
  OBVIOUS
<1> QED
  BY <1>1, <1>2, <1>3, <1>4, <1>5 DEF Listeners, ReportEnd, Succeeded

-----------------------------------------------------------------------------
(* The invariant.                                                           *)

\* The parts of OneVerdict for one session.
VerdictOf(s) ==
  /\ (failed[s] # None) <=> (state[s] = "closed" /\ handshakes[s] = 0)
  /\ (gone[s] # None) <=> (state[s] = "closed" /\ handshakes[s] > 0)
  /\ cause[s] = "error" => failed[s] # "aborted" /\ gone[s] # "peer_close"
  /\ cause[s] \in {"socketClose", "host"} => failed[s] \in {None, "aborted"}
  /\ cause[s] = "socketClose" => gone[s] \in {None, "peer_close"}

LEMMA VerdictKept ==
  ASSUME NEW x \in Sessions, Keeps(x), VerdictOf(x),
         failed'[x] = failed[x], gone'[x] = gone[x]
  PROVE  VerdictOf(x)'
BY DEF Keeps, VerdictOf

\* The report on a session that ends.
LEMMA VerdictGiven ==
  ASSUME NEW x \in Sessions, TypeInv, TypeInv', VerdictOf(x), state[x] # "closed",
         state'[x] = "closed", ErrorTells(x), stage'[x] # None,
         \/ /\ handshakes'[x] = 0
            /\ failed'[x] = handshakeFailureReason(handshakeError'[x], stage'[x])
            /\ gone'[x] = gone[x]
         \/ /\ handshakes'[x] > 0
            /\ failed'[x] = failed[x]
            /\ gone'[x] = disconnectReason(handshakeError'[x])
  PROVE  VerdictOf(x)'
<1>1. handshakeError'[x] \in Errors \cup {None} /\ handshakes'[x] \in Nat
  BY DEF TypeInv, RunTypeOK, HelloTypeOK
<1>2. None \notin Verdicts /\ None \notin Reasons /\ None \notin Errors
  BY GatewayConstants
<1>3. failed[x] = None /\ gone[x] = None
  BY DEF VerdictOf
<1>4. CASE handshakes'[x] = 0
  <2>1. /\ failed'[x] = handshakeFailureReason(handshakeError'[x], stage'[x])
        /\ gone'[x] = None
    BY <1>3, <1>4
  <2>2. failed'[x] \in Verdicts /\ (failed'[x] = "aborted" <=> handshakeError'[x] = None)
    BY <1>1, <1>2, <2>1, FailureReason
  <2> QED
    BY <1>2, <1>4, <2>1, <2>2 DEF VerdictOf, ErrorTells, Reasons
<1>5. CASE handshakes'[x] > 0
  <2>1. failed'[x] = None /\ gone'[x] = disconnectReason(handshakeError'[x])
    BY <1>3, <1>5
  <2>2. gone'[x] \in Reasons /\ (gone'[x] = "peer_close" <=> handshakeError'[x] = None)
    BY <1>1, <1>2, <2>1, GoneReason
  <2> QED
    BY <1>2, <1>5, <2>1, <2>2 DEF VerdictOf, ErrorTells, Verdicts
<1> QED
  BY <1>1, <1>4, <1>5

\* When no session is live the registry is empty and no socket is open.
LEMMA DeadIsQuiet ==
  ASSUME GatewayTypeOK', Reportable', RegistryLive', \A s \in Sessions : ~Live(s)'
  PROVE  StoppedIsQuiet'
BY DEF GatewayTypeOK, Reportable, ReportInv, RegistryLive, StoppedIsQuiet, Live

\* A step that brings no session to life keeps a stopped gateway quiet.
LEMMA StaysQuiet ==
  ASSUME GatewayTypeOK', Reportable', RegistryLive', StoppedIsQuiet, UNCHANGED server,
         \A s \in Sessions : Live(s)' => Live(s)
  PROVE  StoppedIsQuiet'
<1>1. CASE server \in {"stopping", "stopped"}
  BY <1>1, DeadIsQuiet DEF StoppedIsQuiet
<1>2. CASE server \notin {"stopping", "stopped"}
  BY <1>2 DEF StoppedIsQuiet
<1> QED
  BY <1>1, <1>2

GatewayInv == GatewayTypeOK /\ Tracked /\ OneVerdict /\ StoppedIsQuiet

\* Nothing that the listeners look at has changed.
LEMMA KeepsInv ==
  ASSUME GatewayInv, GatewayTypeOK', Reportable', \A x \in Sessions : Keeps(x),
         UNCHANGED <<sessions, registry, failed, gone>>
  PROVE  /\ Tracked' /\ OneVerdict'
         /\ \A x \in Sessions : Live(x)' => Live(x)
<1>1. SessionsTracked'
  BY DEF GatewayInv, Tracked, SessionsTracked, Live, Keeps
<1>2. RegistryLive'
  BY DEF GatewayInv, GatewayTypeOK, Tracked, RegistryLive, Keeps
<1>3. OneVerdict'
  <2> SUFFICES ASSUME NEW x \in Sessions PROVE VerdictOf(x)'
    BY DEF OneVerdict, VerdictOf
  <2>1. VerdictOf(x)
    BY DEF GatewayInv, OneVerdict, VerdictOf
  <2> QED
    BY <2>1, VerdictKept
<1> QED
  BY <1>1, <1>2, <1>3 DEF Tracked, Live, Keeps

\* A session comes online.
LEMMA CameInv ==
  ASSUME NEW s \in Sessions, GatewayInv, Came(s), \A x \in Sessions \ {s} : Keeps(x),
         Listeners, Untrack
  PROVE  /\ Tracked' /\ OneVerdict'
         /\ \A x \in Sessions : Live(x)' => Live(x)
<1>1. /\ registry' = [registry EXCEPT ![coreId'[s]] = s]
      /\ UNCHANGED <<failed, gone>>
  BY CameTold DEF GatewayInv
<1>2. UNCHANGED sessions
  BY Emitted DEF Untrack, CloseEmitted
<1>3. SessionsTracked'
  BY <1>2 DEF GatewayInv, Tracked, SessionsTracked, Live, Keeps, Came
<1>4. RegistryLive'
  <2> SUFFICES ASSUME NEW d \in CoreIds, registry'[d] # None
               PROVE  state'[registry'[d]] = "connected" /\ coreId'[registry'[d]] = d
    BY DEF RegistryLive
  <2>1. CASE d = coreId'[s]
    BY <1>1, <2>1 DEF GatewayInv, GatewayTypeOK, Came
  <2>2. CASE d # coreId'[s]
    <3>1. registry'[d] = registry[d] /\ registry[d] \in Sessions
      BY <1>1, <2>2 DEF GatewayInv, GatewayTypeOK
    <3>2. state[registry[d]] = "connected" /\ coreId[registry[d]] = d
      BY <3>1 DEF GatewayInv, Tracked, RegistryLive
    <3>3. registry[d] # s
      BY <3>2 DEF Came
    <3> QED
      BY <3>1, <3>2, <3>3 DEF Keeps
  <2> QED
    BY <2>1, <2>2
<1>5. OneVerdict'
  <2> SUFFICES ASSUME NEW x \in Sessions PROVE VerdictOf(x)'
    BY DEF OneVerdict, VerdictOf
  <2>1. VerdictOf(x)
    BY DEF GatewayInv, OneVerdict, VerdictOf
  <2>2. CASE x = s
    BY <1>1, <2>1, <2>2, GatewayConstants DEF VerdictOf, Came, Verdicts, Reasons
  <2>3. CASE x # s
    BY <1>1, <2>1, <2>3, VerdictKept
  <2> QED
    BY <2>2, <2>3
<1> QED
  BY <1>3, <1>4, <1>5 DEF Tracked, Live, Keeps, Came

\* A session comes online and is ended by the host's listener.
LEMMA CameAndWentInv ==
  ASSUME NEW s \in Sessions, TypeInv, TypeInv', GatewayInv, CameAndWent(s),
         \A x \in Sessions \ {s} : Keeps(x), Listeners, Untrack
  PROVE  /\ Tracked' /\ OneVerdict'
         /\ \A x \in Sessions : Live(x)' => Live(x)
<1>1. /\ registry' = [registry EXCEPT ![coreId'[s]] = None]
      /\ gone' = [gone EXCEPT ![s] = disconnectReason(handshakeError'[s])]
      /\ UNCHANGED failed
  BY CameAndWentTold DEF GatewayInv
<1>2. sessions' = sessions \ {s}
  BY Emitted DEF Untrack, CloseEmitted
<1>3. SessionsTracked'
  BY <1>2 DEF GatewayInv, Tracked, SessionsTracked, Live, Keeps, CameAndWent
<1>4. RegistryLive'
  <2> SUFFICES ASSUME NEW d \in CoreIds, registry'[d] # None
               PROVE  state'[registry'[d]] = "connected" /\ coreId'[registry'[d]] = d
    BY DEF RegistryLive
  <2>1. registry'[d] = registry[d] /\ registry[d] \in Sessions
    BY <1>1 DEF GatewayInv, GatewayTypeOK
  <2>2. state[registry[d]] = "connected" /\ coreId[registry[d]] = d
    BY <2>1 DEF GatewayInv, Tracked, RegistryLive
  <2>3. registry[d] # s
    BY <2>2 DEF CameAndWent
  <2> QED
    BY <2>1, <2>2, <2>3 DEF Keeps
<1>5. OneVerdict'
  <2> SUFFICES ASSUME NEW x \in Sessions PROVE VerdictOf(x)'
    BY DEF OneVerdict, VerdictOf
  <2>1. VerdictOf(x)
    BY DEF GatewayInv, OneVerdict, VerdictOf
  <2>2. CASE x = s
    <3>1. gone'[s] = disconnectReason(handshakeError'[s]) /\ failed'[s] = failed[s]
      BY <1>1 DEF GatewayInv, GatewayTypeOK
    <3> QED
      BY <2>1, <2>2, <3>1, VerdictGiven DEF CameAndWent
  <2>3. CASE x # s
    <3>1. gone'[x] = gone[x] /\ failed'[x] = failed[x]
      BY <1>1, <2>3 DEF GatewayInv, GatewayTypeOK
    <3> QED
      BY <2>1, <2>3, <3>1, VerdictKept
  <2> QED
    BY <2>2, <2>3
<1> QED
  BY <1>3, <1>4, <1>5 DEF Tracked, Live, Keeps, CameAndWent

\* Sessions end: one by itself, or all that are live when the gateway stops.
LEMMA WentInv ==
  ASSUME NEW S \in SUBSET Sessions, TypeInv, TypeInv', Reportable, GatewayInv,
         \A x \in S : Went(x), \A x \in Sessions \ S : Keeps(x),
         Listeners, sessions' = sessions \ S
  PROVE  /\ Tracked' /\ OneVerdict'
         /\ \A x \in Sessions : Live(x)' => Live(x)
<1>1. /\ registry' = [d \in CoreIds |->
                        IF \E s \in S : coreId[s] = d THEN None ELSE registry[d]]
      /\ \A x \in Sessions \ S : failed'[x] = failed[x] /\ gone'[x] = gone[x]
      /\ \A x \in S : handshakes[x] = 0 =>
           /\ failed'[x] = handshakeFailureReason(handshakeError'[x], stage'[x])
           /\ gone'[x] = gone[x]
      /\ \A x \in S : handshakes[x] > 0 =>
           /\ failed'[x] = failed[x]
           /\ gone'[x] = disconnectReason(handshakeError'[x])
  BY WentTold DEF GatewayInv
<1>2. SessionsTracked'
  BY DEF GatewayInv, Tracked, SessionsTracked, Live, Keeps, Went
<1>3. RegistryLive'
  <2> SUFFICES ASSUME NEW d \in CoreIds, registry'[d] # None
               PROVE  state'[registry'[d]] = "connected" /\ coreId'[registry'[d]] = d
    BY DEF RegistryLive
  <2>1. registry'[d] = registry[d] /\ ~\E s \in S : coreId[s] = d
    BY <1>1
  <2>2. registry[d] \in Sessions
    BY <2>1 DEF GatewayInv, GatewayTypeOK
  <2>3. state[registry[d]] = "connected" /\ coreId[registry[d]] = d
    BY <2>1 DEF GatewayInv, Tracked, RegistryLive
  <2> QED
    BY <2>1, <2>2, <2>3 DEF Keeps
<1>4. OneVerdict'
  <2> SUFFICES ASSUME NEW x \in Sessions PROVE VerdictOf(x)'
    BY DEF OneVerdict, VerdictOf
  <2>1. VerdictOf(x)
    BY DEF GatewayInv, OneVerdict, VerdictOf
  <2>2. CASE x \in S
    <3>1. /\ state[x] # "closed" /\ state'[x] = "closed" /\ ErrorTells(x)
          /\ stage'[x] # None /\ handshakes'[x] = handshakes[x]
      BY <2>2 DEF Went, Live
    <3>2. handshakes[x] = 0 \/ handshakes[x] > 0
      <4>1. handshakes[x] \in Nat
        BY DEF TypeInv, HelloTypeOK
      <4> QED
        BY <4>1
    <3> QED
      BY <1>1, <2>1, <2>2, <3>1, <3>2, VerdictGiven
  <2>3. CASE x \notin S
    BY <1>1, <2>1, <2>3, VerdictKept
  <2> QED
    BY <2>2, <2>3
<1> QED
  BY <1>2, <1>3, <1>4 DEF Tracked, Live, Keeps, Went

-----------------------------------------------------------------------------
(* Every step of the gateway is of one of five kinds.                       *)

Opens(s) ==
  /\ state[s] = "unborn" /\ state'[s] = "handshaking"
  /\ closes'[s] = closes[s] /\ handshakes'[s] = handshakes[s]
  /\ coreId'[s] = coreId[s] /\ cause'[s] = cause[s]

CalmStep ==
  /\ \A x \in Sessions : Keeps(x)
  /\ UNCHANGED <<sessions, registry, failed, gone>>
  /\ \/ UNCHANGED server
     \/ server' = "listening"
     \/ server = "stopping" /\ server' = "stopped"

OpenStep(s) ==
  /\ Opens(s) /\ \A x \in Sessions \ {s} : Keeps(x)
  /\ server = "listening" /\ server' = server
  /\ sessions' = sessions \cup {s}
  /\ UNCHANGED <<registry, failed, gone>>

CameStep(s) ==
  /\ Came(s) /\ \A x \in Sessions \ {s} : Keeps(x)
  /\ Listeners /\ Untrack /\ UNCHANGED server

CameAndWentStep(s) ==
  /\ CameAndWent(s) /\ \A x \in Sessions \ {s} : Keeps(x)
  /\ Listeners /\ Untrack /\ UNCHANGED server

WentStep(S) ==
  /\ \A x \in S : Went(x)
  /\ \A x \in Sessions \ S : Keeps(x)
  /\ Listeners /\ sessions' = sessions \ S
  /\ UNCHANGED server \/ \A x \in Sessions : Live(x) => x \in S

\* The session half of the invariant.  The gateway only adds to a session's step
\* what the listeners do; stop() is the one step of its own.
SessionsInv == TypeInv /\ Life /\ Reportable

LEMMA OwnStep ==
  [Next]_vars /\ ~Stop => [SessionNext]_sessionVars
BY DEF Next, vars, Start, OnConnection, SessionStep, CallStep, StopResolved, SessionNext

\* stop() ends every live session in one step; run() is at an await in each of
\* them, with no bytes of the handshake buffered that it could still read.
LEMMA StopSeen ==
  ASSUME SessionsInv, SessionsTracked, Stop
  PROVE  /\ SessionsInv'
         /\ \A x \in ToStop : Went(x)
         /\ \A x \in Sessions \ ToStop : Keeps(x)
         /\ sessions' = sessions \ ToStop
         /\ \A x \in Sessions : Live(x) => x \in ToStop
<1>1. /\ ToStop \in SUBSET Sessions
      /\ \A x \in Sessions : x \in ToStop <=> Live(x)
      /\ sessions \ ToStop = {}
  BY DEF SessionsTracked, ToStop, Live
<1>2. HostTurn /\ Disconnect(ToStop, "host") /\ UNCHANGED runVars /\ sessions' = {}
  BY DEF Stop
<1>3. UNCHANGED <<pc, handshakeError, stage, claimed, coreId, handshakes, queue, sent>>
  BY <1>2 DEF runVars, helloVars, readVars
<1>4. /\ \A x \in ToStop : /\ state'[x] = "closed" /\ closes'[x] = closes[x] + 1
                           /\ cause'[x] = "host" /\ socket'[x] # "open"
      /\ \A x \in Sessions \ ToStop : /\ state'[x] = state[x] /\ closes'[x] = closes[x]
                                      /\ cause'[x] = cause[x] /\ socket'[x] = socket[x]
                                      /\ idleTimer'[x] = idleTimer[x]
  BY <1>1, <1>2 DEF Disconnect, Finalize
<1>5. TypeInv'
  <2>1. "host" \in Causes
    BY DEF Causes
  <2>2. EndTypeOK' /\ SocketTypeOK'
    BY <1>1, <1>2, <2>1, DisconnectType DEF SessionsInv, TypeInv
  <2> QED
    BY <1>2, <2>2, UnchangedRunType DEF SessionsInv, TypeInv
<1>6. ASSUME NEW x \in ToStop
      PROVE  LifeInv(x)' /\ ReportInv(x)' /\ Went(x)
  <2>1. x \in Sessions /\ Live(x) /\ LifeInv(x) /\ ReportInv(x)
    BY <1>1, <1>6 DEF SessionsInv, Life, Reportable
  <2>2. pc[x] \in {"blob", "hello"} => ~(queue[x] > 0)
    BY <1>2, <2>1 DEF HostTurn, Ready, ReadPoints
  <2>3. LifeInv(x)'
    BY <1>3, <1>4, <2>1, <2>2
    DEF LifeInv, Live, OffloadPoints, ReadPoints, SessionsInv, TypeInv, EndTypeOK, RunTypeOK
  <2>4. closes[x] = 0 /\ stage[x] # None /\ handshakeError[x] = None
    BY <2>1 DEF LifeInv, ReportInv, Live
  <2>5. Went(x)
    BY <1>3, <1>4, <2>1, <2>4 DEF Went, ErrorTells
  <2>6. ReportInv(x)'
    BY <1>3, <1>4, <2>1, EndReport DEF SessionsInv
  <2> QED
    BY <2>3, <2>5, <2>6
<1>7. ASSUME NEW x \in Sessions \ ToStop
      PROVE  LifeInv(x)' /\ ReportInv(x)' /\ Keeps(x)
  <2>1. LifeInv(x) /\ ReportInv(x)
    BY DEF SessionsInv, Life, Reportable
  <2>2. Untouched(x)
    BY <1>3, <1>4 DEF Untouched
  <2> QED
    BY <1>3, <1>4, <2>1, <2>2, UntouchedLife, AsideReport DEF Keeps
<1> QED
  BY <1>1, <1>2, <1>5, <1>6, <1>7 DEF SessionsInv, Life, Reportable

\* The kinds of steps.
LEMMA StepKinds ==
  ASSUME ~Pipelining, SessionsInv, GatewayTypeOK, SessionsTracked, [Next]_vars
  PROVE  /\ SessionsInv'
         /\ \/ CalmStep
            \/ \E s \in Sessions : OpenStep(s) \/ CameStep(s) \/ CameAndWentStep(s)
            \/ \E S \in SUBSET Sessions : WentStep(S)
<1> USE DEF SessionsInv
<1>1. ASSUME UNCHANGED <<pc, handshakeError, stage, claimed, coreId, handshakes, state,
                         closes, cause, socket>>
      PROVE  Reportable' /\ \A x \in Sessions : Keeps(x)
  BY <1>1 DEF Reportable, ReportInv, Live, Keeps
<1>2. CASE UNCHANGED vars \/ Start \/ StopResolved
  <2>1. UNCHANGED sessionVars /\ UNCHANGED <<sessions, registry, failed, gone>>
    BY <1>2 DEF vars, gatewayVars, Start, StopResolved
  <2>2. Reportable' /\ \A x \in Sessions : Keeps(x)
    BY <1>1, <2>1 DEF sessionVars, runVars, helloVars, endVars
  <2>3. TypeInv' /\ Life'
    BY <2>1, TypeStep, LifeStep
  <2> QED
    BY <1>2, <2>1, <2>2, <2>3 DEF CalmStep, vars, gatewayVars, Start, StopResolved
<1>3. ASSUME NEW c \in Calls, CallStep(c)
      PROVE  SessionsInv' /\ CalmStep
  <2>1. Reportable' /\ \A x \in Sessions : Keeps(x)
    BY <1>1, <1>3 DEF CallStep, CallTimeout, runVars, helloVars
  <2>2. [SessionNext]_sessionVars
    BY <1>3 DEF CallStep, SessionNext
  <2> QED
    BY <1>3, <2>1, <2>2, TypeStep, LifeStep DEF CallStep, gatewayVars, CalmStep
<1>4. ASSUME NEW s \in Sessions, OnConnection(s)
      PROVE  SessionsInv' /\ OpenStep(s)
  <2>1. Accept(s) /\ [SessionNext]_sessionVars
    BY <1>4 DEF OnConnection, SessionNext
  <2>2. /\ state[s] = "unborn" /\ state'[s] = "handshaking" /\ pc'[s] = "blob"
        /\ stage'[s] = "READ_COREID"
        /\ UNCHANGED <<claimed, coreId, handshakes, handshakeError, closes, cause>>
        /\ \A x \in Sessions \ {s} : /\ state'[x] = state[x] /\ pc'[x] = pc[x]
                                     /\ stage'[x] = stage[x] /\ socket'[x] = socket[x]
    BY <2>1 DEF Accept, TypeInv, EndTypeOK, RunTypeOK, HelloTypeOK, SocketTypeOK
  <2>3. Reportable'
    BY <2>2, GatewayConstants DEF Reportable, ReportInv, Live, OffloadPoints
  <2>4. HandshakeEmitted = {} /\ CloseEmitted = {}
    BY <2>2 DEF HandshakeEmitted, CloseEmitted
  <2>5. UNCHANGED <<registry, failed, gone>>
    BY <1>4, <2>4 DEF OnConnection, Listeners, UpdateRegistry, Unregisters, ReportEnd,
                      GatewayTypeOK
  <2> QED
    BY <1>4, <2>1, <2>2, <2>3, <2>5, TypeStep, LifeStep
    DEF OnConnection, OpenStep, Opens, Keeps
<1>5. ASSUME NEW s \in Sessions, SessionStep(s)
      PROVE  /\ SessionsInv'
             /\ CalmStep \/ CameStep(s) \/ CameAndWentStep(s) \/ WentStep({s})
  <2>1. /\ Resume(s) \/ Callback(s)
        /\ [SessionNext]_sessionVars
        /\ Listeners /\ Untrack /\ UNCHANGED server
    BY <1>5 DEF SessionStep, SessionNext
  <2>2. /\ Reportable'
        /\ \A x \in Sessions \ {s} : Keeps(x)
        /\ Keeps(s) \/ Came(s) \/ CameAndWent(s) \/ Went(s)
    BY <2>1, StepSeen
  <2>3. TypeInv' /\ Life'
    BY <2>1, TypeStep, LifeStep
  <2>4. CASE Keeps(s)
    <3>1. \A x \in Sessions : Keeps(x)
      BY <2>2, <2>4
    <3>2. UNCHANGED <<registry, failed, gone>>
      BY <2>1, <3>1, NothingTold
    <3>3. UNCHANGED sessions
      BY <2>1, <3>1, Emitted DEF Untrack, CloseEmitted
    <3> QED
      BY <2>1, <2>2, <2>3, <3>1, <3>2, <3>3 DEF CalmStep
  <2>5. CASE Went(s)
    <3>1. CloseEmitted = {s}
      BY <2>2, <2>5, Emitted DEF CloseEmitted
    <3> QED
      BY <2>1, <2>2, <2>3, <2>5, <3>1 DEF WentStep, Untrack
  <2>6. CASE Came(s) \/ CameAndWent(s)
    BY <2>1, <2>2, <2>3, <2>6 DEF CameStep, CameAndWentStep
  <2> QED
    BY <2>2, <2>4, <2>5, <2>6
<1>6. CASE Stop
  <2>1. /\ SessionsInv' /\ ToStop \in SUBSET Sessions
        /\ WentStep(ToStop)
    BY <1>6, StopSeen DEF WentStep, Stop, ToStop, GatewayTypeOK
  <2> QED
    BY <2>1
<1> QED
  BY <1>2, <1>3, <1>4, <1>5, <1>6 DEF Next

-----------------------------------------------------------------------------
(* The theorems.                                                            *)

LEMMA GatewayTypeStep ==
  TypeInv /\ GatewayTypeOK /\ [Next]_vars => TypeInv' /\ GatewayTypeOK'
<1> SUFFICES ASSUME TypeInv, GatewayTypeOK, [Next]_vars
             PROVE  TypeInv' /\ GatewayTypeOK'
  OBVIOUS
<1>1. TypeInv'
  <2>1. CASE Stop
    <3>1. "host" \in Causes /\ ToStop \in SUBSET Sessions
      BY DEF Causes, ToStop, GatewayTypeOK
    <3>2. EndTypeOK' /\ SocketTypeOK'
      BY <2>1, <3>1, DisconnectType DEF Stop, TypeInv
    <3> QED
      BY <2>1, <3>2, UnchangedRunType DEF Stop, TypeInv
  <2> QED
    BY <2>1, OwnStep, TypeStep
<1>2. GatewayTypeOK'
  <2>1. CASE \E s \in Sessions : OnConnection(s) \/ SessionStep(s)
    <3>1. Listeners /\ UNCHANGED server /\ sessions' \in SUBSET Sessions
      BY <2>1 DEF OnConnection, SessionStep, Untrack, GatewayTypeOK
    <3> QED
      BY <3>1, ListenersType DEF GatewayTypeOK
  <2>2. CASE Stop
    BY <2>2, ListenersType DEF Stop, GatewayTypeOK
  <2>3. CASE \/ Start \/ StopResolved \/ UNCHANGED vars
             \/ \E c \in Calls : CallStep(c)
    BY <2>3 DEF Start, StopResolved, CallStep, vars, gatewayVars, GatewayTypeOK
  <2> QED
    BY <2>1, <2>2, <2>3 DEF Next
<1> QED
  BY <1>1, <1>2

LEMMA GatewayTypeBegin == Init => TypeInv /\ GatewayTypeOK
BY TypeBegin DEF Init, GatewayTypeOK

\* Every variable of the sessions and of the gateway keeps its type, stop() with
\* any number of sessions included; in particular only sessions get into the
\* registry and only results the reference lists are reported.
THEOREM GatewayTyped == Spec => []TypeOK
<1>1. TypeInv /\ GatewayTypeOK => TypeOK
  BY DEF TypeInv, EndTypeOK, SocketTypeOK, HelloTypeOK, RunTypeOK, ReadTypeOK,
         SessionTypeOK, GatewayTypeOK, TypeOK
<1> QED
  BY <1>1, GatewayTypeBegin, GatewayTypeStep, PTL DEF Spec

\* The calls of request() stay sound when the gateway stops with calls pending on
\* any number of sessions.
THEOREM GatewayCallsSound == Spec => []CallsSound
<1>1. TypeInv /\ GatewayTypeOK /\ CallsInv /\ [Next]_vars => CallsInv'
  <2> SUFFICES ASSUME TypeInv, GatewayTypeOK, CallsInv, [Next]_vars PROVE CallsInv'
    OBVIOUS
  <2>1. CASE Stop
    <3>1. ToStop \in SUBSET Sessions
      BY DEF ToStop, GatewayTypeOK
    <3> QED
      BY <2>1, <3>1, FinalizeCalls DEF Stop, Disconnect
  <2> QED
    BY <2>1, OwnStep, CallsStep
<1>2. Init => CallsInv
  BY CallsBegin DEF Init
<1>3. CallsInv => CallsSound
  BY DEF CallsInv
<1> QED
  BY <1>1, <1>2, <1>3, GatewayTypeBegin, GatewayTypeStep, PTL DEF Spec

FullInv == SessionsInv /\ GatewayInv

\* The invariant holds when the gateway is constructed.
LEMMA GatewayBegin == Init => FullInv
<1> SUFFICES ASSUME Init PROVE FullInv
  OBVIOUS
<1>1. SessionInit
  BY DEF Init
<1>2. TypeInv /\ GatewayTypeOK
  BY GatewayTypeBegin
<1>3. Life /\ Reportable
  <2> SUFFICES ASSUME NEW s \in Sessions PROVE LifeInv(s) /\ ReportInv(s)
    BY DEF Life, Reportable
  <2>1. /\ state[s] = "unborn" /\ pc[s] = "unborn" /\ closes[s] = 0 /\ sent[s] = 0
        /\ queue[s] = 0 /\ handshakes[s] = 0 /\ socket[s] = None /\ ~idleTimer[s]
        /\ handshakeError[s] = None /\ coreId[s] = None
    BY <1>1 DEF SessionInit
  <2> QED
    BY <2>1, SessionConstants DEF LifeInv, ReportInv, Live, OffloadPoints, ReadPoints
<1>4. Tracked /\ OneVerdict /\ StoppedIsQuiet
  BY <1>1 DEF Init, SessionInit, Tracked, SessionsTracked, RegistryLive, Live, OneVerdict,
              StoppedIsQuiet
<1> QED
  BY <1>2, <1>3, <1>4 DEF FullInv, SessionsInv, GatewayInv

\* Every step of the gateway keeps the invariant.
LEMMA GatewayStep ==
  ASSUME ~Pipelining
  PROVE  FullInv /\ [Next]_vars => FullInv'
<1> SUFFICES ASSUME FullInv, [Next]_vars PROVE FullInv'
  OBVIOUS
<1>1. TypeInv /\ Life /\ Reportable /\ GatewayTypeOK /\ Tracked /\ OneVerdict
      /\ StoppedIsQuiet /\ GatewayInv /\ SessionsInv
  BY DEF FullInv, SessionsInv, GatewayInv
<1>2. TypeInv' /\ GatewayTypeOK'
  BY <1>1, GatewayTypeStep
<1>3. /\ SessionsInv'
      /\ \/ CalmStep
         \/ \E s \in Sessions : OpenStep(s) \/ CameStep(s) \/ CameAndWentStep(s)
         \/ \E S \in SUBSET Sessions : WentStep(S)
  BY <1>1, StepKinds DEF Tracked
<1>4. Reportable'
  BY <1>3 DEF SessionsInv
<1>5. CASE CalmStep
  <2>1. Tracked' /\ OneVerdict' /\ \A x \in Sessions : Live(x)' => Live(x)
    BY <1>1, <1>2, <1>4, <1>5, KeepsInv DEF CalmStep
  <2>2. StoppedIsQuiet'
    <3>1. CASE UNCHANGED server
      BY <1>1, <1>2, <1>4, <2>1, <3>1, StaysQuiet DEF Tracked
    <3>2. CASE server' = "listening"
      BY <3>2 DEF StoppedIsQuiet
    <3>3. CASE server = "stopping" /\ server' = "stopped"
      BY <1>1, <1>2, <1>4, <2>1, <3>3, DeadIsQuiet DEF Tracked, StoppedIsQuiet
    <3> QED
      BY <1>5, <3>1, <3>2, <3>3 DEF CalmStep
  <2> QED
    BY <1>2, <1>3, <2>1, <2>2 DEF FullInv, GatewayInv
<1>6. ASSUME NEW s \in Sessions, OpenStep(s)
      PROVE  FullInv'
  <2>1. SessionsTracked'
    BY <1>1, <1>6 DEF Tracked, SessionsTracked, OpenStep, Opens, Keeps, Live
  <2>2. RegistryLive'
    BY <1>1, <1>6 DEF Tracked, RegistryLive, OpenStep, Opens, Keeps, GatewayTypeOK
  <2>3. OneVerdict'
    BY <1>1, <1>6 DEF OneVerdict, OpenStep, Opens, Keeps
  <2>4. StoppedIsQuiet'
    BY <1>6 DEF OpenStep, StoppedIsQuiet
  <2> QED
    BY <1>2, <1>3, <2>1, <2>2, <2>3, <2>4 DEF FullInv, GatewayInv, Tracked
<1>7. ASSUME NEW s \in Sessions, CameStep(s) \/ CameAndWentStep(s)
      PROVE  FullInv'
  <2>1. Tracked' /\ OneVerdict' /\ \A x \in Sessions : Live(x)' => Live(x)
    BY <1>1, <1>2, <1>7, CameInv, CameAndWentInv DEF CameStep, CameAndWentStep
  <2>2. StoppedIsQuiet'
    BY <1>1, <1>2, <1>4, <1>7, <2>1, StaysQuiet DEF Tracked, CameStep, CameAndWentStep
  <2> QED
    BY <1>2, <1>3, <2>1, <2>2 DEF FullInv, GatewayInv
<1>8. ASSUME NEW S \in SUBSET Sessions, WentStep(S)
      PROVE  FullInv'
  <2>1. Tracked' /\ OneVerdict' /\ \A x \in Sessions : Live(x)' => Live(x)
    BY <1>1, <1>2, <1>8, WentInv DEF WentStep
  <2>2. StoppedIsQuiet'
    <3>1. CASE UNCHANGED server
      BY <1>1, <1>2, <1>4, <2>1, <3>1, StaysQuiet DEF Tracked
    <3>2. CASE \A x \in Sessions : Live(x) => x \in S
      <4>1. \A x \in Sessions : ~Live(x)'
        BY <1>8, <2>1, <3>2 DEF WentStep, Went, Live
      <4> QED
        BY <1>2, <1>4, <2>1, <4>1, DeadIsQuiet DEF Tracked
    <3> QED
      BY <1>8, <3>1, <3>2 DEF WentStep
  <2> QED
    BY <1>2, <1>3, <2>1, <2>2 DEF FullInv, GatewayInv
<1> QED
  BY <1>3, <1>5, <1>6, <1>7, <1>8

\* The inductive invariant of the gateway whose peers wait for their turn.
THEOREM GatewayInvariant ==
  ASSUME ~Pipelining
  PROVE  Spec => []FullInv
<1>1. FullInv /\ [Next]_vars => FullInv'
  BY GatewayStep
<1> QED
  BY <1>1, GatewayBegin, PTL DEF Spec

\* _sessions holds exactly the live sessions, and the registry leads only to a
\* connected session of that very device, whatever mixture of reconnects, races to
\* end a session and stop() happens.
THEOREM GatewayTracked ==
  ASSUME ~Pipelining
  PROVE  Spec => []Tracked
<1>1. FullInv => Tracked
  BY DEF FullInv, GatewayInv
<1> QED
  BY <1>1, GatewayInvariant, PTL

\* Each connection that ended was reported once, by the event that its handshake calls
\* for; an end that run() failed with is not passed off as the peer's or the host's
\* doing, nor theirs as a failure.  Ends by the idle timer, a socket error or a frame
\* that does not decrypt are only claimed to be reported once.
THEOREM GatewayOneVerdict ==
  ASSUME ~Pipelining
  PROVE  Spec => []OneVerdict
<1>1. FullInv => OneVerdict
  BY DEF FullInv, GatewayInv
<1> QED
  BY <1>1, GatewayInvariant, PTL

\* After stop() no session is live, no device is registered and no socket is left
\* open on this side, until start() is called again.
THEOREM GatewayStoppedIsQuiet ==
  ASSUME ~Pipelining
  PROVE  Spec => []StoppedIsQuiet
<1>1. FullInv => StoppedIsQuiet
  BY DEF FullInv, GatewayInv
<1> QED
  BY <1>1, GatewayInvariant, PTL

\* `close' is emitted once by every session of a gateway, also when stop() races
\* with the other ends.
THEOREM GatewayClosesOnce ==
  ASSUME ~Pipelining
  PROVE  Spec => []CloseOnce
<1>1. FullInv => CloseOnce
  <2> SUFFICES ASSUME FullInv, NEW s \in Sessions PROVE closes[s] <= 1
    BY DEF CloseOnce
  <2>1. closes[s] \in {0, 1}
    BY DEF FullInv, SessionsInv, Life, LifeInv
  <2> QED
    BY <2>1
<1> QED
  BY <1>1, GatewayInvariant, PTL

-----------------------------------------------------------------------------
(* The gateway implements Lifecycle.                                        *)

phases == [s \in Sessions |-> Phase(s)]
verdicts == [s \in Sessions |-> Verdict(s)]

\* What stays of a session that keeps everything a listener can see.
LEMMA KeepsPhase ==
  ASSUME NEW x \in Sessions, Keeps(x), failed'[x] = failed[x], gone'[x] = gone[x]
  PROVE  Phase(x)' = Phase(x) /\ Verdict(x)' = Verdict(x) /\ coreId'[x] = coreId[x]
BY DEF Keeps, Phase, Verdict

\* Every step of the gateway is a step of Lifecycle, or is invisible to the host.
LEMMA StepSimulates ==
  ASSUME ~Pipelining
  PROVE  FullInv /\ [Next]_vars => [Promise!LifecycleNext]_(Promise!lifecycleVars)
<1> SUFFICES ASSUME FullInv, [Next]_vars
             PROVE  [Promise!LifecycleNext]_(Promise!lifecycleVars)
  OBVIOUS
<1>1. FullInv'
  BY GatewayStep
<1>2. TypeInv /\ Life /\ Reportable /\ GatewayTypeOK /\ Tracked /\ OneVerdict
      /\ GatewayInv /\ SessionsInv
  BY DEF FullInv, SessionsInv, GatewayInv
<1>3. /\ coreId \in [Sessions -> CoreIds \cup {None}]
      /\ coreId' \in [Sessions -> CoreIds \cup {None}]
      /\ \A x \in Sessions : VerdictOf(x) /\ VerdictOf(x)'
      /\ GatewayTypeOK /\ GatewayTypeOK'
  BY <1>1 DEF FullInv, SessionsInv, GatewayInv, TypeInv, HelloTypeOK, OneVerdict, VerdictOf
<1>4. \/ CalmStep
      \/ \E s \in Sessions : OpenStep(s) \/ CameStep(s) \/ CameAndWentStep(s)
      \/ \E S \in SUBSET Sessions : WentStep(S)
  BY <1>2, StepKinds DEF Tracked
<1>5. CASE CalmStep
  <2>1. \A x \in Sessions :
          Phase(x)' = Phase(x) /\ Verdict(x)' = Verdict(x) /\ coreId'[x] = coreId[x]
    BY <1>5, KeepsPhase DEF CalmStep
  <2>2. phases' = phases /\ verdicts' = verdicts /\ coreId' = coreId
    BY <1>3, <2>1 DEF phases, verdicts
  <2> QED
    BY <1>5, <2>2 DEF CalmStep, Promise!lifecycleVars, phases, verdicts
<1>6. ASSUME NEW s \in Sessions, OpenStep(s)
      PROVE  Promise!Open(s)
  <2>1. \A x \in Sessions \ {s} :
          Phase(x)' = Phase(x) /\ Verdict(x)' = Verdict(x) /\ coreId'[x] = coreId[x]
    BY <1>6, KeepsPhase DEF OpenStep
  <2>2. /\ Phase(s) = "absent" /\ Phase(s)' = "opening" /\ Verdict(s)' = Verdict(s)
        /\ coreId'[s] = coreId[s]
    BY <1>6 DEF OpenStep, Opens, Phase, Verdict
  <2>3. /\ phases[s] = "absent" /\ phases' = [phases EXCEPT ![s] = "opening"]
        /\ verdicts' = verdicts
    BY <2>1, <2>2 DEF phases, verdicts
  <2>4. coreId' = coreId
    BY <1>3, <2>1, <2>2
  <2>5. registry' = registry
    BY <1>6 DEF OpenStep
  <2> QED
    BY <2>3, <2>4, <2>5 DEF Promise!Open, phases, verdicts
<1>7. ASSUME NEW s \in Sessions, CameStep(s)
      PROVE  coreId'[s] \in CoreIds /\ Promise!Online(s, coreId'[s])
  <2>1. /\ registry' = [registry EXCEPT ![coreId'[s]] = s]
        /\ UNCHANGED <<failed, gone>>
    BY <1>2, <1>7, CameTold DEF CameStep
  <2>2. \A x \in Sessions \ {s} :
          Phase(x)' = Phase(x) /\ Verdict(x)' = Verdict(x) /\ coreId'[x] = coreId[x]
    BY <1>7, <2>1, KeepsPhase DEF CameStep
  <2>3. /\ Phase(s) = "opening" /\ Phase(s)' = "online" /\ Verdict(s)' = Verdict(s)
        /\ coreId'[s] \in CoreIds
    BY <1>7, <2>1 DEF CameStep, Came, Phase, Verdict
  <2>4. /\ phases[s] = "opening" /\ phases' = [phases EXCEPT ![s] = "online"]
        /\ verdicts' = verdicts /\ coreId' = [coreId EXCEPT ![s] = coreId'[s]]
    BY <1>3, <2>2, <2>3 DEF phases, verdicts
  <2> QED
    BY <2>1, <2>3, <2>4 DEF Promise!Online, phases, verdicts
<1>8. ASSUME NEW s \in Sessions, CameAndWentStep(s)
      PROVE  coreId'[s] \in CoreIds /\ Promise!OnlineAndEnd(s, coreId'[s])
  <2>1. /\ registry' = [registry EXCEPT ![coreId'[s]] = None]
        /\ gone' = [gone EXCEPT ![s] = disconnectReason(handshakeError'[s])]
        /\ UNCHANGED failed
    BY <1>2, <1>8, CameAndWentTold DEF CameAndWentStep
  <2>2. \A x \in Sessions \ {s} :
          Phase(x)' = Phase(x) /\ Verdict(x)' = Verdict(x) /\ coreId'[x] = coreId[x]
    BY <1>2, <1>8, <2>1, KeepsPhase DEF CameAndWentStep, GatewayTypeOK
  <2>3. /\ Phase(s) = "opening" /\ Phase(s)' = "gone" /\ coreId'[s] \in CoreIds
        /\ state'[s] = "closed" /\ handshakes'[s] > 0
    BY <1>8 DEF CameAndWentStep, CameAndWent, Phase
  <2>4. Verdict(s)' = "disconnected"
    <3>1. failed'[s] = None /\ gone'[s] # None
      <4>1. ~(handshakes'[s] = 0)
        BY <2>3
      <4> QED
        BY <1>3, <2>3, <4>1 DEF VerdictOf
    <3> QED
      BY <3>1 DEF Verdict
  <2>5. /\ phases[s] = "opening" /\ phases' = [phases EXCEPT ![s] = "gone"]
        /\ verdicts' = [verdicts EXCEPT ![s] = "disconnected"]
        /\ coreId' = [coreId EXCEPT ![s] = coreId'[s]]
    BY <1>3, <2>2, <2>3, <2>4 DEF phases, verdicts
  <2> QED
    BY <2>1, <2>3, <2>5 DEF Promise!OnlineAndEnd, phases, verdicts
<1>9. ASSUME NEW S \in SUBSET Sessions, WentStep(S)
      PROVE  Promise!End(S)
  <2>1. /\ registry' = [d \in CoreIds |->
                          IF \E s \in S : coreId[s] = d THEN None ELSE registry[d]]
        /\ \A x \in Sessions \ S : failed'[x] = failed[x] /\ gone'[x] = gone[x]
    BY <1>2, <1>9, WentTold DEF WentStep
  <2>2. \A x \in Sessions \ S :
          Phase(x)' = Phase(x) /\ Verdict(x)' = Verdict(x) /\ coreId'[x] = coreId[x]
    BY <1>9, <2>1, KeepsPhase DEF WentStep
  <2>3. ASSUME NEW x \in S
        PROVE  /\ Phase(x) \in {"opening", "online"} /\ Phase(x)' = "gone"
               /\ coreId'[x] = coreId[x]
               /\ Verdict(x)' = IF Phase(x) = "online" THEN "disconnected" ELSE "failed"
    <3>1. /\ Live(x) /\ state'[x] = "closed" /\ handshakes'[x] = handshakes[x]
          /\ coreId'[x] = coreId[x]
      BY <1>9 DEF WentStep, Went
    <3>2. state[x] = "handshaking" => handshakes[x] = 0
      BY <1>2 DEF Reportable, ReportInv
    <3>3. state[x] = "connected" => handshakes[x] > 0 /\ handshakes[x] # 0
      BY <1>2 DEF Reportable, ReportInv
    <3>4. VerdictOf(x)'
      BY <1>3
    <3>5. CASE state[x] = "handshaking"
      <4>1. failed'[x] # None /\ gone'[x] = None
        BY <3>1, <3>2, <3>4, <3>5 DEF VerdictOf
      <4>2. Phase(x) = "opening" /\ Phase(x)' = "gone"
        BY <3>1, <3>5 DEF Phase
      <4>3. Verdict(x)' = "failed"
        BY <4>1 DEF Verdict
      <4> QED
        BY <3>1, <4>2, <4>3
    <3>6. CASE state[x] = "connected"
      <4>1. failed'[x] = None /\ gone'[x] # None
        BY <3>1, <3>3, <3>4, <3>6 DEF VerdictOf
      <4>2. Phase(x) = "online" /\ Phase(x)' = "gone"
        BY <3>1, <3>6 DEF Phase
      <4>3. Verdict(x)' = "disconnected"
        BY <4>1 DEF Verdict
      <4> QED
        BY <3>1, <4>2, <4>3
    <3> QED
      BY <3>1, <3>5, <3>6 DEF Live
  <2>4. /\ \A x \in S : phases[x] \in {"opening", "online"}
        /\ phases' = [x \in Sessions |-> IF x \in S THEN "gone" ELSE phases[x]]
        /\ verdicts' = [x \in Sessions |->
             IF x \notin S THEN verdicts[x]
             ELSE IF phases[x] = "online" THEN "disconnected" ELSE "failed"]
        /\ coreId' = coreId
    BY <1>3, <2>2, <2>3 DEF phases, verdicts
  <2> QED
    BY <2>1, <2>4 DEF Promise!End, phases, verdicts
<1>10. CASE \E s \in Sessions : OpenStep(s) \/ CameStep(s) \/ CameAndWentStep(s)
  BY <1>6, <1>7, <1>8, <1>10 DEF Promise!LifecycleNext
<1>11. CASE \E S \in SUBSET Sessions : WentStep(S)
  BY <1>9, <1>11 DEF Promise!LifecycleNext
<1> QED
  BY <1>4, <1>5, <1>10, <1>11

\* To the host the gateway is a Lifecycle: a connection opens, may come online, and
\* ends for good; the directory follows; each end has one verdict.
THEOREM GatewayImplementsLifecycle ==
  ASSUME ~Pipelining
  PROVE  Spec => ImplementsLifecycle
<1>1. Init => Promise!LifecycleInit
  BY DEF Init, SessionInit, Promise!LifecycleInit, Phase, Verdict
<1>2. FullInv /\ [Next]_vars => [Promise!LifecycleNext]_(Promise!lifecycleVars)
  BY StepSimulates
<1> QED
  BY <1>1, <1>2, GatewayInvariant, PTL
  DEF Spec, ImplementsLifecycle, Promise!LifecycleSpec

=============================================================================
