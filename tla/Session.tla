------------------------------ MODULE Session ------------------------------
(***************************************************************************)
(* One Session object per TCP connection (lib/session.js), with the        *)
(* coroutine run() that drives the handshake of lib/handshake.js and then  *)
(* the frame loop, the ByteQueue it reads from, the idle timer, and the    *)
(* table of outstanding request() calls.                                   *)
(*                                                                         *)
(* Scheduling.  JavaScript runs each event callback to completion and then *)
(* drains the microtask queue before the next callback.  So there are two  *)
(* kinds of action:                                                        *)
(*   - resumptions of run(), enabled when the promise run() awaits is      *)
(*     settled (Ready);                                                    *)
(*   - callbacks (socket, timer, worker reply), enabled only when no       *)
(*     coroutine is ready (Quiet); calls of the host also come from its    *)
(*     own microtasks, between two frames of one chunk (HostTurn).         *)
(*                                                                         *)
(* Data.  Bytes are counted in units of one complete read: the 256-byte    *)
(* RSA blob, then whole frames.  What the bytes decrypt and parse to is a  *)
(* nondeterministic outcome of the step that reads them.                   *)
(***************************************************************************)
EXTENDS Naturals

CONSTANTS
  Sessions,    \* connections accepted during a behaviour
  CoreIds,     \* device ids
  Calls,       \* invocations of Session.request
  Tokens,      \* values of the one-byte CoAP token
  MaxReads,    \* bound: complete reads a peer delivers on one connection
  Pipelining,  \* TRUE: a peer may send bytes before the server's turn is over
  None

ASSUME SessionConstants ==
  /\ MaxReads \in Nat
  /\ Pipelining \in BOOLEAN
  /\ None \notin Sessions \cup CoreIds \cup Calls \cup Tokens
  /\ None \notin {"ok", "missing", "err", "open", "ended", "destroyed", "closed"}

VARIABLES
  state,          \* _state
  pc,             \* what run() is awaiting
  stage,          \* _handshakeProgress.stage
  claimed,        \* _handshakeProgress.coreId
  coreId,         \* coreId, assigned when the handshake has succeeded
  queue,          \* _queue: complete reads buffered
  sent,           \* complete reads the peer has delivered so far
  answer,         \* settled result of the awaited RSA task or key lookup
  socket,         \* the net.Socket, seen from this side
  idleTimer,      \* _idleTimer is armed
  handshakeError, \* _handshakeError, by what its message is classified as
  handshakes,     \* `handshake' events emitted
  closes,         \* `close' events emitted; the ByteQueue is closed iff > 0
  cause,          \* history: what ended the session
  pending,        \* _pending: token -> call
  call,           \* the promises and timers of request()
  asked           \* calls whose request reached the device, unanswered

callVars == <<pending, call, asked>>
endVars == <<state, idleTimer, closes, cause, callVars>>
helloVars == <<stage, claimed, coreId, handshakes>>
readVars == <<queue, sent, answer>>
runVars == <<pc, handshakeError, helloVars, readVars>>
sessionVars == <<runVars, endVars, socket>>

ReadPoints == {"blob", "hello", "frame"}
OffloadPoints == {"decrypt", "loadKey", "encrypt", "sign"}
Errors == {"rsa", "nonce", "helloAes", "helloCoap", "noKey", "idle", "other"}
Causes == {"idle", "socketError", "socketClose", "aes", "error", "host"}

CallRecord ==
  [status : {"idle", "waiting", "resolved", "timedOut", "closed", "refused", "failed"},
   on     : Sessions \cup {None},
   token  : Tokens \cup {None},
   timer  : BOOLEAN,
   got    : Calls \cup {None}]

\* The variables have the types the constructor and run() give them.
SessionTypeOK ==
  /\ state \in [Sessions -> {"unborn", "handshaking", "connected", "closed"}]
  /\ pc \in [Sessions -> ReadPoints \cup OffloadPoints \cup {"unborn", "done"}]
  /\ stage \in [Sessions -> {None, "READ_COREID", "GET_COREKEY",
                             "SEND_SESSIONKEY", "GET_HELLO", "DONE"}]
  /\ claimed \in [Sessions -> CoreIds \cup {None}]
  /\ coreId \in [Sessions -> CoreIds \cup {None}]
  /\ queue \in [Sessions -> 0 .. MaxReads]
  /\ sent \in [Sessions -> 0 .. MaxReads]
  /\ answer \in [Sessions -> {None, "ok", "missing", "err"}]
  /\ socket \in [Sessions -> {None, "open", "ended", "destroyed", "closed"}]
  /\ idleTimer \in [Sessions -> BOOLEAN]
  /\ handshakeError \in [Sessions -> Errors \cup {None}]
  /\ handshakes \in [Sessions -> Nat]
  /\ closes \in [Sessions -> Nat]
  /\ cause \in [Sessions -> Causes \cup {None}]
  /\ pending \in [Sessions -> [Tokens -> Calls \cup {None}]]
  /\ call \in [Calls -> CallRecord]
  /\ asked \in SUBSET Calls

SessionInit ==
  /\ state = [s \in Sessions |-> "unborn"]
  /\ pc = [s \in Sessions |-> "unborn"]
  /\ stage = [s \in Sessions |-> None]
  /\ claimed = [s \in Sessions |-> None]
  /\ coreId = [s \in Sessions |-> None]
  /\ queue = [s \in Sessions |-> 0]
  /\ sent = [s \in Sessions |-> 0]
  /\ answer = [s \in Sessions |-> None]
  /\ socket = [s \in Sessions |-> None]
  /\ idleTimer = [s \in Sessions |-> FALSE]
  /\ handshakeError = [s \in Sessions |-> None]
  /\ handshakes = [s \in Sessions |-> 0]
  /\ closes = [s \in Sessions |-> 0]
  /\ cause = [s \in Sessions |-> None]
  /\ pending = [s \in Sessions |-> [t \in Tokens |-> None]]
  /\ call = [c \in Calls |-> [status |-> "idle", on |-> None, token |-> None,
                              timer |-> FALSE, got |-> None]]
  /\ asked = {}

-----------------------------------------------------------------------------
(* ByteQueue and the event loop.                                            *)

\* Plausible bug: a closed queue serves a read without checking the buffer.
HasBytesOrClosed(s) == queue[s] > 0 \/ closes[s] > 0

\* _drain serves a read from the buffer first, also after close() ...
HasBytes(s) == queue[s] > 0

\* Plausible bug: close() sets its flag without draining the waiters, so that a
\* waiting read is rejected only after a later push().
RejectsReadOnPush(s) == queue[s] = 0 /\ closes[s] > 0 /\ idleTimer[s]

\* ... and rejects it only when it cannot.
RejectsRead(s) == queue[s] = 0 /\ closes[s] > 0

TakeRead(s) == queue' = [queue EXCEPT ![s] = @ - 1]

\* The promise run() awaits is settled.
Ready(s) ==
  \/ pc[s] \in ReadPoints /\ (queue[s] > 0 \/ closes[s] > 0)
  \/ pc[s] \in OffloadPoints /\ answer[s] # None

\* The microtask queue is empty.
Quiet == \A s \in Sessions : ~Ready(s)

\* Code of the host may run: as a callback, or in a microtask of its own (behind a
\* request() that has resolved, say) while the frame loop has more frames to read.
HostTurn == \A s \in Sessions : Ready(s) => pc[s] = "frame"

\* run() moves to its next await, with a fresh promise.
Await(s, point) ==
  /\ pc' = [pc EXCEPT ![s] = point]
  /\ answer' = [answer EXCEPT ![s] = None]

\* Plausible bug: the timer is not armed.
LeaveIdleTimer(s) == UNCHANGED idleTimer

\* _resetIdleTimer.
ResetIdleTimer(s) == idleTimer' = [idleTimer EXCEPT ![s] = TRUE]

-----------------------------------------------------------------------------
(* Ending a session.                                                        *)

\* _finalize for every session of S (none of them closed): every call still in
\* _pending is rejected and its timer cleared, the queue closed, `close' emitted.
Finalize(S, why) ==
  /\ state' = [s \in Sessions |-> IF s \in S THEN "closed" ELSE state[s]]
  /\ idleTimer' = [s \in Sessions |-> IF s \in S THEN FALSE ELSE idleTimer[s]]
  /\ closes' = [s \in Sessions |-> IF s \in S THEN closes[s] + 1 ELSE closes[s]]
  /\ cause' = [s \in Sessions |-> IF s \in S THEN why ELSE cause[s]]
  /\ call' = [c \in Calls |->
                IF \E s \in S, t \in Tokens : pending[s][t] = c
                THEN [call[c] EXCEPT !.status = "closed", !.timer = FALSE]
                ELSE call[c]]
  /\ pending' = [s \in Sessions |->
                   IF s \in S THEN [t \in Tokens |-> None] ELSE pending[s]]
  /\ UNCHANGED asked

\* disconnect() of open sessions: half-close the socket, then _finalize.
Disconnect(S, why) ==
  /\ Finalize(S, why)
  /\ socket' = [s \in Sessions |-> IF s \in S /\ socket[s] = "open"
                                   THEN "ended" ELSE socket[s]]

\* disconnect() of a session that may be closed.
DisconnectOnce(s, why) ==
  IF state[s] = "closed" THEN UNCHANGED <<endVars, socket>> ELSE Disconnect({s}, why)

\* The catch block of run(): the error is stored, and unless the session is
\* closed already it is emitted and the session disconnected.
Catch(s, err) ==
  /\ handshakeError' = [handshakeError EXCEPT ![s] = err]
  /\ pc' = [pc EXCEPT ![s] = "done"]
  /\ DisconnectOnce(s, "error")

-----------------------------------------------------------------------------
(* The handshake: run() up to the `handshake' event.                        *)

\* new Session and the synchronous prefix of run(): the nonce is written and
\* the idle timer armed before the first await.
Accept(s) ==
  /\ Quiet
  /\ state[s] = "unborn"
  /\ state' = [state EXCEPT ![s] = "handshaking"]
  /\ stage' = [stage EXCEPT ![s] = "READ_COREID"]
  /\ pc' = [pc EXCEPT ![s] = "blob"]
  /\ socket' = [socket EXCEPT ![s] = "open"]
  /\ ResetIdleTimer(s)
  /\ UNCHANGED <<claimed, coreId, handshakes, readVars, handshakeError, closes,
                 cause, callVars>>

\* The 256 bytes of stage 2 are there: hand them to crypto.decrypt.
ReadBlob(s) ==
  /\ pc[s] = "blob"
  /\ HasBytes(s)
  /\ TakeRead(s)
  /\ Await(s, "decrypt")
  /\ UNCHANGED <<helloVars, sent, handshakeError, endVars, socket>>

\* The RSA pool or the key loader settles what run() awaits.  A key lookup may
\* also resolve to null.
Answer(s, result) ==
  /\ Quiet
  /\ pc[s] \in OffloadPoints
  /\ result = "missing" => pc[s] = "loadKey"
  /\ answer' = [answer EXCEPT ![s] = result]
  /\ UNCHANGED <<pc, handshakeError, helloVars, queue, sent, endVars, socket>>

\* Stage 2 ends: the nonce matches and the device id d is learned.
Decrypted(s, d) ==
  /\ pc[s] = "decrypt"
  /\ answer[s] = "ok"
  /\ claimed' = [claimed EXCEPT ![s] = d]
  /\ stage' = [stage EXCEPT ![s] = "GET_COREKEY"]
  /\ Await(s, "loadKey")
  /\ UNCHANGED <<coreId, handshakes, queue, sent, handshakeError, endVars, socket>>

\* Stages 3 and 4: key found, session key encrypted, signed, and written.
KeyExchange(s) ==
  /\ answer[s] = "ok"
  /\ \/ /\ pc[s] = "loadKey"
        /\ stage' = [stage EXCEPT ![s] = "SEND_SESSIONKEY"]
        /\ Await(s, "encrypt")
     \/ /\ pc[s] = "encrypt"
        /\ Await(s, "sign")
        /\ UNCHANGED stage
     \/ /\ pc[s] = "sign"
        /\ stage' = [stage EXCEPT ![s] = "GET_HELLO"]
        /\ Await(s, "hello")
  /\ UNCHANGED <<claimed, coreId, handshakes, queue, sent, handshakeError, endVars,
                 socket>>

\* Stages 5 and 6, and run() up to the `handshake' event: the Hello parses, ours
\* is written, the result is copied into the session.  run() does not look at
\* _state here.
HelloRead(s) ==
  /\ pc[s] = "hello"
  /\ HasBytes(s)
  /\ TakeRead(s)
  /\ stage' = [stage EXCEPT ![s] = "DONE"]
  /\ coreId' = [coreId EXCEPT ![s] = claimed[s]]
  /\ handshakes' = [handshakes EXCEPT ![s] = @ + 1]
  /\ UNCHANGED <<claimed, sent, answer>>

ReadHello(s) ==
  /\ HelloRead(s)
  /\ state' = [state EXCEPT ![s] = "connected"]
  /\ pc' = [pc EXCEPT ![s] = "frame"]
  /\ UNCHANGED <<socket, idleTimer, handshakeError, closes, cause, callVars>>

\* The same, and a listener of `handshake' (through the gateway, of `session')
\* calls disconnect() or throws; the loop is not entered.
ReadHelloAndEnd(s, why) ==
  /\ HelloRead(s)
  /\ why \in {"host", "error"}
  /\ Disconnect({s}, why)
  /\ pc' = [pc EXCEPT ![s] = "done"]
  /\ handshakeError' = [handshakeError EXCEPT ![s] = IF why = "error" THEN "other" ELSE @]

\* How the handshake can throw where run() is resumed.
Failures(s) ==
  CASE pc[s] = "decrypt" /\ answer[s] = "err"     -> {"rsa"}
    [] pc[s] = "decrypt" /\ answer[s] = "ok"      -> {"nonce", "other"}
    [] pc[s] = "loadKey" /\ answer[s] = "missing" -> {"noKey"}
    [] pc[s] \in OffloadPoints \ {"decrypt"} /\ answer[s] = "err" -> {"other"}
    [] pc[s] = "hello" /\ HasBytes(s)             -> {"helloAes", "helloCoap"}
    [] OTHER -> {}

HandshakeFails(s, err) ==
  /\ err \in Failures(s)
  /\ IF pc[s] = "hello" THEN TakeRead(s) ELSE UNCHANGED queue
  /\ answer' = [answer EXCEPT ![s] = None]
  /\ Catch(s, err)
  /\ UNCHANGED <<helloVars, sent>>

\* The read run() awaits is rejected: 'socket closed'.
ReadRejected(s) ==
  /\ pc[s] \in ReadPoints
  /\ RejectsRead(s)
  /\ Catch(s, "other")
  /\ UNCHANGED <<helloVars, readVars>>

-----------------------------------------------------------------------------
(* The frame loop: _handleFrame, and the loop test of run() after it.       *)

FrameRead(s) ==
  /\ pc[s] = "frame"
  /\ HasBytes(s)
  /\ TakeRead(s)
  /\ UNCHANGED <<helloVars, sent, answer>>

LoopTest(s) ==
  pc' = [pc EXCEPT ![s] = IF state'[s] = "connected" THEN "frame" ELSE "done"]

\* The frame does not parse, is a Ping (acknowledged), or is a message no
\* pending call matches (emitted as `message').
FrameAbsorbed(s) ==
  /\ FrameRead(s)
  /\ UNCHANGED <<endVars, socket, handshakeError>>
  /\ LoopTest(s)

\* AES decryption throws (the error is emitted, not stored), or a host listener
\* of `message' calls disconnect().
FrameEnds(s, why) ==
  /\ FrameRead(s)
  /\ why \in {"aes", "host"}
  /\ DisconnectOnce(s, why)
  /\ LoopTest(s)
  /\ UNCHANGED handshakeError

\* A host listener of `message' throws; the exception reaches run()'s catch.
FrameThrows(s) ==
  /\ FrameRead(s)
  /\ Catch(s, "other")

\* Plausible bug: the token's slot is kept.
KeepSlot(s, t) == UNCHANGED pending

\* _pending.delete: whoever holds the token's slot loses it.
DeleteSlot(s, t) == pending' = [pending EXCEPT ![s][t] = None]

\* The pending call at token t, if any, is resolved with message `from' (the
\* answer to a call, or None for a message the device sent on its own).
Resolve(s, t, from) ==
  LET c == pending[s][t]
  IN  /\ DeleteSlot(s, t)
      /\ call' = IF c = None THEN call
                 ELSE [call EXCEPT ![c].status = "resolved", ![c].timer = FALSE,
                                   ![c].got = from]

\* The device's answer to call c: it echoes c's token.
FrameAnswers(s, c) ==
  /\ FrameRead(s)
  /\ c \in asked
  /\ call[c].on = s
  /\ asked' = asked \ {c}
  /\ Resolve(s, call[c].token, c)
  /\ UNCHANGED <<state, socket, idleTimer, handshakeError, closes, cause>>
  /\ LoopTest(s)

\* A message of the device's own whose token is that of a pending call.
FrameCollides(s, t) ==
  /\ FrameRead(s)
  /\ pending[s][t] # None
  /\ Resolve(s, t, None)
  /\ UNCHANGED <<state, socket, idleTimer, handshakeError, closes, cause, asked>>
  /\ LoopTest(s)

-----------------------------------------------------------------------------
(* request().                                                               *)

\* Plausible bug: a call relies on the session's end and has no timer.
NewCallUntimed(s, t) ==
  [status |-> "waiting", on |-> s, token |-> t, timer |-> FALSE, got |-> None]

\* The promise of a call and its timer.
NewCall(s, t) ==
  [status |-> "waiting", on |-> s, token |-> t, timer |-> TRUE, got |-> None]

\* The host holds the session and has a call left to make.
MayRequest(s, c) == HostTurn /\ handshakes[s] > 0 /\ call[c].status = "idle"

\* request() with random token t: the call takes the token's slot of _pending,
\* whoever holds it, starts its timer, and is sent.
Request(s, c, t) ==
  /\ MayRequest(s, c)
  /\ state[s] = "connected"
  /\ pending' = [pending EXCEPT ![s][t] = c]
  /\ call' = [call EXCEPT ![c] = NewCall(s, t)]
  /\ asked' = asked \cup {c}
  /\ UNCHANGED <<runVars, socket, state, idleTimer, closes, cause>>

\* request() whose send() throws (unknown name, payload too large): the slot is
\* deleted again and the promise rejected.
RequestThrows(s, c, t) ==
  /\ MayRequest(s, c)
  /\ state[s] = "connected"
  /\ DeleteSlot(s, t)
  /\ call' = [call EXCEPT ![c] = [NewCall(s, t) EXCEPT !.status = "failed",
                                                       !.timer = FALSE]]
  /\ UNCHANGED <<runVars, socket, state, idleTimer, closes, cause, asked>>

\* request() on a session that is not connected.
RequestRefused(s, c) ==
  /\ MayRequest(s, c)
  /\ state[s] # "connected"
  /\ call' = [call EXCEPT ![c].status = "refused", ![c].on = s]
  /\ UNCHANGED <<runVars, socket, state, idleTimer, closes, cause, pending, asked>>

\* The timer of call c fires: it deletes its token's slot and rejects.
CallTimeout(c) ==
  /\ Quiet
  /\ call[c].timer
  /\ DeleteSlot(call[c].on, call[c].token)
  /\ call' = [call EXCEPT ![c].timer = FALSE, ![c].status = "timedOut"]
  /\ UNCHANGED <<runVars, socket, state, idleTimer, closes, cause, asked>>

-----------------------------------------------------------------------------
(* Socket, timer and host callbacks.                                        *)

\* How many complete reads a device that waits for its turn has sent by now:
\* its id after the nonce, its Hello after the session key, then messages.
Earned(s) ==
  CASE stage[s] = "GET_HELLO" -> 2
    [] stage[s] = "DONE"      -> MaxReads
    [] OTHER                  -> 1

\* _onData with a chunk that completes n reads: also on a session closed by this side,
\* as long as the peer sends.
Data(s, n) ==
  /\ Quiet
  /\ socket[s] \in {"open", "ended"}
  /\ sent[s] + n <= MaxReads
  /\ Pipelining \/ sent[s] + n <= Earned(s)
  /\ sent' = [sent EXCEPT ![s] = @ + n]
  /\ queue' = [queue EXCEPT ![s] = @ + n]
  /\ ResetIdleTimer(s)
  /\ UNCHANGED <<pc, handshakeError, helloVars, answer, state, closes, cause,
                 callVars, socket>>

\* The idle timer fires: `error' is emitted, then disconnect().
IdleTimeout(s) ==
  /\ Quiet
  /\ idleTimer[s]
  /\ IF state[s] = "closed"
     THEN /\ idleTimer' = [idleTimer EXCEPT ![s] = FALSE]
          /\ UNCHANGED <<state, closes, cause, callVars, socket>>
     ELSE Disconnect({s}, "idle")
  /\ UNCHANGED runVars

\* Plausible bug: _finalize without its early return.
FinalizeAgain(s, why) == Finalize({s}, why)

\* _finalize of a session that may be closed.
FinalizeOnce(s, why) ==
  IF state[s] = "closed" THEN UNCHANGED endVars ELSE Finalize({s}, why)

\* _onSocketError; Node has destroyed the socket, its `close' follows.
SocketError(s) ==
  /\ Quiet
  /\ socket[s] \in {"open", "ended"}
  /\ socket' = [socket EXCEPT ![s] = "destroyed"]
  /\ FinalizeOnce(s, "socketError")
  /\ UNCHANGED runVars

\* _onSocketClose: the peer has closed too, or the socket was destroyed.
SocketClose(s) ==
  /\ Quiet
  /\ socket[s] \in {"open", "ended", "destroyed"}
  /\ socket' = [socket EXCEPT ![s] = "closed"]
  /\ FinalizeOnce(s, "socketClose")
  /\ UNCHANGED runVars

\* The host, which holds the session since the `session' event, ends it.
HostDisconnect(s) ==
  /\ HostTurn
  /\ handshakes[s] > 0
  /\ state[s] # "closed"
  /\ Disconnect({s}, "host")
  /\ UNCHANGED runVars

-----------------------------------------------------------------------------
\* run() is resumed.
Resume(s) ==
  \/ ReadBlob(s) \/ KeyExchange(s) \/ ReadHello(s) \/ ReadRejected(s)
  \/ FrameAbsorbed(s) \/ FrameThrows(s)
  \/ \E d \in CoreIds : Decrypted(s, d)
  \/ \E why \in Causes : ReadHelloAndEnd(s, why) \/ FrameEnds(s, why)
  \/ \E err \in Errors : HandshakeFails(s, err)
  \/ \E c \in Calls : FrameAnswers(s, c)
  \/ \E t \in Tokens : FrameCollides(s, t)

\* A callback on session s runs.
Callback(s) ==
  \/ IdleTimeout(s) \/ SocketError(s) \/ SocketClose(s) \/ HostDisconnect(s)
  \/ \E n \in 1..MaxReads : Data(s, n)
  \/ \E result \in {"ok", "missing", "err"} : Answer(s, result)
  \/ \E c \in Calls, t \in Tokens : Request(s, c, t) \/ RequestThrows(s, c, t)
  \/ \E c \in Calls : RequestRefused(s, c)

SessionNext ==
  \/ \E s \in Sessions : Accept(s) \/ Resume(s) \/ Callback(s)
  \/ \E c \in Calls : CallTimeout(c)

\* The event loop runs what is ready, armed timers fire, and the crypto pool and
\* the key loader answer.  Nothing is assumed of the peer or of the host.
SessionFairness ==
  /\ \A s \in Sessions : /\ WF_sessionVars(Resume(s))
                          /\ WF_sessionVars(IdleTimeout(s))
                          /\ WF_sessionVars(\E result \in {"ok", "err"} : Answer(s, result))
  /\ \A c \in Calls : WF_sessionVars(CallTimeout(c))

SessionSpec == SessionInit /\ [][SessionNext]_sessionVars
FairSessionSpec == SessionSpec /\ SessionFairness

-----------------------------------------------------------------------------
(* What a session promises.                                                 *)

\* `close' is "emitted exactly once" (the header of session.js): whatever ends a
\* session, in whatever order the ends race, there is one `close' event.
CloseOnce == \A s \in Sessions : closes[s] <= 1

\* An entry of _pending belongs to a call that is still waiting on this token
\* with its timer running, and only a connected session has entries: no path
\* through reply, timeout, collision, failed send and close leaves a stale one.
SlotHolderWaits ==
  \A s \in Sessions, t \in Tokens : pending[s][t] # None =>
    /\ state[s] = "connected"
    /\ LET c == call[pending[s][t]]
       IN  c.status = "waiting" /\ c.timer /\ c.on = s /\ c.token = t

\* A promise of request() that is unsettled has its timer armed, also when its
\* slot of _pending was taken by another call; a settled one has none.
WaitingHasTimer ==
  \A c \in Calls : call[c].status = "waiting" <=> call[c].timer

\* The calls of request() and the slots of _pending belong together.
CallsSound == SlotHolderWaits /\ WaitingHasTimer

\* Every promise returned by request() settles.
CallSettles == \A c \in Calls : call[c].status = "waiting" ~> call[c].status # "waiting"

\* Every session ends once its peer falls silent (the peer delivers at most
\* MaxReads reads), at whatever stage that happens.
SessionEnds ==
  \A s \in Sessions : state[s] \in {"handshaking", "connected"} ~> state[s] = "closed"

\* run() returns after the session has closed: it is never left awaiting a read
\* of a closed queue.
RunReturns == \A s \in Sessions : state[s] = "closed" ~> pc[s] = "done"

\* "resolve when the device echoes that token back on its response" (request()
\* in session.js): a call never resolves with the response to another call.
NotAnothersAnswer ==
  \A c \in Calls : call[c].status = "resolved" => call[c].got \in {c, None}

=============================================================================
