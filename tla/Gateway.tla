------------------------------ MODULE Gateway ------------------------------
(***************************************************************************)
(* The Gateway of lib/server.js: the listener, the set of sessions, and    *)
(* the listeners it puts on every session's `handshake' and `close'        *)
(* events, which keep the host's device registry and report how each       *)
(* connection ended.  EventEmitter calls listeners synchronously, so what  *)
(* they do is part of the session's own step: Listeners is a conjunct of   *)
(* every action.                                                           *)
(***************************************************************************)
EXTENDS Session

VARIABLES
  server,     \* _server, the listener that start() created last
  sessions,   \* _sessions
  registry,   \* the host's DeviceRegistry (external): device -> session
  failed,     \* result of the `handshake_failed' event
  gone        \* reason of the `session_disconnected' event

gatewayVars == <<server, sessions, registry, failed, gone>>
vars == <<sessionVars, gatewayVars>>

Verdicts == {"rsa_fail", "nonce_mismatch", "aes_hello_fail", "hello_parse_fail",
             "missing_core_key", "timeout", "aborted", "socket_closed", "error"}
Reasons == {"peer_close", "idle", "aes_fail", "error"}

ASSUME GatewayConstants ==
  /\ None \notin Verdicts \cup Reasons \cup Errors
  /\ None \notin {"READ_COREID", "GET_COREKEY", "SEND_SESSIONKEY", "GET_HELLO", "DONE"}

\* The variables have the types the constructor and the listeners give them.
TypeOK ==
  /\ SessionTypeOK
  /\ server \in {"down", "listening", "stopping", "stopped"}
  /\ sessions \in SUBSET Sessions
  /\ registry \in [CoreIds -> Sessions \cup {None}]
  /\ failed \in [Sessions -> Verdicts \cup {None}]
  /\ gone \in [Sessions -> Reasons \cup {None}]

Init ==
  /\ SessionInit
  /\ server = "down"
  /\ sessions = {}
  /\ registry = [d \in CoreIds |-> None]
  /\ failed = [s \in Sessions |-> None]
  /\ gone = [s \in Sessions |-> None]

-----------------------------------------------------------------------------
handshakeFailureReason(err, stg) ==
  CASE err = None        -> IF stg = None THEN "socket_closed" ELSE "aborted"
    [] err = "rsa"       -> "rsa_fail"
    [] err = "nonce"     -> "nonce_mismatch"
    [] err = "helloAes"  -> "aes_hello_fail"
    [] err = "helloCoap" -> "hello_parse_fail"
    [] err = "noKey"     -> "missing_core_key"
    [] err = "idle"      -> "timeout"
    [] OTHER             -> "error"

\* The Hello's AES error also contains 'AES decrypt'; a frame's is never stored.
disconnectReason(err) ==
  CASE err = None       -> "peer_close"
    [] err = "idle"     -> "idle"
    [] err = "helloAes" -> "aes_fail"
    [] OTHER            -> "error"

\* Sessions whose `handshake' (once), or whose first `close' (once), is emitted
\* by this step.
HandshakeEmitted == {s \in Sessions : handshakes[s] = 0 /\ handshakes'[s] > 0}
CloseEmitted == {s \in Sessions : closes[s] = 0 /\ closes'[s] > 0}

\* Plausible bug: the `close' listener does not unregister.
UnregistersNever(d) == FALSE

\* The `close' listener unregisters by device id, whoever is registered under it.
Unregisters(d) == \E s \in CloseEmitted : coreId'[s] = d

\* The `handshake' listener registers the session; if it is ended by the host
\* within that event, it is unregistered after that.
UpdateRegistry ==
  registry' = [d \in CoreIds |->
    IF Unregisters(d) THEN None
    ELSE IF \E s \in HandshakeEmitted : coreId'[s] = d
    THEN CHOOSE s \in HandshakeEmitted : coreId'[s] = d
    ELSE registry[d]]

\* Plausible bug: the flag is set after the host was told of the session.
SucceededBefore(s) == handshakes[s] > 0

\* handshakeSucceeded.
Succeeded(s) == handshakes'[s] > 0

\* The `close' listener: one event that says how the connection ended.
ReportEnd ==
  /\ failed' = [s \in Sessions |->
       IF s \in CloseEmitted /\ ~Succeeded(s)
       THEN handshakeFailureReason(handshakeError'[s], stage'[s]) ELSE failed[s]]
  /\ gone' = [s \in Sessions |->
       IF s \in CloseEmitted /\ Succeeded(s) /\ coreId'[s] # None
       THEN disconnectReason(handshakeError'[s]) ELSE gone[s]]

\* Plausible bug: the `close' listener does not delete from _sessions.
UntrackNone == UNCHANGED sessions

\* The `close' listener: _sessions.delete.
Untrack == sessions' = sessions \ CloseEmitted

Listeners == UpdateRegistry /\ ReportEnd

-----------------------------------------------------------------------------
\* start(): a new listener is bound.  It may follow stop() at once: the port is free as
\* soon as close() is called.
Start ==
  /\ Quiet
  /\ server # "listening"
  /\ server' = "listening"
  /\ UNCHANGED <<sessionVars, sessions, registry, failed, gone>>

\* _onConnection.
OnConnection(s) ==
  /\ server = "listening"
  /\ Accept(s)
  /\ sessions' = sessions \cup {s}
  /\ Listeners
  /\ UNCHANGED server

\* A step of a session, with the gateway's listeners.
SessionStep(s) ==
  /\ Resume(s) \/ Callback(s)
  /\ Untrack
  /\ Listeners
  /\ UNCHANGED server

\* The timer of a call belongs to no session's socket and emits nothing.
CallStep(c) ==
  /\ CallTimeout(c)
  /\ UNCHANGED gatewayVars

\* Plausible bug: stop() spares the sessions that are still handshaking.
ToStopConnected == {s \in sessions : state[s] = "connected"}

\* What stop() disconnects.
ToStop == {s \in sessions : state[s] # "closed"}

\* stop(): every session of _sessions is disconnected in one go, then the
\* listener is closed.  When it is closed already there is nothing left to do.
Stop ==
  /\ HostTurn
  /\ server # "down"
  /\ Disconnect(ToStop, "host")
  /\ server' = IF server = "listening" THEN "stopping" ELSE server
  /\ sessions' = {}
  /\ UNCHANGED runVars
  /\ Listeners

\* The callback of server.close(): Node runs it when the last socket is closed.  (After
\* a restart it does not wait for the sockets of the listener before; that has no part
\* in what follows, since a listener that is stopping can be started as well.)
StopResolved ==
  /\ Quiet
  /\ server = "stopping"
  /\ \A s \in Sessions : socket[s] \in {None, "closed"}
  /\ server' = "stopped"
  /\ UNCHANGED <<sessionVars, sessions, registry, failed, gone>>

Next ==
  \/ Start
  \/ \E s \in Sessions : OnConnection(s) \/ SessionStep(s)
  \/ \E c \in Calls : CallStep(c)
  \/ Stop
  \/ StopResolved

Spec == Init /\ [][Next]_vars

-----------------------------------------------------------------------------
Live(s) == state[s] \in {"handshaking", "connected"}

\* sessionCount is the number of live sessions: _sessions holds exactly the
\* sessions that are handshaking or connected.
SessionsTracked == sessions = {s \in Sessions : Live(s)}

\* The registry leads only to a connected session of that very device: every
\* path out of a session unregisters it, and no late step registers a dead one.
RegistryLive ==
  \A d \in CoreIds : registry[d] # None =>
    state[registry[d]] = "connected" /\ coreId[registry[d]] = d

\* _sessions and the registry keep track of the sessions.
Tracked == SessionsTracked /\ RegistryLive

\* Each connection that ended was reported once, as a failed handshake or as a
\* disconnect, according to whether `session' had been emitted for it.  An end that
\* run() failed with is never passed off as the peer's or the host's doing, and these
\* two are never reported as a failure.
OneVerdict ==
  \A s \in Sessions :
    /\ (failed[s] # None) <=> (state[s] = "closed" /\ handshakes[s] = 0)
    /\ (gone[s] # None) <=> (state[s] = "closed" /\ handshakes[s] > 0)
    /\ cause[s] = "error" => failed[s] # "aborted" /\ gone[s] # "peer_close"
    /\ cause[s] \in {"socketClose", "host"} => failed[s] \in {None, "aborted"}
    /\ cause[s] = "socketClose" => gone[s] \in {None, "peer_close"}

\* "`handshake_failed' carries a classified `result' (..., `timeout', ...)" (Usage.md:87),
\* and disconnectReason knows `idle' and `aes_fail': what the idle timer ends is
\* reported as a timeout, and a frame that does not decrypt as an AES failure.
EndsClassified ==
  \A s \in Sessions :
    /\ cause[s] = "idle" => failed[s] \in {None, "timeout"} /\ gone[s] \in {None, "idle"}
    /\ cause[s] = "aes" => gone[s] \in {None, "aes_fail"}

\* Once stop() has run no session is live, none comes to life while the listener
\* closes, and no device is left in the registry.  Node calls back when the last
\* socket is closed: however and whenever sessions ended, their sockets have been
\* ended, so that only the peers hold it up.
StoppedIsQuiet ==
  server \in {"stopping", "stopped"} =>
    /\ \A s \in Sessions : ~Live(s)
    /\ \A d \in CoreIds : registry[d] = None
    /\ \A s \in Sessions : socket[s] # "open"

\* "unregister(coreId) { /* device gone */ }" (Usage.md): while a device has a
\* connected session the registry has an entry for it.
OnlineIsRegistered ==
  \A s \in Sessions : state[s] = "connected" => registry[coreId[s]] # None

-----------------------------------------------------------------------------
\* How a session looks to the host.
Phase(s) ==
  CASE state[s] = "unborn"      -> "absent"
    [] state[s] = "handshaking" -> "opening"
    [] state[s] = "connected"   -> "online"
    [] OTHER                    -> "gone"

Verdict(s) ==
  CASE failed[s] # None -> "failed"
    [] gone[s] # None   -> "disconnected"
    [] OTHER            -> None

Promise == INSTANCE Lifecycle WITH
  phase <- [s \in Sessions |-> Phase(s)],
  device <- coreId,
  directory <- registry,
  verdict <- [s \in Sessions |-> Verdict(s)]

\* The gateway implements Lifecycle: connections never come back from the dead,
\* the directory follows them, and each end is reported once.
ImplementsLifecycle == Promise!LifecycleSpec
=============================================================================
