# A TLA+ model of spark-protocol-synergy

This directory specifies, model-checks and proves properties of the device
gateway library in this repository: a Node.js library that accepts TCP
connections from Particle Photon devices, runs the six-stage "spark" handshake,
keeps an AES-encrypted CoAP session with each device, and reports what happens
to the host application through events.

## 1. The system

### Components

| Component | Source | State | Operations |
|---|---|---|---|
| Gateway | `lib/server.js` | listener, `_sessions`, one `handshakeSucceeded` per connection | `start`, `_onConnection` and its `handshake`/`close` listeners, `stop` |
| Session | `lib/session.js` | `_state`, ByteQueue, idle timer, `_pending`, `_handshakeError`, `coreId`, IVs, counters | `run`, `_onData`, `_onSocketError`, `_onSocketClose`, `_handleFrame`, `request`, `send`, `disconnect` |
| Handshake | `lib/handshake.js` | progress (stage, claimed id), locals of the coroutine | six stages, awaiting reads, RSA tasks and the key lookup |
| Crypto pool | `lib/crypto-pool.js` | `_workers`, `_idle`, `_queue`, `_pending`, `_closed` | `_dispatch` (behind `encrypt`, `decrypt`, `sign`, `verify`), `_onMessage`, `_release`, `close`, `stats` |
| Crypto worker | `lib/crypto-worker.js` | two LRU caches of parsed keys | one reply per message |
| Core-key loader | `lib/core-keys.js` | files of a key directory | look up a key, quarantine an unknown one |
| Framing | `lib/chunking.js` | a byte buffer | split the stream into frames |
| CoAP codec, message table | `lib/coap.js`, `lib/messages.js` | none | encode, decode, classify |
| Primitives | `lib/crypto.js` | none | RSA, AES-CBC, HMAC |
| Device registry | supplied by the host | device id to session | `register(session)`, `unregister(coreId)` |

### Interaction

A Gateway creates one Session per socket and listens to its `handshake`, `close`
and `error` events. The session's coroutine `run()` awaits bytes from its
ByteQueue, which the socket's `data` callback fills; in the handshake it also
awaits the crypto pool, whose workers are threads reached by message ports, and
the key loader. Timers (idle, one per `request()`), socket events, the host and
the gateway all call into the same session. JavaScript runs each callback to
completion and drains the promise queue before the next one, so the unit of
interleaving is a callback, or one resumption of a coroutine; worker threads
interleave with everything.

### What is hard, and what correct means

* Session: five kinds of event can end a session, in any order and while `run()`
  is suspended. It must close once, run its coroutine to the end, settle every
  call of `request()`, and never live on after it closed.
* Requests: tokens are one random byte, slots are keyed by token, and the reply,
  the timer, a failed send and the close all remove slots.
* Gateway: the session set, the registry and the end report must follow the
  session through every path, including `stop()` during handshakes and a device
  that reconnects before its old connection is gone.
* Crypto pool: more tasks than workers, replies racing `close()`, threads that die;
  handshakes that are over while their RSA task is still queued.
* Cipher chain: each end's next IV is a block of the last frame, so the two ends must
  agree on which frames there were, including those that are malformed, empty,
  dropped or never written.
* Core keys: no lookup is atomic; lookups of one device, the operator's rename, file
  system errors and crashes interleave, and the loader must fail closed.
* Framing: frames may not depend on how TCP cuts the stream.
* Codec, padding, key cache: boundary values, truncated input, evictions.

`PROJECT.json` lists each hazard at its line, with the properties aimed at it.

## 2. Modules

| Module | Models |
|---|---|
| `Session` | `lib/session.js` and `lib/handshake.js`, one instance per connection |
| `Gateway` (extends `Session`) | `lib/server.js` on top of the sessions, and the registry |
| `Lifecycle` | abstract specification of the gateway towards its host |
| `CryptoPool` | `lib/crypto-pool.js` and the message loop of `lib/crypto-worker.js` |
| `TaskService` | abstract specification of the pool towards its callers |
| `Fleet` (extends `Session`, instantiates `CryptoPool`) | sessions whose RSA operations are tasks of one pool |
| `CipherChain` | IVs, message ids and frames of a session and its device (`lib/session.js`, end of `lib/handshake.js`, `lib/crypto.js`) |
| `CoreKeys` | `lib/core-keys.js` over the two files of a device |
| `Framing` | `readFrame` and ByteQueue of `lib/session.js`, FrameReader of `lib/chunking.js`, byte by byte |
| `FrameStream` | abstract specification of framing: an ordered, lossless pipe of frames |
| `Coap`, `Messages` | `lib/coap.js`, `lib/messages.js` as operators and recursive functions |
| `Codec` | the path of a message through both |
| `Padding` | the padding rules of `aesEncrypt` and `aesDecrypt` |
| `KeyCache` | the message handler and LRU caches of `lib/crypto-worker.js` |
| `SessionProofs`, `GatewayProofs`, `CryptoPoolProofs`, `FleetProofs`, `CipherChainProofs` | theorems about the module they are named after |
| `KeyProofs` | theorems about `CoreKeys` and `KeyCache` |
| `WireProofs` | theorems about `Framing` and `Padding` |
| `CodecProofs` (extends `WireProofs`) | theorems about `Codec`, and lemmas about the operators of `Coap` and `Messages` |
| `MCSession`, `MCGateway`, `MCCryptoPool`, `MCFleet` | entry points for TLC |
| `MCLibrary` | entry point for the parts that share no state: codec, padding, key caches, framing, chain and key loader |
| `MCCoreKeys` | the key loader alone |

Definitions introduced by a comment "Plausible bug" are mutations of the
definition that follows them. No specification uses them; they document which
fault each property would catch.

### Session

`pc` says what `run()` awaits: a read (`blob`, `hello`, `frame`), an offloaded
operation (`decrypt`, `loadKey`, `encrypt`, `sign`), or nothing (`done`). `Ready`
says that the awaited promise is settled, `Quiet` that no coroutine is ready.
Resumptions of `run()` (`Resume`) are enabled by their awaited value; callbacks
(`Callback`, `Accept`, `CallTimeout`) require `Quiet`. Code of the host also runs in
microtasks of its own, behind a `request()` that has resolved, say: its calls of `request()`,
`disconnect()` and `stop()` require only `HostTurn`, which lets them come between two frames of
one chunk. A chunk (`Data`) may complete any number of reads.

`_finalize`, `disconnect` and the catch block of `run()` are the operators
`Finalize`, `Disconnect`, `Catch`, used by every action that reaches them.
`closes` counts `close` events and also stands for the closed flag of the
ByteQueue, which `_finalize` sets in the same step. `call[c]` is the promise of an
invocation of `request()` and its timer; `pending[s][t]` is the slot of token `t`.
`asked` and `cause` are history: which calls the device may still answer, and what
ended the session.

Abstractions. Bytes are counted in complete reads (the RSA blob, then whole
frames); a partial read changes nothing but the idle timer's deadline. What a read
decrypts and parses to is a nondeterministic choice of the step that consumes
it. Errors are represented by what the gateway classifies their messages as.
The constant `Pipelining` says whether a peer may send before its turn: a device
that follows the protocol sends its id after the nonce and its Hello after the
session key (`Earned`).

### Gateway

EventEmitter calls listeners synchronously, so the listeners of `_onConnection`
are part of the step that emits: `Listeners` is conjoined to every action and
reacts to the change of `handshakes` and of `closes` (the first one only: the
listeners are installed with `once`). `stop()` may be called again, and `start()` may follow
it before the old listener has closed. `failed` and `gone` hold the result of
`handshake_failed` and the reason of `session_disconnected`. `Stop` disconnects all
sessions in one step, as the loop in `stop()` does.

### CryptoPool

The k-th call of `_dispatch` is task k. Each worker has an inbox and an outbox, the
two directions of its message port. `close()` is two actions, `Close` and
`CloseFinish`, with thread terminations between them. `WorkerError` is the death of
a thread, at most `MaxCrashes` times; a message posted to a dead thread is dropped. The
pool re-emits the thread's `error`; the host is assumed to listen to it, since an `error`
that nobody listens to ends the process.

### Fleet

`Session` leaves open when and how the promises of the pool settle. `Fleet` instantiates
`CryptoPool` and closes that gap: whenever `run()` comes to an RSA operation, the same
step dispatches a task (or, if the pool is closed, is refused), and the task's
settlement is the answer `run()` gets. `task[s]` is the task that session s awaits.

### CipherChain

`ivIn`, `ivOut` and the send counter are those of the session; `devIn` and `devOut` are the
firmware's. `up` and `down` are the frames in flight on TCP. AES is symbolic: block i of
the n-th encryption of a direction is a tuple, and a frame opens to what was sealed if
and only if it is opened under the IV it was sealed with. The device may send
malformed messages, empty frames and frames of broken length. `send()` may be given a
message that `coapEncode` refuses (the counter is spent, nothing is encrypted) or one
that `encodeFrame` refuses (the IV is rolled, nothing is written); `refused` records the
latter. A host that disconnects between two frames of a chunk lets `_handleFrame` run once
more (phase `ending`). `upRead`, `downRead` and `ids` are history.

### CoreKeys

One action per await of `loadCoreKey` (`Step`), and `Call` for its synchronous start. `writeFile` is two steps, as in Node: the file is
opened (created or truncated), then written through the descriptor. Files are inodes,
so that a write follows a file that the operator renames. The operator (external)
looks at the quarantined file, and later renames what is there. `Reject` is a file system
error in any step, after which a write may have written nothing or a part; `Crash` is the
death of the process.

### Framing and FrameStream

The device's bytes go through `wire` to both readers. `Data(n)` hands over any n bytes:
`FrameReader.feed` runs to completion, whereas the ByteQueue settles one promise, and the
rest of the loop (`Continue`) runs as its continuation. A frame is refined to an element of
`FrameStream`'s pipe.

### Coap, Messages, Codec, Padding

These are pure functions; positions count from 0 as in the code. A read past the end of
the buffer gives `undefined`, and arithmetic with it `NaN`, for which every comparison
fails: `Coap` models that, since `decode` depends on it. The loops of `encode` and `decode` are
the recursive functions `EncodeOptions` and `DecodeOptions`, one turn a call; the sort of
`encode` is the one permutation that `Before` admits, which makes it stable. A message whose
loop ended on a position that is `NaN` is marked `ranOff`, which the code does not record.
`Codec` and `Padding` choose one input and compute: in `Codec`, `SendNamed` is `send()` up to
the encoded `buffer`, and `Arrive` decodes and classifies it, or a buffer of other origin.
`send()` throws for a name that is not in the table, and `opts.type` overrides the table's type.

### KeyCache

A cache is the sequence of a JavaScript Map's entries, oldest first. `used` is history: the
keys in the order of their last use.

## 3. Runs

| Run | Instance | Result |
|---|---|---|
| `session` | 1 connection, 2 calls, 2 tokens, 5 reads | passes |
| `gateway` | 2 connections, 2 devices, 1 call, 3 reads, stop and restart | passes |
| `pool` | 2 workers, 5 tasks, up to 2 thread deaths | passes |
| `fleet` | 2 connections, 1 worker | passes |
| `fleet_crash` | 1 connection, 1 worker, 1 thread death | passes |
| `library` | one part at a time; see `MCLibrary` and Bounds | passes |
| `session_pipelining` | 1 connection, 3 reads, pipelining | `CloseOnce` violated |
| `session_tokens` | 1 connection, 2 calls, 1 token | `NotAnothersAnswer` violated |
| `gateway_reconnect` | 2 connections of 1 device | `OnlineIsRegistered` violated |
| `gateway_timeout` | 1 connection | `EndsClassified` violated |
| `core_keys_crash` | 2 lookups, 1 key, 1 error or crash | `KeyQuarantined` violated |
| `codec_truncated` | as `library` | `MalformedThrows` violated |

What the passing runs show:

* `session`: one `close` event (`CloseOnce`); no stale slot in `_pending`, and an unsettled
  call always has its own timer, also when its slot was taken (`CallsSound`), hence every
  call settles (`CallSettles`); every session ends and its coroutine returns
  (`SessionEnds`, `RunReturns`).
* `gateway`: `_sessions` is exactly the live sessions, and the registry never names a
  dead session or another device's (`Tracked`); each end is reported once, as a
  failed handshake or as a disconnect, and an end that `run()` failed with is never passed off as
  the peer's or the host's doing, nor theirs as a failure (`OneVerdict`; how the other ends are
  classified is the subject of `EndsClassified`); `stop()` leaves nothing behind, no open
  socket either (`StoppedIsQuiet`); and the gateway implements `Lifecycle`.
* `pool`: `_pending` is exact (`PendingExact`), work-conserving and FIFO (`WorkConserving`,
  `QueueFifo`), one task per worker, no task lost while the threads live, and `stats()`
  adding up as idle + (inflight - queued) = workers (`WorkPlaced`); every task settles
  unless a thread dies (`TaskSettles`), and all are settled when `close()` resolves
  (`ClosedSettlesAll`); the pool implements `TaskService`, in which a promise settles once.
* `fleet`: the pool never works for nobody, and its load is bounded by the coroutines in
  handshakes, those of ended connections included (`LoadIsAwaited`).
* `fleet_crash`: what `Session` assumes of the pool holds unless a thread dies (`PoolAnswers`);
  a coroutine that lost its task is freed by closing the pool (`LostTasksFreed`); and the
  session ends even if its task is lost (`SessionEnds`).
* `library`:
  * codec: messages survive encoding and decoding and are classified as what they were
    sent as (`RoundTrip`); buffers that are accepted encode back to themselves, unless they end
    before the extension byte of a length (`DecodeExact`);
  * padding: either end recovers what the other padded, with one exception (`Recovers`);
  * key caches: they hold the keys used last (`KeepsMostRecent`), and an answer is always
    computed with the key of its request (`AnswersWithItsKey`);
  * framing: at rest, both readers have handed over the same frames (`ReadersAgree`), frames
    written in full arrive (`FramesArrive`), and the reader implements `FrameStream`
    (`ImplementsStream`);
  * chain: the gateway never reads a frame under a wrong IV (`InboundClean`); the device
    misreads exactly the frames that follow a refused one (`OutboundHeals`), so the chain
    heals itself; ids that `send()` takes differ within a wrap-around (`IdsFresh`);
  * key loader: nothing is trusted before a promotion (`FailsClosed`); a key quarantined
    earlier is not overwritten unless `access` itself fails (`KeptKey`); without errors and
    crashes, a key that was turned down is in the quarantine (`LeavesEvidence`); as long as one
    key is presented, calls resolve only to what the operator reviewed (`OneKeyAccepted`).

What the violated ones show (the quoted lines are in `PROJECT.json`):

* `session_pipelining`: the session is closed during an RSA operation with the
  Hello already buffered. `run()` reads it from the closed queue, which serves
  buffered bytes first, sets `_state` to connected, emits `handshake`, and closes a
  second time. The gateway's `close` listener is spent, so the registration stays.
* `session_tokens`: a second request draws the same byte while the first is
  unanswered, and resolves with the first one's response.
* `gateway_reconnect`: the old connection's `close` unregisters the device id.
* `gateway_timeout`: the idle timer and a frame that does not decrypt emit their error and
  disconnect; only the catch of `run()` stores an error, and that after the close. So the results
  `timeout`, `idle` and `aes_fail` of `lib/server.js` do not occur: a handshake that
  timed out is reported as `aborted`, the other two as `peer_close`. (An error of the socket
  goes the same way.)
* `core_keys_crash`: a write that fails after the file was created, or a crash there, leaves an
  empty file, which later lookups take for a quarantined key.
* `codec_truncated`: a buffer that ends where the extension byte of a length should follow is
  decoded without an error, to an empty option. `CodecCutShort` says what exactly it becomes.

Where the code departs from a comment or a document in a way that a passing property
states exactly, that property is checked rather than the text:

* a reply in flight when `close()` is called resolves its task, where `crypto-pool.js:169` says
  that pending tasks reject (`ClosedSettlesAll` says only that they settle);
* `_sendPlain` rolls the IV before `encodeFrame` may throw; the device then garbles the next
  frame, and only that one (`OutboundHeals`; `session.js:18` says the invariant holds for
  every frame);
* the next IV is the first ciphertext block; `crypto.js:159` says the last. Taking the last
  block is the mutation that `OutboundHeals` catches;
* two lookups with different keys can both pass `access`; the second write then replaces a
  file that the operator may have looked at already, so `OneKeyAccepted` speaks of one
  key only (`Implementation.md:11`);
* a message of the device that fills its blocks and ends like padding loses its tail
  (`Recovers`): the firmware adds no padding there, as the comment on `aesDecrypt` says.

### Bounds

Five reads are the blob, the Hello and three frames: enough for two answers and a
colliding message. Two calls and two tokens give both shared and distinct tokens.
In `gateway`, two connections are what a reconnect needs; two devices distinguish
entries of different devices; three reads reach the frame loop. The registry and
the end reports do not depend on calls, so one call suffices. Two workers and five
tasks give a queue of three, so FIFO order, LIFO reuse and hand-over all occur.
In `fleet`, one worker for two handshakes makes tasks queue; one read per connection,
the blob, starts all that involves the pool. `fleet_crash` adds the Hello. In `library`: two
ids and three sends after the Hello wrap the counter; three frames from the device put a
malformed one between two others; four to it are the Hello, one that is refused, the one it spoils and
one after that; two blocks tell the first from the last; two frames on their way (`MaxInFlight`) may
cross or follow each other. Three lookups are two racing ones and one that finds
their result. Base 3 makes a length prefix of two significant digits with short
bodies. Values and deltas stand on both sides of each change of format. A
cache of two entries with three keys evicts. `fleet` uses the symmetry of connections.
`gateway` uses the symmetry of connections and of devices; its properties are safety
properties that treat them alike. Runs disable the deadlock check, since a system
that has used up its connections, reads and calls has nothing left to do.

### Fairness

`SessionFairness`: ready coroutines are resumed, armed timers fire, and the pool and
the key loader answer (for the pool: `TaskSettles`, absent thread deaths). Nothing is
assumed of peers or of the host; that a peer delivers at most `MaxReads` reads means
that it eventually falls silent, which `SessionEnds` needs, since each chunk re-arms
the idle timer. `PoolFairness`: worker threads are scheduled, messages delivered,
`terminate()` takes effect, and the continuation of `close()` runs. `FleetFairness` is both,
without the assumption that RSA operations are answered. `FramingFairness`: continuations run, and bytes arrive or the
connection is lost. `Gateway` assumes no fairness: `stop()` resolves when all peers have closed
their side, which the code does not enforce (there is no timer after `socket.end()`).
That the gateway has done its part is the last conjunct of `StoppedIsQuiet`.

## 4. Proofs

Proved by TLAPS for all values of the constants, under the named assumptions of the
modules: `SessionConstants`, `GatewayConstants`, `PoolConstants`, `FleetConstants`,
`ChainAssumption`, `CoreKeysAssumption`, `CacheAssumption`, `FramingAssumption`,
`PaddingAssumption` and `CodecAssumption`. They say that bounds are natural numbers (a cache and a cipher block
hold at least one element), that the set of workers is finite, that messages are
sequences of bytes (so are tokens, the values of options, and whatever else may arrive), that
message ids and the numbers of options are natural numbers, that the length of a body fits two
bytes, and that `None`, `Null` and the other markers, and a key's text, are distinct and not members of the other sets.
TLC evaluates them on every run. Theorems marked (*) also assume `~Pipelining`, a peer
that waits for its turn; the run `session_pipelining` shows that they need it.

Session:

* `SessionTyped`: `SessionSpec => []SessionTypeOK`. `TypeInv` adds that what is
  buffered was delivered, without which the bound on the buffer is not inductive.
* `SessionClosesOnce` (*): `SessionSpec => []CloseOnce`. `CloseOnce` alone
  is not inductive: one must know that a session cannot go from closed back to
  connected. `LifeInv` supplies the reason. While `run()` awaits an offloaded
  operation, a peer that waits for its turn has nothing buffered; while it awaits a
  read, buffered bytes are consumed before any callback can run. So `run()` never
  takes a Hello out of the queue of a closed session. With pipelining the first half
  fails.
* `SessionCallsSound`: `SessionSpec => []CallsSound`, pipelining or not. `CallsInv` adds that
  a request the device may answer was sent with a token. The step that could break it is
  `_finalize`, which settles all calls with a slot at once: `FinalizeCalls` shows that it
  settles no call twice and none of another session, because a call holds at most
  one slot.

Gateway:

* `GatewayTyped`, `GatewayCallsSound`: every step but `Stop` is a step of the sessions
  (`OwnStep`), so what is proved of `Session` carries over; `Stop` is a `_finalize` of a set
  of sessions, for which the lemmas of `SessionProofs` are stated in the first place.
* `GatewayTracked`, `GatewayOneVerdict`, `GatewayStoppedIsQuiet`, `GatewayClosesOnce` (*): from
  `FullInv` (`GatewayInvariant`), which has two halves. `SessionsInv` is about the sessions:
  `TypeInv`, `LifeInv`, and `ReportInv`, which is what the listeners rely on when they read a session (its
  error is set only by what ends it, it has a device id exactly since its handshake, a
  socket that is open belongs to a live session). `GatewayInv` is about what the
  listeners keep. Every step is one of a few kinds as seen by the listeners (a
  session keeps what they look at, is born, comes online, or goes), and each kind is shown once to
  keep `GatewayInv`, whichever of the session's actions it comes from.
* `GatewayImplementsLifecycle` (*): under `FullInv`, every step is a step of `Lifecycle` or a
  stutter.

Crypto pool:

* `PoolTyped`, `PoolPendingExact`, `PoolWorkConserving`, `PoolClosedSettlesAll`: from `PoolInv`,
  which adds that calls not yet made have no promise and that a closed pool has no
  entries.
* `PoolQueueFifo`, `PoolWorkPlaced`: from `PlaceInv` (`PoolPlacement`). `FifoInv` adds to
  `QueueFifo` that ids in the pool are below the next one, and that a pool that is not open
  queues nothing. `CrewInv` and `TaskInv`, for an open pool, say where each task is: a
  worker is idle, or has one task in its inbox, its hands or its outbox, or is dead and has
  lost it; no two workers have the same task; and idle + pending = workers + queued, also
  after a death, which is what `stats()` reports.
* `PoolImplementsTaskService`: every step of the pool is a step of `TaskService` or a
  stutter, under `PoolInv`. `PoolSettleOnce` follows from this simulation.

Sessions on one pool:

* `FleetComposes`: `FleetSpec => SessionSpec /\ Pool!PoolSpec`. The composition only restricts
  its parts, so all of the above holds of sessions that share a pool.
* `FleetLoadIsAwaited`: `AwaitInv` adds that what is pending was called for and is not
  settled, and that a coroutine awaits no call that has not been made, so that a new task
  is awaited by the one coroutine that dispatched it.

Cipher chain:

* `ChainTyped`, `ChainInboundClean`: `InboundInv` says that the frames in flight to the gateway
  form a chain (`ChainedFrom`): the first was sealed under `ivIn`, each later one under the
  first block of the one before (a frame without whole blocks leaves the device's IV as
  it is), and `devOut` continues the last. Handling a frame takes the head off and rolls
  `ivIn` past it, before anything about its content is looked at. After an empty frame
  `ivIn` is no IV at all, and the next frame ends the session without being read.
* `ChainOutboundHeals`: here the chain has gaps. `OutboundInv` says what the session's IV is
  (`SenderInv`), what the device's is (`ReceiverInv`), that every frame carries the IV of the
  encryption just before it (`FlightInv`), and that the encryptions between two
  consecutive frames, the last one read included, are exactly refused ones (`GapInv`).
  Hence the device reads frame n if it read frame n - 1, and misreads it if n - 1
  was refused.
* `ChainIdsFresh`: `IdsInv` says that ids taken d < `IdSpace` sends apart differ by d, or by
  d - `IdSpace` once the counter has wrapped, the counter being the id of the send to come.
  Neither is 0.

Core keys:

* `CoreKeysTyped`, `CoreKeysFailClosed`, `CoreKeysKept`, `CoreKeysLeaveEvidence`: `TrustInv` says that
  only a promotion makes a canonical file; `KeptInv` that, without errors, a call that is
  about to open the file found no file or another one when it began, and that a new
  file has a new inode; `EvidenceInv` that, without errors and while
  one key is presented, files hold its text or nothing yet, and that, until a promotion, what is
  in the quarantine is that text or a call is writing it, calls write to that file only, and one that
  turned a key down has found or left it there (`OnRecordInv`).
* `CoreKeysOneKeyAccepted`: `OneKeyInv` says that while one key is presented, files hold its
  text, nothing yet or a part (after an error), also those that a call is still writing after the operator's rename, and that the
  operator accepted that text whenever there is a canonical file.

Key caches and padding (`KeyProofs`, `WireProofs`):

* `CacheKeepsMostRecent`, `CacheAnswersWithItsKey`: `LruInv` says of a cache and its history that
  entries are keys of their own text and kind, that the history has each key once, and
  that entry i of m is key (n - m + i) of the n in the history, m being the smaller of n and
  `LRU_MAX`. A hit moves an entry and its key to the end, the same move in both
  (`HitKeeps`). A miss of a key that is in the history means that it was evicted, hence
  that the cache is full, and the oldest entry goes (`MissKeeps`).
* `PaddingRecovers`: `ExchangeInv` says that what is carried is the padded message and what is
  read is that stripped; `ReadBack` computes it for both senders.

Framing:

* `FramingImplementsStream`: `FramingSpec => ImplementsStream`, for frames of any length, any
  number of them, and chunks cut anywhere. The bytes a read() has settled with, the
  ByteQueue and the network are taken as one string, `Bytes`, which chunks and `_drain` only
  regroup (`DrainReads`). `UnderWay` says that, while the socket is open, it is the rest of the body
  that is being read and then all frames not yet handed over. Saying "then all frames" needs
  no recursion: there are offsets, one per frame (`Offsets`), at which the frames
  lie (`Laid`). `Reader` says that a read() that waits wants what the next frame needs and
  has too little, so that a closing socket rejects it. A header then is that of the
  next frame and its two bytes give the length back (`HeadKeeps`), the body is that of the
  next frame (`BodyKeeps`), and handing it over takes it out of the pipe.
* `FramingReadersAgree`: the session and `FrameReader` have handed over the same frames whenever
  the promise chain is at rest. `Level` says that, while the socket is open, FrameReader is
  ahead of the session by exactly what `feed` makes of the bytes the session has got and not
  handed over: the header readFrame carries, the bytes of a settled read() and the ByteQueue
  (`Due`). A chunk is fed to both at once (`DataLevel`); one continuation after a body is one turn
  of feed's loop (`BodyLevel`); a read() that waits has no whole frame, so nothing is owed
  (`AtRest`). That the recursive function `Feed` does its turns is an induction on the number
  of bytes. The library's induction theorems take an operator; `Induction` states it for a
  set instead and follows from well-foundedness (`WFMin`). With it, a function that does the
  turns exists for each number of bytes (`FeedsExist`), two of them agree (`FeedsAgree`), hence
  `FeedTurns`.

Codec (`CodecProofs`):

* `CodecRoundTrip`: `CodecSpec => []RoundTrip`, for any token, options and payload. What
  `encode` accepts has a token of at most 8 bytes and deltas and values of at most 65804
  (`EncodeFits`). A size in that range has exactly one form, a nibble and its extension
  (`FormOf`, `FormIs`), so one turn of decode's loop reads the option that one turn of encode's
  wrote (`OptionRead`), and by induction on the number of options all of them and the payload
  are read back (`AllBack`). The four bytes of the header and the token are read back by
  arithmetic (`HeadBack`). The sort ascends (`SortedAscends`) and is a
  permutation that keeps options of one number in order (`SortedRearranges`); that one exists is
  shown by placing each option after those `Before` it (`OrderPuts`). The uri that `send()`
  puts first is still the first Uri-Path after sorting (`SortedFirstPath`), and no two rows of the
  table have the same uri and code (`TableDistinct`), so `classify` finds the row (`Recognised`).
* `CodecDecodeExact`: `CodecSpec => []DecodeExact`, for every buffer. The converse: what
  decode reads as a size is written there in its form (`ReadForm`), hence a turn of its loop that
  does not throw and is not the last finds an option as encode writes it (`TurnReads`) or runs
  off the buffer where the extension of a length is missing (`TurnRunsOff`). By induction on the number of bytes the
  buffer is explained by the options and the payload (`AllExplained`). Options that
  decode found ascend, and the sort leaves them as they are (`SortedSame`), so
  `encode` writes the same bytes.
* `CodecCutShort`: `CodecSpec => []CutShort`, for the buffers that `DecodeExact` leaves out, from
  the same explanation: all but the last option is read as in the exact case, and the last
  one has an empty value.
* `CodecInv` is the invariant for all three: the buffer holds the bytes of the message that was
  sent, if any, and what was decoded is decoded of it. That `EncodeOptions` and
  `DecodeOptions` do their turns (`EncodeTurns`, `DecodeTurns`) is shown like `FeedTurns`.

Only model-checked: liveness, since fairness and ENABLED are out of the prover's reach
(`CallSettles`, `SessionEnds`, `RunReturns`, `TaskSettles`, `PoolAnswers`, `LostTasksFreed`,
`FramesArrive`).

## 5. Not modelled

RSA, AES, HMAC and the random source are calls into `node:crypto`: their arithmetic is out
of reach. Success or failure is a choice, and AES is symbolic. `index.js` only re-exports.
`uriPath` and `uriQuery` join option values for the host; nothing in the library calls them.
Fields that nothing in the library reads back are left out: `recvCounter`, `lastHeard`, the
versions of the Hello, durations and the `listening` and `connection` events. The bytes that
`encodeFrame` writes are read by the firmware only; its length check is in `CipherChain`. Bind
errors of `start()`, a second `start()` while listening, `address()`, and exceptions of the host's
registry are not modelled. `request()` calls with a token response that the device never
sends are covered by the timer. `Session` and `CipherChain` are separate views of one
session: that frames are handled only while it is connected, and one more if the host ends it
between two frames, is a guard in both.
After a restart, the callback of the first `stop()` is modelled as if it also waited for the sockets
of the new listener (`StopResolved`). What `verify` makes of the worker's answer is not looked at.

## 6. Plan

More consequences of `FleetComposes`, such as the calls of sessions on a shared pool.
