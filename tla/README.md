# A TLA+ model of sixtysocks

Sixtysocks is a SOCKSv6 proxy and a transparent proxifier in one program. Both
are built on one event loop: reactors own sockets, register one-shot epoll
events with a poller and are destroyed when nothing references them any more.
This directory models the parts of the program where the order of events
matters, checks them with TLC on small instances and proves the safety properties
with TLAPS for instances of any size. `PROJECT.json` maps every definition to
the lines of `src/` it stands for.

## 1. Inventory

### How the program runs

`main()` (`sixtysocks.cc`) makes a `Poller`, assigns one listener (a `Proxifier`)
or up to two (a `Proxy` for TCP, a `Proxy` for TLS), and calls
`Poller::threadFun` on the main thread. The worker threads of the poller's
constructor are commented out, so the program is **single-threaded**: the option
`-j` has no effect, and the spin locks in the code are never contended. What
interleaves are *events*: every handler runs to its end (nested handlers
included), but which descriptor is served next, what the kernel did in the
meantime and what the peers do is open.

| part | state | operations | talks to |
|---|---|---|---|
| event loop (`core/poller`, `core/reactor`, `core/stickreactor`) | `fdEntries` (reactor, registered), reference counts, `active` | `add`, `remove`, `assign`, `runAs`, `threadFun`, `deactivate`, destructors | epoll; every reactor |
| descriptors, sockets (`core/uniqfd.hh`, `core/socket.hh`) | the owned number | `dup`, `shutdown`+`close`, `recv`, `send`, `connect`, fast open | kernel, TLS, stream buffer |
| stream buffer (`core/streambuffer.hh`) | array, `head`, `tail` | `use`, `unuse`, `makeHeadroom`, `prepend` | sockets, message parsers |
| streaming (`core/streamreactor.cc`) | `streamState`, buffer, two sockets | `process` | the reactor of the other direction, by shared sockets |
| listening (`core/listenreactor.cc`) | the listening socket | `accept4`, `handleNewConnection` | proxy, proxifier |
| proxifier (`proxifier/proxifier.*`, `sessionsupplicant.*`, `sessionsupplicationagent.*`) | `session`, `supplicationLock`, supplicants | `start`, `handleNewConnection`, `getSession`, `setSession`, `killSession`, `supplicantDone` | its connections, the proxy |
| proxifier connections (`proxifierupstreamer.*`, `proxifierdownstreamer.*`, `readabledeferreactor.*`) | `S_CONNECTING` ... `S_STREAM`; `S_WAITING_FOR_AUTH_REP` ... `S_STREAM` | `start`, `process` | client, proxy, `Proxifier` |
| token wallet (`clientsession.hh`) | window of tokens | `getToken`, `updateWallet` | proxifier connections |
| proxy (`proxy/proxy.*`, `serversession.hh`) | `sessions`, token banks | `spawnSession`, `getSession`, `makeBank` | `AuthUtil` |
| authentication (`proxy/authutil.cc`, `authserver.*`) | the reply being sent | `authenticate`, `sendReply` | upstreamer, proxy |
| proxy connections (`proxyupstreamer.*`, `*proxydownstreamer.*`) | `S_READING_REQ`, `S_READING_TFO_PAYLOAD`, `S_CONNECTING`, `S_STREAM` | `process`, `honorRequest`, `honorConnect` | client, server, `AuthServer` |
| TLS (`tls/`) | handshake state, early data, the numbers `readFD` and `writeFD` | `clientHandshake`, `tlsRead`, `tlsWrite`, `setReadFD`, `setWriteFD` | NSS, the sockets of all reactors of a connection |
| timers (`core/timeoutreactor.*`, `core/timer.*`) | queues of timers | `add`, `refresh`, `cancel`, `process` | not wired: every use is commented out |
| resolver, password check, TFO cookie agent, command line | - | - | - |

### What is hard

* **Events outliving their registration.** The kernel keys a registration by
  descriptor number *and* open file. The reactors of a connection `dup` each
  other's sockets, so closing a number does not drop its registration by itself,
  and numbers are reused.
* **Life by reference count.** Reactors are kept alive by entries, by running
  handlers and by each other; which of them dies first decides which descriptors
  are closed and what the peers are told.
* **Short reads and writes, half-closing, resets** in both directions at once.
* **A shared session** that many connections use, one at a time may ask for, and
  a restarted proxy forgets.
* **Buffer arithmetic** on unsigned indices.
* **Requests and replies in pieces.** Either side may get a part of a message, or a
  message with data behind it, and the next state has to start from there.
* **Requests delivered twice** by fast open and early data, which tokens guard
  against.
* **Descriptor numbers cached** in a TLS object that several reactors share.
* **One thread**: a handler that waits, waits for ever.

`PROJECT.json` lists these hazards at the lines where they bite, with the
properties that cover them, or why none does yet.

## 2. Modules

| module | what it models |
|---|---|
| `Poller` | event loop, reactor life cycle, descriptors, epoll |
| `PollerProofs` | proofs about `Poller` |
| `ByteQueue` | abstract specification: a queue of bytes |
| `StreamBuffer` | the stream buffer; implements `ByteQueue` |
| `StreamBufferProofs` | proofs about `StreamBuffer`, the refinement included |
| `Tunnel` | two stream reactors between two TCP connections |
| `TunnelProofs` | proofs about `Tunnel` |
| `Sessions` | sessions of a proxifier against a proxy that restarts |
| `SessionsProofs` | proofs about `Sessions` |
| `ProxyRequest` | a connection of the proxy up to streaming; hands over to `Tunnel` |
| `ProxyRequestProofs` | proofs about `ProxyRequest`, the hand-over included |
| `Proxify` | a connection of the proxifier up to streaming, with fast open, TLS, early data |
| `ProxifyProofs` | proofs about `Proxify` |
| `Tokens` | wallet, bank and requests that are delivered twice |
| `TokensProofs` | proofs about `Tokens` |
| `TLSDescriptors` | the descriptor numbers of connections with TLS |
| `TLSDescriptorsProofs` | proofs about `TLSDescriptors` |
| `Listen` | the accept loop at the limit of descriptors |
| `MC...` | instances for TLC |

### Poller

A handler in progress is a frame of `stack`; the innermost one takes steps, each
of which is a call that the reactors make: open or close a descriptor (`OpenFD`,
`CloseFD`), `Add`, `Deactivate`, `Spawn` (assign a new reactor), `RunAs` (call
into a reactor it references), `DropRef`, or end normally (`Return`), with an
exception (`Throw`), or with an exception out of the catch block of `runAs`
(`Escape`). Which calls a handler makes is left open, so the results hold for
every reactor of the program that keeps to two rules the model does build in: a
handler registers and closes only descriptors of its own reactor, and a new
reactor references its creator or what the creator references. The
`ReadableDeferReactor` is the exception: it registers a descriptor that belongs to the
upstreamer it holds, and has its own action `SpawnDeferred`.

The kernel is three variables: which file a number refers to, the interest list
as pairs of number and file, and the pairs whose one-shot event is still armed.
`Dispatch` may fire for any armed pair: readiness is not modelled. A reactor
without references is destroyed before anything else happens, as `intrusive_ptr`
does. An exited program (`loop = "exited"`) stops; hence no deadlock check.

### StreamBuffer and ByteQueue

`StreamBuffer` has the array, the indices and the calls made on it; `usedSize`
and `availSize` are plain differences, and `InBounds` says that they never wrap.
`Prepend` takes its length modulo `SizeMod`, the 256 values of the `uint8_t`
parameter. A byte from the socket is its position in the stream, byte `i` of a
request is `-i`, so a byte out of place is visible. `ByteQueue` is what the
users of the buffer rely on; the refinement mapping reads the queue off the
array. Draining into `out` stands for sending and for parsing alike.

### Tunnel

Two reactors, `up` and `down`, with the state, buffer and two descriptors each of
`StreamReactor`, and the two TCP sockets with send and receive buffers. `process()`
is one atomic step per socket call: `Receive`, then (`busy`) `Send` or `SendBlocks`
in the same handler. `Close` models `UniqSendFD` (shutdown, so a FIN follows the
last byte) and the kernel's reset when a socket is closed with unread bytes.
`HoldsPeer` tells the proxy, whose downstreamer references the upstreamer and
starts with the operation reply, from the proxifier, which drops the reference.
Peers write, close, abort and read as they like. `Init` allows everything with which
the request phase may hand over: bytes in the buffers, a reply in front, a
stream state that follows from them; `ProxyRequest!HandsOver` checks that it does.

### Sessions

Connections of the proxifier, each with an upstreamer, a downstreamer and
possibly a supplicant, which the two share; the supplication agent; the session
and the lock of the `Proxifier`; the proxy with its session table. Handlers are
atomic, as in the program; messages to and from the proxy take time, connections
break, and the proxy restarts with an empty table. `Authenticate` follows
`AuthUtil::authenticate`; a token sent with a session may be accepted or refused
(both replies are possible), and the contents of tokens are left out. The
session's ID stands for the `ClientSession` object: every ID is drawn
afresh at random from 64 bits, and the model takes it never to repeat.

### ProxyRequest

`up` is the state of `ProxyUpstreamer`, `authBuf` the buffer of the `AuthServer`,
`down` and `reply` the downstreamer and what it has left to send. `ReadRequest` is
the handler in `S_READING_REQ` with everything it calls: parsing, authentication,
creation of the `AuthServer`. The nested calls (`AuthServer::start`, `authDone`) are
steps of their own, because the client acts between two system calls; `at` says
which one is due, and no other handler runs before it. `HonorConnect`, `Payload`
and `Connect` are `honorConnect` and the states `S_READING_TFO_PAYLOAD` and
`S_CONNECTING`, `Thrown` the catch block of `honorRequest`. A request is a
record: kind, whether the credentials are right, length, promised payload,
address; replies are two cells long, so that a send can stop inside one. Every
system call may fail, `MaxFaults` times. When `up` streams and the
downstreamer is a `ConnectProxyDownstreamer`, the state has to be one in which
`Tunnel` may start (`T == INSTANCE Tunnel WITH ...`, `HandsOver`): `ByDir` and `BySock`
give its two reactors and two sockets their values, `Greeted` says that the greeting
of `Tunnel` stands for the operation reply.

### Proxify

`setup` says how the connection is made: fast open (and how many bytes of it),
TLS, early data, a ticket. `Start` is `ProxifierUpstreamer::start` with
`Socket::sockConnect`; with TLS the connection may be deferred, so `Connected` does not wait
for it; `WriteEarly` and `Handshake` are the two states of
`TLS::clientHandshake`; `SendRequest` makes the downstreamer, as `S_SENDING_REQ` does.
`DownReads` strips replies from whatever has come, falling through the states as
`process()` does. NSS is `nss` and `TLSServer`: what it does with early data, by what
`tls.cc` relies on. The proxy's side is a script of replies with data behind them,
cut off anywhere.

### Tokens

A request is one connection: `Make` (the session of now, and the lock), `Send` (a
token of the session's wallet), up to two copies on their way, `AuthUnknown`,
`AuthNew` and `AuthKnown` for `AuthUtil::authenticate`, `ReceiveNew` and
`ReceiveKnown` for the supplicant and the downstreamer. Wallet and bank are
classes of libsocks6util, modelled by what this code needs of them; a bank may move
its window over unspent tokens. Numbers wrap around at `TokenMod`. IDs are taken
to be fresh after a restart too: `sixtysocks.cc:85` seeds `rand()` with the time.

### TLSDescriptors

`file` is the descriptor table, with numbers reused lowest first; `fd` says which
reactor has which number, `readFD` and `writeFD` are those of the TLS object.
`Duplicate` is `Socket::duplicate`, `Leaves` the death of reactors by reference
counts, `Emit` whatever NSS sends through `dSend`. `astray` collects what has gone into
a descriptor that is not the connection's.

### Listen

`listener` is "running" inside the loop of `ListenReactor::process`, and then nothing
else runs. A connection opens descriptors up to `PerConn` and ends; `accept4`
fails at `Limit`, and now and then for other reasons, and is tried again (`AcceptError`).
An error that is not in the list of `process` (`AcceptThrows`), or a failing `epoll_ctl`
(the second disjunct of `Resched`), is thrown, and `runAs` deactivates the listener
(`Killed`). Every reactor of a connection references the listener, directly or through
its upstreamer, and main() does not: `Destroy`, the destructor that closes the socket, comes
when the last connection is over, and whoever was in the queue is reset. `fatal` records
such an error, so that `Served` can say that nothing else ends a listener. A proxy with
TLS has two listeners; one is modelled.

## 3. Runs

| run | states | shows |
|---|---|---|
| `poller` | 324 000 | entries mirror epoll, every event finds its owner, the loop never returns, no entry keeps a reactor it will not wake, nothing is lost |
| `stream_buffer` | 162 000 | indices in bounds, an empty buffer has room, the buffer is a queue |
| `stream_buffer_long` | violation | a request longer than 255 bytes is truncated by `prepend` |
| `tunnel` | 74 400 | no byte lost, FIN after the last byte, ends passed on, all released, for proxy and proxifier |
| `tunnel_proxy_abort` | violation | a silent server is never told that the client has reset |
| `sessions` | 232 000 | lock discipline, only dead sessions discarded, session regained |
| `proxy_request` | 12 900 | one well-formed answer that has a cause, nothing for the unauthenticated, only promised bytes in the SYN, no silent end, a proper hand-over, an answer in the end |
| `dns_redirect` | violation | 0.0.0.0:53 is redirected to 1.0.0.127 |
| `proxify` | 216 000 | request and data once and in order, replies stripped, refusals passed on, the server's first words heard |
| `tokens` | 70 600 | no request honoured twice, tokens spent in their own session, wallets never ahead of banks |
| `tls_descriptors` | 905 000 | each reactor reads and writes through its own descriptor; when NSS writes to a number that is not its own |
| `listen` | 7 100 | every client is accepted, or the thread is caught at the limit, or an error that is not retried has ended the listener |

Where the code falls short of a property without contradicting any document, the
property names the exception, as narrowly as it holds: `EndIsPassedOn` (a client's abort
at a proxy), `SessionRegained` (silent clients with `-D`), `AnswersHaveCause` (payload
that is late), `ServerHeard` (fast open that takes everything), `SentOnce` (early
data without a ticket), `StraysHaveNoOwner` (numbers of closed descriptors), `Served` (the
limit of descriptors, errors that end the listener). Without its exception TLC refutes each of them.

Bounds. `poller`: three reactors and a deferrer, three descriptor numbers and two
files are the smallest instance in which a number is reused while a `dup` of its
old file is open and a third reactor references the other two; `MaxDepth` 3 is
listener - upstreamer - downstreamer. Reactors (but not the deferrer), numbers and
files are symmetric. `stream_buffer`: array, headroom and `SizeMod` are scaled
down together (7, 3, 4 for 35 KiB, 17 KiB, 256); the bytes received exceed the array, so it
is used more than once. In `stream_buffer_long` requests of up to the headroom
are allowed. `tunnel`: a receive buffer larger than the reactor's, and more
bytes than any single buffer holds, so every send and receive can be short.
`sessions`: two connections that are reused without limit, two restarts, one
failure out of the blue, four sessions; the liveness property would fail if the
bound on sessions cut a behaviour short. `proxy_request`: requests of every kind,
shorter and longer than the buffer, promising less and more payload than `MSS`; one cell
of send buffer, so every reply is cut. `proxify`: all setups, two bytes from
either side, fast open that takes nothing, a part or all. `tokens`: four
requests, two sessions, one restart, a window of two that starts at the last
number, so it wraps around. `tls_descriptors`: two connections and other
users of four numbers, both roles. `listen`: four clients of up to three
descriptors each, and a limit of four, so the limit is met and missed.

Fairness. `Tunnel`: weak fairness of each reactor's step, since epoll hands out
ready descriptors in turn, and of reading by a live peer; nobody is obliged to
write, close or abort. `Sessions`: weak fairness of what the poller and the
network do, of the proxy's answers, of clients connecting and closing in the end;
none of restarts and failures, nor of the client of a deferred connection
sending anything: `SessionRegained` names the two ways in which silent clients
keep a proxifier with `-D` from its session, and excludes any other.
`ProxyRequest`: the handlers, a client that reads what it is sent, a server that
accepts or refuses; nobody has to write or close, so `Answered` is about requests
that have been written. `Proxify`: both reactors, the network, a client that
notices the end. `Listen`: the thread, weakly (errors do not have to happen); strongly, that a connection ends, for
it may do so only while the thread is not in `accept4`.
`Poller`, `StreamBuffer`, `Tokens` and `TLSDescriptors` are checked for safety only.
Runs without a deadlock check are those of connections that are over in the end.

Every property has a mutant: an operator beside the definition it replaces,
which changes it as a plausible bug would, and under which TLC finds the property
violated.

## 4. Proofs

Every invariant and every action property of the passing runs is also a theorem,
for every value of the constants. Each module of proofs has an inductive invariant;
below is what it has beyond the properties, and why.

* `PollerProofs`: `TypeOK`, `EpollMirror`, `DispatchSafe`, `LoopNeverReturns`,
  `NoFDLeak`, `EntriesArmed` (without which `Cleared` could leave an entry behind for a closed
  number), from the inductive invariant `IInv` of `Poller`. Besides these it needs
  `References` (references lead to live reactors, or destruction could leave one
  dangling) and `DeferrerWaits` (a deferrer waits for one descriptor and has not
  run, or the upstreamer it protects could close that descriptor).
  `NoLostReactor` is about reachability, and is proved without following paths:
  `Acyclic` says that every non-empty set of live reactors has a member that none
  of the set references, since a reactor gets references from its constructor
  only. Lost reactors would be such a set.
* `StreamBufferProofs`: `TypeOK`, `InBounds` and `EmptyHasRoom` need `EmptyIsLow`: only
  the headroom keeps an empty buffer away from index 0. The refinement
  `ImplementsQueue` is proved under `ShortRequests`, that every request is shorter
  than `SizeMod`; the run `stream_buffer_long` shows why the condition is needed.
* `TunnelProofs`: `TypeOK`, `Conservation`, `ReceivesIntoEmpty`, `FinMeansComplete`.
  Bytes move from the front of one queue to the end of the next, which leaves the
  concatenation of all four alone (`Line`). `Owned` ties the descriptors to the
  life of their reactor; `Orderly` says that, while nobody aborts, a reactor ends only
  when its source has ended and all is delivered, so its FIN comes last.
* `SessionsProofs`: `TypeOK`, `LockDiscipline`, `AsksOnlyWithout` and the action property
  `DiscardsOnlyDead`. The strengthening is `Stages` (a supplicant exists only while
  its connection does and is served once) and `Letters` (a reply that does not
  confirm a session is about one the proxy does not know).
* `ProxyRequestProofs`: `TypeOK`, `OneAnswer`, `NothingUnauthenticated`, `OnlyPromised`,
  `EndMeansAnswered`, `HandsOver` and the action property `AnswersHaveCause`. `Phases`
  says which reactors exist when, `Spoken` what has been said to the client in each
  of them, up to the cell at which a send has stopped, `Endings` how a connection
  may end if nothing disturbs it, `Accounts` where every byte of request and payload is.
  From `Accounts` and `Spoken` follows `HandsOver`, that streaming starts in an initial
  state of `Tunnel`. `AnswersHaveCause` looks at where the cells of operation replies
  come from: only the handlers that make a downstreamer add words to the dialogue.
* `ProxifyProofs`: `TypeOK`, `SentOnce`, `RepliesStripped`. Every queue is a part of
  `Padded(z, n)`, the cells of `z` bytes of messages and then the stream's bytes:
  `Replies` has the downstreamer's part in each of its states, `Sending` the upstreamer's,
  with `Handshaking` for early data (the buffer is kept, and what went out early is
  its beginning) and `Passed` for what may happen twice without a ticket.
* `TokensProofs`: `AtMostOnce`, `TokenOfSession`, `NeverAhead`. For the first two, `Spawned`
  (an ID is not given out before its session exists, so a forgotten one never comes
  to mean another), `Unsent` and `Spent` (why a copy that is left cannot be honoured
  again). For `NeverAhead`, `Arcs`: until a session has handed out nearly all the tokens
  there are, bank, wallet, tokens and windows on their way lie on an arc that starts
  where the bank's window did and that the tokens handed out fill without a gap;
  there, distances from its start do not wrap around. Fully wrapped sessions
  (`Wide`) satisfy the property as it is stated; it does not say that the wallet
  is right after 2^32 requests.
* `TLSDescriptorsProofs`: `OwnDescriptors` and the action property `StraysHaveNoOwner`, from
  `Held` (a number that a reactor keeps is its connection's in the kernel's table),
  `Apart` (and no other reactor's) and `Shape` (whose numbers the TLS object has in
  each stage).

Assumptions are on constants only (`DeferrerAssumption`, `NullAssumption`,
`DepthAssumption`, `SizeAssumption`, `TunnelAssumption`, `SessionsAssumption`,
`ProxyRequestAssumption`, `ProxifyAssumption`, `TokensAssumption`,
`TLSDescriptorsAssumption`); TLC evaluates them. They say that bounds and sizes are
numbers (not 0 where nothing could be sent), that requests and setups have their
fields, and that special values are no ordinary ones. The proofs about `ProxyRequest`
and `Proxify` keep the models' fixed lengths of replies, two cells each.

Model-checked only: all liveness, which is out of the prover's reach:
`SessionRegained`, `EndIsPassedOn`, `AllReleased`, `Answered`, `RefusalIsPassedOn`,
`ServerHeard`, `Served` (the only property of `Listen`), and `AbortIsPassedOn`, which
its run refutes.

## 5. What the checks found

* `prepend` takes its size as a `uint8_t` (`core/streambuffer.hh:68`): a request of
  more than 255 bytes, possible with long credentials, is cut off.
* In the proxy an upstreamer killed by a reset stays referenced by its
  downstreamer with its sockets open; as the idle timer is commented out, the
  connection to a silent server stays for ever.
* `INADDR_LOOPBACK` is stored in host order (`proxy/proxyupstreamer.cc:24`), so the
  redirection of 0.0.0.0:53 leads to 1.0.0.127.

Violation runs show these three. The others are the exceptions in properties:

* `honorRequest` takes the exception of a `recv` that would block for a failure
  (`proxy/proxyupstreamer.cc:52`): a CONNECT with payload still on its way is refused.
* When fast open takes the whole request, nobody listens to the proxy before
  the client sends more (`proxifier/proxifierupstreamer.cc:82`).
* `clientHandshake` takes ordinary data for rejected early data when NSS has no
  ticket (`tls/tls.cc:149`) and sends them again.
* The TLS object keeps numbers of closed descriptors (`tls/tls.hh:49`,
  `core/streamreactor.cc:41`). `OwnDescriptors` says what does hold: no reactor that
  reads or writes does so through another's number.
* `accept4` at the limit of descriptors is retried for ever on the only thread
  (`core/listenreactor.cc:63`).
* An error of `accept4` that is not in the list (`core/listenreactor.cc:70`), or a failing
  `epoll_ctl`, ends the listener for good; the program runs on without it.

## 6. Plan

Done: event loop, buffer, streaming, sessions; the request phases of both sides,
tokens, TLS descriptors and listening; proofs of all their safety properties. Left:

1. Composition: proxifier and proxy connections back to back, `Proxify`'s script
   replaced by `ProxyRequest`; that the answers `OneAnswer` allows are the scripts
   that `Proxify` expects.
2. Lemmas towards liveness: which steps are enabled where `Answered` and
   `EndIsPassedOn` wait, as far as that is stated without `ENABLED`.

## 7. Not modelled

The contents of messages (libsocks6msg), NSS beyond what `tls.cc` relies on, and the
kernel's TCP beyond what `Tunnel` uses; the error tables and contexts of `tls/`; the
resolver, a stub; the timers, which nothing creates at this commit (every use is
commented out); the TFO cookie agent, which does nothing with its result; option
parsing. `createBank` and `getBank`, which nobody calls, and
`resolvDone`, which only the resolver would.
`Poller::stop` and `join` would run only after `threadFun` has returned, which
`LoopNeverReturns` excludes. A descriptor number above `expectedFDs`, which `add`
refuses and `remove` does not check, is not among the numbers of `Poller`. Sessions of
the proxy are never removed; there is nothing to check.
