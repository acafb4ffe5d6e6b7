# A TLA+ model of VeilDeploy

VeilDeploy is a VPN written in Go: a client and a server authenticate each other
with a pre-shared key, derive session keys, and carry packets between their
dataplanes in encrypted, padded frames over TCP or UDP. Around that core the
repository holds a library of transports, filters, key exchanges and access control,
and a desktop application. This directory models both, checks them with TLC and
proves with TLAPS, for every value of the constants, what matters most about the
core and about the components around it.
Paths below are relative to `src/`.

## 1. The system

### What runs

    main.go  runServer ──> transport.Listen (tcp, or udp sessions by demux)
               │  accept loop ── ratelimit.ConnectionLimiter
               │  one goroutine per session ── device.Device ── dataplane
               │  sessionRegistry  <── shutdown goroutine, config watcher
             runClient ──> transport.Dial ── one device.Device

    device.Device    Handshake (crypto/keyexchange.go), then TunnelLoop,
                     keepalive goroutine and outbound pump on one
                     transport.Transport; rekey messages (crypto/rekey.go)

| component | state | operations | interacts with | hard behaviour |
|---|---|---|---|---|
| Transport (`transport/transport.go:40-294`) | session keys by epoch, send and receive counter | writeFrame, Receive, InstallSession, UpdateSessionKeys | connection; three goroutines of the device | seals under the lock, writes after it; key changes while frames are in flight; loss and repetition on UDP |
| Handshake (`crypto/keyexchange.go`) | transcript, cookie, attempts at each end | clientHandshake, serverHandshake | the connection; InstallSession | retries with expiring cookies, stateless server cookies, UDP loss without deadlines, byte arithmetic |
| Rekey (`crypto/rekey.go`) | none (pure), a pending request in the device | NewRekeyRequest, ProcessRekey | Device | the answer is reported as an error; order of key change and response |
| Device (`device/device.go`) | secrets, pendingRekey, messageCount, closed, outboundStop, pump | Handshake, TunnelLoop, keepalive, pump, Close, UpdatePeers | Transport, dataplane, main.go | four goroutines, blocking writes, two callers of Close, Close against a late start |
| Server (`main.go:162-483`) | registry, cfg, listener | accept loop, session goroutine, forceShutdown, reload | limiter, Device, watcher | a session's end against forced shutdown, late registrations, reload against admission |
| Limiter (`internal/ratelimit`) | count, maximum, tokens | Allow, Release, Update | Server | Release exactly once for each Allow; Update while sessions run |
| UDP listener (`transport/transport.go:386-654`) | sessions by address, accept queue, read queues, half-read datagrams | demux, pushData, Accept, Read, Close of a session and of the listener | Server, Transport | send on a channel another goroutine closes; full queues; cleanup of a session whose address has a new one |
| Dataplanes (`internal/dataplane`) | outbound channel, subscribers, peers, closed | Deliver, Inject, Subscribe, EnsurePeer, read loops, Close | Device | readers and Deliver against Close |
| Peers and routes (`device/device.go`, `peer/peer.go`) | peer table, routes, the dataplane's peers | UpdatePeers, ensurePeer, lookupPeerByIP | tunnel loop, pump, reload | the routes are read without the lock under which a reload replaces them |

The library parts, which tests, examples and embedders use, and the front end:

| component | state | operations | hard behaviour |
|---|---|---|---|
| Multiplexer (`transport/mux.go`) | stream table, mutex, accept queue, a queue and a writer per stream | OpenStream, AcceptStream, Read, Write, Close, read loop, ping loop | writes with the mutex held, also its own; slow readers; Close against everything |
| Fallback listener (`transport/fallback.go`) | queue of valid connections, counters | detection, fallback of three kinds, Accept, Close | hand-over against Close; a client that sends nothing |
| CDN transport (`transport/cdn_friendly.go`) | connection queue; buffers of a WebSocket | HTTP handler, Accept, Read, Write, ping routine, Close | one writer allowed, three present; message boundaries |
| Timers (`internal/timers/timers.go`) | four timers, connection state, retry count | handshake, rekey, keepalive and dead-peer timers, Stop | a callback that fired and waits for the lock |
| Roaming (`transport/roaming.go`) | endpoint, candidates | UpdateEndpoint, switchToEndpoint, pruning and cleanup of candidates, ForceSetEndpoint | thresholds against time; callbacks in goroutines |
| Port hopping (`transport/port_hopping.go`) | slot, listener | hopRoutine, performHop, handlePortChange, Dial with tolerance | two clocks; callbacks out of order |
| Congestion (`transport/congestion.go`) | window, threshold, state, bytes in flight | CanSend, OnPacketSent, ack, loss, timeout, Reset, GetStatistics | check and send apart; recursive read lock |
| Plugins (`internal/plugin/sip003.go`) | process, pipes, flag, table of the manager, connection count | Start, Stop, output readers, monitor, Register, Unregister, StartAll | Stop waits with the lock the reader needs |
| Desktop (`cmd/desktop/main.go`, `cmd/gui/main.go`) | running flag, fields of client, server and management server | start and stop handlers, the service's goroutine | every field is shared by the goroutines of all requests |
| Anti-replay (`crypto/antireplay.go`) | base and bitmap, counter, Bloom filter, nonces with times | Check, Accept, Validate, cleanup, Reset | check and record apart; arithmetic at both ends of the window |
| 0-RTT (`transport/zero_rtt.go`) | tickets at both ends, used tickets | issue, store, use, validate, cleanup | the record of a use lives shorter than the ticket |
| PFS (`crypto/pfs.go`) | current, previous and pending secrets | rekey request, response, grace timer, epochs | crossing requests, lost messages |
| Noise (`crypto/noise.go`) | handshake states of many attempts | client hello, server response, finish | answers of other attempts, different suites |
| Negotiation (`crypto/negotiation.go`) | configuration, transcript, agreement | CreateOffer, ProcessOffer, ProcessResponse | what is in the transcript when the proof is made and checked |
| Accounts (`auth/database.go`, `auth/password.go`) | users, failed logins, file and backup | login in steps, updates, save, load, restore | guesses in parallel, failed saves, crashes |
| Tokens (`auth/auth.go`) | users, tokens | login in steps, validation in steps, revocation, cleanup | the lock is left between steps |
| Access lists (`auth/acl.go`) | rules, default | add, remove, enable, sort, check | ties and duplicates of names |
| Bridge discovery (`bridge/discovery.go`) | bridges, request counts, secrets | register, request, mail challenge, cleanup | limits counted between cleanups |
| Routing (`routing/router.go`, `routing/geoip.go`) | rules, ranges | load, add, remove, match, lookup | loads rule by rule while others load; ranges beyond IPv4 |
| Audit (`audit/audit.go`) | file, rotated files, sizes, buffer | Log, rotate, Close, restart | rotations in one second, failures in a rotation |

These do not call each other in this repository: each is used through its own
interface, by callers that a model makes at any moment.

### What makes each component correct

- Transport: a nonce is never used twice under one key; the receiver takes frames
  in order and none twice; a frame of the peer is not rejected on a reliable stream.
- Handshake: both ends derive keys from one transcript, only with the same
  pre-shared key; it fails only for a cause and, on TCP, ends.
- Device: both ends hold the same keys while both tunnel loops run; only a stop or
  a failure of the connection ends a loop; once told to stop, everything ends, in an
  order in which nobody reads what is closed.
- Server and limiter: every admitted session's slot is released exactly once; the
  maximum holds; shutdown returns and leaves nothing open; a reload reaches
  every session.
- UDP listener, fallback and CDN listeners: a connection is in one table or queue,
  or in one caller's care, or closed; closing ends every goroutine; data is read in
  the order it came.
- Dataplanes and peers: whoever waits on a channel is told of the end; a device has
  the configured peers, and their packets pass.
- Multiplexer: bytes of a stream in order, no stream disturbs another, Close returns.
- Timers, roaming, port hopping, congestion, plugins, desktop: what was overtaken by
  a later decision has no effect after it, and every wait ends.
- Replay filters and tickets: nothing passes twice, and what is new passes.
- PFS, Noise, negotiation: both ends that finish hold the same.
- Accounts, tokens, rules, routes, bridges: a grant has a cause at the time of the
  grant, and limits hold among concurrent callers.
- Accounts' file and audit log: what was reported as saved is in a file.

## 2. Modules

| module | models |
|---|---|
| `OrderedChannel` | abstract: frames numbered as they are sent; the receiver takes some, in order, none twice |
| `Transport` | one direction of a session: sealing, the two writes, the network, framing, opening, replay check, key changes |
| `TransportProofs`, `ServerProofs`, `HandshakeProofs`, `DeviceProofs`, `UDPListenerProofs`, `MuxProofs` | theorems about the module in the name, for every value of its constants |
| `NetworkProofs`, `TrustProofs` | theorems about the compositions `Network` and `Trust` and each of their components |
| `ConnectionLimiter` | the limiter's methods, one action each; extended by `Server` |
| `Server` | accept loop, session goroutines, registry, shutdown goroutine with each step of a forced close, config watcher and its comparison of peers |
| `Handshake` | both ends of a handshake and the first tunnel frame, over TCP or UDP |
| `Rekey` | NewRekeyRequest and ProcessRekey as pure operators |
| `Device` | two devices on one TCP connection; extends `Rekey` |
| `UDPListener` | demux with its sessions, their owners, and both ways of closing |
| `Dataplane` | the loopback and both bridges, with the goroutines that use them |
| `Peers` | peers and routes of one device: loop, pump and reload |
| `Mux` | a multiplexer, its streams, their owners and the peer |
| `Fallback` | the fallback listener and its clients |
| `CDNListener`, `CDNTransport` | the WebSocket listener; the two ends of one WebSocket |
| `Timers` | the timers of one connection |
| `Roaming` | the manager, the addresses packets come from, and the owner it tells |
| `PortHopping` | a server's and a client's manager, listener and dialer, on two clocks |
| `Congestion` | the window with concurrent senders, and GetStatistics against a writer |
| `Plugin` | a plugin's process with pipe and readers, its manager, its listener's counter |
| `Desktop` | start and stop requests with the services they made |
| `AntiReplay` | the filters with receivers between Check and Accept |
| `ZeroRTT` | client and server tables, and the early data on the network |
| `PFS` | two managers and the network; extends `Rekey` |
| `Noise` | attempts of a client and answers of a server, symbolically |
| `Negotiation` | an offer, the responses, the two ends |
| `Accounts` | logins, changes of the password, administrator, the file and crashes, for one user |
| `Tokens` | logins and validations against the administrator |
| `Acl`, `Router` | rules in order, and the decision; GeoIP lookup against a reference |
| `Discovery` | bridges, clients, mail challenges and the cleanup |
| `Audit` | a logger, its files, failures and restarts |
| `Network`, `Paths`, `Trust` | compositions of the components around the core |

Values of constants that a `.cfg` cannot write (records, functions) are defined at the end of
the module that is run, under a heading of their own.

How they compose: `Server` extends `ConnectionLimiter` and has its sessions end at
any time; `Device` is what happens inside one session, from both sides;
`Handshake` is what happens before, and its `CleanHandover` is what `Device`
starts from; `Device` treats a frame as written whole, which is `Transport`'s
case of a lone writer; that both ends of `Transport` hold the same key for an
epoch is `Device`'s `KeysAgree`. `UDPListener` and `Dataplane` are what `Server` and
`Device` see as a session's connection and as a plane; `Peers` is the part of a device
that `Server`'s version of a session's peer list stands for.

`Network`, `Paths` and `Trust` put several components into one run each. These
components do not interact, so a product of them would only multiply the states; a
composition is their sum instead: `component` is chosen in Init and never changes, the
chosen component, an INSTANCE with the composition's own constants and variables, takes its
steps, and the variables it does not use stay as they began. Each property of a composition
is the conjunction of what its components state, and a behaviour of the composition is a
behaviour of one component.

### Correspondence to the code

`PROJECT.json`, "map", gives the lines of each definition. The conventions:

- A critical section is one action; a lock released in the middle of a function
  ends the action (`Seal` and `Write` in `Transport`, `CloseDevice` and
  `ClosePlane` in `Device`, `Deadline`, `ForceClose`, `ForceStop`, `ForceWait` and
  `ForceRelease` in `Server`). A step that
  may block (a write, `Wait`, a receive on a channel) begins an action of its own.
- Keys are named, not computed. In `Transport` a key is its epoch; in `Handshake`
  it is the client hello in the transcript (each hello has fresh padding); in
  `Rekey` it is the ancestor and the two nonces it was derived from.
- A MAC or an AEAD verifies iff both ends use the same key.
- Time is nondeterminism: a cookie may expire, a token arrive, a deadline or ticker
  fire at any step at which the code could see it.
- Numbers keep their width where it shows: the padding limit plus one is taken
  modulo 256, the keepalive interval modulo 65536.
- Encodings, padding bytes, header masking and logging are left out.

Definitions marked `mutant` are faulty variants of the definition that follows
them; no specification uses them. `PROJECT.json` pairs each with the property
that catches it.

Choices worth knowing when reading:

- `Transport` has one direction, because the two share nothing but the key change;
  sending and receiving end change their keys independently, which includes every
  order that `Device` produces. Frames whose header is paired with a body of another
  frame are accepted if their lengths happen to agree, and rejected otherwise.
- `Server`: with UDP, closing the listener closes every session's connection but
  leaves the queue to `Accept`; with TCP it drops the queue. `cfg` is read by
  the accept loop while the watcher replaces it (an unsynchronised pointer): a
  read sees the old or the new one. `raced` and `late` name the sessions for which
  the code makes no promise, so the properties can say exactly which. `device` follows what
  matters of `Device` here: a pump that the handshake starts between the two steps of
  Device.Close is `stranded`, and the shutdown goroutine then waits for it. `PeersChanged`
  is the code's comparison, by name and by set, not inequality.
- `Handshake` lets the network repeat, lose and cut records on UDP only. A read on
  TCP fails when either end has closed, on UDP only when its own end has.
- `Device` is on TCP. The outbound pump drops what has no route without a trace, so
  only payloads that are sent appear. A keepalive whose write blocks is modelled as
  a later one.
- In the code as it is, every rekey ends a tunnel loop, so the branch of
  `HandleRekey` that installs keys cannot be taken. It is modelled all the same:
  the mutant of `KeysAgree` lets the exchange continue and shows that the
  order of key change and response would then be the next thing to fail.

- `UDPListener`: a datagram is read in two halves when a Read is shorter, so `last`
  counts halves. `toClose` is the copy of the table that Close iterates over.
- `Peers`: a reader of the routes may see the old array with the new length, or the
  reverse, which is what an unsynchronised slice header can yield; `wild` says that a
  lookup went past the end of its array. Epochs of peers are left out, because no
  rekey succeeds in the code.
- `Mux`: the mutex is a variable with its holder, because the code takes it twice. A chunk
  longer than the caller's buffer is cut, and what is left of it dropped; a chunk stands for
  its beginning.
- `CDNTransport` counts bytes. A write that overlaps another makes the library panic or
  lets a frame be lost; both are possible outcomes.
- `Timers`: `timer[t].others` counts the callbacks and running copies that the timer's
  pointer no longer reaches; `overtaken` names the timers stopped or started while a
  callback waited for the lock.
- `PortHopping`: `Ports` stands for calculatePort and has two slots with one port.
- `AntiReplay`: numbers have `Modulus` values, so that the test for age wraps.
- `ZeroRTT`: tickets are numbered as they are issued, so both ends' lists, which are
  appended to and cut at the front, are sets of numbers whose least is the oldest. The network
  repeats and delays tickets but makes none: a ticket carries a SHA-256 sum and no secret, so
  what is said of replays is said of tickets the server issued. The
  server's copies have no count of uses, because the server never counts one on them.
- `Accounts`: a change of the password, like a login that succeeded, works on the record
  that `GetUser` handed out: it writes into it under no lock and stores it afterwards, which
  undoes what was stored in between. `Enable2FA` and `Disable2FA` take the same three steps
  on other fields and are left out.
- `Negotiation`: `RefusesForCause` speaks of clients without downgrade protection. What the
  documents say of clients with it is `ProtectionAccepts`, which the code violates.
- `Discovery`: `cleanupAt` is when the ticker fires next; the cleanup runs within that
  instant, before or after the requests of the same instant.
- `Router`: a range that starts after it ends is accepted by AddEntry
  (`routing/geoip.go`), and one beyond IPv4 is encoded in fields of 32 bits; the reference
  in `LookupIsFirstRange` names both as exceptions.
- `Noise`: an encryption is the record of its keys and contents, and opens for whoever
  can form the same keys.
- `flaw`, `excused`, `raced`, `overtaken`, `overlapped`, `forgotten`, `doubled` and the
  like are history variables: they record that one of the races or failures occurred
  for which the code makes no promise, so that the properties can say exactly when.

## 3. Runs

| run | cfg | expects | asks |
|---|---|---|---|
| transport | `Transport.cfg` | pass | nonces, order and no repetition (`ImplementsChannel`), no loss for a lone writer on a stream |
| transport_reject | `TransportReject.cfg` | violation | is a genuine frame ever rejected on a stream? |
| server | `Server.cfg` | pass | slots, leaks, peers after a reload, what shutdown leaves and whether it returns |
| handshake | `Handshake.cfg` | pass | agreement, authentication, causes of failure, hand-over, parameters, termination |
| handshake_panic | `HandshakePanic.cfg` | violation | does the server survive every configuration? |
| device | `Device.cfg` | pass | keys, causes of an end, order of closing, termination |
| device_rekey | `DeviceRekey.cfg` | violation | does a tunnel survive a rekey? |
| device_stop | `DeviceStop.cfg` | violation | does a stop end every goroutine? |
| network | `Network.cfg` | pass | listeners, dataplanes, multiplexer, WebSockets, peers: tables, order, faults, ends |
| paths | `Paths.cfg` | pass | timers, roaming, port hopping, congestion, plugins, desktop: harm only if overtaken, waits that end |
| trust | `Trust.cfg` | pass | filters, tickets, key exchanges, accounts, rules, logs: replays, agreement, access, records |
| negotiation_protected | `NegotiationProtected.cfg` | violation | do two ends with downgrade protection come to an agreement? |

### Bounds

- transport: two goroutines, two frames, two epochs, four pieces in flight after a
  disturbance. Two whole frames fit, so they interleave, reorder and repeat; two
  frames have the same counter in different epochs. The proofs remove these bounds
  for everything but the liveness property, `LoneWriterDelivers`.
- server: two sessions, two configurations, one event from outside, which is a reload or a
  shutdown signal. Each race involves a session, the accept loop, and the watcher or the
  shutdown, of which there is one each; a second session lets the accept loop hold one while
  another ends. From one configuration to the other the peers change order and a network is
  doubled, which the reload does not see; the other way it sees a new network. A reload and
  a shutdown share the registry's set of sessions and the limiter; the proofs, which hold
  for any number of events, cover both together.
- handshake: the numbers of hellos and cookies are bounded by the code (four each).
  Three disturbances, an interval on each side of 16 bits, the default padding limit and
  the largest.
- device: `RekeyBudget` 2 so that a rekey is due by count and by the ticker; one
  frame fills the connection in each direction, so every write can block; two
  payloads or keepalives besides the bind frames. The states `BothBlocked` and
  `Stranded` that the properties except are reached with these bounds.
  `device_stop` needs no frames.

- network: two of whatever can meet (addresses, connections, streams, subscribers, peers)
  and queues of one element, so that each is empty, full and overrun; three datagrams
  let a session end and its address come back with another; three events of the peer let a
  stream be opened, filled and opened again; two reloads change routes in both directions.
- paths: thresholds and ages of one or two ticks with one tick more on the clock; a
  candidate table of one, which is full with the first; six time slots, with skewed clocks; a pipe of two lines; two services and two starts, for one to overtake the other.
- trust: six numbers for a window of two (it slides twice and wraps); a clock past every
  lifetime; two tickets, one allowed per peer; five nonces, enough for a rekey of each end
  and one that crosses; two attempts and two answers; two logins, which differ in
  nothing (`SYMMETRY Interchangeable`, all of the run's properties are invariants), one
  retry, three guesses and a lock that may end at any moment; two loads of rules; a cleanup period of two ticks on a clock of four; three
  loggers on one file, six events in two seconds.

The proofs of section 4 remove the bounds of the safety properties of all runs but `paths`.

`CHECK_DEADLOCK FALSE` in each cfg: the bounded models end (all frames
sent, all sessions gone, both devices closed), and so does the program.

### Fairness

Weak fairness of each goroutine whenever it can go on, which is what the Go
scheduler gives. It is stated per goroutine, never per branch: which of several
enabled branches a goroutine takes is left open. Nothing is assumed of clients,
signals, reloads, tickers, cookies' ages or the network; a TCP connection
delivers what it accepted. `Server` assumes that a session whose connection is
closed comes out of `Handshake` and `TunnelLoop`, which `Handshake` and `Device` check. The
wait of Device.Close for a pump is a step of its own; it is not enabled while the pump is
stranded, and no fairness is assumed of what would end such a pump (`FreePump`).

`network`: demux, the closing listener, an owner that has begun a Close, the read loop
and the closing of a dataplane, the multiplexer's loops and the handlers of fallback
connections go on when they can. Close of the multiplexer needs strong fairness: the mutex
it wants is taken by others in between, and Go's mutex hands over to a waiter in the end
(starvation mode). Nobody has to send, read, open or close. `Ends` assumes in addition
that the mutex is free again and again; the code does not guarantee that (below).
`paths`: time passes for the handshake and dead-peer timers, a callback that fired gets the
lock, a plugin's goroutines and GetStatistics go on. `trust` states safety only and has no
fairness.

### What the passing properties say

- `NonceUnique`, `ImplementsChannel`: whatever goroutines, key changes and the
  network do, no (key, counter) pair seals two frames, and the receiver's sequence
  of frames is a subsequence of the sender's.
- `LoneWriterLossless`, `LoneWriterDelivers`: with one goroutine sending, between
  key changes, on a stream, no frame is rejected and each arrives.
- `SlotInOneCare`, `CountIsExact`, `SlotsComeBack`: who must release each limiter slot,
  that the count is their number until a reload cuts it, and that a closed
  connection's slot returns, unless the shutdown took the session over and is held up by a
  stranded pump.
- `NothingLeftOpen`, `ShutdownDrains`, `ShutdownReturns`: what is left after
  sessions and shutdown, in every order; a stranded pump is all that can keep the shutdown
  from returning.
- `PeersFresh`: a session has the stored peer list or one that the code's comparison takes
  for equal; not more than that (below).
- `Agreement`, `Authenticated`, `FailsOnlyForCause`, `CleanHandover`,
  `ParametersAgree`, `HandshakeEnds`: see the comments in `Handshake`. The exceptions
  are part of the statements: repeated hellos, expired cookies, hang-ups, UDP
  handshakes that wait for ever.
- `KeysAgree`, `EndsForCause`, `PlaneOutlivesPump`, `TunnelStopsUnlessStranded`,
  `RequestGoesOut`: see `Device`.

- `FaultsForCause` (network). `UDPListener`: demux panics only over a session its owner
  closed between the check and the send, never because of the listener's Close. `Mux`: an
  open stream is out of the table only if its identifier was opened again.
  `Fallback`: a panic needs a connection whose handler Close overtook. `CDNListener`: a wss
  listener serves nobody. `CDNTransport`: a panic needs a ping or a Close, an end of the
  stream at the server an empty message. `Peers`: a lookup leaves its table only if a
  reload changed the length, and a configured peer's packets are dropped only by a UDP
  bridge after a reload.
- `TablesExact`: the listener's table holds the open sessions, each under its own
  address; every subscriber is told of the end of a loopback; a connection is in the queue
  once or in one care; the bytes counted on a WebSocket are those read or in flight; a
  device has the configured peers and no other without a cause.
- `InOrder`: no read of a UDP session or a stream goes back or repeats.
- `Ends`: a closed UDP listener, dataplane and multiplexer come to rest, and detection ends
  whatever the client sends.
- `RightUnlessOvertaken` (paths): with the race named, or without one no harm: timers,
  the roaming owner's endpoint, the hopping listener's port, the bytes in flight, plugin
  processes and connection counts, desktop services and the management address.
- `StepsForCause`: an endpoint moves only to an address that proved itself, unless forced, a dial fails only for clocks or ports apart, more than the window is in flight
  only if another sender came between check and send, no start replaces a live process.
- `WaitsEnd`: handshakes, statistics and Stop do not wait for ever.
- `NoReplay` (trust): what passes a filter twice was raced or lay exactly on the window's
  edge, and never with timestamps; a ticket is accepted again only as a retry or after
  its record is gone; new numbers pass.
- `EndsAgree`: `PFS` after delivery unless requests crossed or were lost; `Noise`
  exactly one partner per finished client; `Negotiation` the same outcome, and, for clients
  without downgrade protection, a refusal only for a feature the server does not offer.
- `AccessForCause`: guesses per lock, tokens per login and account, the decision of the
  first rule in force, ranges against a reference, grants per period, challenges.
- `RecordsKept`: the file equals the table unless the last save failed, or differs from it
  only in a password that is being changed; a logged event
  is in a file unless two rotations fell into one second.

### What the exceptions in them show

Passing properties name the cases in which the code does not do what one might hope.
They are worth a maintainer's look; where a document of the repository says otherwise, it
is named:

- `pushData` can panic demux (`transport/transport.go:551`), a reader of the UDP or TUN
  bridge (`internal/dataplane/udp_bridge.go:113`) and Deliver of the loopback can send on a
  channel that Close closed, and so can a fallback handler (`transport/fallback.go:158`).
- A multiplexer that opens a stream, or refuses one at its limit, waits for its own mutex
  (`transport/mux.go:93`, `114`, `274`), so that no program gets past the first
  `OpenStream` of `ENHANCEMENTS.md:225`; `StuckForEver` proves that nothing frees it. One
  whose peer does not read keeps the mutex, and Close waits.
  A stream refused or closed by its own end stays in the table.
- `ConnectionLimiter.Update` cuts the count to a lowered maximum
  (`internal/ratelimit/ratelimit.go:95-97`) while the sessions go on; when they end, more
  are admitted than the maximum of `docs/protocol.md:70-71` allows (`clamped`).
- peersChanged (`main.go:542-580`) compares peers by name and networks as sets of one size,
  while packets take the first route that matches (`device/device.go:495-500`): a reload
  that changes the order, or writes one network twice for two, is stored and reaches no
  session, although `USER_GUIDE.md:224-229` says that a change of the peers is applied
  within five seconds.
- A shutdown signal that meets a session in its handshake may leave the server waiting for
  that session's pump: the forced `Device.Close` is `device_stop`'s (`main.go:463`).
- Between a change of a password and its saving the file has the old one; a crash there
  loses a change that logins could already see (`auth/password.go:213`).
- The UDP bridge is not told of the peers a reload adds, so their packets are dropped.
- A handshake timeout that waits for the lock ends a connection established meanwhile;
  a stopped timer whose callback waited runs again and Stop no longer reaches it.
- `GetStatistics` takes a read lock twice and waits for ever if a writer queues between.
- `StartAll` works on a copy of the plugin table: one unregistered since is started and
  nobody can stop it.
- The desktop's stop may find nothing to cancel, and a service that ends late clears the
  flag of the next.
- A filter without timestamps lets a number at the window's edge pass twice; used tickets are
  forgotten before they expire; PFS ends that cross their requests differ, and a lost
  response leaves a request pending for good.
- `Noise`: a padding limit of 255 panics the client; the responder does not look at its own
  `MinVersion`; without a common suite it takes chacha20.
- A wss listener is served without a certificate; the client's read of a WebSocket drops
  the end of a message longer than the buffer, and an empty message is the end of the stream.
- Two rotations of the audit log in one second overwrite each other; the size at which it
  rotates is the size the file had at start, so a new file is never rotated.

### What the violations show

1. `transport_reject`: `writeFrame` numbers a frame under the lock and writes it
   after (`transport/transport.go:184-191`); two goroutines' frames arrive out of
   order or inside each other and the tunnel ends.
2. `handshake_panic`: `int(max+1)` in `uint8` (`crypto/keyexchange.go:340`) is zero for
   the padding limit 255, the default of `config/simple.go:179`.
3. `device_rekey`: `handleRekey` takes `ErrRekeyResponseRequired` for a failure
   (`device/device.go:284-287`).
4. `device_stop`: `Device.Close` before the handshake's return leaves a pump that
   nobody stops and waits for it (`device/device.go:417-435`, `448-493`).
5. `negotiation_protected`: a client with downgrade protection checks a proof made over the
   offer against a transcript that has the response as well (`crypto/negotiation.go:228`,
   `240`), so it refuses every response; the repository's test of negotiation turns the
   protection off (`crypto/protocol_test.go:266`).

## 4. Proofs

Each theorem holds for every value of the constants: any goroutines, sessions,
configurations, options, addresses and streams, and every bound.

### What is assumed

`Transport`, `Server`, `Handshake`, `Device`, `Network` and `Trust` state what they need of
their constants in an ASSUME, which TLC evaluates for the values of the run: bounds are
numbers, `Config.Validate` keeps keepalive intervals above 4999 ms and padding limits in
1..255, a configuration's maximum and burst are positive, sessions, connections and logins
are finitely many. Beyond that,

- `NetworkAssumption`: a UDP session's queue has room for a datagram
  (`transport/transport.go:532`), message sizes are numbers, and no peer has the name that
  stands for "not found".
- `TrustAssumption`: a bitmap has at least three bits, which the two bits of the model's
  Bloom hash need; the limit of wrong passwords, the retry window, the period of
  the rate limit and the log's buffer are not zero (their defaults in the code are not, and
  the buffer's zero is replaced); lists of suites are lists; ranges are pairs of numbers.

`UDPListener`, `Mux` and every other component are instantiated by a composition, so the
part they need is the hypothesis of their own theorems (`Bounds`, `ProbeBounds`,
`UsersBounds` and the like) and follows from the composition's assumption. Nothing else is
assumed; in particular nothing of fairness, which safety does not need.

### The arguments

An invariant that a run checks is seldom inductive. Each proof strengthens it (`IInv`, or
the named parts that follow it), shows that Init establishes the strengthening and that
each action keeps it, and derives the invariant.

**Transport** (`TypeCorrect`, `NoncesUnique`, `TransportIsOrderedChannel`,
`LoneWriterLosesNothing`). The argument orders frames by epoch and then counter.
`NonceUnique` alone is not inductive: a step that seals must know that nothing sealed before
has the current counter. `IInv` says that every sealed frame comes before the one the session
would seal next (`SealedBelow`), that frames are sealed in strictly increasing order
(`SealedInOrder`), that only sealed frames are held or in flight (`OnlySealed`), and that the
last frame taken comes before any the receiver would take next (`LastBelow`). A key change
keeps the order because the new epoch is larger, which is why resetting both counters there
is harmless. From `SealedInOrder` follow the uniqueness of nonces and, with `LastBelow`, that
a frame taken has a larger number than the last: a `Take` of `OrderedChannel`
(`sent <- Len(sealed)`, `taken <- accepted`). Every other action stutters or is a `Send`.
For a lone writer `Lossless` describes the whole wire: the k-th frame on it is the k-th after
those accepted, header before body, and what the writer still has to write completes it.

**Server** (`ServerTypeCorrect`, `SlotsInOneCare`, `CountExact`,
`AdmissionRespectsMaxUntilCut`, `NothingStaysOpen`, `ShutdownLeavesOnlyLate`,
`PeersStayFresh`). `Custody` follows a slot: a session holds one iff it is in the hands of the
accept loop after Allow, or in the registry, or taken over by the shutdown, or its goroutine
is about to release. The places exclude each other, because removal from the registry is what
decides between goroutine and shutdown. So a slot is released once, by a goroutine that holds
it, and the count is the number of holders until a reload cuts it; with
`AdmissionRespectsMaxUntilCut` the cut in `Update` is the only way past the maximum. `ClosedInTurn` carries `NothingLeftOpen`: connection first, device next, slot last.
`FreshUpToStore` carries `PeersFresh` through a reload, during which the registered sessions
have the list of a configuration that is not stored yet, or one the comparison does not tell
from it. That needs the comparison to be transitive: a session may keep a list through any
number of reloads, each compared only with the one before.

**Handshake** (`HandshakeTypeCorrect`, `EndsAgree`, `EndsAuthenticated`,
`ServerParametersInstalled`, `TunnelStartsClean`, `FailsForCause`). Hello, cookie and server
hello take turns: unless the network repeated a record, at most one hello or cookie is under
way, about the client's last hello, and none once the server has installed (`InTurn`). Loss and
cuts only thin out the wires, which keeps it. On TCP no handshake record is behind a frame of
the tunnel (`OnTcp`), and, while no cause has occurred, nobody has failed: this is proved
together with turn-taking, since a failure comes from a record out of turn.

**Device** (`DeviceTypeCorrect`, `TransportsAgree`, `NoRekeyTakesEffect`, `LoopEndsForCause`,
`PumpEndsFirst`). What is ever written is a plain frame or a rekey request: the
receiver of a request takes the "error" that asks it to respond for a failure and ends, so no
response is written and no key changes (`KeysOfHandshake`). `KeysAgree` holds for that reason, and
`NoRekeyTakesEffect` says so: as the code stands a rekey ends the tunnel and never renews a key.
`Calm` says that until a stop or a due rekey nothing is closed and only plain frames are
in flight; `MadeTogether` and `ClosedFirst` relate pump, stop channel and the two callers of
Close.

**UDP listener** (`ListenerTypeCorrect`, `TableStaysExact`, `ListenerCannotPanicDemux`,
`ReadsStayInOrder`). demux holds the listener's lock from its look at a session to its send,
so Close of the listener cannot come between and only the owner can (`ClosedByOwner`). A
session leaves the table by the cleanup of its own owner, so the table stays exact when an
address comes back. For the order of reads, `Ordered` describes a session's last read, the
second half of that datagram and its queue as one increasing sequence.

**Multiplexer** (`MuxTypeCorrect`, `ChunksStayInOrder`, `StreamsStayNamed`,
`OneWritesAtATime`, `StuckForEver`). Who writes to the connection holds the mutex
(`MutexHeld`). Chunks are numbered as they come, and a stream's buffers increase up to the
frame the read loop has in hand (`Arrived`). `Named` finds an open stream in the table, or a
later one of its identifier. `StuckForEver` is an action property no run states: a mutex whose
holder waits for it is never free again.

**Network** (`NetworkTypeCorrect`, `FaultsOnlyForCause`, `TablesStayExact`,
`NetworkInOrder`). Each component has an inductive invariant and a lemma per action.

- *UDP listener, multiplexer*: the instances in `Network` take the steps of the modules, so the
  invariants of `UDPListenerProofs` and `MuxProofs` hold of them.
- *Fallback* (`QueueStaysExact`, `ListenerPanicsOnlyIfOvertaken`): the queue has no doubles and
  holds exactly the connections whose phase says so; how many are held and counted is the
  cardinality of sets of phases, and one connection's move changes one element of them.
- *CDN listener* (`ConnectionsStayOwned`): the same queue argument, with the hand-over to Accept.
- *Dataplanes* (`ChannelsCloseTogether`): every channel a loopback gave out is registered with a
  peer, so Close finds it, and is closed exactly if the loopback is; bridges have no channels.
- *WebSocket* (`BytesStayExact`): the bytes of the frames under way are the last of their running
  totals, a function that is unique for a sequence of numbers; so no sum by recursion is
  needed, and taking from the front subtracts from each total.
- *Peers* (`LookupsOnlyForCause`): a lookup combines the array of one table with the length of
  another; they fit unless two successive tables differ in length, which a reload did.

**Trust** (`TrustTypeCorrect`, `NothingReplayed`, `TwoEndsAgree`, `AccessHasCause`,
`RecordsStayKept`).

- *Replay filters* (`ReplaysHaveCause`, `CombinationNeverReplays`, `NewNumbersPass`): a number that
  passed is held by a receiver between Check and Accept, or the filter recognises it: it is
  below the counter, its bits are set, or it is in the bitmap or off the window
  (`PassedKnown`). The combination needs no Accept, since Check records the nonce, which
  stays until the message is too old for its timestamp (`NoncesKept`). This includes
  bitmaps narrower than the window.
- *Tickets* (`TicketsReacceptedForCause`): each acceptance lies in the retry window of the use on
  record, or of an acceptance from which the record could have been dropped.
- *PFS* (`SecretsAgree`): without a crossing or a loss the rekey is settled, asked by one end or
  answered by the other, and the message under way, if any, is the one of that state; data
  under way opens now, or after the answer that is under way, or is older than two epochs.
- *Noise* (`KeysStayShared`): a symbolic state is the list of what was mixed into it, so equal keys
  come from equal lists; a message opens only for who formed the same list, which names
  the one exchange it was sealed in.
- *Negotiation* (`TwoEndsAgree`): the client's configuration determines the offer and the
  server's the result, so every response carries it. A proof is over a transcript that ends
  with the offer and is checked against one that ends with the response: the two are never
  equal, so that no client with downgrade protection accepts and the agreement is one of
  clients without it.
- *Accounts* (`GuessesStayBounded`, `FileStaysTrue`): while the account is locked, the wrong
  passwords tried and the logins that can still try one, having passed the lock test, are
  together at most one less than the limit plus the number of logins; unlocked, fewer than
  the limit have been tried since. What the file holds needs that everyone who holds a record
  holds one that was made, and that the file differs from the table only while a change of
  the table's own record is under way (`ChangersHold`).
- *Tokens*: a login under way has found the account enabled, and the password right if it is the
  one in force; a validation that takes a token away has seen it expired.
- *Access rules* (`RulesDecideForCause`): a name is on two rules only if it was doubled, and a rule
  that is on is wanted; the first rule that applies is found with a least element.
- *Routing*: the rules that a load has added so far are in the table, in the order of its
  configuration, whatever other loads put between them, unless a removal took one.
- *Bridges* (`BurstsStayBounded`): between two cleanups a client is granted at most its limit, and
  cleanups are an hour apart, so the grants two limits back are at least an hour old: with
  the limit as distance, the times of grants are spaced by hours.
- *Audit* (`LoggedStaysKept`): an event that left the log file did so in a rotation, whose file has
  its second's name and is overwritten only by another rotation in that second.

**Compositions.** A behaviour of `Network` or `Trust` is one of one component: `component` is
constant, its component's invariant is kept by its own steps, and for the others nothing
has to hold. TypeOK, the invariants and `InOrder` of a composition follow by cases.

### Only model-checked

- Liveness: `LoneWriterDelivers`, `SlotsComeBack`, `ShutdownReturns`, `HandshakeEnds`,
  `TunnelStopsUnlessStranded`, `RequestGoesOut`, `Ends`, `WaitsEnd`. TLAPS does not reason about
  fairness and ENABLED here.
- `TypeOK`, `RightUnlessOvertaken` and `StepsForCause` of `Paths`: roaming, port hopping,
  congestion, plugins, timers and the desktop application.
- That each component's constants in the code have the values the assumptions admit: this is
  read off the sources, and TLC evaluates the assumptions only for the values of the runs.

## 5. Not modelled, and why

- Double ratchet (`crypto/pfs.go`): each end derives its sending chain from a key pair the
  other never learns, so no two instances exchange a message; there is no protocol.
- PathValidator (`transport/roaming.go`): a table of challenges behind one lock, without
  a caller.
- One-time passwords, certificates, certificate pins, cipher suites, obfuscation:
  encodings, primitives and maps behind one lock. Primitives are idealised where the
  models use them.
- The CDN modes over TLS, HTTP/2 and plain TCP: they pass every call to a `net.Conn`.
- Reload history, logging, status pages, the management server beyond the address it
  binds: bookkeeping with no ordering of its own.
- Configuration parsing, scripts, network set-up: no protocol state. The ranges that
  `Validate` allows are `Handshake`'s constants.
- The encoding of packets and of handshake messages, header masking, padding bytes.
- `Device` over UDP, where a lost frame moves the counters apart: at the level of
  frames this is `Transport` with loss.

## 6. Plan

Done, in this order: `Transport` and its proofs; `Server` with `ConnectionLimiter`;
`Handshake`; `Rekey` and `Device`; the components around them in `Network`, `Paths` and
`Trust`.

Proved: all safety properties of `Transport`, `Server`, `Handshake`, `Device`, `Network` and
`Trust`.

Theorems to come: the safety properties of `Paths`, component by component. Its variables
and constants are parameters of its module, as in `Network` and `Trust`.

To model after that: an abstract replay filter (a set of seen numbers) that the window
implements, and `Device` on a UDP connection.
