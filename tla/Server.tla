------------------------------- MODULE Server -------------------------------
(***************************************************************************)
(* runServer (main.go): the accept loop, one goroutine per session, the    *)
(* session registry they share with the shutdown goroutine and the config  *)
(* watcher, and the connection limiter all of them use.  What a session    *)
(* does between its handshake and its end is module Device's.              *)
(***************************************************************************)
EXTENDS ConnectionLimiter, FiniteSets, Sequences

CONSTANTS
    Sessions,    \* connections clients make, named by their session id
    Configs,     \* configurations the watched file may hold
    MaxEvents,   \* bound: reloads of the file and shutdown signals
    None         \* no session

(* config.PeerConfig, up to the fields no comparison and no route reads. *)
PeerConfig == [Name : STRING, Endpoint : STRING, AllowedIPs : Seq(STRING)]

ASSUME ServerAssumption ==
    /\ IsFiniteSet(Sessions) /\ None \notin Sessions
    /\ Configs \subseteq [max : Nat \ {0}, burst : Nat \ {0}, peers : Seq(PeerConfig)]
    /\ MaxEvents \in Nat

VARIABLES
    network,   \* "tcp" or "udp": they differ in what closing the listener does
    listening, \* the listener is open
    acceptPc, incoming,   \* the accept loop and the session in its hands
    session,   \* where each session is
    conn,      \* "none", "open" or "closed", per session
    device,    \* how far each session's device has come, see TypeOK
    peers,     \* peers[s]: the peer list s's device works with
    registry,  \* sessionRegistry.sessions
    shutdown, doomed, forced,
    \* the shutdown goroutine; what forceShutdown took over, and the session of it
    \* that it is closing
    watcher, cfg, loaded, \* the config watcher, the stored and the new config
    reloads,
    holders, clamped, late, raced
    \* history: sessions admitted and not released; whether Update ever cut the
    \* count; sessions added after the shutdown signal; sessions a reload missed

acceptVars == <<acceptPc, incoming>>
shutdownVars == <<shutdown, doomed, forced>>
watcherVars == <<watcher, cfg, loaded, reloads>>

vars == <<limiterVars, network, listening, acceptVars, session, conn, device, peers,
          registry, shutdownVars, watcherVars, holders, clamped, late, raced>>

(* "pumping": the handshake has started the outbound pump.  The shutdown goroutine is
   in Device.Close while it is "ending", with no pump to stop, "stopping", with one that
   it has stopped, or "stranded", with one started behind its back. *)
DeviceStates ==
    {"none", "open", "pumping", "ending", "stopping", "stranded", "closed"}

TypeOK ==
    /\ LimiterTypeOK
    /\ network \in {"tcp", "udp"} /\ listening \in BOOLEAN
    /\ acceptPc \in {"accept", "allow", "device", "add", "retry", "await", "returned"}
    /\ incoming \in Sessions \cup {None}
    /\ session \in [Sessions -> {"new", "waiting", "incoming", "running",
                                 "closing", "releasing", "gone"}]
    /\ conn \in [Sessions -> {"none", "open", "closed"}]
    /\ device \in [Sessions -> DeviceStates]
    /\ peers \in [Sessions -> Seq(PeerConfig)]
    /\ registry \subseteq Sessions /\ doomed \subseteq Sessions
    /\ forced \in Sessions \cup {None}
    /\ shutdown \in {"running", "signalled", "draining", "forcing", "complete"}
    /\ watcher \in {"idle", "peers", "store"}
    /\ cfg \in Configs /\ loaded \in Configs /\ reloads \in 0 .. MaxEvents
    /\ holders \subseteq Sessions /\ late \subseteq Sessions /\ raced \subseteq Sessions
    /\ clamped \in BOOLEAN

Init ==
    /\ network \in {"tcp", "udp"} /\ listening = TRUE
    /\ acceptPc = "accept" /\ incoming = None
    /\ session = [s \in Sessions |-> "new"]
    /\ conn = [s \in Sessions |-> "none"] /\ device = [s \in Sessions |-> "none"]
    /\ peers = [s \in Sessions |-> <<>>]
    /\ registry = {} /\ shutdown = "running" /\ doomed = {} /\ forced = None
    /\ cfg \in Configs /\ loaded = cfg /\ watcher = "idle" /\ reloads = 0
    /\ LimiterInit(cfg)
    /\ holders = {} /\ clamped = FALSE /\ late = {} /\ raced = {}

(* Reloads and signals that have come so far. *)
Events == reloads + IF shutdown = "running" THEN 0 ELSE 1

-----------------------------------------------------------------------------
(* The listener and the accept loop.                                       *)

(* A client connects and waits in the listener's queue. *)
Connect(s) ==
    /\ listening /\ session[s] = "new"
    /\ session' = [session EXCEPT ![s] = "waiting"]
    /\ conn' = [conn EXCEPT ![s] = "open"]
    /\ UNCHANGED <<limiterVars, network, listening, acceptVars, device, peers, registry,
                   shutdownVars, watcherVars, holders, clamped, late, raced>>

Accept(s) ==
    /\ acceptPc = "accept" /\ session[s] = "waiting"
    /\ acceptPc' = "allow" /\ incoming' = s
    /\ session' = [session EXCEPT ![s] = "incoming"]
    /\ UNCHANGED <<limiterVars, network, listening, conn, device, peers, registry,
                   shutdownVars, watcherVars, holders, clamped, late, raced>>

(* listener.Accept fails: with net.ErrClosed the loop waits for the shutdown;
   any other error, which only a TCP listener has, is retried after a pause. *)
AcceptFails ==
    /\ acceptPc = "accept"
    /\ \/ /\ ~ listening /\ \A s \in Sessions : session[s] # "waiting"
          /\ acceptPc' = "await"
       \/ network = "tcp" /\ listening /\ acceptPc' = "retry"
    /\ UNCHANGED <<limiterVars, network, listening, incoming, session, conn, device, peers,
                   registry, shutdownVars, watcherVars, holders, clamped, late, raced>>

Retry ==
    /\ acceptPc = "retry"
    /\ acceptPc' \in {"accept"} \cup IF shutdown = "running" THEN {} ELSE {"await"}
    /\ UNCHANGED <<limiterVars, network, listening, incoming, session, conn, device, peers,
                   registry, shutdownVars, watcherVars, holders, clamped, late, raced>>

Admit ==
    /\ acceptPc = "allow" /\ Allow
    /\ acceptPc' = "device" /\ holders' = holders \cup {incoming}
    /\ UNCHANGED <<network, listening, incoming, session, conn, device, peers, registry,
                   shutdownVars, watcherVars, clamped, late, raced>>

\* mutant: the connection is not closed
DiscardOpen ==
    /\ session' = [session EXCEPT ![incoming] = "gone"]
    /\ acceptPc' = "accept" /\ incoming' = None /\ UNCHANGED conn
(* The connection in hand is closed and forgotten. *)
Discard ==
    /\ conn' = [conn EXCEPT ![incoming] = "closed"]
    /\ session' = [session EXCEPT ![incoming] = "gone"]
    /\ acceptPc' = "accept" /\ incoming' = None

Deny ==
    /\ acceptPc = "allow" /\ ~ CanAllow
    /\ Discard
    /\ UNCHANGED <<limiterVars, network, listening, device, peers, registry,
                   shutdownVars, watcherVars, holders, clamped, late, raced>>

(* NewDevice reads the stored configuration, which the watcher may replace. *)
BuildDevice ==
    /\ acceptPc = "device"
    /\ acceptPc' = "add"
    /\ device' = [device EXCEPT ![incoming] = "open"]
    /\ peers' = [peers EXCEPT ![incoming] = cfg.peers]
    /\ raced' = IF watcher = "store" THEN raced \cup {incoming} ELSE raced
    /\ UNCHANGED <<limiterVars, network, listening, incoming, session, conn, registry,
                   shutdownVars, watcherVars, holders, clamped, late>>

DeviceFails ==
    /\ acceptPc = "device"
    /\ Discard /\ Release /\ holders' = holders \ {incoming}
    /\ UNCHANGED <<network, listening, device, peers, registry, shutdownVars, watcherVars,
                   clamped, late, raced>>

(* registry.add, and the session's goroutine starts. *)
Add ==
    /\ acceptPc = "add"
    /\ registry' = registry \cup {incoming}
    /\ session' = [session EXCEPT ![incoming] = "running"]
    /\ late' = IF shutdown = "running" THEN late ELSE late \cup {incoming}
    /\ acceptPc' = "accept" /\ incoming' = None
    /\ UNCHANGED <<limiterVars, network, listening, conn, device, peers, shutdownVars,
                   watcherVars, holders, clamped, raced>>

(* <-shutdownComplete, and runServer returns. *)
Return ==
    /\ acceptPc = "await" /\ shutdown = "complete"
    /\ acceptPc' = "returned"
    /\ UNCHANGED <<limiterVars, network, listening, incoming, session, conn, device, peers,
                   registry, shutdownVars, watcherVars, holders, clamped, late, raced>>

-----------------------------------------------------------------------------
(* A session's goroutine.                                                  *)

(* The handshake returns and starts the outbound pump, also of a connection that was
   closed meanwhile.  Device.Close waits for the pump; if it has looked for the pump's
   stop channel before, the pump knows of no stop. *)
StartPump(s) ==
    /\ session[s] = "running" /\ device[s] \in {"open", "ending"}
    /\ device' = [device EXCEPT ![s] = IF device[s] = "open" THEN "pumping" ELSE "stranded"]
    /\ UNCHANGED <<limiterVars, network, listening, acceptVars, session, conn, peers, registry,
                   shutdownVars, watcherVars, holders, clamped, late, raced>>

(* A stranded pump that its dataplane hands a packet fails to send it and ends. *)
FreePump(s) ==
    /\ device[s] = "stranded"
    /\ device' = [device EXCEPT ![s] = "stopping"]
    /\ UNCHANGED <<limiterVars, network, listening, acceptVars, session, conn, peers, registry,
                   shutdownVars, watcherVars, holders, clamped, late, raced>>

(* The handshake fails or TunnelLoop returns; the deferred function runs. *)
SessionEnds(s) ==
    /\ session[s] = "running"
    /\ session' = [session EXCEPT ![s] = "closing"]
    /\ conn' = [conn EXCEPT ![s] = "closed"]
    /\ UNCHANGED <<limiterVars, network, listening, acceptVars, device, peers, registry,
                   shutdownVars, watcherVars, holders, clamped, late, raced>>

(* The goroutine's own Device.Close: it stops the pump this goroutine started, or
   returns at once if the shutdown goroutine is in Device.Close. *)
Closed(d) == IF d \in {"open", "pumping"} THEN "closed" ELSE d

\* mutant: the slot is released even if the registry has lost the session
RemoveAlways(s) ==
    /\ session[s] = "closing"
    /\ registry' = registry \ {s}
    /\ session' = [session EXCEPT ![s] = "releasing"]
    /\ device' = [device EXCEPT ![s] = Closed(@)]
    /\ UNCHANGED <<limiterVars, network, listening, acceptVars, conn, peers, shutdownVars,
                   watcherVars, holders, clamped, late, raced>>
(* registry.remove says whether the slot is this goroutine's to release, or
   forceShutdown has taken the session over. *)
Remove(s) ==
    /\ session[s] = "closing"
    /\ registry' = registry \ {s}
    /\ session' = [session EXCEPT ![s] = IF s \in registry THEN "releasing" ELSE "gone"]
    /\ device' = [device EXCEPT ![s] = Closed(@)]
    /\ UNCHANGED <<limiterVars, network, listening, acceptVars, conn, peers, shutdownVars,
                   watcherVars, holders, clamped, late, raced>>

\* mutant: the slot is not released
ForgetSlot(s) ==
    /\ session[s] = "releasing"
    /\ session' = [session EXCEPT ![s] = "gone"]
    /\ UNCHANGED <<limiterVars, network, listening, acceptVars, conn, device, peers, registry,
                   shutdownVars, watcherVars, holders, clamped, late, raced>>
ReleaseSlot(s) ==
    /\ session[s] = "releasing"
    /\ Release /\ holders' = holders \ {s}
    /\ session' = [session EXCEPT ![s] = "gone"]
    /\ UNCHANGED <<network, listening, acceptVars, conn, device, peers, registry,
                   shutdownVars, watcherVars, clamped, late, raced>>

-----------------------------------------------------------------------------
(* The shutdown goroutine.                                                 *)

Signal ==
    /\ Events < MaxEvents /\ shutdown = "running" /\ shutdown' = "signalled"
    /\ UNCHANGED <<limiterVars, network, listening, acceptVars, session, conn, device, peers,
                   registry, doomed, forced, watcherVars, holders, clamped, late, raced>>

(* A TCP listener drops its queue.  A UDP listener closes every session it
   demultiplexes, and Accept still hands out the ones in its queue. *)
CloseListener ==
    /\ shutdown = "signalled" /\ shutdown' = "draining" /\ listening' = FALSE
    /\ LET dropped == IF network = "udp" THEN {s \in Sessions : conn[s] = "open"}
                      ELSE {s \in Sessions : session[s] = "waiting"}
       IN  conn' = [s \in Sessions |-> IF s \in dropped THEN "closed" ELSE conn[s]]
    /\ session' = [s \in Sessions |-> IF network = "tcp" /\ session[s] = "waiting"
                                      THEN "gone" ELSE session[s]]
    /\ UNCHANGED <<limiterVars, network, acceptVars, device, peers, registry, doomed, forced,
                   watcherVars, holders, clamped, late, raced>>

\* mutant: sessions are not waited for
DrainedEarly ==
    /\ shutdown = "draining"
    /\ shutdown' = "complete"
    /\ UNCHANGED <<limiterVars, network, listening, acceptVars, session, conn, device, peers,
                   registry, doomed, forced, watcherVars, holders, clamped, late, raced>>
Drained ==
    /\ shutdown = "draining" /\ registry = {}
    /\ shutdown' = "complete"
    /\ UNCHANGED <<limiterVars, network, listening, acceptVars, session, conn, device, peers,
                   registry, doomed, forced, watcherVars, holders, clamped, late, raced>>

(* The 30 s deadline: forceShutdown empties the registry under its lock... *)
Deadline ==
    /\ shutdown = "draining"
    /\ shutdown' = "forcing" /\ doomed' = registry /\ registry' = {} /\ UNCHANGED forced
    /\ UNCHANGED <<limiterVars, network, listening, acceptVars, session, conn, device, peers,
                   watcherVars, holders, clamped, late, raced>>

(* ... and closes what it took, one session after the other: the connection, ... *)
ForceClose(s) ==
    /\ shutdown = "forcing" /\ forced = None /\ s \in doomed
    /\ forced' = s /\ conn' = [conn EXCEPT ![s] = "closed"]
    /\ UNCHANGED <<limiterVars, network, listening, acceptVars, session, device, peers, registry,
                   shutdown, doomed, watcherVars, holders, clamped, late, raced>>

(* ... then Device.Close, which marks the device and closes the stop channel of the
   pump if there is one, ... *)
ForceStop ==
    /\ forced # None /\ device[forced] \in {"open", "pumping"}
    /\ device' = [device EXCEPT ![forced] = IF @ = "open" THEN "ending" ELSE "stopping"]
    /\ UNCHANGED <<limiterVars, network, listening, acceptVars, session, conn, peers, registry,
                   shutdownVars, watcherVars, holders, clamped, late, raced>>

(* ... waits for the pump to end, for a stranded one for ever, and closes the plane, *)
ForceWait ==
    /\ forced # None /\ device[forced] \in {"ending", "stopping"}
    /\ device' = [device EXCEPT ![forced] = "closed"]
    /\ UNCHANGED <<limiterVars, network, listening, acceptVars, session, conn, peers, registry,
                   shutdownVars, watcherVars, holders, clamped, late, raced>>

(* ... and the slot is released. *)
ForceRelease ==
    /\ forced # None /\ device[forced] = "closed"
    /\ Release /\ holders' = holders \ {forced}
    /\ doomed' = doomed \ {forced} /\ forced' = None
    /\ UNCHANGED <<network, listening, acceptVars, session, conn, device, peers, registry,
                   shutdown, watcherVars, clamped, late, raced>>

\* mutant: late sessions are waited for
ForcedWaits ==
    /\ shutdown = "forcing" /\ doomed = {} /\ registry = {}
    /\ shutdown' = "complete"
    /\ UNCHANGED <<limiterVars, network, listening, acceptVars, session, conn, device, peers,
                   registry, doomed, forced, watcherVars, holders, clamped, late, raced>>
Forced ==
    /\ shutdown = "forcing" /\ doomed = {}
    /\ shutdown' = "complete"
    /\ UNCHANGED <<limiterVars, network, listening, acceptVars, session, conn, device, peers,
                   registry, doomed, forced, watcherVars, holders, clamped, late, raced>>

-----------------------------------------------------------------------------
(* The config watcher: limits first, then the peers, then the stored config. *)

Limits(c) == [max |-> c.max, burst |-> c.burst]

Reload(c) ==
    /\ watcher = "idle" /\ Events < MaxEvents
    /\ watcher' = "peers" /\ loaded' = c /\ reloads' = reloads + 1
    /\ IF Limits(c) # Limits(cfg) THEN Update(c) ELSE UNCHANGED limiterVars
    /\ clamped' = (clamped \/ currentCount' < currentCount)
    /\ UNCHANGED <<network, listening, acceptVars, session, conn, device, peers, registry,
                   shutdownVars, cfg, holders, late, raced>>

(* peersChanged compares as many entries by name, the last of a name, and the allowed
   networks of two entries as sets if there are as many: another order of peers or
   networks, or one network written twice for two, is no change. *)
SamePeer(old, new) ==
    /\ old.Name = new.Name /\ old.Endpoint = new.Endpoint
    /\ Len(old.AllowedIPs) = Len(new.AllowedIPs)
    /\ \A i \in DOMAIN new.AllowedIPs :
          \E j \in DOMAIN old.AllowedIPs : old.AllowedIPs[j] = new.AllowedIPs[i]

IsLastOf(list, j) == \A k \in DOMAIN list : list[k].Name = list[j].Name => k <= j

PeersChanged(old, new) ==
    \/ Len(old) # Len(new)
    \/ \E i \in DOMAIN new : \A j \in DOMAIN old :
          ~ (IsLastOf(old, j) /\ SamePeer(old[j], new[i]))

\* mutant: the old list is passed on
UpdatePeersStale ==
    /\ watcher = "peers" /\ watcher' = "store"
    /\ peers' = [s \in Sessions |-> IF s \in registry THEN cfg.peers ELSE peers[s]]
    /\ raced' = IF acceptPc = "add" THEN raced \cup {incoming} ELSE raced
    /\ UNCHANGED <<limiterVars, network, listening, acceptVars, session, conn, device,
                   registry, shutdownVars, cfg, loaded, reloads, holders, clamped, late>>
UpdatePeers ==
    /\ watcher = "peers" /\ watcher' = "store"
    /\ peers' = [s \in Sessions |-> IF s \in registry /\ PeersChanged(cfg.peers, loaded.peers)
                                    THEN loaded.peers ELSE peers[s]]
    /\ raced' = IF acceptPc = "add" THEN raced \cup {incoming} ELSE raced
    /\ UNCHANGED <<limiterVars, network, listening, acceptVars, session, conn, device,
                   registry, shutdownVars, cfg, loaded, reloads, holders, clamped, late>>

StoreConfig ==
    /\ watcher = "store" /\ watcher' = "idle" /\ cfg' = loaded
    /\ UNCHANGED <<limiterVars, network, listening, acceptVars, session, conn, device, peers,
                   registry, shutdownVars, loaded, reloads, holders, clamped, late, raced>>

EarnToken ==
    /\ Refill
    /\ UNCHANGED <<network, listening, acceptVars, session, conn, device, peers, registry,
                   shutdownVars, watcherVars, holders, clamped, late, raced>>

AcceptLoop == \/ \E s \in Sessions : Accept(s)
              \/ AcceptFails \/ Retry \/ Admit \/ Deny \/ BuildDevice \/ DeviceFails
              \/ Add \/ Return

Goroutine(s) == StartPump(s) \/ SessionEnds(s) \/ Remove(s) \/ ReleaseSlot(s)

Shutdown == \/ CloseListener \/ Drained \/ Deadline \/ Forced
            \/ (\E s \in Sessions : ForceClose(s)) \/ ForceStop \/ ForceWait \/ ForceRelease

Watcher == (\E c \in Configs : Reload(c)) \/ UpdatePeers \/ StoreConfig

Next == \/ AcceptLoop \/ Shutdown \/ Watcher \/ Signal \/ EarnToken
        \/ \E s \in Sessions : Connect(s) \/ Goroutine(s) \/ FreePump(s)

Spec == Init /\ [][Next]_vars

(* Goroutines that can go on do.  A session whose connection is closed comes
   out of its handshake or tunnel loop, no other need ever end.  Device.Close returns
   but from a stranded pump, which need not get a packet.  The drain deadline is a
   timer; nothing is assumed of clients, signals or reloads. *)
FairSpec ==
    /\ Spec
    /\ WF_vars(AcceptLoop) /\ WF_vars(Shutdown)
    /\ WF_vars(UpdatePeers \/ StoreConfig)
    /\ \A s \in Sessions : WF_vars(Goroutine(s) /\ conn[s] = "closed")

-----------------------------------------------------------------------------

(* Every slot the limiter has given out is in the care of exactly one party that
   will release it: the accept loop, the registry, the session's goroutine or
   forceShutdown.  No interleaving of a session's end with the forced shutdown
   releases a slot twice or forgets it. *)
Custodians(s) ==
    {p \in {"accept", "registry", "goroutine", "shutdown"} :
        \/ p = "accept" /\ incoming = s /\ acceptPc \in {"device", "add"}
        \/ p = "registry" /\ s \in registry
        \/ p = "goroutine" /\ session[s] = "releasing"
        \/ p = "shutdown" /\ s \in doomed}

SlotInOneCare ==
    \A s \in Sessions : Cardinality(Custodians(s)) = IF s \in holders THEN 1 ELSE 0

(* As long as no reload has cut the count, it is the number of sessions that
   hold a slot, which the maximum bounds; and it never exceeds that number, so
   the limiter never locks clients out for good. *)
CountIsExact ==
    /\ currentCount <= Cardinality(holders)
    /\ ~ clamped => /\ currentCount = Cardinality(holders)
                    /\ currentCount <= maxConnections

(* Whoever ends a session, in whatever order, its connection and its device are
   closed once nobody has it in hand: neither in the middle of a Device.Close nor
   with a pump that goes on. *)
NothingLeftOpen ==
    \A s \in Sessions : session[s] = "gone" /\ s \notin doomed =>
        conn[s] = "closed" /\ device[s] \in {"none", "closed"}

(* When the shutdown reports completion, every session registered before the
   signal is out of the registry; only one the accept loop had in its hands may
   be in it. *)
ShutdownDrains == shutdown = "complete" => registry \subseteq late

(* Between reloads every registered session works with the stored peer list or one
   that peersChanged does not tell from it, however many reloads lie between the two,
   except one whose device was built while a reload was being applied. *)
Agrees(list, stored) == list = stored \/ ~ PeersChanged(list, stored)

PeersFresh ==
    watcher = "idle" => \A s \in registry \ raced : Agrees(peers[s], cfg.peers)

(* The forced shutdown waits for a pump that the handshake started between the two
   steps of Device.Close. *)
Stranded == \E s \in Sessions : device[s] = "stranded"

(* A shutdown signal brings runServer to return, even if no session ends by itself;
   nothing but a stranded pump can hold it up, and not once that ends. *)
ShutdownReturns == shutdown # "running" ~> acceptPc = "returned" \/ Stranded

(* A session whose connection is closed gives its slot back; the only ones that need
   not are those the forced shutdown took over before it was held up by a stranded pump. *)
SlotsComeBack ==
    \A s \in Sessions :
        s \in holders /\ conn[s] = "closed" ~> s \notin holders \/ (s \in doomed /\ Stranded)

-----------------------------------------------------------------------------
(* The values TLC gives some of the constants. *)

Listed(name, ips) == [Name |-> name, Endpoint |-> "e", AllowedIPs |-> ips]

\* to the reload from the first to the second list nothing has changed; the other way
\* the second network of "q" is new
Reloads ==
    {[max |-> 2, burst |-> 2, peers |-> <<Listed("p", <<"x">>), Listed("q", <<"x", "y">>)>>],
     [max |-> 1, burst |-> 1, peers |-> <<Listed("q", <<"x", "x">>), Listed("p", <<"x">>)>>]}
=============================================================================
