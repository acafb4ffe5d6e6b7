------------------------------ MODULE Network -------------------------------
(***************************************************************************)
(* The components that carry connections and packets, side by side.  They  *)
(* do not interact in the code but through the calls their modules make    *)
(* nondeterministically, so a behaviour is one of one component, chosen at *)
(* the start, and the variables of the others are not used.                *)
(***************************************************************************)
EXTENDS Naturals, Sequences, FiniteSets

CONSTANTS
    Addrs, MaxSessions, MaxDatagrams, AcceptCapacity,         \* UDPListener
    ReadCapacity,
    PlanePeers, MaxChannels, MaxFrames, OutboundCapacity,     \* Dataplane
    Buffer,
    Ids, MaxStreams, Backlog, MuxBuffer, MaxObjects,          \* Mux
    MaxEvents,
    Conns, Capacity,                                          \* Fallback, CDNListener
    Sizes, MaxMessages, MaxAnswers, MaxPings,                 \* CDNTransport
    Names, Destinations, Configs, MaxUpdates                  \* Peers

\* Read gets a buffer, messages have sizes, and configurations name peers
ASSUME NetworkAssumption ==
    /\ {MaxSessions, MaxDatagrams, AcceptCapacity, MaxChannels, MaxFrames,
        OutboundCapacity, Buffer, MaxStreams, Backlog, MuxBuffer, MaxObjects,
        MaxEvents, Capacity, MaxMessages, MaxAnswers, MaxPings, MaxUpdates} \subseteq Nat
    /\ ReadCapacity \in Nat \ {0}
    /\ IsFiniteSet(Conns) /\ Sizes \subseteq Nat
    /\ {"", "wild"} \cap Names = {}
    /\ Configs \subseteq Seq([name : Names, allowed : Seq(Destinations)])

VARIABLES
    component,   \* the one a behaviour is of
    listener, table, accept, session, reader, closer, demux,    \* UDPListener
    received, toClose,
    kind, planeClosed, deviceClosed, outbound, frames, taken,   \* Dataplane
    subscribers, channel, deliver, planeLoop,
    closed, closing, broken, lock, streams, acceptCh, stream,   \* Mux
    owner, writer, muxLoop, ping, events,
    mode, probing, phase, bytes, ours, hung, validConns,        \* Fallback
    counts, raced, crashed,
    scheme, serving, listening, cdnClosed, conn, queue,         \* CDNListener
    pinger, pings, wsClosed, open, writing, overlapped,         \* CDNTransport
    wsCrashed, toServer, toClient, rest, eof, count,
    plane, config, peers, planePeers, tables, updating, loop,   \* Peers
    pump, named, wild, dropped

Udp == INSTANCE UDPListener

Plane == INSTANCE Dataplane WITH
    Peers <- PlanePeers, closed <- planeClosed, loop <- planeLoop

Multiplexer == INSTANCE Mux WITH
    AcceptCapacity <- Backlog, Buffer <- MuxBuffer, table <- streams,
    accept <- acceptCh, loop <- muxLoop

Probe == INSTANCE Fallback WITH
    listener <- probing, queue <- validConns

CdnListener == INSTANCE CDNListener WITH
    mode <- scheme, closed <- cdnClosed

WebSocket == INSTANCE CDNTransport WITH
    closed <- wsClosed, crashed <- wsCrashed

PeerTable == INSTANCE Peers WITH
    Addrs <- Destinations

udpVars == <<listener, table, accept, session, reader, closer, demux, received,
    toClose>>
planeVars == <<kind, planeClosed, deviceClosed, outbound, frames, taken,
    subscribers, channel, deliver, planeLoop>>
multiplexerVars == <<closed, closing, broken, lock, streams, acceptCh, stream,
    owner, writer, muxLoop, ping, events>>
probeVars == <<mode, probing, phase, bytes, ours, hung, validConns, counts,
    raced, crashed>>
cdnListenerVars == <<scheme, serving, listening, cdnClosed, conn, queue>>
webSocketVars == <<pinger, pings, wsClosed, open, writing, overlapped,
    wsCrashed, toServer, toClient, rest, eof, count>>
peerTableVars == <<plane, config, peers, planePeers, tables, updating, loop,
    pump, named, wild, dropped>>
vars == <<component, udpVars, planeVars, multiplexerVars, probeVars,
          cdnListenerVars, webSocketVars, peerTableVars>>

\* a component that the behaviour is not of
NoUdp ==
    /\ listener = 0 /\ table = 0 /\ accept = 0 /\ session = 0 /\ reader = 0
    /\ closer = 0 /\ demux = 0 /\ received = 0 /\ toClose = 0
NoPlane ==
    /\ kind = 0 /\ planeClosed = 0 /\ deviceClosed = 0 /\ outbound = 0
    /\ frames = 0 /\ taken = 0 /\ subscribers = 0 /\ channel = 0 /\ deliver = 0
    /\ planeLoop = 0
NoMultiplexer ==
    /\ closed = 0 /\ closing = 0 /\ broken = 0 /\ lock = 0 /\ streams = 0
    /\ acceptCh = 0 /\ stream = 0 /\ owner = 0 /\ writer = 0 /\ muxLoop = 0
    /\ ping = 0 /\ events = 0
NoProbe ==
    /\ mode = 0 /\ probing = 0 /\ phase = 0 /\ bytes = 0 /\ ours = 0
    /\ hung = 0 /\ validConns = 0 /\ counts = 0 /\ raced = 0 /\ crashed = 0
NoCdnListener ==
    /\ scheme = 0 /\ serving = 0 /\ listening = 0 /\ cdnClosed = 0 /\ conn = 0
    /\ queue = 0
NoWebSocket ==
    /\ pinger = 0 /\ pings = 0 /\ wsClosed = 0 /\ open = 0 /\ writing = 0
    /\ overlapped = 0 /\ wsCrashed = 0 /\ toServer = 0 /\ toClient = 0
    /\ rest = 0 /\ eof = 0 /\ count = 0
NoPeerTable ==
    /\ plane = 0 /\ config = 0 /\ peers = 0 /\ planePeers = 0 /\ tables = 0
    /\ updating = 0 /\ loop = 0 /\ pump = 0 /\ named = 0 /\ wild = 0
    /\ dropped = 0

Init ==
    /\ component \in {"Udp", "Plane", "Multiplexer", "Probe", "CdnListener",
                      "WebSocket", "PeerTable"}
    /\ \/ component = "Udp" /\ Udp!Init
       \/ component # "Udp" /\ NoUdp
    /\ \/ component = "Plane" /\ Plane!Init
       \/ component # "Plane" /\ NoPlane
    /\ \/ component = "Multiplexer" /\ Multiplexer!Init
       \/ component # "Multiplexer" /\ NoMultiplexer
    /\ \/ component = "Probe" /\ Probe!Init
       \/ component # "Probe" /\ NoProbe
    /\ \/ component = "CdnListener" /\ CdnListener!Init
       \/ component # "CdnListener" /\ NoCdnListener
    /\ \/ component = "WebSocket" /\ WebSocket!Init
       \/ component # "WebSocket" /\ NoWebSocket
    /\ \/ component = "PeerTable" /\ PeerTable!Init
       \/ component # "PeerTable" /\ NoPeerTable

Next ==
    \/ component = "Udp" /\ Udp!Next
       /\ UNCHANGED <<component, planeVars, multiplexerVars, probeVars,
                     cdnListenerVars, webSocketVars, peerTableVars>>
    \/ component = "Plane" /\ Plane!Next
       /\ UNCHANGED <<component, udpVars, multiplexerVars, probeVars,
                     cdnListenerVars, webSocketVars, peerTableVars>>
    \/ component = "Multiplexer" /\ Multiplexer!Next
       /\ UNCHANGED <<component, udpVars, planeVars, probeVars,
                     cdnListenerVars, webSocketVars, peerTableVars>>
    \/ component = "Probe" /\ Probe!Next
       /\ UNCHANGED <<component, udpVars, planeVars, multiplexerVars,
                     cdnListenerVars, webSocketVars, peerTableVars>>
    \/ component = "CdnListener" /\ CdnListener!Next
       /\ UNCHANGED <<component, udpVars, planeVars, multiplexerVars,
                     probeVars, webSocketVars, peerTableVars>>
    \/ component = "WebSocket" /\ WebSocket!Next
       /\ UNCHANGED <<component, udpVars, planeVars, multiplexerVars,
                     probeVars, cdnListenerVars, peerTableVars>>
    \/ component = "PeerTable" /\ PeerTable!Next
       /\ UNCHANGED <<component, udpVars, planeVars, multiplexerVars,
                     probeVars, cdnListenerVars, webSocketVars>>

Is(c) == component = c
(* Goroutines go on when they can, and the owner of a session finishes a Close
   it began; Close of the multiplexer gets its lock if that is free again and
   again.  Nobody has to send, read, open or close anything. *)
Fairness ==
    /\ WF_(Udp!vars)(Is("Udp") /\ Udp!DemuxGoes)
    /\ WF_(Udp!vars)(Is("Udp") /\ Udp!ListenerGoes)
    /\ \A s \in Udp!Sessions : WF_(Udp!vars)(Is("Udp") /\ Udp!OwnerGoes(s))
    /\ WF_(Plane!vars)(Is("Plane") /\ Plane!CloseDevice)
    /\ WF_(Plane!vars)(Is("Plane") /\ Plane!LoopGoes)
    /\ SF_(Multiplexer!vars)(Is("Multiplexer") /\ Multiplexer!FinishClose)
    /\ WF_(Multiplexer!vars)(Is("Multiplexer") /\ Multiplexer!LoopGoes)
    /\ WF_(Multiplexer!vars)(Is("Multiplexer") /\ Multiplexer!PingEnds)
    /\ WF_(Multiplexer!vars)(Is("Multiplexer") /\ Multiplexer!WriteFails)
    /\ \A k \in 1 .. MaxObjects : WF_(Multiplexer!vars)(Is("Multiplexer")
                                               /\ Multiplexer!WriterStops(k))
    /\ \A c \in Conns : WF_(Probe!vars)(Is("Probe") /\ Probe!HandlerGoes(c))

Spec == Init /\ [][Next]_vars /\ Fairness

-----------------------------------------------------------------------------
(* Each component is well typed. *)
TypeOK ==
    /\ component = "Udp" => Udp!TypeOK
    /\ component = "Plane" => Plane!TypeOK
    /\ component = "Multiplexer" => Multiplexer!TypeOK
    /\ component = "Probe" => Probe!TypeOK
    /\ component = "CdnListener" => CdnListener!TypeOK
    /\ component = "WebSocket" => WebSocket!TypeOK
    /\ component = "PeerTable" => PeerTable!TypeOK

(* What panics, is lost, goes to nobody or beyond the end of a table does so
   only in the races that the components' invariants name: with a session's
   owner, with Close, with a second opening of a stream, with a ping or with a
   reload. *)
FaultsForCause ==
    /\ component = "Udp" => Udp!PanicsOnlyIfOwnerRaced
    /\ component = "Multiplexer" => Multiplexer!LostOnlyIfReopened
    /\ component = "Probe" => Probe!PanicsOnlyIfOvertaken
    /\ component = "CdnListener" => CdnListener!WssServesNobody
    /\ component = "WebSocket" => WebSocket!FaultsForCause
    /\ component = "PeerTable" => PeerTable!LookupsForCause

(* Tables, queues and counters hold what they stand for: the sessions of a
   listener, the channels of a dataplane, the connections waiting for Accept,
   the bytes on a WebSocket, the peers of a device. *)
TablesExact ==
    /\ component = "Udp" => Udp!TableExact
    /\ component = "Plane" => Plane!ChannelsClosed
    /\ component = "Probe" => Probe!QueueExact
    /\ component = "CdnListener" => CdnListener!ConnectionsOwned
    /\ component = "WebSocket" => WebSocket!BytesExact
    /\ component = "PeerTable" => PeerTable!PeersForCause

(* No step takes a datagram or a chunk before one that came earlier, or twice,
   whatever the sizes of the reads and whoever else sends. *)
InOrder ==
    [][ /\ component = "Udp" => Udp!ReadsInOrder
        /\ component = "Multiplexer" => Multiplexer!StreamsInOrder ]_vars

(* What began to end, and what it comes to: a UDP listener with its sessions,
   the read loop of a dataplane, a multiplexer with its streams once they are
   closed; the detection of every client's protocol, whatever they send. *)
Ending ==
    \/ component = "Udp" /\ Udp!Closing
    \/ component = "Plane" /\ Plane!Closing
    \/ component = "Multiplexer" /\ Multiplexer!Closing
    \/ component = "Probe" /\ Probe!Detecting
Ended ==
    /\ component = "Udp" => Udp!ClosedDown
    /\ component = "Plane" => Plane!LoopStopped
    /\ component = "Multiplexer" => Multiplexer!AtRest
    /\ component = "Probe" => ~ Probe!Detecting

(* What is closed comes to its end, a multiplexer only if its lock is free
   again and again. *)
Ends == []<>(component = "Multiplexer" => Multiplexer!LockFree) => (Ending ~> Ended)

-----------------------------------------------------------------------------
(* The values TLC gives some of the constants. *)

A(name, allowed) == [name |-> name, allowed |-> allowed]
\* the peer lists a reload chooses from: one peer, or two with overlapping routes
PeerLists == {<<A("p", <<1>>)>>, <<A("p", <<2, 1>>), A("q", <<2>>)>>, <<A("q", <<1>>)>>}
=============================================================================
