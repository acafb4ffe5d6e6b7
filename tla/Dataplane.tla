------------------------------ MODULE Dataplane ------------------------------
(***************************************************************************)
(* The dataplanes of internal/dataplane: the loopback with its subscribers *)
(* and the UDP and TUN bridges with their read loops, each used by a       *)
(* device's tunnel loop (Deliver), its outbound pump, and Close.           *)
(***************************************************************************)
EXTENDS Naturals, Sequences, Functions

CONSTANTS
    Peers,              \* names a peer may have
    MaxChannels,        \* bound: calls of Subscribe
    MaxFrames,          \* bound: frames injected or read
    OutboundCapacity,   \* of the outbound channel, 128 or 256
    Buffer              \* of a subscriber's channel, 32 by default

VARIABLES
    kind,          \* "loopback", "udp" or "tun"
    closed,        \* closed is set and outbound is closed, in one critical section
    deviceClosed,  \* the socket or TUN device is closed too
    outbound,      \* the outbound channel: frames by number
    frames,        \* frames offered so far
    taken,         \* the last frame the pump took
    subscribers,   \* subscribers[p]: the channels registered for p, in order
    channel,       \* channel[c]: how full it is and whether it is closed
    deliver,       \* the Deliver that is under way: the channels it has yet to serve
    loop           \* readLoop: "none", "read", "send", "ended", "panicked"

vars == <<kind, closed, deviceClosed, outbound, frames, taken, subscribers, channel,
          deliver, loop>>

Known == DOMAIN subscribers
Channels == DOMAIN channel
Idle == [pc |-> "idle"]

TypeOK ==
    /\ kind \in {"loopback", "udp", "tun"} /\ closed \in BOOLEAN /\ deviceClosed \in BOOLEAN
    /\ Len(outbound) <= OutboundCapacity /\ frames \in 0 .. MaxFrames /\ taken \in 0 .. frames
    /\ Known \subseteq Peers /\ Len(channel) <= MaxChannels
    /\ \A p \in Known : Range(subscribers[p]) \subseteq Channels
    /\ \A c \in Channels : channel[c].held \in 0 .. Buffer /\ channel[c].closed \in BOOLEAN
    /\ deliver = Idle \/ deliver.pc \in {"fan", "panicked"}
    /\ loop \in {"none", "read", "send", "ended", "panicked"}

Init ==
    /\ kind \in {"loopback", "udp", "tun"}
    /\ closed = FALSE /\ deviceClosed = FALSE /\ outbound = <<>> /\ frames = 0 /\ taken = 0
    /\ subscribers \in [{} -> {}] \cup [Peers -> {<<>>}]    \* NewLoopback(peers)
    /\ channel = <<>> /\ deliver = Idle
    /\ loop = IF kind = "loopback" THEN "none" ELSE "read"

(* A send that drops the frame when the channel is full. *)
Offer(frame) == IF Len(outbound) < OutboundCapacity THEN Append(outbound, frame) ELSE outbound

-----------------------------------------------------------------------------
(* Loopback *)

Ensure(p) ==
    subscribers' = [q \in Known \cup {p} |-> IF q \in Known THEN subscribers[q] ELSE <<>>]

EnsurePeer(p) ==
    /\ kind = "loopback" /\ Ensure(p)
    /\ UNCHANGED <<kind, closed, deviceClosed, outbound, frames, taken, channel, deliver, loop>>

(* Inject keeps the read lock while it sends. *)
Inject ==
    /\ kind = "loopback" /\ ~ closed /\ frames < MaxFrames
    /\ frames' = frames + 1 /\ outbound' = Offer(frames')
    /\ UNCHANGED <<kind, closed, deviceClosed, taken, subscribers, channel, deliver, loop>>

(* A closed loopback gives out no channel. *)
Subscribe(p) ==
    LET c == Len(channel) + 1
    IN  /\ kind = "loopback" /\ ~ closed /\ c <= MaxChannels
        /\ channel' = Append(channel, [held |-> 0, closed |-> FALSE])
        /\ subscribers' = [q \in Known \cup {p} |->
               IF q \notin Known THEN <<c>>
               ELSE IF q = p THEN Append(subscribers[q], c) ELSE subscribers[q]]
        /\ UNCHANGED <<kind, closed, deviceClosed, outbound, frames, taken, deliver, loop>>

(* Deliver looks the listeners up under the lock and serves them without it. *)
Deliver(p) ==
    /\ kind = "loopback" /\ ~ closed /\ deliver = Idle
    /\ p \in Known /\ subscribers[p] # <<>>
    /\ deliver' = [pc |-> "fan", left |-> subscribers[p]]
    /\ UNCHANGED <<kind, closed, deviceClosed, outbound, frames, taken, subscribers, channel, loop>>

(* A send to a channel that Close has closed since panics. *)
DeliverNext ==
    LET c == Head(deliver.left)
    IN  /\ deliver.pc = "fan"
        /\ IF channel[c].closed
           THEN deliver' = [deliver EXCEPT !.pc = "panicked"] /\ UNCHANGED channel
           ELSE /\ deliver' = IF Len(deliver.left) = 1 THEN Idle
                              ELSE [deliver EXCEPT !.left = Tail(@)]
                /\ channel' = [channel EXCEPT ![c].held = IF @ < Buffer THEN @ + 1 ELSE @]
        /\ UNCHANGED <<kind, closed, deviceClosed, outbound, frames, taken, subscribers, loop>>

Consume(c) ==
    /\ channel[c].held > 0
    /\ channel' = [channel EXCEPT ![c].held = @ - 1]
    /\ UNCHANGED <<kind, closed, deviceClosed, outbound, frames, taken, subscribers, deliver, loop>>

(* Close of the loopback, a single critical section. *)
CloseLoopback ==
    /\ kind = "loopback" /\ ~ closed /\ closed' = TRUE
    /\ channel' = [c \in Channels |->
         [channel[c] EXCEPT !.closed = \E p \in Known : c \in Range(subscribers[p])]]
    /\ UNCHANGED <<kind, deviceClosed, outbound, frames, taken, subscribers, deliver, loop>>

-----------------------------------------------------------------------------
(* Bridges *)

(* A packet from a known peer; others are dropped. *)
UDPReads ==
    /\ kind = "udp" /\ loop = "read" /\ ~ deviceClosed /\ frames < MaxFrames
    /\ frames' = frames + 1 /\ loop' = "send"
    /\ UNCHANGED <<kind, closed, deviceClosed, outbound, taken, subscribers, channel, deliver>>

(* The TUN device has no peers: the pump finds the peer by the address. *)
TUNReads ==
    /\ kind = "tun" /\ loop = "read" /\ ~ deviceClosed /\ frames < MaxFrames
    /\ frames' = frames + 1 /\ loop' = "send"
    /\ UNCHANGED <<kind, closed, deviceClosed, outbound, taken, subscribers, channel, deliver>>

(* The read loop sends without the lock: once outbound is closed this panics. *)
LoopSends ==
    /\ loop = "send"
    /\ loop' = IF closed THEN "panicked" ELSE "read"
    /\ outbound' = IF closed THEN outbound ELSE Offer(frames)
    /\ UNCHANGED <<kind, closed, deviceClosed, frames, taken, subscribers, channel, deliver>>

\* mutant: an error of the device is taken for a temporary one
ReadsOn == FALSE
(* A read fails on the closed device, and closed was set before that. *)
Stops == closed

LoopEnds ==
    /\ loop = "read" /\ deviceClosed /\ Stops
    /\ loop' = "ended"
    /\ UNCHANGED <<kind, closed, deviceClosed, outbound, frames, taken, subscribers, channel, deliver>>

CloseBridge ==
    /\ kind # "loopback" /\ ~ closed /\ closed' = TRUE
    /\ UNCHANGED <<kind, deviceClosed, outbound, frames, taken, subscribers, channel, deliver, loop>>

CloseDevice ==
    /\ kind # "loopback" /\ closed /\ ~ deviceClosed /\ deviceClosed' = TRUE
    /\ UNCHANGED <<kind, closed, outbound, frames, taken, subscribers, channel, deliver, loop>>

-----------------------------------------------------------------------------

(* The outbound pump of the device; a closed channel still yields what it holds. *)
Pump ==
    /\ outbound # <<>> /\ outbound' = Tail(outbound) /\ taken' = Head(outbound)
    /\ UNCHANGED <<kind, closed, deviceClosed, frames, subscribers, channel, deliver, loop>>

Closes == CloseDevice \/ LoopSends \/ LoopEnds

Next == \/ \E p \in Peers : EnsurePeer(p) \/ Subscribe(p) \/ Deliver(p)
        \/ Inject \/ DeliverNext \/ CloseLoopback \/ CloseBridge \/ Closes
        \/ UDPReads \/ TUNReads \/ Pump
        \/ \E c \in Channels : Consume(c)

Spec == Init /\ [][Next]_vars

\* fair: the device closes and the read loop goes on
LoopGoes == LoopSends \/ LoopEnds

-----------------------------------------------------------------------------

(* loopback.go:92-93, "The returned channel will be closed when the dataplane
   shuts down": every channel Subscribe ever returned, in whatever order peers
   were added, and none before. *)
ChannelsClosed == \A c \in Channels : channel[c].closed = closed

(* What Close comes to: the read loop has ended, unless it panicked over a frame
   it was about to send. *)
Closing == closed
LoopStopped == loop \in {"none", "ended", "panicked"}
=============================================================================
