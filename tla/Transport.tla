------------------------------ MODULE Transport ------------------------------
(***************************************************************************)
(* One direction of transport.Transport (transport/transport.go): frames   *)
(* sealed under the session's send key and counter by the goroutines that  *)
(* share the session, written to the connection in two writes after the    *)
(* lock is released, carried by a stream or by datagrams, and opened and   *)
(* checked for replay at the other end.                                    *)
(*                                                                         *)
(* A key is named by its epoch: deriveRekeySecrets gives each new key the  *)
(* next epoch.  That both ends hold the same key for an epoch is assumed   *)
(* here and checked in module Device (KeysAgree).                          *)
(***************************************************************************)
EXTENDS Integers, Sequences

LOCAL INSTANCE SequencesExt

CONSTANTS
    Goroutines,  \* may call writeFrame: tunnel loop, keepalive, outbound pump
    MaxFrames,   \* bound: frames sealed
    MaxEpoch,    \* bound: epoch of the session keys
    MaxWire      \* bound: pieces the network holds after a disturbance

ASSUME TransportAssumption ==
    MaxFrames \in Nat /\ MaxEpoch \in Nat /\ MaxWire \in Nat

VARIABLES
    network,      \* "stream" (tcp) or "datagram" (udp)
    writers,      \* the goroutines that send on this connection
    sendEpoch, sendCounter,   \* the sending end's session
    recvEpoch, recvCounter,   \* the receiving end's session
    pc,           \* pc[w]: "idle", or the piece w writes next
    holding,      \* holding[w]: the id of the frame w sealed and still writes
    conn,         \* "up", or "down" once either end closed it
    wire,         \* the pieces in flight, each a part of the frame id
    rx,           \* "open", or "failed" once Receive returned an error
    sealed,       \* the frames sealed, in order; a frame's id is its place
    accepted      \* history: the ids of the frames Receive returned

vars == <<network, writers, sendEpoch, sendCounter, recvEpoch, recvCounter,
          pc, holding, conn, wire, rx, sealed, accepted>>

Frame == [epoch : Nat, counter : Nat]
Piece == [kind : {"header", "body"}, id : Nat]

TypeOK ==
    /\ network \in {"stream", "datagram"}
    /\ writers \in SUBSET Goroutines
    /\ sendEpoch \in Nat /\ sendCounter \in Nat
    /\ recvEpoch \in Nat /\ recvCounter \in Nat
    /\ pc \in [Goroutines -> {"idle", "header", "body"}]
    /\ holding \in [Goroutines -> Nat]
    /\ conn \in {"up", "down"}
    /\ wire \in Seq(Piece)
    /\ rx \in {"open", "failed"}
    /\ sealed \in Seq(Frame)
    /\ accepted \in Seq(Nat)

(* InstallSession at both ends: the handshake's keys, counters at zero. *)
Init ==
    /\ network \in {"stream", "datagram"}
    /\ writers \in SUBSET Goroutines \ {{}}
    /\ sendEpoch = 1 /\ sendCounter = 0
    /\ recvEpoch = 1 /\ recvCounter = 0
    /\ pc = [w \in Goroutines |-> "idle"]
    /\ holding = [w \in Goroutines |-> 0]
    /\ conn = "up" /\ wire = <<>> /\ rx = "open"
    /\ sealed = <<>> /\ accepted = <<>>

(* writeFrame up to the unlock: seal under the current key and counter. *)
Seal(w) ==
    /\ pc[w] = "idle" /\ Len(sealed) < MaxFrames
    /\ sealed' = Append(sealed, [epoch |-> sendEpoch, counter |-> sendCounter])
    /\ holding' = [holding EXCEPT ![w] = Len(sealed) + 1]
    /\ sendCounter' = sendCounter + 1
    /\ pc' = [pc EXCEPT ![w] = "header"]
    /\ UNCHANGED <<network, writers, sendEpoch, recvEpoch, recvCounter, conn, wire, rx,
                   accepted>>

(* The two conn.Write calls after the unlock. *)
\* mutant: the body is never written
WriteHeaderOnly(w) ==
    /\ pc[w] # "idle" /\ conn = "up"
    /\ wire' = Append(wire, [kind |-> pc[w], id |-> holding[w]])
    /\ pc' = [pc EXCEPT ![w] = "idle"]
    /\ UNCHANGED <<network, writers, sendEpoch, sendCounter, recvEpoch, recvCounter,
                   holding, conn, rx, sealed, accepted>>
Write(w) ==
    /\ pc[w] # "idle" /\ conn = "up"
    /\ wire' = Append(wire, [kind |-> pc[w], id |-> holding[w]])
    /\ pc' = [pc EXCEPT ![w] = IF pc[w] = "header" THEN "body" ELSE "idle"]
    /\ UNCHANGED <<network, writers, sendEpoch, sendCounter, recvEpoch, recvCounter,
                   holding, conn, rx, sealed, accepted>>

(* On a closed connection writeAll fails and writeFrame returns its error. *)
\* mutant: a failed write gives its counter back
WriteFailsRollback(w) ==
    /\ pc[w] # "idle" /\ conn = "down"
    /\ pc' = [pc EXCEPT ![w] = "idle"] /\ sendCounter' = sendCounter - 1
    /\ UNCHANGED <<network, writers, sendEpoch, recvEpoch, recvCounter,
                   holding, conn, wire, rx, sealed, accepted>>
WriteFails(w) ==
    /\ pc[w] # "idle" /\ conn = "down"
    /\ pc' = [pc EXCEPT ![w] = "idle"]
    /\ UNCHANGED <<network, writers, sendEpoch, sendCounter, recvEpoch, recvCounter,
                   holding, conn, wire, rx, sealed, accepted>>

(* UpdateSessionKeys at the sending and at the receiving end. *)
UpdateSendKey ==
    /\ sendEpoch < MaxEpoch
    /\ sendEpoch' = sendEpoch + 1 /\ sendCounter' = 0
    /\ UNCHANGED <<network, writers, recvEpoch, recvCounter, pc, holding, conn, wire, rx,
                   sealed, accepted>>

UpdateRecvKey ==
    /\ recvEpoch < MaxEpoch
    /\ recvEpoch' = recvEpoch + 1 /\ recvCounter' = 0
    /\ UNCHANGED <<network, writers, sendEpoch, sendCounter, pc, holding, conn, wire, rx,
                   sealed, accepted>>

(* What Receive reads is a frame if a header is followed by a body; the header
   of another frame does as well when the two happen to have the same length.
   The frame must open under the key that sealed it and pass the replay check. *)
Framed == wire[1].kind = "header" /\ wire[2].kind = "body"
Opens(f) == f.epoch = recvEpoch
\* mutant: an off-by-one in the replay check
FreshStrict(f) == f.counter > recvCounter
\* mutant: the last frame may be taken again
FreshOffByOne(f) == f.counter + 1 >= recvCounter
Fresh(f) == f.counter >= recvCounter

Accept ==
    /\ rx = "open" /\ Len(wire) >= 2
    /\ LET f == sealed[wire[2].id]
       IN  Framed /\ Opens(f) /\ Fresh(f) /\ recvCounter' = f.counter + 1
    /\ accepted' = Append(accepted, wire[2].id)
    /\ wire' = Tail(Tail(wire))
    /\ UNCHANGED <<network, writers, sendEpoch, sendCounter, recvEpoch, pc, holding, conn,
                   rx, sealed>>

(* Bytes that are no frame, a failed Open or a replayed counter: the error ends
   the tunnel loop, nothing is read after it. *)
Reject ==
    /\ rx = "open" /\ Len(wire) >= 2
    /\ LET f == sealed[wire[2].id]
       IN  Framed /\ Opens(f) /\ Fresh(f) => wire[1].id # wire[2].id
    /\ rx' = "failed"
    /\ wire' = Tail(Tail(wire))
    /\ UNCHANGED <<network, writers, sendEpoch, sendCounter, recvEpoch, recvCounter,
                   pc, holding, conn, sealed, accepted>>

(* The device closes its connection; a read on it then fails. *)
Close ==
    /\ conn = "up" /\ conn' = "down"
    /\ UNCHANGED <<network, writers, sendEpoch, sendCounter, recvEpoch, recvCounter,
                   pc, holding, wire, rx, sealed, accepted>>

ReadFails ==
    /\ rx = "open" /\ conn = "down"
    /\ rx' = "failed"
    /\ UNCHANGED <<network, writers, sendEpoch, sendCounter, recvEpoch, recvCounter,
                   pc, holding, conn, wire, sealed, accepted>>

(* A datagram network loses what it carries, and repeats it at any later time
   (a datagram that is repeated and then lost has only been delayed).  Each
   conn.Write is a datagram of its own. *)
Disturb ==
    /\ network = "datagram" /\ rx = "open"
    /\ \E i \in 1 .. Len(wire) :
         \/ wire' = RemoveAt(wire, i)
         \/ Len(wire) < MaxWire /\ wire' = Append(wire, wire[i])
    /\ UNCHANGED <<network, writers, sendEpoch, sendCounter, recvEpoch, recvCounter,
                   pc, holding, conn, rx, sealed, accepted>>

Next ==
    \/ \E w \in writers : Seal(w) \/ Write(w) \/ WriteFails(w)
    \/ UpdateSendKey \/ UpdateRecvKey
    \/ Accept \/ Reject \/ Close \/ ReadFails \/ Disturb

Spec == Init /\ [][Next]_vars

(* The scheduler runs every goroutine that can go on: a frame that was sealed
   is written out, and the tunnel loop keeps receiving. *)
FairSpec ==
    /\ Spec
    /\ \A w \in Goroutines : WF_vars(w \in writers /\ (Write(w) \/ WriteFails(w)))
    /\ WF_vars(Accept \/ Reject)

-----------------------------------------------------------------------------

(* No two frames are sealed under the same key and counter: derivation of the
   nonce from sendCounter is sound whatever the goroutines and rekeys do
   (writeFrame increments under the lock; UpdateSessionKeys resets the counter
   only together with the key). *)
NonceUnique ==
    \A i, j \in 1 .. Len(sealed) :
        /\ sealed[i].epoch = sealed[j].epoch
        /\ sealed[i].counter = sealed[j].counter
        => i = j

(* Whatever the network repeats or reorders and whenever either end changes its
   keys, Receive takes the sealed frames in order and none twice: the replay
   check of Receive, with counters that start again at every key. *)
Channel == INSTANCE OrderedChannel
    WITH sent <- Len(sealed), taken <- accepted

ImplementsChannel == Channel!Spec

SteadyStream == network = "stream" /\ sendEpoch = 1 /\ recvEpoch = 1 /\ conn = "up"

Lone == \E w \in Goroutines : writers = {w}

(* On a reliable connection between two key changes, the frames of one goroutine
   are never rejected, and they are taken without a gap. *)
LoneWriterLossless ==
    SteadyStream /\ Lone =>
        /\ rx = "open"
        /\ accepted = [i \in 1 .. Len(accepted) |-> i]

(* On a reliable connection between two key changes no frame of the peer is
   rejected.  docs/protocol.md:26-27 has each frame advance "the monotonically
   increasing counter"; several goroutines write the frames they sealed in any
   order, so the counters the receiver sees may go back. *)
NoGenuineFrameRejected == SteadyStream => rx = "open"

(* And every frame the lone writer sealed is received, unless the connection is
   closed or a key changes first. *)
LoneWriterDelivers ==
    \A n \in 1 .. MaxFrames :
        SteadyStream /\ Lone /\ Len(sealed) >= n
            ~> ~ SteadyStream \/ Len(accepted) >= n
=============================================================================
