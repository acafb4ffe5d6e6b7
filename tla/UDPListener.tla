----------------------------- MODULE UDPListener -----------------------------
(***************************************************************************)
(* The UDP listener of transport/transport.go: demux sorts datagrams by    *)
(* the address they come from, Accept hands a session to its owner, who    *)
(* reads and closes it while demux pushes data and Close closes them all.  *)
(*                                                                         *)
(* A datagram has two pieces, so that a Read can be too short for it.      *)
(***************************************************************************)
EXTENDS Naturals, Sequences

CONSTANTS
    Addrs,            \* addresses that datagrams come from
    MaxSessions,      \* bound: sessions ever created
    MaxDatagrams,     \* bound: datagrams received
    AcceptCapacity,   \* of the accept channel, 16
    ReadCapacity      \* of a session's readChan, 64

VARIABLES
    listener,     \* "open", "closing" (closed is set), "closed"
    table,        \* the sessions map: table[a] is a session or 0
    accept,       \* the accept channel, sessions by number
    session,      \* session[s]: what udpSession holds
    reader,       \* reader[s]: "none" before Accept, then "idle" or "waiting" in Read
    closer,       \* closer[s]: whether the owner called Close: "no", "cleanup", "done"
    demux,        \* what demux does; in "send" it holds the listener's lock
    received,     \* datagrams received so far
    toClose       \* the sessions Close has yet to close

vars == <<listener, table, accept, session, reader, closer, demux, received, toClose>>

Sessions == 1 .. MaxSessions
Created == DOMAIN session

(* Piece n of datagram d is position 2d + n. *)
Pieces(d) == <<2 * d, 2 * d + 1>>

Demux == [pc : {"read", "ended"}]
         \cup [pc : {"send", "panicked"}, to : Sessions, datagram : 1 .. MaxDatagrams]

TypeOK ==
    /\ listener \in {"open", "closing", "closed"}
    /\ table \in [Addrs -> 0 .. MaxSessions]
    /\ accept \in Seq(Sessions) /\ Len(accept) <= AcceptCapacity
    /\ Len(session) <= MaxSessions
    /\ \A s \in Created :
         /\ session[s].addr \in Addrs /\ Len(session[s].queue) <= ReadCapacity
         /\ session[s].closedBy \in {"nobody", "owner", "listener", "demux"}
         /\ session[s].last \in Nat /\ session[s].pending \in Seq(Nat)
    /\ reader \in [Sessions -> {"none", "idle", "waiting"}]
    /\ closer \in [Sessions -> {"no", "cleanup", "done"}]
    /\ demux \in Demux /\ received \in 0 .. MaxDatagrams
    /\ toClose \subseteq Sessions

Init ==
    /\ listener = "open" /\ table = [a \in Addrs |-> 0] /\ accept = <<>>
    /\ session = <<>> /\ reader = [s \in Sessions |-> "none"]
    /\ closer = [s \in Sessions |-> "no"]
    /\ demux = [pc |-> "read"] /\ received = 0 /\ toClose = {}

Closed(s) == session[s].closedBy # "nobody"
Close(s, who) == session' = [session EXCEPT ![s].closedBy = who]

(* The listener's lock: demux keeps it while it pushes data. *)
LockFree == demux.pc # "send"

-----------------------------------------------------------------------------

NewSession(a, d) ==
    [addr |-> a, closedBy |-> "nobody", queue |-> <<d>>, pending |-> <<>>, last |-> 0]

\* mutant: a refused session stays in the table
RefuseKeepsEntry(a, s) ==
    /\ session' = Append(session, [NewSession(a, received') EXCEPT !.closedBy = "demux"])
    /\ table' = [table EXCEPT ![a] = s] /\ UNCHANGED accept

(* The accept channel is full: the session is closed and forgotten. *)
Refuse(a, s) ==
    /\ session' = Append(session, [NewSession(a, received') EXCEPT !.closedBy = "demux"])
    /\ UNCHANGED <<table, accept>>

(* The first datagram from a; nobody else knows the session yet, so pushData
   cannot be disturbed. *)
DemuxConnects(a) ==
    LET s == Len(session) + 1
    IN  /\ demux.pc = "read" /\ listener = "open" /\ table[a] = 0
        /\ s <= MaxSessions /\ received < MaxDatagrams /\ received' = received + 1
        /\ \/ /\ Len(accept) < AcceptCapacity
              /\ session' = Append(session, NewSession(a, received'))
              /\ table' = [table EXCEPT ![a] = s] /\ accept' = Append(accept, s)
           \/ Len(accept) >= AcceptCapacity /\ Refuse(a, s)
        /\ UNCHANGED <<listener, reader, closer, demux, toClose>>

(* pushData, first half: a closed session takes nothing. *)
DemuxPushes(a) ==
    LET s == table[a]
    IN  /\ demux.pc = "read" /\ listener = "open" /\ s # 0
        /\ received < MaxDatagrams /\ received' = received + 1
        /\ demux' = IF Closed(s) THEN demux
                    ELSE [pc |-> "send", to |-> s, datagram |-> received']
        /\ UNCHANGED <<listener, table, accept, session, reader, closer, toClose>>

(* pushData, second half, with the session unlocked: a send on a closed channel
   panics, a full one drops the datagram. *)
DemuxSends ==
    LET s == demux.to
    IN  /\ demux.pc = "send"
        /\ demux' = IF Closed(s) THEN [demux EXCEPT !.pc = "panicked"] ELSE [pc |-> "read"]
        /\ session' =
             IF Closed(s) \/ Len(session[s].queue) >= ReadCapacity THEN session
             ELSE [session EXCEPT ![s].queue = Append(@, demux.datagram)]
        /\ UNCHANGED <<listener, table, accept, reader, closer, received, toClose>>

(* A datagram, or the error of a closed socket, after closed was set. *)
DemuxEnds ==
    /\ demux.pc = "read" /\ listener # "open"
    /\ demux' = [pc |-> "ended"]
    /\ UNCHANGED <<listener, table, accept, session, reader, closer, received, toClose>>

-----------------------------------------------------------------------------

Accept ==
    /\ accept # <<>> /\ accept' = Tail(accept)
    /\ reader' = [reader EXCEPT ![Head(accept)] = "idle"]
    /\ UNCHANGED <<listener, table, session, closer, demux, received, toClose>>

\* mutant: the lock is not taken
LockIgnored == TRUE
CloseMayLock == LockFree

CloseListener ==
    /\ listener = "open" /\ CloseMayLock
    /\ listener' = "closing"
    /\ toClose' = {table[a] : a \in Addrs} \ {0}
    /\ table' = [a \in Addrs |-> 0]
    /\ UNCHANGED <<accept, session, reader, closer, demux, received>>

CloseNext ==
    \E s \in toClose :
        /\ listener = "closing" /\ toClose' = toClose \ {s}
        /\ IF Closed(s) THEN UNCHANGED session ELSE Close(s, "listener")
        /\ UNCHANGED <<listener, table, accept, reader, closer, demux, received>>

(* The accept channel is closed, then the socket. *)
CloseReturns ==
    /\ listener = "closing" /\ toClose = {}
    /\ listener' = "closed"
    /\ UNCHANGED <<table, accept, session, reader, closer, demux, received, toClose>>

-----------------------------------------------------------------------------

\* mutant: the rest of the datagram is not kept
DeliverDrops(s, data, n) ==
    session' = [session EXCEPT ![s].pending = <<>>, ![s].last = data[n],
                    ![s].queue = IF session[s].pending = <<>> THEN Tail(@) ELSE @]

(* Read copies the first n pieces of data and keeps the rest in pending. *)
Deliver(s, data, n) ==
    session' = [session EXCEPT ![s].pending = SubSeq(data, n + 1, Len(data)),
                    ![s].last = data[n],
                    ![s].queue = IF session[s].pending = <<>> THEN Tail(@) ELSE @]

ReadPending(s) ==
    /\ reader[s] = "idle" /\ ~ Closed(s) /\ session[s].pending # <<>>
    /\ \E n \in DOMAIN session[s].pending : Deliver(s, session[s].pending, n)
    /\ UNCHANGED <<listener, table, accept, reader, closer, demux, received, toClose>>

ReadWaits(s) ==
    /\ reader[s] = "idle" /\ ~ Closed(s) /\ session[s].pending = <<>>
    /\ reader' = [reader EXCEPT ![s] = "waiting"]
    /\ UNCHANGED <<listener, table, accept, session, closer, demux, received, toClose>>

ReadGets(s) ==
    /\ reader[s] = "waiting" /\ session[s].queue # <<>>
    /\ \E n \in 1 .. 2 : Deliver(s, Pieces(Head(session[s].queue)), n)
    /\ reader' = [reader EXCEPT ![s] = "idle"]
    /\ UNCHANGED <<listener, table, accept, closer, demux, received, toClose>>

(* The closed channel yields nothing, or the deadline passes; a caller reads
   again or closes. *)
ReadGetsNothing(s) ==
    /\ reader[s] = "waiting"
    /\ reader' = [reader EXCEPT ![s] = "idle"]
    /\ UNCHANGED <<listener, table, accept, session, closer, demux, received, toClose>>

(* Close by the owner, whose Read may be waiting in another goroutine. *)
OwnerCloses(s) ==
    /\ reader[s] # "none" /\ closer[s] = "no"
    /\ closer' = [closer EXCEPT ![s] = IF Closed(s) THEN "done" ELSE "cleanup"]
    /\ IF Closed(s) THEN UNCHANGED session ELSE Close(s, "owner")
    /\ UNCHANGED <<listener, table, accept, reader, demux, received, toClose>>

Forget(s) == [table EXCEPT ![session[s].addr] = 0]

(* The cleanup function, after the session's lock was released. *)
OwnerCleansUp(s) ==
    /\ closer[s] = "cleanup" /\ LockFree
    /\ closer' = [closer EXCEPT ![s] = "done"] /\ table' = Forget(s)
    /\ UNCHANGED <<listener, accept, session, reader, demux, received, toClose>>

Owner(s) == ReadPending(s) \/ ReadWaits(s) \/ ReadGets(s) \/ ReadGetsNothing(s)
            \/ OwnerCloses(s) \/ OwnerCleansUp(s)

DemuxGoes == DemuxSends \/ DemuxEnds
ListenerGoes == CloseNext \/ CloseReturns

Next == \/ \E a \in Addrs : DemuxConnects(a) \/ DemuxPushes(a)
        \/ DemuxGoes \/ Accept \/ CloseListener \/ ListenerGoes
        \/ \E s \in Created : Owner(s)

Spec == Init /\ [][Next]_vars

\* fair: goroutines go on when they can, the owner finishes a Close it began
OwnerGoes(s) == s \in Created /\ OwnerCleansUp(s)

-----------------------------------------------------------------------------

(* demux panics only over a session that its owner closed between the check in
   pushData and the send: closing the listener, which closes the same channels
   without the listener's lock, cannot make it panic. *)
PanicsOnlyIfOwnerRaced ==
    demux.pc \in {"send", "panicked"} =>
        session[demux.to].closedBy \in {"nobody", "owner"}

(* While the listener is open the table holds exactly the sessions that are
   open, and those whose owner has yet to run its cleanup, each under its own
   address: the cleanup of a closed session never takes a newer session of the
   same address with it, and a refused or closed one is not left behind. *)
TableExact ==
    listener = "open" =>
        \A s \in Created :
            table[session[s].addr] = s <=> ~ Closed(s) \/ closer[s] = "cleanup"

(* A step: whatever the sizes of its reads, an owner gets each session's datagrams in
   order, never half of one without the other half before the next. *)
ReadsInOrder ==
    \A s \in Created :
        LET old == session[s].last  new == session'[s].last
        IN  new # old => new > old /\ (old # 0 /\ old % 2 = 0 => new = old + 1)

(* What a closing listener comes to: demux has ended (unless it panicked) and
   every session nobody closed before is closed. *)
Closing == listener # "open"
ClosedDown ==
    /\ listener = "closed" /\ demux.pc \in {"ended", "panicked"}
    /\ \A s \in Created : Closed(s)
=============================================================================
