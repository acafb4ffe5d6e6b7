-------------------------------- MODULE Mux ----------------------------------
(***************************************************************************)
(* One Multiplexer of transport/mux.go: its read loop, ping loop, a writer *)
(* goroutine per stream and the owners of streams, all of which meet at    *)
(* one mutex that writeFrame holds while it writes to the connection.      *)
(* Frames arrive from any peer that speaks the protocol.                   *)
(*                                                                         *)
(* The mutex is not reentrant: OpenStream, and handleOpenFrame at the      *)
(* stream limit, call writeFrame with the mutex held and wait for          *)
(* themselves ever after.                                                  *)
(***************************************************************************)
EXTENDS Naturals, Sequences, FiniteSets

CONSTANTS
    Ids,              \* stream identifiers a peer uses
    MaxStreams,       \* maxStreams, 256
    AcceptCapacity,   \* of acceptCh, 32
    Buffer,           \* of a stream's readBuf and writeCh, 32
    MaxObjects,       \* bound: streams ever created
    MaxEvents         \* bound: frames received and chunks written

VARIABLES
    closed,       \* closed and closeCh
    closing,      \* the Close that closed it: "no", "lock", "done"
    broken,       \* the connection has failed, or is closed
    lock,         \* who holds mu across a step: see Holders
    table,        \* the streams map: table[id] is a stream or 0
    accept,       \* acceptCh
    stream,       \* stream[k]: its identifier, closed, readBuf, writeCh and
                  \* the last chunk read and the last one put on the wire
    owner,        \* owner[k]: "none", "user", then a Close: "lock", "writing", "done"
    writer,       \* writer[k]: streamWriter: "none", "select", "writing", "ended"
    loop,         \* readLoop
    ping,         \* pingLoop: "select", "writing", "ended"
    events        \* frames received and chunks written so far

vars == <<closed, closing, broken, lock, table, accept, stream, owner, writer, loop, ping,
          events>>

Objects == 1 .. MaxObjects
Created == DOMAIN stream
Free == [who |-> "free", k |-> 0]
Stuck == [who |-> "itself", k |-> 0]    \* its holder waits for it
Holders == [who : {"writer", "owner"}, k : Objects]
           \cup [who : {"loop", "ping"}, k : {0}] \cup {Free, Stuck}

TypeOK ==
    /\ closed \in BOOLEAN /\ closing \in {"no", "lock", "done"} /\ broken \in BOOLEAN
    /\ lock \in Holders /\ table \in [Ids -> 0 .. MaxObjects]
    /\ accept \in Seq(Created) /\ Len(accept) <= AcceptCapacity
    /\ \A k \in Created : Len(stream[k].readBuf) <= Buffer /\ Len(stream[k].writeCh) <= Buffer
    /\ owner \in [Objects -> {"none", "user", "lock", "writing", "done"}]
    /\ writer \in [Objects -> {"none", "select", "writing", "ended"}]
    /\ loop.pc \in {"read", "handle", "deliver", "writing", "stuck", "ended"}
    /\ ping \in {"select", "writing", "ended"} /\ events \in 0 .. MaxEvents

Reading == [pc |-> "read"]

Init ==
    /\ closed = FALSE /\ closing = "no" /\ broken = FALSE /\ lock = Free
    /\ table = [i \in Ids |-> 0] /\ accept = <<>> /\ stream = <<>>
    /\ owner = [k \in Objects |-> "none"] /\ writer = [k \in Objects |-> "none"]
    /\ loop = Reading /\ ping = "select" /\ events = 0

NewStream(id) ==
    [id |-> id, closed |-> FALSE, readBuf |-> <<>>, writeCh |-> <<>>,
     read |-> 0, sent |-> 0]

(* close() of the streams in S. *)
CloseStreams(S) ==
    stream' = [k \in Created |-> [stream[k] EXCEPT !.closed = @ \/ k \in S]]

InTable == {table[i] : i \in Ids} \ {0}
AtLimit == Cardinality({i \in Ids : table[i] # 0}) >= MaxStreams

-----------------------------------------------------------------------------
(* Multiplexer.Close, which only its first caller carries out. *)

BeginClose ==
    /\ closed' = TRUE
    /\ closing' = IF closed THEN closing ELSE "lock"

FinishClose ==
    /\ closing = "lock" /\ lock = Free
    /\ closing' = "done" /\ broken' = TRUE /\ CloseStreams(InTable)
    /\ UNCHANGED <<closed, lock, table, accept, owner, writer, loop, ping, events>>

UserCloses ==
    /\ ~ closed /\ BeginClose
    /\ UNCHANGED <<broken, lock, table, accept, stream, owner, writer, loop, ping, events>>

(* The peer or the network ends the connection. *)
Break ==
    /\ ~ broken /\ broken' = TRUE
    /\ UNCHANGED <<closed, closing, lock, table, accept, stream, owner, writer, loop, ping, events>>

-----------------------------------------------------------------------------
(* The read loop *)

LoopReads ==
    /\ loop = Reading /\ ~ broken /\ events < MaxEvents /\ events' = events + 1
    /\ \E type \in {"data", "open", "close", "ping", "pong"}, id \in Ids :
         loop' = IF type = "pong" THEN Reading
                 ELSE [pc |-> "handle", type |-> type, id |-> id, n |-> events']
    /\ UNCHANGED <<closed, closing, broken, lock, table, accept, stream, owner, writer, ping>>

(* readFrame fails: the loop closes the multiplexer. *)
LoopFails ==
    /\ loop = Reading /\ broken
    /\ loop' = [pc |-> "ended"] /\ BeginClose
    /\ UNCHANGED <<broken, lock, table, accept, stream, owner, writer, ping, events>>

(* The test of closed before the next frame. *)
LoopStops ==
    /\ loop = Reading /\ closed
    /\ loop' = [pc |-> "ended"]
    /\ UNCHANGED <<closed, closing, broken, lock, table, accept, stream, owner, writer, ping, events>>

Handles(type) == loop.pc = "handle" /\ lock = Free /\ loop.type = type

HandleDataFrame ==
    LET k == table[loop.id]
    IN  /\ Handles("data")
        /\ loop' = IF k = 0 THEN Reading ELSE [pc |-> "deliver", to |-> k, n |-> loop.n]
        /\ UNCHANGED <<closed, closing, broken, lock, table, accept, stream, owner, writer, ping, events>>

(* The rest of handleDataFrame, without the lock: the loop waits for room in
   the stream's buffer, and with it every other stream. *)
Deliver ==
    LET k == loop.to
    IN  /\ loop.pc = "deliver" /\ loop' = Reading
        /\ \/ /\ Len(stream[k].readBuf) < Buffer
              /\ stream' = [stream EXCEPT ![k].readBuf = Append(@, loop.n)]
           \/ (stream[k].closed \/ closed) /\ UNCHANGED stream
        /\ UNCHANGED <<closed, closing, broken, lock, table, accept, owner, writer, ping, events>>

(* A stream that finds no room in acceptCh is closed but stays in the table. *)
HandleOpenFrame ==
    LET k == Len(stream) + 1
    IN  /\ Handles("open") /\ ~ AtLimit /\ k <= MaxObjects
        /\ table' = [table EXCEPT ![loop.id] = k] /\ writer' = [writer EXCEPT ![k] = "select"]
        /\ \/ /\ Len(accept) < AcceptCapacity
              /\ accept' = Append(accept, k) /\ stream' = Append(stream, NewStream(loop.id))
           \/ /\ Len(accept) >= AcceptCapacity \/ closed
              /\ stream' = Append(stream, [NewStream(loop.id) EXCEPT !.closed = TRUE])
              /\ UNCHANGED accept
        /\ loop' = Reading
        /\ UNCHANGED <<closed, closing, broken, lock, owner, ping, events>>

HandleOpenFrameAtLimit ==
    /\ Handles("open") /\ AtLimit
    /\ lock' = Stuck /\ loop' = [pc |-> "stuck"]
    /\ UNCHANGED <<closed, closing, broken, table, accept, stream, owner, writer, ping, events>>

HandleCloseFrame ==
    LET k == table[loop.id]
    IN  /\ Handles("close") /\ loop' = Reading
        /\ table' = [table EXCEPT ![loop.id] = 0] /\ CloseStreams({k})
        /\ UNCHANGED <<closed, closing, broken, lock, accept, owner, writer, ping, events>>

AnswerPing ==
    /\ Handles("ping") /\ loop' = [pc |-> "writing"]
    /\ lock' = [who |-> "loop", k |-> 0]
    /\ UNCHANGED <<closed, closing, broken, table, accept, stream, owner, writer, ping, events>>

(* conn.Write returns: with an error, or whenever the peer makes room. *)
PongWritten ==
    /\ loop.pc = "writing" /\ lock' = Free /\ loop' = Reading
    /\ UNCHANGED <<closed, closing, broken, table, accept, stream, owner, writer, ping, events>>

-----------------------------------------------------------------------------
(* The ping loop *)

(* That the loop waits for the lock after its tick shows nowhere. *)
Tick ==
    /\ ping = "select" /\ lock = Free /\ ping' = "writing"
    /\ lock' = [who |-> "ping", k |-> 0]
    /\ UNCHANGED <<closed, closing, broken, table, accept, stream, owner, writer, loop, events>>

PingWritten ==
    /\ ping = "writing" /\ lock' = Free
    /\ \/ ~ broken /\ ping' = "select" /\ UNCHANGED <<closed, closing>>
       \/ broken /\ ping' = "ended" /\ BeginClose
    /\ UNCHANGED <<broken, table, accept, stream, owner, writer, loop, events>>

PingEnds ==
    /\ ping = "select" /\ closed /\ ping' = "ended"
    /\ UNCHANGED <<closed, closing, broken, lock, table, accept, stream, owner, writer, loop, events>>

-----------------------------------------------------------------------------
(* Streams and their owners *)

(* OpenStream registers a stream, without its writer, and writes with the lock
   held; AtLimit or closed, it returns an error. *)
OpenStream(id) ==
    LET k == Len(stream) + 1
    IN  /\ ~ closed /\ lock = Free /\ ~ AtLimit /\ k <= MaxObjects
        /\ stream' = Append(stream, NewStream(id))
        /\ table' = [table EXCEPT ![id] = k] /\ lock' = Stuck
        /\ UNCHANGED <<closed, closing, broken, accept, owner, writer, loop, ping, events>>

AcceptStream ==
    /\ accept # <<>> /\ accept' = Tail(accept)
    /\ owner' = [owner EXCEPT ![Head(accept)] = "user"]
    /\ UNCHANGED <<closed, closing, broken, lock, table, stream, writer, loop, ping, events>>

(* A Read or Write that waits when the stream closes may find data, or room, first:
   select then takes either.  A chunk that does not fit the caller's buffer is used up
   all the same: what is read of a chunk is its beginning. *)
Read(k) ==
    /\ owner[k] = "user" /\ stream[k].readBuf # <<>>
    /\ stream' = [stream EXCEPT ![k].readBuf = Tail(@), ![k].read = Head(stream[k].readBuf)]
    /\ UNCHANGED <<closed, closing, broken, lock, table, accept, owner, writer, loop, ping, events>>

Write(k) ==
    /\ owner[k] = "user" /\ Len(stream[k].writeCh) < Buffer
    /\ events < MaxEvents /\ events' = events + 1
    /\ stream' = [stream EXCEPT ![k].writeCh = Append(@, events')]
    /\ UNCHANGED <<closed, closing, broken, lock, table, accept, owner, writer, loop, ping>>

(* Stream.Close: the table keeps the stream until the peer closes it too. *)
CloseStream(k) ==
    /\ owner[k] = "user" /\ owner' = [owner EXCEPT ![k] = "lock"]
    /\ CloseStreams({k})
    /\ UNCHANGED <<closed, closing, broken, lock, table, accept, writer, loop, ping, events>>

CloseLocks(k) ==
    /\ owner[k] = "lock" /\ lock = Free /\ owner' = [owner EXCEPT ![k] = "writing"]
    /\ lock' = [who |-> "owner", k |-> k]
    /\ UNCHANGED <<closed, closing, broken, table, accept, stream, writer, loop, ping, events>>

CloseWritten(k) ==
    /\ owner[k] = "writing" /\ owner' = [owner EXCEPT ![k] = "done"] /\ lock' = Free
    /\ UNCHANGED <<closed, closing, broken, table, accept, stream, writer, loop, ping, events>>

(* streamWriter's select, in which a chunk may win over a closed channel, and
   the lock; the chunk is kept in writeCh until it is written. *)
WriterTakes(k) ==
    /\ writer[k] = "select" /\ stream[k].writeCh # <<>> /\ lock = Free
    /\ writer' = [writer EXCEPT ![k] = "writing"]
    /\ lock' = [who |-> "writer", k |-> k]
    /\ UNCHANGED <<closed, closing, broken, table, accept, stream, owner, loop, ping, events>>

WriterWritten(k) ==
    /\ writer[k] = "writing" /\ lock' = Free
    /\ \/ /\ ~ broken /\ writer' = [writer EXCEPT ![k] = "select"]
          /\ stream' = [stream EXCEPT ![k].writeCh = Tail(@), ![k].sent = Head(stream[k].writeCh)]
       \/ broken /\ CloseStreams({k}) /\ writer' = [writer EXCEPT ![k] = "ended"]
    /\ UNCHANGED <<closed, closing, broken, table, accept, owner, loop, ping, events>>

ToldToEnd(k) == stream[k].closed \/ closed

WriterEnds(k) ==
    /\ writer[k] = "select" /\ ToldToEnd(k) /\ writer' = [writer EXCEPT ![k] = "ended"]
    /\ UNCHANGED <<closed, closing, broken, lock, table, accept, stream, owner, loop, ping, events>>

-----------------------------------------------------------------------------

LoopGoes == LoopFails \/ HandleDataFrame \/ Deliver \/ HandleOpenFrame
            \/ HandleOpenFrameAtLimit \/ HandleCloseFrame \/ AnswerPing
WriterGoes(k) == WriterTakes(k) \/ WriterEnds(k)

(* Steps that end a write on a connection that has failed. *)
WriteFails ==
    broken /\ (PongWritten \/ PingWritten
               \/ \E k \in Created : CloseWritten(k) \/ WriterWritten(k))

Next ==
    \/ FinishClose \/ UserCloses \/ Break
    \/ LoopReads \/ LoopStops \/ LoopGoes \/ PongWritten
    \/ Tick \/ PingWritten \/ PingEnds
    \/ AcceptStream \/ \E id \in Ids : OpenStream(id)
    \/ \E k \in Created : Read(k) \/ Write(k) \/ CloseStream(k) \/ CloseLocks(k)
                          \/ CloseWritten(k) \/ WriterGoes(k) \/ WriterWritten(k)

Spec == Init /\ [][Next]_vars

\* fair: each goroutine goes on when it can, and gets the lock if it is free again
\* and again (FinishClose); the peer need not read, so a write may take for ever
\* unless the connection has failed
WriterStops(k) == k \in Created /\ WriterEnds(k)

-----------------------------------------------------------------------------

(* A stream is lost to the table while it is open only if someone opened its
   identifier again: then nothing the peer sends reaches it, or closes it. *)
LostOnlyIfReopened ==
    \A k \in Created :
        ~ stream[k].closed =>
            \/ table[stream[k].id] = k
            \/ table[stream[k].id] > k
            \/ \E l \in Created : l > k /\ stream[l].id = stream[k].id

(* A step: the owner of a stream reads the peer's chunks, and the peer gets the
   owner's, in order and none twice. *)
StreamsInOrder ==
    \A k \in Created :
        /\ stream'[k].read # stream[k].read => stream'[k].read > stream[k].read
        /\ stream'[k].sent # stream[k].sent => stream'[k].sent > stream[k].sent

(* What a closed multiplexer comes to, unless a holder keeps the lock for ever:
   one that waits for itself, or one that writes to a peer that does not read.
   Close cannot interrupt either. *)
Closing == closed
LockFree == lock = Free
AtRest ==
    /\ closing = "done" /\ ping = "ended"
    /\ \A k \in Created : writer[k] \in {"none", "ended"}
=============================================================================
