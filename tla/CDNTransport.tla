----------------------------- MODULE CDNTransport -----------------------------
(***************************************************************************)
(* A WebSocket connection of transport/cdn_friendly.go: CDNTransport at    *)
(* the client and websocketConn at the server, with a goroutine that       *)
(* writes, one that reads, the client's ping routine and its Close.  The   *)
(* WebSocket library allows one writer at a time; the server serialises    *)
(* its own, the client does not.  Bytes are counted, not named.            *)
(***************************************************************************)
EXTENDS Integers, Sequences

CONSTANTS
    Sizes,          \* of messages; Read is given one byte at a time
    MaxMessages,    \* bound: messages of the client
    MaxAnswers,     \* bound: messages of the server
    MaxPings        \* bound: pings

VARIABLES
    pinger,      \* the ping routine: "none" without an interval, "waits", "ended"
    pings,       \* the pings sent
    closed,      \* the client's closed flag
    open,        \* the client's TCP connection is open
    writing,     \* the client's goroutines in WriteMessage, with what they write
    overlapped,  \* history: two of them were in it at a time
    crashed,     \* the library noticed, and panicked
    toServer, toClient,       \* frames under way: sizes, Ping or CloseFrame
    rest,        \* the server's reader: bytes left of the message, or None
    eof,         \* a Read of the server returned io.EOF
    count        \* bytes and messages, by end

vars == <<pinger, pings, closed, open, writing, overlapped, crashed, toServer,
          toClient, rest, eof, count>>

None == -1
Ping == -2
CloseFrame == -3
Frames == Sizes \cup {Ping, CloseFrame}
ReadSize == 1
Size(frame) == IF frame \in {Ping, CloseFrame} THEN 0 ELSE frame
Bytes(frames) ==
    LET sum[n \in 0 .. Len(frames)] == IF n = 0 THEN 0 ELSE sum[n - 1] + Size(frames[n])
    IN  sum[Len(frames)]
Least(a, b) == IF a < b THEN a ELSE b
Writers == {"app", "ping", "close"}

TypeOK ==
    /\ pinger \in {"none", "waits", "ended"} /\ pings \in 0 .. MaxPings
    /\ closed \in BOOLEAN /\ open \in BOOLEAN /\ overlapped \in BOOLEAN
    /\ crashed \in BOOLEAN /\ eof \in BOOLEAN
    /\ writing \subseteq [by : Writers, frame : Frames]
    /\ \A a, b \in writing : a.by = b.by => a = b
    /\ toServer \in Seq(Frames) /\ toClient \in Seq(Sizes) /\ rest \in Nat \cup {None}
    /\ count \in [written : 0 .. MaxMessages, bytesSent : Nat, serverRead : Nat,
                  answered : 0 .. MaxAnswers, serverSent : Nat, bytesReceived : Nat,
                  cut : Nat, empty : Nat]

(* dialWebSocket, with a ping interval and without. *)
Init ==
    /\ pinger \in {"none", "waits"} /\ pings = 0 /\ closed = FALSE /\ open = TRUE
    /\ writing = {} /\ overlapped = FALSE /\ crashed = FALSE /\ eof = FALSE
    /\ toServer = <<>> /\ toClient = <<>> /\ rest = None
    /\ count = [written |-> 0, bytesSent |-> 0, serverRead |-> 0, answered |-> 0,
                serverSent |-> 0, bytesReceived |-> 0, cut |-> 0, empty |-> 0]

Counts(field, n) == count' = [count EXCEPT ![field] = @ + n]

-----------------------------------------------------------------------------
(* WriteMessage of the library: it begins, and it ends with the frame sent or
   an error.  If another was in it meanwhile it may panic, lose the frame, or
   go as if nothing had happened.  Close writes with the transport's mutex,
   which the others take before they begin. *)
Begins(by, frame) ==
    /\ ~ crashed /\ \A w \in writing : w.by \notin {by, "close"}
    /\ writing' = writing \cup {[by |-> by, frame |-> frame]}
    /\ overlapped' = (overlapped \/ writing # {})

Sent(w) ==
    /\ ~ crashed /\ w \in writing /\ open /\ writing' = writing \ {w}
    /\ toServer' = Append(toServer, w.frame) /\ UNCHANGED crashed

NotSent(w) ==
    /\ ~ crashed /\ w \in writing /\ writing' = writing \ {w}
    /\ ~ open \/ overlapped
    /\ crashed' \in {FALSE, overlapped} /\ UNCHANGED toServer

(* Write.  The counter follows a write without an error. *)
Write(size) ==
    /\ count.written < MaxMessages /\ Begins("app", size)
    /\ count' = [count EXCEPT !.written = @ + 1, !.empty = IF size = 0 THEN @ + 1 ELSE @]
    /\ UNCHANGED <<pinger, pings, closed, open, crashed, toServer, toClient, rest, eof>>

Written ==
    /\ \E w \in writing :
         /\ w.by = "app"
         /\ \/ Sent(w) /\ Counts("bytesSent", w.frame)
            \/ NotSent(w) /\ UNCHANGED count
    /\ UNCHANGED <<pinger, pings, closed, open, overlapped, toClient, rest, eof>>

(* pingRoutine and sendPing, which hold no lock while they write. *)
SendPing ==
    /\ pinger = "waits" /\ pings < MaxPings
    /\ Begins("ping", Ping) /\ pings' = pings + 1
    /\ UNCHANGED <<pinger, closed, open, crashed, toServer, toClient, rest, eof, count>>

PingSent ==
    /\ \E w \in writing : w.by = "ping" /\ (Sent(w) \/ NotSent(w))
    /\ UNCHANGED <<pinger, pings, closed, open, overlapped, toClient, rest, eof, count>>

PingEnds ==
    /\ pinger = "waits" /\ closed /\ ~ crashed /\ \A w \in writing : w.by # "ping"
    /\ pinger' = "ended"
    /\ UNCHANGED <<pings, closed, open, writing, overlapped, crashed, toServer, toClient, rest, eof, count>>

(* Close: the close message, then the connection. *)
Close ==
    /\ ~ closed /\ closed' = TRUE /\ Begins("close", CloseFrame)
    /\ UNCHANGED <<pinger, pings, open, crashed, toServer, toClient, rest, eof, count>>

Closed ==
    /\ \E w \in writing : w.by = "close" /\ (Sent(w) \/ NotSent(w))
    /\ open' = FALSE
    /\ UNCHANGED <<pinger, pings, closed, overlapped, toClient, rest, eof, count>>

-----------------------------------------------------------------------------
(* The client's Read: one message a call, cut to the buffer. *)
Read ==
    /\ open /\ ~ crashed /\ toClient # <<>> /\ toClient' = Tail(toClient)
    /\ LET n == Least(ReadSize, Head(toClient))
       IN  count' = [count EXCEPT !.bytesReceived = @ + n, !.cut = @ + Head(toClient) - n]
    /\ UNCHANGED <<pinger, pings, closed, open, writing, overlapped, crashed, toServer, rest, eof>>

(* The server's Write, under its mutex; its Read, from the message at hand:
   a call with nothing left of it returns 0 bytes and no error. *)
ServerWrite(size) ==
    /\ count.answered < MaxAnswers /\ open
    /\ toClient' = Append(toClient, size)
    /\ count' = [count EXCEPT !.answered = @ + 1, !.serverSent = @ + size]
    /\ UNCHANGED <<pinger, pings, closed, open, writing, overlapped, crashed, toServer, rest, eof>>

ServerReads ==
    /\ rest # None /\ rest' = IF rest = 0 THEN None ELSE rest - Least(ReadSize, rest)
    /\ Counts("serverRead", Least(ReadSize, rest))
    /\ UNCHANGED <<pinger, pings, closed, open, writing, overlapped, crashed, toServer, toClient, eof>>

(* The library answers a ping by itself and skips it.  The first Read of a
   message returns what its reader returns: io.EOF for an empty one. *)
Skipped == toServer # <<>> /\ Head(toServer) = Ping
ServerSkipsPing ==
    /\ rest = None /\ Skipped /\ toServer' = Tail(toServer)
    /\ UNCHANGED <<pinger, pings, closed, open, writing, overlapped, crashed, toClient, rest, eof, count>>

Remainder(size) == size - Least(ReadSize, size)
ServerReadsNew ==
    /\ rest = None /\ toServer # <<>> /\ Head(toServer) \in Sizes
    /\ toServer' = Tail(toServer) /\ rest' = Remainder(Head(toServer))
    /\ eof' = (eof \/ Head(toServer) = 0)
    /\ Counts("serverRead", Least(ReadSize, Head(toServer)))
    /\ UNCHANGED <<pinger, pings, closed, open, writing, overlapped, crashed, toClient>>

Next ==
    \/ \E s \in Sizes : Write(s) \/ ServerWrite(s)
    \/ Written \/ SendPing \/ PingSent \/ PingEnds \/ Close \/ Closed
    \/ Read \/ ServerReads \/ ServerSkipsPing \/ ServerReadsNew

Spec == Init /\ [][Next]_vars

-----------------------------------------------------------------------------
(* What the client counts as sent is what the server reads, or can still read,
   unless a ping or the close message was written during a write; the client
   itself reads every byte it was sent but the tail of a message longer than
   the buffer it offered. *)
BytesExact ==
    /\ overlapped \/ count.bytesSent = count.serverRead + Bytes(toServer) + (IF rest = None THEN 0 ELSE rest)
    /\ count.serverSent = count.bytesReceived + count.cut + Bytes(toClient)
    /\ count.cut > 0 => \E s \in Sizes : s > ReadSize

(* A panic needs two writers, which takes a ping or a Close; the server takes
   the stream for ended only because of an empty message. *)
FaultsForCause ==
    /\ crashed => pings > 0 \/ closed
    /\ eof => count.empty > 0
=============================================================================
