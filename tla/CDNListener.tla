----------------------------- MODULE CDNListener -----------------------------
(***************************************************************************)
(* The WebSocket listener of transport/cdn_friendly.go: an HTTP server     *)
(* whose handler upgrades a request and hands the connection to Accept     *)
(* through a bounded channel, which Close closes.  The handler looks at    *)
(* neither the closed flag nor the mutex; its panic is recovered by the    *)
(* HTTP server, which by then has given the connection away.               *)
(***************************************************************************)
EXTENDS Naturals, Sequences, FiniteSets, SequencesExt

CONSTANTS Conns,      \* the clients that connect
          Capacity    \* of connChan

VARIABLES mode,       \* "ws" or "wss"
          serving,    \* the goroutine of the HTTP server: "begin", "serves", "ended"
          listening,  \* the TCP listener is open
          closed,     \* closed, and connChan with it
          conn,       \* what became of each connection
          queue       \* connChan
vars == <<mode, serving, listening, closed, conn, queue>>

Phases == {"none", "backlog", "request", "upgraded", "queued", "accepted", "closed", "leaked"}

TypeOK ==
    /\ mode \in {"ws", "wss"} /\ serving \in {"begin", "serves", "ended"}
    /\ listening \in BOOLEAN /\ closed \in BOOLEAN
    /\ conn \in [Conns -> Phases]
    /\ queue \in Seq(Conns) /\ Len(queue) <= Capacity

Init ==
    /\ mode \in {"ws", "wss"} /\ serving = "begin" /\ listening = TRUE /\ closed = FALSE
    /\ conn = [c \in Conns |-> "none"] /\ queue = <<>>

Becomes(c, phase) == conn' = [conn EXCEPT ![c] = phase]

(* Serve, or ServeTLS without a certificate, which returns at once and leaves
   the listener open. *)
Serve ==
    /\ serving = "begin"
    /\ serving' = IF mode = "ws" /\ listening THEN "serves" ELSE "ended"
    /\ UNCHANGED <<mode, listening, closed, conn, queue>>

ServeEnds ==
    /\ serving = "serves" /\ ~ listening /\ serving' = "ended"
    /\ UNCHANGED <<mode, listening, closed, conn, queue>>

(* The kernel takes a client, the server accepts it. *)
Connect(c) ==
    /\ listening /\ conn[c] = "none" /\ Becomes(c, "backlog")
    /\ UNCHANGED <<mode, serving, listening, closed, queue>>

Request(c) ==
    /\ serving = "serves" /\ listening /\ conn[c] = "backlog" /\ Becomes(c, "request")
    /\ UNCHANGED <<mode, serving, listening, closed, queue>>

Upgrade(c) ==
    /\ conn[c] = "request" /\ \E phase \in {"upgraded", "closed"} : Becomes(c, phase)
    /\ UNCHANGED <<mode, serving, listening, closed, queue>>

(* A send on the closed channel panics. *)
HandOver(c) ==
    /\ conn[c] = "upgraded"
    /\ Becomes(c, IF closed THEN "leaked" ELSE IF Len(queue) = Capacity THEN "closed" ELSE "queued")
    /\ queue' = IF ~ closed /\ Len(queue) < Capacity THEN Append(queue, c) ELSE queue
    /\ UNCHANGED <<mode, serving, listening, closed>>

(* Accept drains the closed channel too. *)
Accept ==
    /\ queue # <<>> /\ Becomes(Head(queue), "accepted") /\ queue' = Tail(queue)
    /\ UNCHANGED <<mode, serving, listening, closed>>

CloseChannel == closed' = TRUE /\ queue' = queue

CloseQueue ==
    /\ ~ closed /\ CloseChannel
    /\ UNCHANGED <<mode, serving, listening, conn>>

(* The kernel resets whom the server has not accepted. *)
CloseListener ==
    /\ closed /\ listening /\ listening' = FALSE
    /\ conn' = [c \in Conns |-> IF conn[c] = "backlog" THEN "closed" ELSE conn[c]]
    /\ UNCHANGED <<mode, serving, closed, queue>>

Next ==
    \/ Serve \/ ServeEnds \/ Accept \/ CloseQueue \/ CloseListener
    \/ \E c \in Conns : Connect(c) \/ Request(c) \/ Upgrade(c) \/ HandOver(c)

Spec == Init /\ [][Next]_vars

-----------------------------------------------------------------------------
(* A connection is in the queue once, or in the care of a handler or of the
   caller of Accept, or closed: it is lost open only if Close came between its
   upgrade and its hand-over. *)
ConnectionsOwned ==
    /\ \A c \in Conns : Cardinality({i \in DOMAIN queue : queue[i] = c}) =
                        (IF conn[c] = "queued" THEN 1 ELSE 0)
    /\ (\E c \in Conns : conn[c] = "leaked") => closed

(* A wss listener never gets as far as a request. *)
WssServesNobody == mode = "wss" => \A c \in Conns : conn[c] \in {"none", "backlog", "closed"}
=============================================================================
