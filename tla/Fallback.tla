------------------------------ MODULE Fallback ------------------------------
(***************************************************************************)
(* FallbackListener (transport/fallback.go): a goroutine per connection    *)
(* looks at its first 32 bytes, queues the connection for Accept or plays  *)
(* an ordinary server to it.  Time is abstract: the detection window may   *)
(* end at any moment.  What a client sends is counted as nothing (0),      *)
(* fewer than 32 bytes (1) or enough (2).                                  *)
(***************************************************************************)
EXTENDS Naturals, Sequences, FiniteSets

CONSTANTS
    Conns,        \* connections clients make
    Capacity      \* of the queue for Accept, 16 in the code

VARIABLES
    mode,         \* "none", "builtin" or "proxy" for HTTP, or "trojan"
    listener,     \* "open", "closing" once the queue is closed, or "closed"
    phase,        \* phase[c]: where the connection c is
    bytes, ours, hung,   \* c's client: what it sent, whether it is one of the
                  \* protocol's own, whether it has hung up
    queue,        \* validConns
    counts,       \* validCount and fallbackCount
    raced,        \* history: connections in a handler when the queue closed, or later
    crashed       \* a handler sent to the closed queue: the process is gone

vars == <<mode, listener, phase, bytes, ours, hung, queue, counts, raced, crashed>>

client == <<bytes, ours, hung>>

(* A handler detects, has found the connection valid, reads a request or
   relays; the connection is then queued, the user's, or closed. *)
Handling == {"detecting", "valid", "requesting", "relaying"}
Phases == {"none", "backlog", "queued", "users", "closed"} \cup Handling

In(p) == {c \in Conns : phase[c] = p}

TypeOK ==
    /\ mode \in {"none", "builtin", "proxy", "trojan"}
    /\ listener \in {"open", "closing", "closed"}
    /\ phase \in [Conns -> Phases]
    /\ bytes \in [Conns -> 0 .. 2]
    /\ ours \in [Conns -> BOOLEAN] /\ hung \in [Conns -> BOOLEAN]
    /\ queue \in Seq(Conns) /\ Len(queue) <= Capacity
    /\ counts \in [{"valid", "fallback"} -> 0 .. Cardinality(Conns)]
    /\ raced \subseteq Conns /\ crashed \in BOOLEAN

Init ==
    /\ mode \in {"none", "builtin", "proxy", "trojan"} /\ listener = "open"
    /\ phase = [c \in Conns |-> "none"] /\ bytes = [c \in Conns |-> 0]
    /\ ours \in [Conns -> BOOLEAN] /\ hung = [c \in Conns |-> FALSE]
    /\ queue = <<>> /\ counts = [k \in {"valid", "fallback"} |-> 0]
    /\ raced = {} /\ crashed = FALSE

Goes(c, p) == phase' = [phase EXCEPT ![c] = p]

-----------------------------------------------------------------------------
(* The clients. *)
Connect(c) ==
    /\ phase[c] = "none" /\ listener # "closed" /\ Goes(c, "backlog")
    /\ UNCHANGED <<mode, listener, client, queue, counts, raced, crashed>>

SendMore(c) ==
    /\ phase[c] # "none" /\ bytes[c] < 2 /\ ~ hung[c]
    /\ bytes' = [bytes EXCEPT ![c] = @ + 1]
    /\ UNCHANGED <<mode, listener, phase, ours, hung, queue, counts, raced, crashed>>

HangUp(c) ==
    /\ phase[c] # "none" /\ ~ hung[c] /\ hung' = [hung EXCEPT ![c] = TRUE]
    /\ UNCHANGED <<mode, listener, phase, bytes, ours, queue, counts, raced, crashed>>

-----------------------------------------------------------------------------
(* acceptRoutine: a goroutine for every connection. *)
AcceptRoutine(c) ==
    /\ phase[c] = "backlog" /\ listener # "closed" /\ Goes(c, "detecting")
    /\ raced' = IF listener = "closing" THEN raced \cup {c} ELSE raced
    /\ UNCHANGED <<mode, listener, client, queue, counts, crashed>>

(* The window ends before 32 bytes came: the error closes the connection,
   with whatever shorter request the client waits to see answered. *)
DetectionTimesOut(c) ==
    /\ phase[c] = "detecting" /\ bytes[c] < 2 /\ ~ hung[c] /\ Goes(c, "closed")
    /\ UNCHANGED <<mode, listener, client, queue, counts, raced, crashed>>

(* isValidProtocol wants eight bytes, which a short header may not have. *)
IsValid(c, long) == ours[c] /\ (bytes[c] = 2 \/ long)

(* Peek has 32 bytes, or the end of what the client sent. *)
Detect(c, long) ==
    /\ phase[c] = "detecting" /\ (bytes[c] = 2 \/ hung[c])
    /\ \/ /\ bytes[c] = 0 /\ Goes(c, "closed") /\ UNCHANGED counts
       \/ /\ bytes[c] > 0 /\ IsValid(c, long) /\ Goes(c, "valid")
          /\ counts' = [counts EXCEPT !["valid"] = @ + 1]
       \/ /\ bytes[c] > 0 /\ ~ IsValid(c, long)
          /\ Goes(c, IF mode = "none" THEN "closed" ELSE "requesting")
          /\ counts' = [counts EXCEPT !["fallback"] = @ + 1]
    /\ UNCHANGED <<mode, listener, client, queue, raced, crashed>>

(* A full queue drops the connection; a closed one panics, default or not. *)
Enqueue(c) ==
    /\ phase[c] = "valid"
    /\ IF listener # "open"
       THEN crashed' = TRUE /\ UNCHANGED <<phase, queue>>
       ELSE /\ UNCHANGED crashed
            /\ IF Len(queue) < Capacity
               THEN queue' = Append(queue, c) /\ Goes(c, "queued")
               ELSE Goes(c, "closed") /\ UNCHANGED queue
    /\ UNCHANGED <<mode, listener, client, counts, raced>>

(* handleHTTPFallback reads the request without a deadline, the Trojan
   fallback relays at once: to the built-in pages, or to the fallback address
   if it can be reached. *)
HandleFallback(c, relays) ==
    /\ phase[c] = "requesting" /\ (mode = "trojan" \/ bytes[c] = 2 \/ hung[c])
    /\ Goes(c, IF relays /\ mode # "builtin" THEN "relaying" ELSE "closed")
    /\ UNCHANGED <<mode, listener, client, queue, counts, raced, crashed>>

(* The copy from the fallback address ends with that server's connection or
   with a write to a client that is gone. *)
RelayEnds(c) ==
    /\ phase[c] = "relaying" /\ Goes(c, "closed")
    /\ UNCHANGED <<mode, listener, client, queue, counts, raced, crashed>>

-----------------------------------------------------------------------------
(* The user; Accept goes on to return what a closed queue still holds. *)
Accept ==
    /\ queue # <<>> /\ queue' = Tail(queue) /\ Goes(Head(queue), "users")
    /\ UNCHANGED <<mode, listener, client, counts, raced, crashed>>

CloseQueue ==
    /\ listener = "open" /\ listener' = "closing"
    /\ raced' = In("detecting") \cup In("valid")
    /\ UNCHANGED <<mode, phase, client, queue, counts, crashed>>

CloseListener ==
    /\ listener = "closing" /\ listener' = "closed"
    /\ phase' = [c \in Conns |-> IF phase[c] = "backlog" THEN "closed" ELSE phase[c]]
    /\ UNCHANGED <<mode, client, queue, counts, raced, crashed>>

Handler(c) == \/ DetectionTimesOut(c) \/ Enqueue(c)
              \/ \E long \in BOOLEAN : Detect(c, long)
              \/ \E relays \in BOOLEAN : HandleFallback(c, relays)

Next ==
    /\ ~ crashed
    /\ \/ \E c \in Conns : \/ Connect(c) \/ SendMore(c) \/ HangUp(c)
                           \/ AcceptRoutine(c) \/ Handler(c) \/ RelayEnds(c)
       \/ Accept \/ CloseQueue \/ CloseListener

Spec == Init /\ [][Next]_vars

\* fair: a handler goes on
HandlerGoes(c) == ~ crashed /\ Handler(c)

-----------------------------------------------------------------------------
(* The process panics only through a connection whose handler Close overtook. *)
PanicsOnlyIfOvertaken == crashed => In("valid") \cap raced # {}

(* A valid connection is queued once, handed to the user, or given up: what
   the statistics count as valid beyond those was dropped or is on its way,
   and a closed listener keeps open only what is still queued. *)
QueueExact ==
    /\ \A c \in Conns : Cardinality({i \in DOMAIN queue : queue[i] = c}) =
                           IF phase[c] = "queued" THEN 1 ELSE 0
    /\ \A c \in In("queued") \cup In("users") : ours[c]
    /\ counts["valid"] + counts["fallback"] >= Cardinality(In("queued") \cup In("users")
                                                 \cup In("valid") \cup In("requesting"))

(* Detection always ends, whatever the client does or does not send: what may
   not last. *)
Detecting == ~ crashed /\ In("detecting") # {}
=============================================================================
