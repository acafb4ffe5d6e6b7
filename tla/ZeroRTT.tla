------------------------------- MODULE ZeroRTT -------------------------------
(***************************************************************************)
(* 0-RTT tickets (transport/zero_rtt.go): a server that issues, validates  *)
(* and forgets, a client that stores and uses, and a network that may      *)
(* deliver a first flight late and more than once.                         *)
(***************************************************************************)
EXTENDS Naturals, Sequences, FiniteSets, FiniteSetsExt, Functions

CONSTANTS
    MaxTickets,          \* bound: tickets issued
    TicketLifetime,      \* 24 h
    RetryWindow,         \* 5 s
    UsedKept,            \* 1 h
    MaxTicketUsage,      \* 3
    MaxTicketsPerPeer,   \* 5
    MaxTime              \* bound: the clock

VARIABLES
    now,
    issued,        \* number of tickets issued; a ticket's id is its number
    expires,       \* id -> ExpiresAt
    clientTickets, \* the client's tickets: id -> usage; the oldest has the least id
    serverTickets, \* the ids of the server's copies, which it never uses
    flights,       \* first flights sent: [id, usage], any number of times delivered
    usedTickets,   \* id -> time recorded
    accepted,      \* history: id -> times accepted
    stopped

vars == <<now, issued, expires, clientTickets, serverTickets, flights, usedTickets, accepted, stopped>>

Ids == 1 .. MaxTickets
Ticket == [id : Ids, usage : 0 .. MaxTicketUsage]

TypeOK ==
    /\ now \in 1 .. MaxTime /\ issued \in 0 .. MaxTickets
    /\ DOMAIN expires = 1 .. issued
    /\ \A tickets \in {DOMAIN clientTickets, serverTickets} :
         tickets \subseteq 1 .. issued /\ Cardinality(tickets) <= MaxTicketsPerPeer
    /\ \A id \in DOMAIN clientTickets : clientTickets[id] \in 0 .. MaxTicketUsage
    /\ flights \subseteq Ticket
    /\ DOMAIN usedTickets \subseteq 1 .. issued
    /\ \A id \in DOMAIN usedTickets : usedTickets[id] \in 1 .. now
    /\ accepted \in [Ids -> SUBSET (1 .. MaxTime)]
    /\ stopped \in BOOLEAN

Init ==
    /\ now = 1 /\ issued = 0 /\ expires = <<>>
    /\ clientTickets = <<>> /\ serverTickets = {} /\ flights = {}
    /\ usedTickets = <<>> /\ accepted = [id \in Ids |-> {}] /\ stopped = FALSE

(* The oldest goes when there is one too many. *)
Stored(tickets, id) ==
    LET all == tickets \cup {id}
    IN  IF Cardinality(all) > MaxTicketsPerPeer THEN all \ {Min(all)} ELSE all

-----------------------------------------------------------------------------

(* The server issues and the client stores what it was sent. *)
IssueTicket ==
    LET id == issued + 1
    IN  /\ issued < MaxTickets /\ issued' = id
        /\ expires' = Append(expires, now + TicketLifetime)
        /\ serverTickets' = Stored(serverTickets, id)
        /\ clientTickets' = [i \in Stored(DOMAIN clientTickets, id) |->
                                IF i = id THEN 0 ELSE clientTickets[i]]
        /\ UNCHANGED <<now, flights, usedTickets, accepted, stopped>>

Valid(id) == expires[id] >= now /\ clientTickets[id] < MaxTicketUsage

(* The newest valid ticket goes out with its usage already counted. *)
UseTicket ==
    \E id \in DOMAIN clientTickets :
        LET usage == clientTickets[id] + 1
        IN  /\ Valid(id) /\ \A j \in DOMAIN clientTickets : j > id => ~ Valid(j)
            /\ clientTickets' = [clientTickets EXCEPT ![id] = usage]
            /\ flights' = flights \cup {[id |-> id, usage |-> usage]}
            /\ UNCHANGED <<now, issued, expires, serverTickets, usedTickets, accepted, stopped>>

\* mutant: every use counts as a retry of the last
RetryOfLatest(id) == \E t \in accepted[id] : now - t < RetryWindow
Retry(id) == now - usedTickets[id] < RetryWindow

(* A ticket seen before is a retry, or refused; a new one is recorded.  The code asks the
   ticket alone: it does not look for the id among the server's own, and the time of
   expiry is the one in the ticket, which a checksum covers and no key.  So this is what
   it does with genuine tickets, late or repeated; what it would say to any other is
   outside the model, whose network makes none. *)
ValidateTicket(ticket) ==
    LET id == ticket.id
    IN  /\ ticket \in flights /\ expires[id] >= now /\ ticket.usage <= MaxTicketUsage
        /\ \/ id \in DOMAIN usedTickets /\ Retry(id) /\ UNCHANGED usedTickets
           \/ /\ id \notin DOMAIN usedTickets
              /\ usedTickets' = [i \in DOMAIN usedTickets \cup {id} |->
                                   IF i = id THEN now ELSE usedTickets[i]]
        /\ accepted' = [accepted EXCEPT ![id] = @ \cup {now}]
        /\ UNCHANGED <<now, issued, expires, clientTickets, serverTickets, flights, stopped>>

(* The client drops a ticket that was refused, or that it has used. *)
RemoveTicket(id) ==
    /\ id \in DOMAIN clientTickets /\ \E t \in flights : t.id = id
    /\ clientTickets' = Restrict(clientTickets, DOMAIN clientTickets \ {id})
    /\ UNCHANGED <<now, issued, expires, serverTickets, flights, usedTickets, accepted, stopped>>

Alive(id, usage) == expires[id] > now /\ usage < MaxTicketUsage

Kept(id) == now - usedTickets[id] <= UsedKept

(* The managers of both ends clean up on their own timers; modelled together, as
   they share no state.  The server's copies have never been used. *)
Cleanup ==
    /\ ~ stopped
    /\ \/ /\ serverTickets' = {id \in serverTickets : Alive(id, 0)}
          /\ usedTickets' = Restrict(usedTickets, {id \in DOMAIN usedTickets : Kept(id)})
          /\ UNCHANGED clientTickets
       \/ /\ clientTickets' = Restrict(clientTickets,
                 {id \in DOMAIN clientTickets : Alive(id, clientTickets[id])})
          /\ UNCHANGED <<serverTickets, usedTickets>>
    /\ UNCHANGED <<now, issued, expires, flights, accepted, stopped>>

Stop == /\ ~ stopped /\ stopped' = TRUE
        /\ UNCHANGED <<now, issued, expires, clientTickets, serverTickets, flights, usedTickets, accepted>>

Tick == /\ now < MaxTime /\ now' = now + 1
        /\ UNCHANGED <<issued, expires, clientTickets, serverTickets, flights, usedTickets, accepted, stopped>>

Next ==
    \/ IssueTicket \/ UseTicket \/ Cleanup \/ Stop \/ Tick
    \/ \E ticket \in flights : ValidateTicket(ticket)
    \/ \E id \in Ids : RemoveTicket(id)

Spec == Init /\ [][Next]_vars

-----------------------------------------------------------------------------

(* A ticket that was accepted is accepted again within the retry window of a use
   that started one, or more than UsedKept later, once its record may be gone; a
   retry does not prolong the window. *)
ReacceptedForCause ==
    \A id \in Ids : \A t \in accepted[id] :
        \E first \in accepted[id] :
            /\ first <= t /\ t - first < RetryWindow
            /\ \A other \in accepted[id] : other < first =>
                 \E root \in accepted[id] : root <= other /\ other - root < RetryWindow
                                            /\ first - root > UsedKept

(* No ticket is accepted after it has expired. *)
AcceptedAlive ==
    \A id \in 1 .. issued : \A t \in accepted[id] : t <= expires[id]
=============================================================================
