------------------------------- MODULE Roaming -------------------------------
(***************************************************************************)
(* RoamingManager (transport/roaming.go): packets from other addresses     *)
(* make candidates, a candidate that proves itself in time becomes the     *)
(* endpoint, and the owner is told in a goroutine per change.              *)
(***************************************************************************)
EXTENDS Naturals, Sequences, FiniteSets
CONSTANTS
    Addrs,             \* addresses packets come from
    SwitchThreshold,   \* packets a candidate needs, 3
    VerifyTimeout,     \* time it has for them, 5 s
    MaxCandidates,     \* candidates kept, 5
    MaxAge,            \* of CleanupExpiredCandidates
    MaxTime, MaxPackets   \* bounds: the clock, packets received

VARIABLES
    now,
    current,      \* currentEndpoint
    candidates,   \* the candidates map, a function from some addresses
    packets,      \* history: the packets received, in order
    notices,      \* the callbacks that have not run yet: new endpoints by number
    switches,     \* switchCount and calls of ForceSetEndpoint
    told,         \* the endpoint the owner was told last
    overlapped    \* history: two callbacks were pending at once

vars == <<now, current, candidates, packets, notices, switches, told, overlapped>>

Candidate == [first : 0 .. MaxTime, last : 0 .. MaxTime, count : 1 .. MaxPackets,
              authenticated : BOOLEAN]
Known == DOMAIN candidates

TypeOK ==
    /\ now \in 0 .. MaxTime /\ current \in Addrs /\ told \in Addrs
    /\ Known \subseteq Addrs /\ Cardinality(Known) <= MaxCandidates
    /\ \A a \in Known : candidates[a] \in Candidate
    /\ Len(packets) <= MaxPackets /\ notices \subseteq (1 .. switches) \X Addrs
    /\ switches \in Nat /\ overlapped \in BOOLEAN

Init ==
    /\ now = 0 /\ current = (CHOOSE a \in Addrs : TRUE) /\ candidates = <<>> /\ packets = <<>>
    /\ notices = {} /\ switches = 0 /\ told = current /\ overlapped = FALSE

Without(S) == [a \in Known \ S |-> candidates[a]]

(* The endpoint becomes a; the callback runs in a goroutine of its own. *)
Notify(a) ==
    /\ current' = a /\ switches' = switches + 1
    /\ notices' = notices \cup {<<switches', a>>}
    /\ overlapped' = (overlapped \/ notices # {})
    /\ UNCHANGED told

Quiet == UNCHANGED <<current, notices, switches, told, overlapped>>

-----------------------------------------------------------------------------

(* pruneOldestCandidate: among the oldest the map's order decides, and the one
   just added may be among them. *)
Oldest(cs) == {a \in DOMAIN cs : \A b \in DOMAIN cs : cs[a].first <= cs[b].first}

AddCandidate(a, authenticated) ==
    LET new == [first |-> now, last |-> now, count |-> 1, authenticated |-> authenticated]
        all == [b \in Known \cup {a} |-> IF b = a THEN new ELSE candidates[b]]
    IN  /\ a \notin Known /\ Quiet
        /\ IF Cardinality(DOMAIN all) <= MaxCandidates THEN candidates' = all
           ELSE \E old \in Oldest(all) : candidates' = [b \in DOMAIN all \ {old} |-> all[b]]

Updated(a, authenticated) ==
    [candidates[a] EXCEPT !.last = now, !.count = @ + 1,
                          !.authenticated = @ \/ authenticated]

\* mutant: the time is not looked at
ProvedAnyTime(c) == c.authenticated /\ c.count >= SwitchThreshold
Proved(c) ==
    /\ c.authenticated /\ c.count >= SwitchThreshold
    /\ now - c.first <= VerifyTimeout

UpdateCandidate(a, authenticated) ==
    /\ a \in Known
    /\ IF Proved(Updated(a, authenticated))
       THEN Notify(a) /\ candidates' = Without({a})
       ELSE Quiet /\ candidates' = [candidates EXCEPT ![a] = Updated(a, authenticated)]

UpdateEndpoint(a, authenticated) ==
    /\ Len(packets) < MaxPackets
    /\ packets' = Append(packets, [from |-> a, at |-> now, authenticated |-> authenticated])
    /\ \/ a = current /\ Quiet /\ UNCHANGED candidates
       \/ a # current /\ (AddCandidate(a, authenticated) \/ UpdateCandidate(a, authenticated))
    /\ UNCHANGED now

ForceSetEndpoint(a) ==
    /\ a # current /\ switches = 0    \* bound: once, before the first change
    /\ Notify(a) /\ candidates' = <<>>
    /\ UNCHANGED <<now, packets>>

CleanupExpiredCandidates ==
    LET expired == {a \in Known : now - candidates[a].last > MaxAge}
    IN  /\ expired # {} /\ candidates' = Without(expired)
        /\ Quiet /\ UNCHANGED <<now, packets>>

(* The callbacks run in any order. *)
Callback(notice) ==
    /\ notices' = notices \ {notice} /\ told' = notice[2]
    /\ UNCHANGED <<now, current, candidates, packets, switches, overlapped>>

Tick ==
    /\ now < MaxTime /\ now' = now + 1
    /\ Quiet /\ UNCHANGED <<candidates, packets>>

Next == \/ \E a \in Addrs : ForceSetEndpoint(a)
                            \/ \E authenticated \in BOOLEAN : UpdateEndpoint(a, authenticated)
        \/ CleanupExpiredCandidates \/ Tick
        \/ \E notice \in notices : Callback(notice)

Spec == Init /\ [][Next]_vars

-----------------------------------------------------------------------------

PacketsFrom(a, since) ==
    {i \in DOMAIN packets' : packets'[i].from = a /\ packets'[i].at >= since}

(* A step: the endpoint follows only an address that sent SwitchThreshold packets within
   VerifyTimeout, one of them authenticated, whatever was added, pruned, cleaned
   up or forced in between; all of that counts from the candidate's first packet. *)
RoamsForCause ==
    current' # current /\ packets' # packets =>
        LET sent == PacketsFrom(current', IF now > VerifyTimeout THEN now - VerifyTimeout ELSE 0)
        IN  /\ Cardinality(sent) >= SwitchThreshold
            /\ \E i \in sent : packets'[i].authenticated

(* No candidate waits that has proved itself: the packet that proves it switches
   to it; and the endpoint is no candidate. *)
NobodyProvedWaits ==
    /\ current \notin Known
    /\ \A a \in Known :
         ~ (candidates[a].authenticated /\ candidates[a].count >= SwitchThreshold
            /\ candidates[a].last - candidates[a].first <= VerifyTimeout)

(* The owner ends up with the manager's endpoint, unless two callbacks ran at
   the same time: nothing orders them. *)
ToldLastUnlessOverlapped == notices = {} /\ ~ overlapped => told = current
=============================================================================
