------------------------------- MODULE Discovery -------------------------------
(***************************************************************************)
(* Discovery (bridge/discovery.go): the table of bridges, the count of     *)
(* requests per client, the secrets of the mail distribution, and the      *)
(* hourly cleanup that prunes the first and forgets the second.            *)
(***************************************************************************)
EXTENDS Integers, Sequences, FiniteSets, Functions

CONSTANTS
    Bridges,          \* bridge IDs
    Clients,          \* client addresses, and mail addresses: one map counts both
    maxRequestsPerIP,
    bridgeTimeout,
    Hour,             \* the cleanup's period; requestResetPeriod is set and never read
    MaxTime           \* bound: the clock

VARIABLES
    now,
    cleanupAt,   \* when the ticker of the cleanup fires next
    bridges,     \* bridge -> lastSeen
    requests,    \* client -> requests counted
    granted,     \* history: client -> the times of its granted requests
    secrets,     \* client -> its secret's number
    challenges   \* history: <<client, secret>> challenges sent

vars == <<now, cleanupAt, bridges, requests, granted, secrets, challenges>>

TypeOK ==
    /\ now \in 0 .. MaxTime /\ cleanupAt \in Nat
    /\ DOMAIN bridges \subseteq Bridges /\ Range(bridges) \subseteq 0 .. MaxTime
    /\ requests \in [Clients -> 0 .. maxRequestsPerIP]
    /\ granted \in [Clients -> Seq(0 .. MaxTime)]
    /\ DOMAIN secrets \subseteq Clients /\ Range(secrets) \subseteq Nat
    /\ challenges \subseteq Clients \X Nat

Init ==
    /\ now = 0 /\ cleanupAt = Hour /\ bridges = <<>>
    /\ requests = [c \in Clients |-> 0]
    /\ granted = [c \in Clients |-> <<>>]
    /\ secrets = <<>> /\ challenges = {}

Seen(b) == [x \in DOMAIN bridges \cup {b} |-> IF x = b THEN now ELSE bridges[x]]
Online(b) == now - bridges[b] <= bridgeTimeout

-----------------------------------------------------------------------------
(* The bridges' side. *)

\* RegisterBridge, and ImportBridges for each bridge of the list
RegisterBridge(b) ==
    /\ bridges' = Seen(b)
    /\ UNCHANGED <<now, cleanupAt, requests, granted, secrets, challenges>>

UpdateBridge(b) == b \in DOMAIN bridges /\ RegisterBridge(b)

RemoveBridge(b) ==
    /\ b \in DOMAIN bridges /\ bridges' = Restrict(bridges, DOMAIN bridges \ {b})
    /\ UNCHANGED <<now, cleanupAt, requests, granted, secrets, challenges>>

Kept == {b \in DOMAIN bridges : Online(b)}

cleanup ==
    /\ now = cleanupAt /\ cleanupAt' = cleanupAt + Hour
    /\ bridges' = Restrict(bridges, Kept) /\ requests' = [c \in Clients |-> 0]
    /\ UNCHANGED <<now, granted, secrets, challenges>>

(* The ticker's cleanup runs within the instant in which it is due. *)
Tick ==
    /\ now < MaxTime /\ now < cleanupAt /\ now' = now + 1
    /\ UNCHANGED <<cleanupAt, bridges, requests, granted, secrets, challenges>>

-----------------------------------------------------------------------------
(* A request is counted under the lock; what it then selects, under the read lock,
   changes nothing (connections is never counted, so Capacity never refuses). *)

\* mutant: off by one
WithinLate(c) == requests[c] <= maxRequestsPerIP
Within(c) == requests[c] < maxRequestsPerIP

checkRateLimit(c) ==
    /\ Within(c) /\ requests' = [requests EXCEPT ![c] = @ + 1]
    /\ granted' = [granted EXCEPT ![c] = Append(@, now)]

GetBridges(c) ==
    /\ checkRateLimit(c) /\ UNCHANGED <<now, cleanupAt, bridges, secrets, challenges>>

Fresh == Cardinality(challenges) + 1

(* GetBridgesByEmail finds or makes the secret in a critical section of its own; the
   request may then be refused.  Nothing else writes secrets, so the one found there is
   the one in the map when the request is counted. *)
getOrCreateSecret(c) ==
    /\ c \notin DOMAIN secrets
    /\ secrets' = [x \in DOMAIN secrets \cup {c} |-> IF x = c THEN Fresh ELSE secrets[x]]
    /\ UNCHANGED <<now, cleanupAt, bridges, requests, granted, challenges>>

GetBridgesByEmail(c) ==
    /\ c \in DOMAIN secrets /\ checkRateLimit(c)
    /\ challenges' = challenges \cup {<<c, secrets[c]>>}
    /\ UNCHANGED <<now, cleanupAt, bridges, secrets>>

Next ==
    \/ \E b \in Bridges : RegisterBridge(b) \/ UpdateBridge(b) \/ RemoveBridge(b)
    \/ \E c \in Clients : GetBridges(c) \/ getOrCreateSecret(c) \/ GetBridgesByEmail(c)
    \/ cleanup \/ Tick

Spec == Init /\ [][Next]_vars

-----------------------------------------------------------------------------

(* In no stretch of time shorter than the cleanup's period is a client granted more
   than twice maxRequestsPerIP: the rest of one count and the whole of the next. *)
BurstBounded ==
    \A c \in Clients, t \in 0 .. MaxTime :
       Cardinality({i \in DOMAIN granted[c] : t <= granted[c][i] /\ granted[c][i] < t + Hour})
          <= 2 * maxRequestsPerIP

(* A bridge that has fallen silent leaves the table within a period of its timeout. *)
SilentBridgesGo == \A b \in DOMAIN bridges : now - bridges[b] <= bridgeTimeout + Hour

(* A challenge that was sent can be verified for as long as the service runs, though
   later requests of the same client are refused, or answered with another. *)
ChallengesVerify == \A ch \in challenges : secrets[ch[1]] = ch[2]
=============================================================================
