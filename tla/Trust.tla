------------------------------- MODULE Trust --------------------------------
(***************************************************************************)
(* The components that decide whom and what to trust, side by side: replay *)
(* filters, tickets, agreement on keys and parameters, users, tokens,      *)
(* access and routing rules, bridges and the audit log.  As in Network a   *)
(* behaviour is one of one component.                                      *)
(***************************************************************************)
EXTENDS Naturals, Sequences, FiniteSets, TLC

CONSTANTS
    Receivers, Modulus, WindowSize, Width, MaxAge, MaxClockSkew,  \* AntiReplay
    MaxTime, MaxPasses,
    MaxTickets, TicketLifetime, RetryWindow, UsedKept,            \* ZeroRTT
    MaxTicketUsage, MaxTicketsPerPeer, MaxTicketTime,
    MaxNonce, MaxData,                                            \* PFS
    SuiteLists, KeepAlives, Paddings, MaxAttempts, MaxReplies,    \* Noise
    MaxCalls,                                                     \* Negotiation
    Logins, Changers, maxRetries, MaxRecords, MaxGuesses,         \* Accounts
    Callers, MaxTokens, tokenDuration, MaxTokenTime, MaxVersion,  \* Tokens
    Names, Ips, Roles, MaxPermission, MaxRules,                   \* Acl
    Loaders, V4, MaxIp, Entry, MaxEntries, MaxRemovals,           \* Router
    BridgeIds, Clients, maxRequestsPerIP, bridgeTimeout, Hour,    \* Discovery
    MaxBridgeTime,
    bufferSize, MaxEvents, MaxStarts, MaxLogTime                  \* Audit

(* What the proofs ask of the constants.  The audit log replaces a bufferSize of 0 by its
   default; a word has a sign and room for two numbers; a limit of no wrong passwords, an
   hour or a window of no length would make every question of time or retries empty. *)
ASSUME TrustAssumption ==
    /\ {WindowSize, MaxAge, MaxClockSkew, MaxPasses, MaxTickets, TicketLifetime, UsedKept,
        MaxTicketUsage, MaxTicketsPerPeer, MaxNonce, MaxData, MaxAttempts, MaxReplies,
        MaxCalls, MaxGuesses, MaxTokens, tokenDuration, MaxTokenTime, MaxPermission,
        MaxRules, MaxIp, MaxEntries, MaxRemovals, maxRequestsPerIP, bridgeTimeout,
        MaxBridgeTime, MaxEvents, MaxStarts, MaxLogTime} \subseteq Nat
    /\ {Modulus, MaxTime, RetryWindow, MaxTicketTime, maxRetries, MaxRecords,
        MaxVersion, Hour, bufferSize} \subseteq Nat \ {0}
    /\ Width \in Nat \ {0, 1, 2} /\ IsFiniteSet(Logins) /\ KeepAlives \subseteq Nat
    /\ SuiteLists \subseteq Seq({"chacha20", "aes256", "xchacha20"})
    /\ {V4[1], V4[2]} \subseteq Nat
    /\ \A e \in Entry : {e.start, e.end} \subseteq Nat

VARIABLES
    component,   \* the one a behaviour is of
    mode, now, base, bits, timestamps, lastCleanup,             \* AntiReplay
    seenNonces, receiver, passes, excused,
    ticketNow, issued, expires, clientTickets, serverTickets,   \* ZeroRTT
    flights, usedTickets, accepted, stopped,
    current, previous, pending, timers, messages, data, nonce,  \* PFS
    flaw,
    options, network, client, server, tolerated,                \* Noise
    config, state, transcript, outcome,                         \* Negotiation
    record, table, file, backup, login, changer,                \* Accounts
    failed, guesses, unsaved, up,
    tokenNow, added, enabled, version, made, tokens, revoked,   \* Tokens
    caller, issuedBad,
    rules, defaultACL, wanted, doubled,                         \* Acl
    routes, entries, geoip, loader, removals,                   \* Router
    bridgeNow, cleanupAt, bridges, requests, granted, secrets,  \* Discovery
    challenges,
    logNow, starts, logger, logFile, rotated, sizes, buffer,    \* Audit
    events, logged, movedAt, rotations

Filter == INSTANCE AntiReplay

Tickets == INSTANCE ZeroRTT WITH
    MaxTime <- MaxTicketTime, now <- ticketNow

Secrecy == INSTANCE PFS

Handshake == INSTANCE Noise WITH
    excused <- tolerated

Offer == INSTANCE Negotiation WITH
    messages <- transcript

Users == INSTANCE Accounts

Granted == INSTANCE Tokens WITH
    MaxTime <- MaxTokenTime, now <- tokenNow

Rules == INSTANCE Acl

Routes == INSTANCE Router WITH
    rules <- routes

Bridges == INSTANCE Discovery WITH
    Bridges <- BridgeIds, MaxTime <- MaxBridgeTime, now <- bridgeNow

Log == INSTANCE Audit WITH
    MaxTime <- MaxLogTime, now <- logNow, file <- logFile, made <- events

filterVars == <<mode, now, base, bits, timestamps, lastCleanup, seenNonces,
    receiver, passes, excused>>
ticketsVars == <<ticketNow, issued, expires, clientTickets, serverTickets,
    flights, usedTickets, accepted, stopped>>
secrecyVars == <<current, previous, pending, timers, messages, data, nonce,
    flaw>>
handshakeVars == <<options, network, client, server, tolerated>>
offerVars == <<config, state, transcript, outcome>>
usersVars == <<record, table, file, backup, login, changer, failed,
    guesses, unsaved, up>>
grantedVars == <<tokenNow, added, enabled, version, made, tokens, revoked,
    caller, issuedBad>>
rulesVars == <<rules, defaultACL, wanted, doubled>>
routesVars == <<routes, entries, geoip, loader, removals>>
bridgesVars == <<bridgeNow, cleanupAt, bridges, requests, granted, secrets,
    challenges>>
logVars == <<logNow, starts, logger, logFile, rotated, sizes, buffer, events,
    logged, movedAt, rotations>>
vars == <<component, filterVars, ticketsVars, secrecyVars, handshakeVars,
          offerVars, usersVars, grantedVars, rulesVars, routesVars,
          bridgesVars, logVars>>

\* a component that the behaviour is not of
NoFilter ==
    /\ mode = 0 /\ now = 0 /\ base = 0 /\ bits = 0 /\ timestamps = 0
    /\ lastCleanup = 0 /\ seenNonces = 0 /\ receiver = 0 /\ passes = 0
    /\ excused = 0
NoTickets ==
    /\ ticketNow = 0 /\ issued = 0 /\ expires = 0 /\ clientTickets = 0
    /\ serverTickets = 0 /\ flights = 0 /\ usedTickets = 0 /\ accepted = 0
    /\ stopped = 0
NoSecrecy ==
    /\ current = 0 /\ previous = 0 /\ pending = 0 /\ timers = 0 /\ messages = 0
    /\ data = 0 /\ nonce = 0 /\ flaw = 0
NoHandshake ==
    /\ options = 0 /\ network = 0 /\ client = 0 /\ server = 0 /\ tolerated = 0
NoOffer ==
    /\ config = 0 /\ state = 0 /\ transcript = 0 /\ outcome = 0
NoUsers ==
    /\ record = 0 /\ table = 0 /\ file = 0 /\ backup = 0
    /\ login = 0 /\ changer = 0 /\ failed = 0 /\ guesses = 0 /\ unsaved = 0
    /\ up = 0
NoGranted ==
    /\ tokenNow = 0 /\ added = 0 /\ enabled = 0 /\ version = 0 /\ made = 0
    /\ tokens = 0 /\ revoked = 0 /\ caller = 0 /\ issuedBad = 0
NoRules ==
    /\ rules = 0 /\ defaultACL = 0 /\ wanted = 0 /\ doubled = 0
NoRoutes ==
    /\ routes = 0 /\ entries = 0 /\ geoip = 0 /\ loader = 0 /\ removals = 0
NoBridges ==
    /\ bridgeNow = 0 /\ cleanupAt = 0 /\ bridges = 0 /\ requests = 0
    /\ granted = 0 /\ secrets = 0 /\ challenges = 0
NoLog ==
    /\ logNow = 0 /\ starts = 0 /\ logger = 0 /\ logFile = 0 /\ rotated = 0
    /\ sizes = 0 /\ buffer = 0 /\ events = 0 /\ logged = 0 /\ movedAt = 0
    /\ rotations = 0

Init ==
    /\ component \in {"Filter", "Tickets", "Secrecy", "Handshake", "Offer",
                      "Users", "Granted", "Rules", "Routes", "Bridges", "Log"}
    /\ \/ component = "Filter" /\ Filter!Init
       \/ component # "Filter" /\ NoFilter
    /\ \/ component = "Tickets" /\ Tickets!Init
       \/ component # "Tickets" /\ NoTickets
    /\ \/ component = "Secrecy" /\ Secrecy!Init
       \/ component # "Secrecy" /\ NoSecrecy
    /\ \/ component = "Handshake" /\ Handshake!Init
       \/ component # "Handshake" /\ NoHandshake
    /\ \/ component = "Offer" /\ Offer!Init
       \/ component # "Offer" /\ NoOffer
    /\ \/ component = "Users" /\ Users!Init
       \/ component # "Users" /\ NoUsers
    /\ \/ component = "Granted" /\ Granted!Init
       \/ component # "Granted" /\ NoGranted
    /\ \/ component = "Rules" /\ Rules!Init
       \/ component # "Rules" /\ NoRules
    /\ \/ component = "Routes" /\ Routes!Init
       \/ component # "Routes" /\ NoRoutes
    /\ \/ component = "Bridges" /\ Bridges!Init
       \/ component # "Bridges" /\ NoBridges
    /\ \/ component = "Log" /\ Log!Init
       \/ component # "Log" /\ NoLog

Next ==
    \/ component = "Filter" /\ Filter!Next
       /\ UNCHANGED <<component, ticketsVars, secrecyVars, handshakeVars,
                     offerVars, usersVars, grantedVars, rulesVars, routesVars,
                     bridgesVars, logVars>>
    \/ component = "Tickets" /\ Tickets!Next
       /\ UNCHANGED <<component, filterVars, secrecyVars, handshakeVars,
                     offerVars, usersVars, grantedVars, rulesVars, routesVars,
                     bridgesVars, logVars>>
    \/ component = "Secrecy" /\ Secrecy!Next
       /\ UNCHANGED <<component, filterVars, ticketsVars, handshakeVars,
                     offerVars, usersVars, grantedVars, rulesVars, routesVars,
                     bridgesVars, logVars>>
    \/ component = "Handshake" /\ Handshake!Next
       /\ UNCHANGED <<component, filterVars, ticketsVars, secrecyVars,
                     offerVars, usersVars, grantedVars, rulesVars, routesVars,
                     bridgesVars, logVars>>
    \/ component = "Offer" /\ Offer!Next
       /\ UNCHANGED <<component, filterVars, ticketsVars, secrecyVars,
                     handshakeVars, usersVars, grantedVars, rulesVars,
                     routesVars, bridgesVars, logVars>>
    \/ component = "Users" /\ Users!Next
       /\ UNCHANGED <<component, filterVars, ticketsVars, secrecyVars,
                     handshakeVars, offerVars, grantedVars, rulesVars,
                     routesVars, bridgesVars, logVars>>
    \/ component = "Granted" /\ Granted!Next
       /\ UNCHANGED <<component, filterVars, ticketsVars, secrecyVars,
                     handshakeVars, offerVars, usersVars, rulesVars,
                     routesVars, bridgesVars, logVars>>
    \/ component = "Rules" /\ Rules!Next
       /\ UNCHANGED <<component, filterVars, ticketsVars, secrecyVars,
                     handshakeVars, offerVars, usersVars, grantedVars,
                     routesVars, bridgesVars, logVars>>
    \/ component = "Routes" /\ Routes!Next
       /\ UNCHANGED <<component, filterVars, ticketsVars, secrecyVars,
                     handshakeVars, offerVars, usersVars, grantedVars,
                     rulesVars, bridgesVars, logVars>>
    \/ component = "Bridges" /\ Bridges!Next
       /\ UNCHANGED <<component, filterVars, ticketsVars, secrecyVars,
                     handshakeVars, offerVars, usersVars, grantedVars,
                     rulesVars, routesVars, logVars>>
    \/ component = "Log" /\ Log!Next
       /\ UNCHANGED <<component, filterVars, ticketsVars, secrecyVars,
                     handshakeVars, offerVars, usersVars, grantedVars,
                     rulesVars, routesVars, bridgesVars>>

Spec == Init /\ [][Next]_vars

-----------------------------------------------------------------------------
(* Each component is well typed. *)
TypeOK ==
    /\ component = "Filter" => Filter!TypeOK
    /\ component = "Tickets" => Tickets!TypeOK
    /\ component = "Secrecy" => Secrecy!TypeOK
    /\ component = "Handshake" => Handshake!TypeOK
    /\ component = "Offer" => Offer!TypeOK
    /\ component = "Users" => Users!TypeOK
    /\ component = "Granted" => Granted!TypeOK
    /\ component = "Rules" => Rules!TypeOK
    /\ component = "Routes" => Routes!TypeOK
    /\ component = "Bridges" => Bridges!TypeOK
    /\ component = "Log" => Log!TypeOK

(* What was let through once is let through again only for the reasons the
   filters and the ticket server leave, what is new and alive is let through. *)
NoReplay ==
    /\ component = "Filter" =>
          Filter!ReplaysForCause /\ Filter!CombinedNeverReplays /\ Filter!FreshPasses
    /\ component = "Tickets" => Tickets!ReacceptedForCause /\ Tickets!AcceptedAlive

(* Two ends that are done agree: on the keys and parameters of a handshake, the
   outcome of a negotiation, the secrets after a rekey; and they fail or refuse
   only for the reasons named. *)
EndsAgree ==
    /\ component = "Secrecy" => Secrecy!EndsAgree /\ Secrecy!DataOpens
    /\ component = "Handshake" => Handshake!KeysShared /\ Handshake!FailsForCause
    /\ component = "Offer" => Offer!PartiesAgree /\ Offer!RefusesForCause

(* Passwords can be guessed, tokens issued and bridges asked for only within the
   bounds; and a decision is that of the first rule in force, whatever was
   added, disabled, removed or loaded at the same time. *)
AccessForCause ==
    /\ component = "Users" => Users!GuessesBounded
    /\ component = "Granted" => Granted!IssuedForCause /\ Granted!TokensLastUntilExpiry
    /\ component = "Rules" => Rules!UnwantedDecidesOnlyIfDoubled /\ Rules!MoreRolesDecideEarlier
    /\ component = "Routes" => Routes!PriorityKept /\ Routes!LookupIsFirstRange
    /\ component = "Bridges" =>
          Bridges!BurstBounded /\ Bridges!SilentBridgesGo /\ Bridges!ChallengesVerify

(* What was saved or logged is in a file, through crashes, failed writes and
   rotations, but for the cases named. *)
RecordsKept ==
    /\ component = "Users" => Users!FileFollows
    /\ component = "Log" => Log!LoggedIsKept

-----------------------------------------------------------------------------
(* The values TLC gives some of the constants, and a symmetry: logins differ in nothing. *)

Interchangeable == Permutations(Logins)

\* the suites an end offers, in its order of preference: some pairs share none
Suites == {<<"chacha20">>, <<"aes256">>, <<"aes256", "xchacha20">>, <<"xchacha20", "aes256">>}

\* GeoIP entries: all the IPv4 addresses; starting before them, ending behind
\* them, all behind them, and from behind to within
Between(from, to, in) == [start |-> from, end |-> to, country |-> in]
Ranges == {Between(1, 3, "CN"), Between(0, 2, "US"), Between(3, 4, "CN"), Between(4, 4, "US"),
           Between(4, 2, "US")}

\* the IPv4 addresses, from the first to the last
Ipv4 == <<1, 3>>
=============================================================================
