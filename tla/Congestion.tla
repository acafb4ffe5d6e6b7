------------------------------ MODULE Congestion ------------------------------
(***************************************************************************)
(* CongestionControl (transport/congestion.go): the window, the bytes in   *)
(* flight, and the read-write lock that GetStatistics takes twice.  Windows *)
(* are in Scale-ths of a packet, rounded down; packets have one size.       *)
(***************************************************************************)
EXTENDS Naturals, FiniteSets

CONSTANTS
    Senders,                       \* goroutines that ask CanSend, then send
    Scale,                         \* parts of a packet a window counts
    InitialCwnd, MaxCwnd, MinCwnd, \* 10, 1000 and 2 packets in the code
    MaxOutstanding                 \* bound: packets neither acked nor lost

VARIABLES
    cwnd, ssthresh, state,
    inFlight,      \* bytesInFlight, in packets
    outstanding,   \* history: packets sent and neither acked nor lost
    forgotten,     \* history: Reset ran while packets were outstanding
    checked,       \* senders that CanSend let through
    stale,         \* history: those whose answer something has changed since
    statistics,    \* GetStatistics: "idle", "reading", or "stuck" behind a writer
    writer         \* a Lock waits for the reader: no RLock is granted any more

vars == <<cwnd, ssthresh, state, inFlight, outstanding, forgotten, checked, stale,
          statistics, writer>>

Unlimited == 2 * MaxCwnd      \* math.MaxFloat64

Least(a, b) == IF a < b THEN a ELSE b
Most(a, b) == IF a > b THEN a ELSE b

TypeOK ==
    /\ cwnd \in MinCwnd .. Most(MaxCwnd, Scale * Scale) + 1    \* recovery has no cap
    /\ ssthresh \in MinCwnd .. Unlimited
    /\ state \in {"slowStart", "congestionAvoidance", "recovery"}
    /\ inFlight \in 0 .. MaxOutstanding + Cardinality(Senders)
    /\ outstanding \in 0 .. MaxOutstanding + Cardinality(Senders)
    /\ forgotten \in BOOLEAN /\ stale \subseteq checked /\ checked \subseteq Senders
    /\ statistics \in {"idle", "reading"} /\ writer \in BOOLEAN

Init ==
    /\ cwnd = InitialCwnd /\ ssthresh = Unlimited /\ state = "slowStart"
    /\ inFlight = 0 /\ outstanding = 0 /\ forgotten = FALSE
    /\ checked = {} /\ stale = {} /\ statistics = "idle" /\ writer = FALSE

-----------------------------------------------------------------------------
(* The lock.  A method runs when nobody holds it; one that writes while
   GetStatistics reads has to wait, and then no reader gets in. *)

Free == statistics = "idle" /\ ~ writer
ReadLockGranted == ~ writer

(* A method that writes calls Lock while GetStatistics reads. *)
WriterWaits ==
    /\ statistics = "reading" /\ ~ writer /\ writer' = TRUE
    /\ UNCHANGED <<cwnd, ssthresh, state, inFlight, outstanding, forgotten, checked, stale, statistics>>

StartStatistics ==
    /\ Free /\ statistics' = "reading"
    /\ UNCHANGED <<cwnd, ssthresh, state, inFlight, outstanding, forgotten, checked, stale, writer>>

(* GetRTO, GetState, GetSendWindow and GetAvailableWindow lock again. *)
FinishStatistics == statistics = "reading" /\ ReadLockGranted /\ statistics' = "idle"

GetStatistics ==
    /\ FinishStatistics
    /\ UNCHANGED <<cwnd, ssthresh, state, inFlight, outstanding, forgotten, checked, stale, writer>>

-----------------------------------------------------------------------------

Window == cwnd \div Scale
Available == IF inFlight >= Window THEN 0 ELSE Window - inFlight

CanSend(s) ==
    /\ ReadLockGranted /\ s \notin checked /\ Available >= 1
    /\ checked' = checked \cup {s} /\ stale' = stale \ {s}
    /\ UNCHANGED <<cwnd, ssthresh, state, inFlight, outstanding, forgotten, statistics, writer>>

(* Sent, with or without having asked. *)
OnPacketSent(s) ==
    /\ Free /\ s \in checked /\ outstanding < MaxOutstanding + Cardinality(Senders)
    /\ inFlight' = inFlight + 1 /\ outstanding' = outstanding + 1
    /\ checked' = checked \ {s} /\ stale' = checked'
    /\ UNCHANGED <<cwnd, ssthresh, state, forgotten, statistics, writer>>

Taken == IF inFlight >= 1 THEN inFlight - 1 ELSE 0

SlowStart ==
    /\ cwnd' = Least(cwnd + Scale, MaxCwnd) /\ UNCHANGED ssthresh
    /\ state' = IF cwnd + Scale >= ssthresh THEN "congestionAvoidance" ELSE state

CongestionAvoidance ==
    /\ cwnd' = Least(cwnd + (Scale * Scale) \div cwnd, MaxCwnd) /\ UNCHANGED <<ssthresh, state>>

(* Recovery has no cap; it ends when two round trips passed since the loss. *)
Recovery ==
    /\ cwnd' = cwnd + (Scale * Scale) \div (2 * cwnd) /\ UNCHANGED ssthresh
    /\ state' \in {"recovery", "congestionAvoidance"}

OnPacketAcked ==
    /\ Free /\ outstanding > 0
    /\ outstanding' = outstanding - 1 /\ inFlight' = Taken
    /\ \/ state = "slowStart" /\ SlowStart
       \/ state = "congestionAvoidance" /\ CongestionAvoidance
       \/ state = "recovery" /\ Recovery
    /\ stale' = checked /\ UNCHANGED <<forgotten, checked, statistics, writer>>

LostTakes == Taken

OnPacketLost ==
    /\ Free /\ outstanding > 0
    /\ outstanding' = outstanding - 1 /\ inFlight' = LostTakes
    /\ ssthresh' = Most((cwnd * 7) \div 10, MinCwnd) /\ cwnd' = ssthresh'
    /\ state' = IF state = "slowStart" THEN "congestionAvoidance" ELSE "recovery"
    /\ stale' = checked /\ UNCHANGED <<forgotten, checked, statistics, writer>>

Reset ==
    /\ Free
    /\ cwnd' = InitialCwnd /\ ssthresh' = Unlimited /\ state' = "slowStart" /\ inFlight' = 0
    /\ forgotten' = (forgotten \/ outstanding > 0) /\ stale' = checked
    /\ UNCHANGED <<outstanding, checked, statistics, writer>>

Next ==
    \/ WriterWaits \/ StartStatistics \/ GetStatistics
    \/ \E s \in Senders : CanSend(s) \/ OnPacketSent(s)
    \/ OnPacketAcked \/ OnPacketLost \/ Reset

Spec == Init /\ [][Next]_vars
\* fair: GetStatistics

-----------------------------------------------------------------------------

(* What the window believes in flight is what was sent and neither acked nor
   lost, unless Reset forgot packets that were. *)
InFlightExact == ~ forgotten => inFlight = outstanding

(* A step: more is in flight than the window allows only if the window shrank or
   somebody else sent between a sender's CanSend and its send. *)
SendsWithinWindow ==
    inFlight' > inFlight =>
        inFlight' <= Window \/ \E s \in checked \ checked' : s \in stale

(* GetStatistics returns, unless a writer queued up between its two read locks:
   then both wait for each other forever.  What may not last. *)
StatisticsWait == statistics = "reading" /\ ~ writer
=============================================================================
