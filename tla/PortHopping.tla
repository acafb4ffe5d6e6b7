----------------------------- MODULE PortHopping -----------------------------
(***************************************************************************)
(* Port hopping (transport/port_hopping.go): a server's manager and        *)
(* listener, a client's manager and dialer, both computing a port from a   *)
(* shared secret and the time slot of their own clock.  The managers tell  *)
(* the listener of a hop in a goroutine, and a dial is three attempts.     *)
(***************************************************************************)
EXTENDS Integers, FiniteSets

CONSTANTS
    CalculatePort,   \* slot -> port, the HMAC: a function on 1 .. MaxSlot + 2
    MaxSlot          \* bound: the last slot of the server's clock

VARIABLES
    now,        \* slot of the server's clock, from 3 so that slot - 2 exists
    skew,       \* the client's clock against it, in slots
    slot,       \* currentTimeSlot of each manager; currentPort is its port
    stopped,
    listener,   \* [phase, port, open]
    notices,    \* callbacks started, [number, port]
    hops,       \* hopCount of the server's manager
    excuse,     \* history: why the listener may be on another port
    dial        \* [phase, slot, start]: start is what held when it began

vars == <<now, skew, slot, stopped, listener, notices, hops, excuse, dial>>

Managers == {"server", "client"}
Clock(m) == IF m = "client" THEN now + skew ELSE now
Port(s) == CalculatePort[s]
Ports == {Port(s) : s \in DOMAIN CalculatePort}

TypeOK ==
    /\ now \in 3 .. MaxSlot /\ skew \in -1 .. 1
    /\ slot \in [Managers -> 2 .. MaxSlot + 1] /\ stopped \subseteq Managers
    /\ listener.phase \in {"none", "listening", "set", "closed"}
    /\ listener.port \in Ports /\ listener.open \in BOOLEAN
    /\ notices \subseteq (1 .. hops) \X Ports /\ hops \in 0 .. MaxSlot
    /\ excuse \subseteq {"missed", "overtaken", "failed", "stopped"}
    /\ dial.phase \in {"idle", "previous", "tolerance", "next", "connected", "failed"}

Snapshot == [now |-> now, listener |-> listener, notices |-> notices,
             client |-> slot["client"]]

Init ==
    /\ now = 3 /\ skew \in -1 .. 1 /\ slot = [m \in Managers |-> Clock(m)]
    /\ stopped = {} /\ notices = {} /\ hops = 0 /\ excuse = {}
    /\ listener = [phase |-> "none", port |-> Port(now), open |-> FALSE]
    /\ dial = [phase |-> "idle", slot |-> 0, start |-> Snapshot]

Tick == /\ now < MaxSlot /\ now' = now + 1
        /\ UNCHANGED <<skew, slot, stopped, listener, notices, hops, excuse, dial>>

-----------------------------------------------------------------------------
(* The managers. *)

(* performHop, from the ticker of hopRoutine or late. *)
PerformHop(m) ==
    LET old == Port(slot[m])
        new == Port(Clock(m))
    IN  /\ m \notin stopped /\ slot[m] # Clock(m)
        /\ slot' = [slot EXCEPT ![m] = Clock(m)]
        /\ hops' = IF m = "server" THEN hops + 1 ELSE hops
        /\ IF m = "server" /\ old # new
           THEN IF listener.phase \in {"set", "closed"}
                THEN /\ notices' = notices \cup {<<hops', new>>}
                     /\ UNCHANGED excuse
                ELSE /\ excuse' = IF listener.phase = "listening"
                                  THEN excuse \cup {"missed"} ELSE excuse
                     /\ UNCHANGED notices
           ELSE UNCHANGED <<notices, excuse>>
        /\ UNCHANGED <<now, skew, stopped, listener, dial>>

Stop(m) ==
    /\ m \notin stopped /\ stopped' = stopped \cup {m}
    /\ excuse' = IF m = "server" THEN excuse \cup {"stopped"} ELSE excuse
    /\ UNCHANGED <<now, skew, slot, listener, notices, hops, dial>>

-----------------------------------------------------------------------------
(* The listener. *)

(* NewPortHoppingListener: reads the port and listens, or returns an error. *)
Listen ==
    /\ listener.phase = "none"
    /\ listener' = [phase |-> "listening", port |-> Port(slot["server"]), open |-> TRUE]
    /\ UNCHANGED <<now, skew, slot, stopped, notices, hops, excuse, dial>>

(* A hop before this call is not told. *)
SetPortChangeCallback ==
    /\ listener.phase = "listening" /\ listener' = [listener EXCEPT !.phase = "set"]
    /\ UNCHANGED <<now, skew, slot, stopped, notices, hops, excuse, dial>>

(* handlePortChange: the old listener is closed first, and stays in place when
   the new port cannot be listened on.  A callback that runs while a later hop's
   is pending or done leaves the listener behind. *)
\* mutant: the new port is listened on only when the old listener was open
MovesOpen(ok) == ok /\ listener.open
Moves(ok) == ok

HandlePortChange(notice, ok) ==
    /\ notices' = notices \ {notice}
    /\ IF listener.phase = "closed" THEN UNCHANGED <<listener, excuse>>
       ELSE /\ listener' = IF Moves(ok)
                           THEN [listener EXCEPT !.port = notice[2], !.open = TRUE]
                           ELSE [listener EXCEPT !.open = FALSE]
            /\ excuse' = (excuse \cap {"stopped"})
                         \cup (IF ok THEN {} ELSE {"failed"})
                         \cup (IF notice[2] = Port(slot["server"]) /\ notices' = {}
                               THEN {} ELSE {"overtaken"})
    /\ UNCHANGED <<now, skew, slot, stopped, hops, dial>>

Close ==
    /\ listener.phase = "set"
    /\ listener' = [listener EXCEPT !.phase = "closed", !.open = FALSE]
    /\ UNCHANGED <<now, skew, slot, stopped, notices, hops, excuse, dial>>

-----------------------------------------------------------------------------
(* The dialer: the manager's port, then those next to the clock's slot, which
   is read once, after the first attempt. *)

Reached(port) == listener.open /\ listener.port = port

Dial ==
    /\ dial.phase = "idle"
    /\ dial' = [phase |-> IF Reached(Port(slot["client"])) THEN "connected" ELSE "tolerance",
                slot |-> 0, start |-> Snapshot]
    /\ UNCHANGED <<now, skew, slot, stopped, listener, notices, hops, excuse>>

DialWithTolerance ==
    /\ dial.phase = "tolerance"
    /\ dial' = [dial EXCEPT !.slot = Clock("client"),
                   !.phase = IF Reached(Port(Clock("client") - 1)) THEN "connected" ELSE "next"]
    /\ UNCHANGED <<now, skew, slot, stopped, listener, notices, hops, excuse>>

NextPort == Port(dial.slot + 1)

DialNext ==
    /\ dial.phase = "next"
    /\ dial' = [dial EXCEPT !.phase = IF Reached(NextPort) THEN "connected" ELSE "failed"]
    /\ UNCHANGED <<now, skew, slot, stopped, listener, notices, hops, excuse>>

Next ==
    \/ Tick \/ Listen \/ SetPortChangeCallback \/ Close
    \/ \E m \in Managers : PerformHop(m) \/ Stop(m)
    \/ \E notice \in notices, ok \in BOOLEAN : HandlePortChange(notice, ok)
    \/ Dial \/ DialWithTolerance \/ DialNext

Spec == Init /\ [][Next]_vars

-----------------------------------------------------------------------------

(* The listener is on its manager's port once the callbacks have run, unless a
   hop came before the callback was set, two callbacks were pending at once, the
   port could not be listened on, or the manager was stopped; a later hop that is
   handled alone makes good for all of them. *)
ListenerFollows ==
    listener.phase = "set" /\ notices = {} /\ excuse = {} =>
        listener.open /\ listener.port = Port(slot["server"])

(* A step: two clocks at most one slot apart are enough.  A dial fails only if the
   clock ticked, a callback began or ended or the listener moved while it ran, if
   the listener was not on the port of the server's slot, or if the client's
   manager lagged behind its clock. *)
DialFailsForCause ==
    dial'.phase = "failed" /\ dial.phase # "failed" =>
        \/ dial.start.now # now
        \/ dial.start.listener # listener \/ dial.start.notices # notices
        \/ ~ Reached(Port(now))
        \/ dial.start.client # Clock("client")
=============================================================================
