------------------------------- MODULE Paths --------------------------------
(***************************************************************************)
(* The components that decide when and where a connection goes, and the    *)
(* processes around it, side by side: timers, roaming, port hopping,       *)
(* congestion control, plugins and the desktop application.  As in Network *)
(* a behaviour is one of one component.                                    *)
(***************************************************************************)
EXTENDS Naturals, Sequences

CONSTANTS
    HandshakeRetries, MaxCalls,                                   \* Timers
    Addrs, SwitchThreshold, VerifyTimeout, MaxCandidates,         \* Roaming
    MaxAge, MaxTime, MaxPackets,
    CalculatePort, MaxSlot,                                       \* PortHopping
    Senders, Scale, InitialCwnd, MaxCwnd, MinCwnd,                \* Congestion
    MaxOutstanding,
    Conns, PipeSize, MaxStarts,                                   \* Plugin
    MaxServices                                                   \* Desktop

VARIABLES
    component,   \* the one a behaviour is of
    state, retryCount, stopped, timer, heard, overtaken,        \* Timers
    killed, calls,
    now, current, candidates, packets, notices, switches,       \* Roaming
    told, overlapped,
    clock, skew, slot, managerStopped, listener, portNotices,   \* PortHopping
    hops, excuse, dial,
    cwnd, ssthresh, phase, inFlight, outstanding, forgotten,    \* Congestion
    checked, stale, statistics, writer,
    process, stdin, pipe, monitor, running, stop, waiter,       \* Plugin
    starts, registered, snapshot, outrun, connections, conn,
    mode, appRunning, loading, stopper, fields, service,        \* Desktop
    bound, raced

Timed == INSTANCE Timers

Roams == INSTANCE Roaming

Hops == INSTANCE PortHopping WITH
    now <- clock, stopped <- managerStopped, notices <- portNotices

Window == INSTANCE Congestion WITH
    state <- phase

Plugged == INSTANCE Plugin WITH
    overtaken <- outrun

App == INSTANCE Desktop WITH
    running <- appRunning

timedVars == <<state, retryCount, stopped, timer, heard, overtaken, killed,
    calls>>
roamsVars == <<now, current, candidates, packets, notices, switches, told,
    overlapped>>
hopsVars == <<clock, skew, slot, managerStopped, listener, portNotices, hops,
    excuse, dial>>
windowVars == <<cwnd, ssthresh, phase, inFlight, outstanding, forgotten,
    checked, stale, statistics, writer>>
pluggedVars == <<process, stdin, pipe, monitor, running, stop, waiter, starts,
    registered, snapshot, outrun, connections, conn>>
appVars == <<mode, appRunning, loading, stopper, fields, service, bound,
    raced>>
vars == <<component, timedVars, roamsVars, hopsVars, windowVars, pluggedVars,
          appVars>>

\* a component that the behaviour is not of
NoTimed ==
    /\ state = 0 /\ retryCount = 0 /\ stopped = 0 /\ timer = 0 /\ heard = 0
    /\ overtaken = 0 /\ killed = 0 /\ calls = 0
NoRoams ==
    /\ now = 0 /\ current = 0 /\ candidates = 0 /\ packets = 0 /\ notices = 0
    /\ switches = 0 /\ told = 0 /\ overlapped = 0
NoHops ==
    /\ clock = 0 /\ skew = 0 /\ slot = 0 /\ managerStopped = 0 /\ listener = 0
    /\ portNotices = 0 /\ hops = 0 /\ excuse = 0 /\ dial = 0
NoWindow ==
    /\ cwnd = 0 /\ ssthresh = 0 /\ phase = 0 /\ inFlight = 0 /\ outstanding = 0
    /\ forgotten = 0 /\ checked = 0 /\ stale = 0 /\ statistics = 0
    /\ writer = 0
NoPlugged ==
    /\ process = 0 /\ stdin = 0 /\ pipe = 0 /\ monitor = 0 /\ running = 0
    /\ stop = 0 /\ waiter = 0 /\ starts = 0 /\ registered = 0 /\ snapshot = 0
    /\ outrun = 0 /\ connections = 0 /\ conn = 0
NoApp ==
    /\ mode = 0 /\ appRunning = 0 /\ loading = 0 /\ stopper = 0 /\ fields = 0
    /\ service = 0 /\ bound = 0 /\ raced = 0

Init ==
    /\ component \in {"Timed", "Roams", "Hops", "Window", "Plugged", "App"}
    /\ \/ component = "Timed" /\ Timed!Init
       \/ component # "Timed" /\ NoTimed
    /\ \/ component = "Roams" /\ Roams!Init
       \/ component # "Roams" /\ NoRoams
    /\ \/ component = "Hops" /\ Hops!Init
       \/ component # "Hops" /\ NoHops
    /\ \/ component = "Window" /\ Window!Init
       \/ component # "Window" /\ NoWindow
    /\ \/ component = "Plugged" /\ Plugged!Init
       \/ component # "Plugged" /\ NoPlugged
    /\ \/ component = "App" /\ App!Init
       \/ component # "App" /\ NoApp

Next ==
    \/ component = "Timed" /\ Timed!Next
       /\ UNCHANGED <<component, roamsVars, hopsVars, windowVars, pluggedVars,
                     appVars>>
    \/ component = "Roams" /\ Roams!Next
       /\ UNCHANGED <<component, timedVars, hopsVars, windowVars, pluggedVars,
                     appVars>>
    \/ component = "Hops" /\ Hops!Next
       /\ UNCHANGED <<component, timedVars, roamsVars, windowVars, pluggedVars,
                     appVars>>
    \/ component = "Window" /\ Window!Next
       /\ UNCHANGED <<component, timedVars, roamsVars, hopsVars, pluggedVars,
                     appVars>>
    \/ component = "Plugged" /\ Plugged!Next
       /\ UNCHANGED <<component, timedVars, roamsVars, hopsVars, windowVars,
                     appVars>>
    \/ component = "App" /\ App!Next
       /\ UNCHANGED <<component, timedVars, roamsVars, hopsVars, windowVars,
                     pluggedVars>>

Is(c) == component = c
(* Time passes; a callback that waits for the lock gets it; the goroutines of
   a plugin and the reader of the statistics go on when they can. *)
Fairness ==
    /\ \A t \in {"handshake", "deadPeer"} :
          /\ WF_(Timed!vars)(Is("Timed") /\ Timed!Fire(t))
          /\ WF_(Timed!vars)(Is("Timed") /\ Timed!Callback(t))
    /\ WF_(Timed!vars)(Is("Timed") /\ Timed!Silence)
    /\ WF_(Window!vars)(Is("Window") /\ Window!GetStatistics)
    /\ WF_(Plugged!vars)(Is("Plugged") /\ Plugged!Scan)
    /\ WF_(Plugged!vars)(Is("Plugged") /\ Plugged!RecordError)
    /\ WF_(Plugged!vars)(Is("Plugged") /\ Plugged!Wait)
    /\ WF_(Plugged!vars)(Is("Plugged") /\ Plugged!StopDone)
    /\ WF_(Plugged!vars)(Is("Plugged") /\ Plugged!StopTimeout)

Spec == Init /\ [][Next]_vars /\ Fairness

-----------------------------------------------------------------------------
(* Each component is well typed. *)
TypeOK ==
    /\ component = "Timed" => Timed!TypeOK
    /\ component = "Roams" => Roams!TypeOK
    /\ component = "Hops" => Hops!TypeOK
    /\ component = "Window" => Window!TypeOK
    /\ component = "Plugged" => Plugged!TypeOK
    /\ component = "App" => App!TypeOK

(* A timer that runs on, a connection killed by its handshake timeout, an owner
   told an old endpoint, a listener on the wrong port, a plugin or a service
   that nobody can stop: each only after the race its invariant names.  Without
   it a late callback does no harm, and what is counted, in flight or open, is
   what the counters say. *)
RightUnlessOvertaken ==
    /\ component = "Timed" => Timed!RunsTwiceOnlyIfOvertaken /\ Timed!KilledOnlyIfOvertaken
    /\ component = "Roams" => Roams!NobodyProvedWaits /\ Roams!ToldLastUnlessOverlapped
    /\ component = "Hops" => Hops!ListenerFollows
    /\ component = "Window" => Window!InFlightExact
    /\ component = "Plugged" => Plugged!ProcessesOwned /\ Plugged!ConnectionsExact
    /\ component = "App" => App!StoppableUnlessRaced /\ App!AddressHeldForCause

(* The steps that must have a cause: an endpoint moves to an address that proved
   itself, a dial fails when clocks or ports really were apart, a packet goes out
   beyond the window, a plugin starts a process. *)
StepsForCause ==
    [][ /\ component = "Roams" => Roams!RoamsForCause
        /\ component = "Hops" => Hops!DialFailsForCause
        /\ component = "Window" => Window!SendsWithinWindow
        /\ component = "Plugged" => Plugged!NeverTwoProcesses ]_vars

(* What may not last: a handshake without an answer, a call of GetStatistics
   between its locks unless a writer came between them, a Stop that waits for
   its process. *)
Waiting ==
    \/ component = "Timed" /\ Timed!HandshakeWaits
    \/ component = "Window" /\ Window!StatisticsWait
    \/ component = "Plugged" /\ Plugged!StopWaits
WaitsEnd == []<> ~ Waiting

-----------------------------------------------------------------------------
(* The values TLC gives some of the constants. *)

\* two slots share a port, and two neighbours do not
Ports == <<"p4", "p5", "p1", "p2", "p1", "p3", "p2">>
=============================================================================
