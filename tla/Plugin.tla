-------------------------------- MODULE Plugin --------------------------------
(***************************************************************************)
(* A SIP003 plugin process and its manager (internal/plugin/sip003.go).    *)
(* Stop holds the plugin's mutex while it waits for the process, and the   *)
(* goroutine that empties the process's stderr needs that mutex per line.  *)
(***************************************************************************)
EXTENDS Naturals, FiniteSets

CONSTANTS
    Conns,         \* connections through the plugin
    PipeSize,      \* lines the stderr pipe holds
    MaxStarts      \* bound: processes started

VARIABLES
    process,     \* "none", "alive", "exited"
    stdin,       \* its stdin is open
    pipe,        \* lines in its stderr pipe
    monitor,     \* the stderr goroutine: "none", "scanning", "locking" with a line
    running,     \* p.running
    stop,        \* the call of Stop: "idle", "waiting" with p.mu held
    waiter,      \* the goroutine of cmd.Wait: "none", "waiting", "reaped"
    starts,      \* processes started
    registered,  \* in the manager's table: "no", "yes", "leaving"
    snapshot,    \* StartAll has copied the plugins and is about to start this one
    overtaken,   \* history: it was started while not, or no longer, registered
    connections, \* the counter
    conn         \* [Conns -> "free", "dialled", "open", "closed", "twice"]

vars == <<process, stdin, pipe, monitor, running, stop, waiter, starts,
          registered, snapshot, overtaken, connections, conn>>

TypeOK ==
    /\ process \in {"none", "alive", "exited"} /\ stdin \in BOOLEAN
    /\ pipe \in 0 .. PipeSize /\ monitor \in {"none", "scanning", "locking"}
    /\ running \in BOOLEAN /\ stop \in {"idle", "waiting"}
    /\ waiter \in {"none", "waiting", "reaped"} /\ starts \in 0 .. MaxStarts
    /\ registered \in {"no", "yes", "leaving"} /\ snapshot \in BOOLEAN /\ overtaken \in BOOLEAN
    /\ connections \in 0 .. Cardinality(Conns)
    /\ conn \in [Conns -> {"free", "dialled", "open", "closed", "twice"}]
    /\ stop = "waiting" => running /\ waiter # "none"

Init ==
    /\ process = "none" /\ stdin = FALSE /\ pipe = 0 /\ monitor = "none"
    /\ running = FALSE /\ stop = "idle" /\ waiter = "none" /\ starts = 0
    /\ registered = "no" /\ snapshot = FALSE /\ overtaken = FALSE
    /\ connections = 0 /\ conn = [c \in Conns |-> "free"]

MutexFree == stop = "idle"

managers == <<registered, snapshot, overtaken>>
counting == <<connections, conn>>

-----------------------------------------------------------------------------
(* The process: it writes to stderr, blocks while the pipe is full, and exits of
   its own accord or because its stdin was closed. *)

WriteLine ==
    /\ process = "alive" /\ pipe < PipeSize /\ pipe' = pipe + 1
    /\ UNCHANGED <<process, stdin, monitor, running, stop, waiter, starts, managers, counting>>

Exit ==
    /\ process = "alive" /\ pipe < PipeSize /\ process' = "exited"
    /\ UNCHANGED <<stdin, pipe, monitor, running, stop, waiter, starts, managers, counting>>

(* monitorOutput *)
Scan ==
    /\ monitor = "scanning"
    /\ \/ pipe > 0 /\ pipe' = pipe - 1 /\ monitor' = "locking"
       \/ pipe = 0 /\ process = "exited" /\ monitor' = "none" /\ UNCHANGED pipe
    /\ UNCHANGED <<process, stdin, running, stop, waiter, starts, managers, counting>>

RecordError ==
    /\ monitor = "locking" /\ MutexFree /\ monitor' = "scanning"
    /\ UNCHANGED <<process, stdin, pipe, running, stop, waiter, starts, managers, counting>>

-----------------------------------------------------------------------------
(* Start and Stop. *)

CanStart == MutexFree /\ ~ running

(* The old goroutines keep their own pipes: the model follows the newest, whose
   pipe is empty. *)
Begin ==
    /\ starts < MaxStarts /\ starts' = starts + 1
    /\ process' = "alive" /\ stdin' = TRUE /\ pipe' = 0 /\ monitor' = "scanning"
    /\ running' = TRUE /\ waiter' = "none" /\ UNCHANGED stop
    /\ overtaken' = (overtaken \/ registered # "yes")

Start ==
    /\ registered # "no" /\ CanStart /\ Begin
    /\ UNCHANGED <<registered, snapshot, counting>>

(* A Wait after the first returns an error at once. *)
Stop ==
    /\ MutexFree /\ running
    /\ stdin' = FALSE /\ stop' = "waiting"
    /\ waiter' = IF waiter = "none" THEN "waiting" ELSE "reaped"
    /\ UNCHANGED <<process, pipe, monitor, running, starts, managers, counting>>

(* cmd.Wait: the process has exited; its pipes are closed. *)
Wait ==
    /\ waiter = "waiting" /\ process = "exited"
    /\ waiter' = "reaped" /\ pipe' = 0
    /\ UNCHANGED <<process, stdin, monitor, running, stop, starts, managers, counting>>

StopDone ==
    /\ stop = "waiting" /\ waiter = "reaped" /\ stop' = "idle" /\ running' = FALSE
    /\ UNCHANGED <<process, stdin, pipe, monitor, waiter, starts, managers, counting>>

(* After five seconds the process is killed and p.running stays. *)
\* mutant: the wait has no end
NeverTimesOut == FALSE
TimesOut == stop = "waiting" /\ waiter = "waiting"

StopTimeout ==
    /\ TimesOut /\ stop' = "idle" /\ process' = "exited"
    /\ UNCHANGED <<stdin, pipe, monitor, running, waiter, starts, managers, counting>>

-----------------------------------------------------------------------------
(* The manager. *)

Register ==
    /\ registered = "no" /\ starts = 0 /\ registered' = "yes"
    /\ UNCHANGED <<process, stdin, pipe, monitor, running, stop, waiter, starts,
                   snapshot, overtaken, counting>>

(* Unregister finds the plugin stopped or calls Stop, whose timeout kills the
   process, and then drops it whatever has happened since: Start needs only the
   plugin. *)
Drops == MutexFree /\ (~ running \/ process = "exited")

Unregister ==
    /\ registered = "yes" /\ Drops /\ registered' = "leaving"
    /\ UNCHANGED <<process, stdin, pipe, monitor, running, stop, waiter, starts,
                   snapshot, overtaken, counting>>

Unregistered ==
    /\ registered = "leaving" /\ registered' = "no"
    /\ UNCHANGED <<process, stdin, pipe, monitor, running, stop, waiter, starts,
                   snapshot, overtaken, counting>>

StartAll ==
    /\ registered = "yes" /\ ~ snapshot /\ snapshot' = TRUE
    /\ UNCHANGED <<process, stdin, pipe, monitor, running, stop, waiter, starts,
                   registered, overtaken, counting>>

StartSnapshot ==
    /\ snapshot /\ MutexFree /\ snapshot' = FALSE
    /\ IF CanStart THEN Begin
       ELSE UNCHANGED <<process, stdin, pipe, monitor, running, stop, waiter, starts, overtaken>>
    /\ UNCHANGED <<registered, counting>>

-----------------------------------------------------------------------------
(* Connections are counted after the dial and at each Close; both need the mutex. *)

Dial(c) ==
    /\ conn[c] = "free" /\ process = "alive" /\ conn' = [conn EXCEPT ![c] = "dialled"]
    /\ UNCHANGED <<process, stdin, pipe, monitor, running, stop, waiter, starts, managers, connections>>

Count(c) ==
    /\ conn[c] = "dialled" /\ MutexFree
    /\ connections' = connections + 1 /\ conn' = [conn EXCEPT ![c] = "open"]
    /\ UNCHANGED <<process, stdin, pipe, monitor, running, stop, waiter, starts, managers>>

CloseConn(c) ==
    /\ conn[c] \in {"open", "closed"} /\ MutexFree
    /\ connections' = IF connections > 0 THEN connections - 1 ELSE 0
    /\ conn' = [conn EXCEPT ![c] = IF conn[c] = "open" THEN "closed" ELSE "twice"]
    /\ UNCHANGED <<process, stdin, pipe, monitor, running, stop, waiter, starts, managers>>

Next ==
    \/ WriteLine \/ Exit \/ Scan \/ RecordError
    \/ Start \/ Stop \/ Wait \/ StopDone \/ StopTimeout
    \/ Register \/ Unregister \/ Unregistered \/ StartAll \/ StartSnapshot
    \/ \E c \in Conns : Dial(c) \/ Count(c) \/ CloseConn(c)

Spec == Init /\ [][Next]_vars
\* fair: the monitor and Stop go on

-----------------------------------------------------------------------------

(* A process that lives is one the plugin says is running and that the manager
   can stop, unless it was started while Unregister was dropping the plugin, or
   by a StartAll that had copied the table before: nobody stops that one. *)
ProcessesOwned ==
    process = "alive" => running /\ (registered = "yes" \/ overtaken)

(* A step: a start replaces no process that lives. *)
NeverTwoProcesses == starts' # starts => process # "alive"

(* The counter is the number of connections counted and open, unless one was
   closed twice. *)
ConnectionsExact ==
    (\A c \in Conns : conn[c] # "twice") =>
        connections = Cardinality({c \in Conns : conn[c] = "open"})

(* Stop returns: a process that cannot exit because its stderr is full, and whose
   reader waits for the mutex Stop holds, is what the timeout is for.  What may
   not last. *)
StopWaits == stop = "waiting"
=============================================================================
