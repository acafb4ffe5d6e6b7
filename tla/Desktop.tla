------------------------------- MODULE Desktop -------------------------------
(***************************************************************************)
(* The desktop application (cmd/desktop/main.go): the handlers of its HTTP *)
(* API start and stop a client or a server, each in a goroutine of its     *)
(* own, and find it again through fields that the next start overwrites.   *)
(* cmd/gui/main.go has the same handlers.  Two starts may be loading the   *)
(* configuration at a time; one stop is carried out at a time.             *)
(***************************************************************************)
EXTENDS Naturals, Sequences, FiniteSets

CONSTANT MaxServices    \* bound: services started

VARIABLES
    mode,       \* "client" or "server", as configured
    running,    \* the flag, under runningMu
    loading,    \* start handlers between setting the flag and their service
    stopper,    \* stopService: "idle" or what it does next
    fields,     \* the services whose cancel, mgmt and device the fields hold, 0: nil
    service,    \* service[k]: the goroutine of the k-th start; keeps, a history
                \* variable: it came up or ended in a way that leaves it the address
    bound,      \* the service whose management server has the address, or 0
    raced       \* history: a stop came before the start's service, or a start
                \* before the end of the service that was stopped

vars == <<mode, running, loading, stopper, fields, service, bound, raced>>

Services == DOMAIN service
Phases == {"begin", "dialing", "handshake", "binding", "up", "returning", "ended"}
Alive == {k \in Services : service[k].phase \notin {"returning", "ended"}}
Listening == {k \in Alive : mode = "server" /\ service[k].phase # "begin"}

TypeOK ==
    /\ mode \in {"client", "server"} /\ running \in BOOLEAN /\ raced \in BOOLEAN
    /\ loading \in 0 .. 2 /\ stopper \in {"idle", "cancel", "mgmt", "device"}
    /\ Len(service) <= MaxServices
    /\ fields \in [{"cancel", "mgmt", "device"} -> {0} \cup Services]
    /\ service \in Seq([phase : Phases, cancelled : BOOLEAN, keeps : BOOLEAN])
    /\ bound \in {0} \cup Services

Init ==
    /\ mode \in {"client", "server"} /\ running = FALSE /\ loading = 0 /\ stopper = "idle"
    /\ fields = [f \in {"cancel", "mgmt", "device"} |-> 0]
    /\ service = <<>> /\ bound = 0 /\ raced = FALSE

-----------------------------------------------------------------------------
(* handleStart; a start that finds the flag set is refused. *)
Start ==
    /\ ~ running /\ loading < 2 /\ loading + Len(service) < MaxServices
    /\ running' = TRUE /\ loading' = loading + 1
    /\ raced' = (raced \/ loading > 0 \/ \E k \in Services : service[k].phase # "ended")
    /\ UNCHANGED <<mode, stopper, fields, service, bound>>

LoadFails ==
    /\ loading > 0 /\ loading' = loading - 1 /\ running' = FALSE
    /\ UNCHANGED <<mode, stopper, fields, service, bound, raced>>

Loaded ==
    /\ loading > 0 /\ loading' = loading - 1
    /\ service' = Append(service, [phase |-> "begin", cancelled |-> FALSE, keeps |-> FALSE])
    /\ fields' = [fields EXCEPT !["cancel"] = Len(service')]
    /\ UNCHANGED <<mode, running, stopper, bound, raced>>

-----------------------------------------------------------------------------
(* The service's goroutine.  None of its steps but the last waits for the
   context, and the management server outlives it. *)
At(k, phase) == service[k].phase = phase
Goes(k, phase) == service' = [service EXCEPT ![k].phase = phase]

(* An error on the way up: the defers close what was opened. *)
Fails(k) ==
    /\ \/ service[k].phase \in {"begin", "dialing", "handshake"}
       \/ At(k, "binding") /\ bound # 0      \* the address is in use
    /\ Goes(k, "returning")
    /\ UNCHANGED <<mode, running, loading, stopper, fields, bound, raced>>

BuildDevice(k) ==
    /\ mode = "client" /\ At(k, "begin") /\ Goes(k, "dialing")
    /\ fields' = [fields EXCEPT !["device"] = k]
    /\ UNCHANGED <<mode, running, loading, stopper, bound, raced>>

Dial(k) ==
    /\ At(k, "dialing") /\ Goes(k, "handshake")
    /\ UNCHANGED <<mode, running, loading, stopper, fields, bound, raced>>

Handshake(k) ==
    /\ At(k, "handshake") /\ Goes(k, "binding")
    /\ UNCHANGED <<mode, running, loading, stopper, fields, bound, raced>>

(* A server listens before it binds its management address. *)
Listen(k) ==
    /\ mode = "server" /\ At(k, "begin") /\ Listening = {} /\ Goes(k, "binding")
    /\ UNCHANGED <<mode, running, loading, stopper, fields, bound, raced>>

Bind(k) ==
    /\ At(k, "binding") /\ bound = 0 /\ bound' = k
    /\ fields' = [fields EXCEPT !["mgmt"] = k]
    /\ service' = [service EXCEPT ![k].phase = "up", ![k].keeps = service[k].cancelled]
    /\ UNCHANGED <<mode, running, loading, stopper, raced>>

Cancelled(k) ==
    /\ At(k, "up") /\ service[k].cancelled /\ Goes(k, "returning")
    /\ UNCHANGED <<mode, running, loading, stopper, fields, bound, raced>>

(* The tunnel loop of a client ends by itself. *)
TunnelEnds(k) ==
    /\ mode = "client" /\ At(k, "up")
    /\ service' = [service EXCEPT ![k].phase = "returning", ![k].keeps = @ \/ ~ service[k].cancelled]
    /\ UNCHANGED <<mode, running, loading, stopper, fields, bound, raced>>

Return(k) ==
    /\ At(k, "returning") /\ Goes(k, "ended") /\ running' = FALSE
    /\ UNCHANGED <<mode, loading, stopper, fields, bound, raced>>

-----------------------------------------------------------------------------
(* stopService: the flag, then whatever the fields hold. *)
Stop ==
    /\ running /\ stopper = "idle" /\ running' = FALSE /\ stopper' = "cancel"
    /\ raced' = (raced \/ loading > 0)
    /\ UNCHANGED <<mode, loading, fields, service, bound>>

StopCancels ==
    /\ stopper = "cancel" /\ stopper' = "mgmt"
    /\ service' = [k \in Services |->
         IF k = fields["cancel"] THEN [service[k] EXCEPT !.cancelled = TRUE] ELSE service[k]]
    /\ UNCHANGED <<mode, running, loading, fields, bound, raced>>

StopManagement ==
    /\ stopper = "mgmt" /\ stopper' = "device"
    /\ bound' = IF bound = fields["mgmt"] THEN 0 ELSE bound
    /\ UNCHANGED <<mode, running, loading, fields, service, raced>>

(* Closing the device lets a tunnel loop end, as TunnelEnds may at any time. *)
StopDevice ==
    /\ stopper = "device" /\ stopper' = "idle"
    /\ UNCHANGED <<mode, running, loading, fields, service, bound, raced>>

Next ==
    \/ Start \/ LoadFails \/ Loaded
    \/ Stop \/ StopCancels \/ StopManagement \/ StopDevice
    \/ \E k \in Services : \/ Fails(k) \/ BuildDevice(k) \/ Dial(k) \/ Handshake(k)
                           \/ Listen(k) \/ Bind(k) \/ Cancelled(k) \/ TunnelEnds(k) \/ Return(k)

Spec == Init /\ [][Next]_vars

-----------------------------------------------------------------------------
(* A service that nobody has cancelled can be stopped, because the flag is
   set, and is the only one, unless start and stop overtook each other: then
   a service that ends late clears the flag of its successor, or a stop found
   nothing to cancel. *)
StoppableUnlessRaced ==
    raced \/ /\ Cardinality(Alive) <= 1
             /\ \A k \in Alive : running \/ service[k].cancelled \/ stopper = "cancel"

(* The management address is free once the service is gone and the stop is
   through - but not when a client's tunnel ended by itself, or the service
   bound the address after it had been cancelled. *)
AddressHeldForCause ==
    bound # 0 /\ service[bound].phase = "ended" /\ stopper = "idle" =>
        service[bound].keeps
=============================================================================
