------------------------------- MODULE Device -------------------------------
(***************************************************************************)
(* Two device.Device (device/device.go) on the ends of one TCP connection, *)
(* from the moment their handshakes return: TunnelLoop, the keepalive      *)
(* goroutine, the outbound pump, rekeying, and Close as the session's      *)
(* goroutine, forceShutdown and runClient (main.go) call it.               *)
(*                                                                         *)
(* A frame is written whole, in the order of module Transport's lone       *)
(* writer; the connection buffers a few frames and then blocks its writer. *)
(***************************************************************************)
EXTENDS Rekey

CONSTANTS
    RekeyBudget,   \* frames received before a rekey is due (config: 1000 or more)
    Capacity,      \* frames the connection buffers in each direction
    MaxSends       \* bound: payloads and keepalives sent, at both ends

ASSUME DeviceAssumption ==
    /\ RekeyBudget \in Nat \ {0} /\ Capacity \in Nat \ {0}
    /\ MaxSends \in Nat

VARIABLES
    loop,         \* loop[r]: TunnelLoop, or what comes before and after it
    secrets,      \* secrets[r]: Device.secrets
    installed,    \* installed[r]: the keys of the transport's session
    pendingRekey, \* pendingRekey[r]: the nonce of the request sent, or NoRekey
    messageCount, \* messageCount[r]: frames received since the last rekey
    pump,         \* pump[r]: the outbound pump's goroutine
    outboundStop, \* outboundStop[r]: "nil", "open" or "closed"
    closed,       \* closed[r]: Device.closed
    plane,        \* plane[r]: the dataplane, "open" or "closed"
    closer,       \* closer[r][c]: progress of caller c through closing r
    conn,         \* conn[r]: r's end of the connection, "open" or "closed"
    inbox,        \* inbox[r]: the frames on their way to r
    sends,        \* payloads and keepalives so far, for the bound
    nonces,       \* rekey messages made: few, as each needs a frame received
    hungUp        \* history: a process was told to stop

loopVars == <<loop, secrets, installed, pendingRekey, messageCount, nonces>>
goroutineVars == <<pump, sends>>
closeVars == <<outboundStop, closed, plane, closer, hungUp>>

vars == <<loopVars, goroutineVars, closeVars, conn, inbox>>

Roles == {"client", "server"}
Other(r) == IF r = "client" THEN "server" ELSE "client"
Callers == {"session", "shutdown"}   \* the session's goroutine; forceShutdown

Frame(keys, flag, payload) == [keys |-> keys, flag |-> flag, payload |-> payload]

TypeOK ==
    /\ loop \in [Roles -> {"handshake", "receive", "request", "clear", "ended"}]
    /\ \A r \in Roles : /\ secrets[r].epoch \in Nat /\ installed[r].epoch \in Nat
                        /\ Len(inbox[r]) <= Capacity
    /\ pendingRekey \in [Roles -> Nat]
    /\ messageCount \in [Roles -> 0 .. RekeyBudget]
    /\ pump \in [Roles -> {"none", "select", "write", "ended"}]
    /\ outboundStop \in [Roles -> {"nil", "open", "closed"}]
    /\ closed \in [Roles -> BOOLEAN] /\ plane \in [Roles -> {"open", "closed"}]
    /\ closer \in [Roles -> [Callers -> {"idle", "device", "wait", "done"}]]
    /\ conn \in [Roles -> {"open", "closed"}]
    /\ sends \in 0 .. MaxSends /\ nonces \in Nat /\ hungUp \in BOOLEAN

Init ==
    /\ loop = [r \in Roles |-> "handshake"]
    /\ secrets = [r \in Roles |-> Established] /\ installed = secrets
    /\ pendingRekey = [r \in Roles |-> NoRekey]
    /\ messageCount = [r \in Roles |-> 0]
    /\ pump = [r \in Roles |-> "none"]
    /\ outboundStop = [r \in Roles |-> "nil"] /\ closed = [r \in Roles |-> FALSE]
    /\ plane = [r \in Roles |-> "open"]
    /\ closer = [r \in Roles |-> [c \in Callers |-> "idle"]]
    /\ conn = [r \in Roles |-> "open"] /\ inbox = [r \in Roles |-> <<>>]
    /\ sends = 0 /\ nonces = 0 /\ hungUp = FALSE

-----------------------------------------------------------------------------
(* The connection.  A write blocks while the buffer is full; reads and writes
   fail once either end is closed (what was in flight may still get through). *)

Writes(r, frame) ==
    /\ conn[r] = "open" /\ Len(inbox[Other(r)]) < Capacity
    /\ inbox' = [inbox EXCEPT ![Other(r)] = Append(@, frame)]

Broken(r) == conn[r] = "closed" \/ conn[Other(r)] = "closed"

Running(r) == loop[r] \in {"receive", "request", "clear"}

-----------------------------------------------------------------------------
(* TunnelLoop.                                                             *)

(* Handshake sends the bind frame (an error is only logged) and starts the pump,
   whether or not Close came first; TunnelLoop starts the keepalives. *)
StartTunnel(r) ==
    /\ loop[r] = "handshake"
    /\ loop' = [loop EXCEPT ![r] = "receive"]
    /\ outboundStop' = [outboundStop EXCEPT ![r] = "open"]
    /\ pump' = [pump EXCEPT ![r] = "select"]
    /\ Writes(r, Frame(installed[r], "bind", <<>>)) \/ (Broken(r) /\ UNCHANGED inbox)
    /\ UNCHANGED <<secrets, installed, pendingRekey, messageCount, nonces, sends,
                   closed, plane, closer, hungUp, conn>>

EndLoop(r) ==
    /\ loop' = [loop EXCEPT ![r] = "ended"]
    /\ UNCHANGED <<secrets, installed, pendingRekey, messageCount>>

(* Receive returns an error, as it does on a frame sealed under other keys. *)
ReceiveFails(r) ==
    /\ loop[r] = "receive"
    /\ \/ Broken(r) /\ UNCHANGED inbox
       \/ /\ inbox[r] # <<>> /\ Head(inbox[r]).keys # installed[r]
          /\ inbox' = [inbox EXCEPT ![r] = Tail(@)]
    /\ EndLoop(r)
    /\ UNCHANGED <<nonces, goroutineVars, closeVars, conn>>

Receives(r, flags) ==
    /\ loop[r] = "receive" /\ conn[r] = "open" /\ inbox[r] # <<>>
    /\ Head(inbox[r]).keys = installed[r] /\ Head(inbox[r]).flag \in flags

(* Which failures of a handler end the loop: those of handleRekey only. *)
\* mutant: any failure ends the loop
EndsLoopAlways(flag, failed) == failed
EndsLoop(flag, failed) == flag = "rekey" /\ failed

(* The end of an iteration: the frame is counted; a rekey is due because of the
   count, or because the ticker has fired. *)
Count(r) ==
    /\ messageCount' = [messageCount EXCEPT ![r] = @ + 1]
    /\ \E due \in {messageCount'[r] >= RekeyBudget, TRUE} :
          loop' = [loop EXCEPT ![r] = IF due THEN "request" ELSE "receive"]

(* A data, keepalive or bind frame; delivery of data may fail. *)
HandleFrame(r) ==
    /\ Receives(r, {"data", "keepalive", "bind"})
    /\ \E failed \in {FALSE, Head(inbox[r]).flag = "data"} :
          IF EndsLoop(Head(inbox[r]).flag, failed) THEN EndLoop(r)
          ELSE Count(r) /\ UNCHANGED <<secrets, installed, pendingRekey>>
    /\ inbox' = [inbox EXCEPT ![r] = Tail(@)]
    /\ UNCHANGED <<nonces, goroutineVars, closeVars, conn>>

(* handleRekey.  Any error of ProcessRekey is returned, and one of them only
   says that the response has yet to be sent. *)
\* mutant: the "error" that asks for a response is tolerated
FailsTolerant(result) == result.err = "unexpected"
Fails(result) == result.err # "none"

HandleRekey(r) ==
    LET result == ProcessRekey(secrets[r], Head(inbox[r]).payload, pendingRekey[r], nonces + 1)
        inbox1 == [inbox EXCEPT ![r] = Tail(@)]
    IN  /\ Receives(r, {"rekey"})
        /\ IF EndsLoop("rekey", Fails(result))
           THEN EndLoop(r) /\ inbox' = inbox1
           ELSE /\ installed' = [installed EXCEPT ![r] = result.secrets]
                /\ secrets' = installed'
                /\ pendingRekey' = [pendingRekey EXCEPT ![r] = NoRekey]
                /\ Len(inbox[Other(r)]) + Len(result.response) <= Capacity
                /\ inbox' = [inbox1 EXCEPT ![Other(r)] = @ \o
                     [i \in DOMAIN result.response |->
                        Frame(result.secrets, "rekey", result.response[i])]]
                /\ Count(r)
        /\ nonces' = nonces + Len(result.response)
        /\ UNCHANGED <<goroutineVars, closeVars, conn>>

(* initiateRekey: nothing is sent while a request is pending. *)
SendRequest(r) ==
    /\ loop[r] = "request"
    /\ IF pendingRekey[r] # NoRekey THEN UNCHANGED <<pendingRekey, nonces, inbox>>
       ELSE /\ nonces' = nonces + 1
            /\ Writes(r, Frame(installed[r], "rekey", Request(nonces')))
            /\ pendingRekey' = [pendingRekey EXCEPT ![r] = nonces']
    /\ loop' = [loop EXCEPT ![r] = "clear"]
    /\ UNCHANGED <<secrets, installed, messageCount, goroutineVars, closeVars, conn>>

\* mutant: a failed write is retried
RetryRequest(r) ==
    /\ loop' = loop /\ UNCHANGED <<secrets, installed, pendingRekey, messageCount>>
AfterFailedRequest(r) == EndLoop(r)

RequestFails(r) ==
    /\ loop[r] = "request" /\ Broken(r)
    /\ AfterFailedRequest(r)
    /\ UNCHANGED <<nonces, goroutineVars, closeVars, conn, inbox>>

(* Back in TunnelLoop, the request that was just sent is forgotten. *)
\* mutant: the count is not reset
CountKept(n) == n
CountReset(n) == 0

Clear(r) ==
    /\ loop[r] = "clear"
    /\ messageCount' = [messageCount EXCEPT ![r] = CountReset(@)]
    /\ pendingRekey' = [pendingRekey EXCEPT ![r] = NoRekey]
    /\ loop' = [loop EXCEPT ![r] = "receive"]
    /\ UNCHANGED <<secrets, installed, nonces, goroutineVars, closeVars, conn, inbox>>

-----------------------------------------------------------------------------
(* The keepalive goroutine.  It is stopped with the loop; a tick whose write *)
(* blocks is modelled as one that comes later.                               *)

SendKeepAlive(r) ==
    /\ Running(r) /\ sends < MaxSends /\ sends' = sends + 1
    /\ Writes(r, Frame(installed[r], "keepalive", <<>>))
    /\ UNCHANGED <<pump, loopVars, closeVars, conn>>

-----------------------------------------------------------------------------
(* The outbound pump.  The channel of a closed dataplane still yields what it
   holds before it says that it is closed.                                 *)

TakeOutbound(r) ==
    /\ pump[r] = "select" /\ sends < MaxSends /\ sends' = sends + 1
    /\ pump' = [pump EXCEPT ![r] = "write"]
    /\ UNCHANGED <<loopVars, closeVars, conn, inbox>>

SendPayload(r) ==
    /\ pump[r] = "write"
    /\ Writes(r, Frame(installed[r], "data", <<>>))
    /\ pump' = [pump EXCEPT ![r] = "select"]
    /\ UNCHANGED <<sends, loopVars, closeVars, conn>>

PumpEnds(r) ==
    /\ \/ pump[r] = "write" /\ Broken(r)
       \/ pump[r] = "select" /\ (outboundStop[r] = "closed" \/ plane[r] = "closed")
    /\ pump' = [pump EXCEPT ![r] = "ended"]
    /\ UNCHANGED <<sends, loopVars, closeVars, conn, inbox>>

-----------------------------------------------------------------------------
(* Closing: the connection first, then the device.                         *)

\* mutant: the connection is left open
LeaveConn(r, c) ==
    /\ closer[r][c] = "idle"
    /\ closer' = [closer EXCEPT ![r][c] = "device"]
    /\ UNCHANGED <<conn, outboundStop, closed, plane, loopVars, goroutineVars, inbox>>
CloseConn(r, c) ==
    /\ closer[r][c] = "idle"
    /\ closer' = [closer EXCEPT ![r][c] = "device"]
    /\ conn' = [conn EXCEPT ![r] = "closed"]
    /\ UNCHANGED <<outboundStop, closed, plane, loopVars, goroutineVars, inbox>>

(* runClient's and the server session's goroutine, after the tunnel loop; the
   client, interrupted after its handshake, waits 5 s for the loop and no longer. *)
SessionCloses(r) ==
    /\ loop[r] = "ended" \/ (r = "client" /\ conn[r] = "closed")
    /\ CloseConn(r, "session") /\ UNCHANGED hungUp

ForceShutdown == CloseConn("server", "shutdown") /\ hungUp' = TRUE

InterruptClient ==
    /\ loop["client"] # "handshake" /\ ~ hungUp /\ hungUp' = TRUE
    /\ conn' = [conn EXCEPT !["client"] = "closed"]
    /\ UNCHANGED <<outboundStop, closed, plane, closer, loopVars, goroutineVars,
                   inbox>>

(* Device.Close up to its wait; the second caller returns at once. *)
CloseDevice(r, c) ==
    /\ closer[r][c] = "device"
    /\ closer' = [closer EXCEPT ![r][c] = IF closed[r] THEN "done" ELSE "wait"]
    /\ closed' = [closed EXCEPT ![r] = TRUE]
    /\ outboundStop' = [outboundStop EXCEPT ![r] =
         IF ~ closed[r] /\ @ = "open" THEN "closed" ELSE @]
    /\ UNCHANGED <<plane, hungUp, loopVars, goroutineVars, conn, inbox>>

\* mutant: the pump is not waited for
NoWait(r) == TRUE
PumpGone(r) == pump[r] \notin {"select", "write"}

ClosePlane(r, c) ==
    /\ closer[r][c] = "wait" /\ PumpGone(r)
    /\ closer' = [closer EXCEPT ![r][c] = "done"]
    /\ plane' = [plane EXCEPT ![r] = "closed"]
    /\ UNCHANGED <<outboundStop, closed, hungUp, loopVars, goroutineVars, conn, inbox>>

-----------------------------------------------------------------------------

TunnelLoop(r) == \/ StartTunnel(r) \/ ReceiveFails(r) \/ HandleFrame(r) \/ HandleRekey(r)
                 \/ SendRequest(r) \/ RequestFails(r) \/ Clear(r)

Pump(r) == TakeOutbound(r) \/ SendPayload(r) \/ PumpEnds(r)

Close(r, c) == CloseDevice(r, c) \/ ClosePlane(r, c)

Next == \/ \E r \in Roles : \/ TunnelLoop(r) \/ SendKeepAlive(r) \/ Pump(r) \/ SessionCloses(r)
                           \/ \E c \in Callers : Close(r, c)
        \/ ForceShutdown \/ InterruptClient

Spec == Init /\ [][Next]_vars

(* Every goroutine goes on when it can; nobody need be told to stop. *)
FairSpec ==
    /\ Spec
    /\ \A r \in Roles :
         /\ WF_vars(TunnelLoop(r)) /\ WF_vars(Pump(r))
         /\ WF_vars(SessionCloses(r))
         /\ \A c \in Callers : WF_vars(Close(r, c))

-----------------------------------------------------------------------------

(* While both tunnel loops run, both transports hold the same keys. *)
KeysAgree == Running("client") /\ Running("server") => installed["client"] = installed["server"]

(* No frame of the peer, no failed delivery and no failed write of another
   goroutine ends a tunnel loop: it ends because a process was told to stop, or
   because of a rekey. *)
EndsForCause == ~ hungUp /\ nonces = 0 => \A r \in Roles : loop[r] # "ended"

(* docs/protocol.md:28-29: "either side can rotate keys via the rekey exchange
   without collapsing the tunnel". *)
TunnelSurvivesRekey == ~ hungUp => \A r \in Roles : loop[r] # "ended"

(* Device.Close closes the dataplane only after the pump it told to stop has
   ended, whichever of the two callers comes first and whatever the pump was
   blocked on. *)
PlaneOutlivesPump ==
    \A r \in Roles : plane[r] = "closed" /\ outboundStop[r] = "closed" => pump[r] = "ended"

(* Once a process is told to stop, or a tunnel loop has ended, all of both tunnels
   comes to an end: a goroutine blocked in a write is freed because the connection
   is closed before the device, and a pump that a late handshake starts behind
   Close does not stay. *)
Stopped(r) == /\ loop[r] = "ended" /\ pump[r] = "ended"
              /\ plane[r] = "closed"

TunnelStops ==
    hungUp \/ (\E r \in Roles : loop[r] = "ended") ~> \A r \in Roles : Stopped(r)

(* The exception: Close reads outboundStop before the handshake's return sets it,
   and waits after the pump has started; nobody tells this pump to stop. *)
Stranded(r) == /\ closed[r] /\ outboundStop[r] = "open" /\ pump[r] = "select"
               /\ \E c \in Callers : closer[r][c] = "wait"

TunnelStopsUnlessStranded ==
    hungUp \/ (\E r \in Roles : loop[r] = "ended")
        ~> \A r \in Roles : Stopped(r) \/ Stranded(r)

(* A tunnel loop that has a request to send gets back to receiving or ends, unless
   the peer's loop is blocked in the same place with both directions full: then
   neither reads, and without a write deadline both wait until told to stop. *)
BothBlocked == \A r \in Roles : loop[r] = "request" /\ Len(inbox[r]) = Capacity

RequestGoesOut ==
    \A r \in Roles : loop[r] = "request" ~> loop[r] # "request" \/ BothBlocked
=============================================================================
