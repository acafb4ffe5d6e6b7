------------------------------- MODULE Timers --------------------------------
(***************************************************************************)
(* ConnectionTimers (internal/timers/timers.go): four timers whose         *)
(* callbacks change the connection's state and start timers again.  Every  *)
(* method and callback runs under one lock, but a timer that has fired     *)
(* waits for that lock where Stop can no longer reach it.                  *)
(***************************************************************************)
EXTENDS Naturals

CONSTANTS
    HandshakeRetries,   \* of the configuration, 3
    MaxCalls            \* bound: calls of the connection's owner

VARIABLES
    state,      \* ConnectionState
    retryCount, \* up to HandshakeRetries
    stopped,
    timer,      \* timer[t]: whether the timer its field holds is armed, how many
                \* others are, and how many callbacks wait for the lock
    heard,      \* data was received less than DeadPeerTimeout ago
    overtaken,  \* history: timers that were stopped or started while a callback waited
    killed,     \* history: a handshake timeout ended an established connection
    calls       \* calls so far

vars == <<state, retryCount, stopped, timer, heard, overtaken, killed, calls>>

Names == {"handshake", "rekey", "keepalive", "deadPeer"}
States == {"Start", "InitiationSent", "ResponseSent", "Established", "Rehandshaking", "Dead"}
Handshaking == {"InitiationSent", "Rehandshaking"}

TypeOK ==
    /\ state \in States /\ retryCount \in 0 .. HandshakeRetries
    /\ stopped \in BOOLEAN /\ heard \in BOOLEAN /\ killed \in BOOLEAN
    /\ timer \in [Names -> [armed : BOOLEAN, others : 0 .. MaxCalls, waiting : 0 .. MaxCalls + 1]]
    /\ overtaken \subseteq Names /\ calls \in 0 .. MaxCalls

(* After Start. *)
Init ==
    /\ state = "Start" /\ retryCount = 0 /\ stopped = FALSE
    /\ timer = [t \in Names |-> [armed |-> t = "deadPeer", others |-> 0, waiting |-> 0]]
    /\ heard = FALSE /\ overtaken = {} /\ killed = FALSE /\ calls = 0

Call == calls < MaxCalls /\ calls' = calls + 1

(* The timers of on are stopped and started, those of off stopped. *)
Reset(on, off) ==
    /\ timer' = [t \in Names |->
         [timer[t] EXCEPT !.armed = (@ \/ t \in on) /\ t \notin off \ on]]
    /\ overtaken' = overtaken \cup {t \in on \cup off : timer[t].waiting > 0}

-----------------------------------------------------------------------------
(* The owner's calls *)

Stop ==
    /\ Call /\ ~ stopped /\ stopped' = TRUE /\ Reset({}, Names)
    /\ UNCHANGED <<state, retryCount, heard, killed>>

(* Neither call looks at stopped. *)
OnDataSent ==
    /\ Call /\ Reset({"keepalive"}, {})
    /\ UNCHANGED <<state, retryCount, stopped, heard, killed>>

OnDataReceived ==
    /\ Call /\ heard' = TRUE /\ Reset({"deadPeer"}, {})
    /\ UNCHANGED <<state, retryCount, stopped, killed>>

Established == Reset({"rekey", "keepalive"}, {"handshake"})

TransitionState(new) ==
    /\ Call /\ new # state /\ state' = new
    /\ retryCount' = IF new = "Established" THEN 0 ELSE retryCount
    /\ CASE new \in Handshaking -> Reset({"handshake"}, {})
         [] new = "Established" -> Established
         [] new = "Dead" -> Reset({}, Names)
         [] OTHER -> UNCHANGED <<timer, overtaken>>
    /\ UNCHANGED <<stopped, heard, killed>>

-----------------------------------------------------------------------------
(* Time *)

(* The timer that was started last fires when data has not been received for
   the timeout; one that is forgotten may fire before. *)
Due(t) == t = "deadPeer" => ~ heard

Fire(t) ==
    /\ timer[t].armed /\ Due(t)
    /\ timer' = [timer EXCEPT ![t].armed = FALSE, ![t].waiting = @ + 1]
    /\ UNCHANGED <<state, retryCount, stopped, heard, overtaken, killed, calls>>

FireForgotten(t) ==
    /\ timer[t].others > 0
    /\ timer' = [timer EXCEPT ![t].others = @ - 1, ![t].waiting = @ + 1]
    /\ UNCHANGED <<state, retryCount, stopped, heard, overtaken, killed, calls>>

Silence ==
    /\ heard /\ heard' = FALSE
    /\ UNCHANGED <<state, retryCount, stopped, timer, overtaken, killed, calls>>

-----------------------------------------------------------------------------
(* Callbacks *)

Ran(t) == timer' = [timer EXCEPT ![t].waiting = @ - 1]

(* The callback starts its timer again without a Stop: if somebody did so in
   the meantime, that timer is forgotten and cannot be stopped any more. *)
RanAndRearmed(t) ==
    timer' = [timer EXCEPT ![t] =
         [armed |-> TRUE, others |-> IF @.armed THEN @.others + 1 ELSE @.others,
          waiting |-> @.waiting - 1]]

\* mutant: one retry too many
LastRetryLate == retryCount > HandshakeRetries
LastRetry == retryCount + 1 >= HandshakeRetries

(* The state is not looked at. *)
HandleHandshakeTimeout ==
    /\ timer["handshake"].waiting > 0
    /\ \/ stopped /\ Ran("handshake") /\ UNCHANGED <<state, retryCount, killed>>
       \/ /\ ~ stopped /\ LastRetry
          /\ retryCount' = HandshakeRetries /\ state' = "Dead"
          /\ killed' = (killed \/ state = "Established")
          /\ Ran("handshake")
       \/ /\ ~ stopped /\ ~ LastRetry
          /\ retryCount' = retryCount + 1 /\ RanAndRearmed("handshake")
          /\ UNCHANGED <<state, killed>>
    /\ UNCHANGED <<stopped, heard, overtaken, calls>>

(* handleRekey and handleKeepalive *)
HandlePeriodic(t) ==
    /\ t \in {"rekey", "keepalive"} /\ timer[t].waiting > 0
    /\ IF stopped \/ state # "Established" THEN Ran(t) ELSE RanAndRearmed(t)
    /\ UNCHANGED <<state, retryCount, stopped, heard, overtaken, killed, calls>>

HandleDeadPeer ==
    /\ timer["deadPeer"].waiting > 0
    /\ \/ stopped /\ Ran("deadPeer") /\ UNCHANGED state
       \/ ~ stopped /\ heard /\ RanAndRearmed("deadPeer") /\ UNCHANGED state
       \/ ~ stopped /\ ~ heard /\ Ran("deadPeer") /\ state' = "Dead"
    /\ UNCHANGED <<retryCount, stopped, heard, overtaken, killed, calls>>

Owner == Stop \/ OnDataSent \/ OnDataReceived \/ \E new \in States : TransitionState(new)
Callback(t) == \/ t = "handshake" /\ HandleHandshakeTimeout
               \/ t = "deadPeer" /\ HandleDeadPeer
               \/ HandlePeriodic(t)

Next == \/ Owner \/ Silence
        \/ \E t \in Names : Fire(t) \/ FireForgotten(t) \/ Callback(t)

Spec == Init /\ [][Next]_vars

\* fair: time passes (Fire, Silence), a callback that waits for the lock gets it

-----------------------------------------------------------------------------

(* A timer runs twice, beyond the reach of Stop, only if its callback was
   waiting for the lock when the timer was stopped or started again. *)
RunsTwiceOnlyIfOvertaken ==
    \A t \in Names : timer[t].others > 0 => t \in overtaken

(* A handshake timeout ends an established connection only if it had fired
   before the connection was established; the callback does not look at the
   state, so then it does so even if the peer is heard. *)
KilledOnlyIfOvertaken == killed => "handshake" \in overtaken

(* A handshake that gets no answer ends: after HandshakeRetries timeouts the
   connection is dead, unless its owner moved on or stopped the timers.  What it
   may not be in for ever. *)
HandshakeWaits == state \in Handshaking /\ ~ stopped
=============================================================================
