--------------------------------- MODULE PFS ---------------------------------
(***************************************************************************)
(* Two PFSManagers (crypto/pfs.go) that rekey with each other: current and *)
(* previous secrets, the pending request, and the timer that drops the     *)
(* previous secrets.  Messages may be lost and arrive in any order.        *)
(***************************************************************************)
EXTENDS Rekey, FiniteSets

CONSTANTS
    MaxNonce,   \* bound: rekey messages made
    MaxData     \* bound: data messages in flight

Ends == {"client", "server"}
Other(e) == IF e = "client" THEN "server" ELSE "client"
None == [epoch |-> 0, nonces |-> <<>>]     \* previous = nil

VARIABLES
    current, previous,
    pending,    \* the nonce of pendingRekey, or NoRekey
    timers,     \* epochs whose 30 s timer has not run yet, by end
    messages,   \* rekey messages in flight: [to, message]
    data,       \* data messages in flight: [to, secrets]
    nonce,      \* the last nonce drawn
    flaw        \* history: what a rekey met

vars == <<current, previous, pending, timers, messages, data, nonce, flaw>>

Epochs == 1 .. MaxNonce + 1

Secrets == [epoch : Epochs, nonces : Seq((1 .. MaxNonce) \X (1 .. MaxNonce))]

TypeOK ==
    /\ current \in [Ends -> Secrets] /\ previous \in [Ends -> Secrets \cup {None}]
    /\ pending \in [Ends -> 0 .. nonce] /\ timers \in [Ends -> SUBSET Epochs]
    /\ \A e \in Ends :
         /\ Len(current[e].nonces) = current[e].epoch - 1
         /\ previous[e] # None => /\ previous[e].epoch = current[e].epoch - 1
                                 /\ previous[e].epoch \in timers[e]
    /\ messages \subseteq [to : Ends, message : [flag : {"request", "response"}, nonce : 1 .. nonce]]
    /\ data \subseteq [to : Ends, secrets : Secrets] /\ Cardinality(data) <= MaxData
    /\ nonce \in 0 .. MaxNonce /\ flaw \subseteq {"crossed", "lost", "early"}

Init ==
    /\ current = [e \in Ends |-> Established] /\ previous = [e \in Ends |-> None]
    /\ pending = [e \in Ends |-> NoRekey] /\ timers = [e \in Ends |-> {}]
    /\ messages = {} /\ data = {} /\ nonce = 0 /\ flaw = {}

-----------------------------------------------------------------------------

(* InitiateRekey, when NeedsRekey says so: by age, messages or bytes. *)
InitiateRekey(e) ==
    /\ nonce < MaxNonce /\ pending[e] = NoRekey
    /\ nonce' = nonce + 1 /\ pending' = [pending EXCEPT ![e] = nonce']
    /\ messages' = messages \cup {[to |-> Other(e), message |-> Request(nonce')]}
    /\ flaw' = IF pending[Other(e)] # NoRekey \/ current[e] # current[Other(e)]
               THEN flaw \cup {"crossed"} ELSE flaw
    /\ UNCHANGED <<current, previous, timers, data>>

(* commitRekey: a timer is started for the secrets that become the previous. *)
\* mutant: the previous secrets are kept when there are some
PreviousKept(e) == IF previous[e] = None THEN current[e] ELSE previous[e]
Previous(e) == current[e]

Commit(e, secrets) ==
    /\ previous' = [previous EXCEPT ![e] = Previous(e)]
    /\ current' = [current EXCEPT ![e] = secrets]
    /\ timers' = [timers EXCEPT ![e] = @ \cup {current[e].epoch}]

(* A request or a response; a request also drops the receiver's own. *)
ProcessRekeyMessage(m) ==
    LET e == m.to
        result == ProcessRekey(current[e], m.message, pending[e], nonce + 1)
    IN  /\ m \in messages
        /\ result.err # "unexpected" /\ (m.message.flag = "request" => nonce < MaxNonce)
        /\ Commit(e, result.secrets)
        /\ pending' = [pending EXCEPT ![e] = NoRekey]
        /\ nonce' = IF result.err = "responseRequired" THEN nonce + 1 ELSE nonce
        /\ messages' = (messages \ {m}) \cup
             {[to |-> Other(e), message |-> result.response[i]] : i \in DOMAIN result.response}
        /\ UNCHANGED <<data, flaw>>

(* A response nobody waits for is an error and changes nothing. *)
Unexpected(m) ==
    /\ m \in messages /\ m.message.flag = "response" /\ pending[m.to] = NoRekey
    /\ messages' = messages \ {m}
    /\ UNCHANGED <<current, previous, pending, timers, data, nonce, flaw>>

Lose(m) ==
    /\ m \in messages /\ messages' = messages \ {m} /\ flaw' = flaw \cup {"lost"}
    /\ UNCHANGED <<current, previous, pending, timers, data, nonce>>

(* The grace period of an epoch ends: nothing happens if a later one has taken
   its place. *)
Expires(e, epoch) == previous[e] # None /\ previous[e].epoch = epoch

GraceEnds(e, epoch) ==
    /\ epoch \in timers[e] /\ timers' = [timers EXCEPT ![e] = @ \ {epoch}]
    /\ previous' = IF Expires(e, epoch) THEN [previous EXCEPT ![e] = None] ELSE previous
    /\ flaw' = IF \/ \E d \in data : d.to = e /\ d.secrets.epoch = epoch
                  \/ current[Other(e)].epoch = epoch
               THEN flaw \cup {"early"} ELSE flaw
    /\ UNCHANGED <<current, pending, messages, data, nonce>>

-----------------------------------------------------------------------------
(* Data, sealed with GetSecrets and opened with GetSecretsForEpoch. *)

Send(e) ==
    /\ Cardinality(data) < MaxData
    /\ data' = data \cup {[to |-> Other(e), secrets |-> current[e]]}
    /\ UNCHANGED <<current, previous, pending, timers, messages, nonce, flaw>>

GetSecretsForEpoch(e, epoch) ==
    IF current[e].epoch = epoch THEN current[e]
    ELSE IF previous[e] # None /\ previous[e].epoch = epoch THEN previous[e] ELSE None

Opens(d) == GetSecretsForEpoch(d.to, d.secrets.epoch) = d.secrets

Receive(d) ==
    /\ d \in data /\ data' = data \ {d}
    /\ UNCHANGED <<current, previous, pending, timers, messages, nonce, flaw>>

Next ==
    \/ \E e \in Ends : InitiateRekey(e) \/ Send(e) \/ \E epoch \in timers[e] : GraceEnds(e, epoch)
    \/ \E m \in messages : ProcessRekeyMessage(m) \/ Unexpected(m) \/ Lose(m)
    \/ \E d \in data : Receive(d)

Spec == Init /\ [][Next]_vars

-----------------------------------------------------------------------------

(* The two ends hold the same secrets and wait for nothing once the rekey
   messages are delivered, unless two requests crossed or a message was lost; a
   lost one leaves its request pending for good. *)
EndsAgree ==
    messages = {} /\ flaw \cap {"crossed", "lost"} = {} =>
        current["client"] = current["server"] /\ \A e \in Ends : pending[e] = NoRekey

(* Data sent with secrets the receiver had or will have next opens: either end is
   one rekey ahead at most, and the previous secrets outlive the switch, unless
   the grace period ended before the other end switched or the data came, or two
   rekeys overtook it. *)
DataOpens ==
    flaw = {} => \A d \in data :
        \/ d.secrets.epoch > current[d.to].epoch      \* the response is on its way
        \/ d.secrets.epoch + 1 < current[d.to].epoch  \* two rekeys later
        \/ Opens(d)
=============================================================================
