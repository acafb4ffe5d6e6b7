---------------------------- MODULE DeviceProofs ----------------------------
(***************************************************************************)
(* Proofs about module Device, for every rekey budget and every capacity   *)
(* of the connection.                                                      *)
(*                                                                         *)
(* The argument turns on what is ever written.  A rekey request is the     *)
(* only rekey message that reaches a wire: the end that receives it takes  *)
(* the "error" that asks for a response for a failure, and ends.  So no    *)
(* rekey changes the keys of either end, and every frame in flight is      *)
(* sealed under the keys of the handshake.                                 *)
(***************************************************************************)
EXTENDS Device, SequenceTheorems, TLAPS

(* What the ends write: plain frames, and rekey requests. *)
PlainFrames == {Frame(Established, flag, <<>>) : flag \in {"data", "keepalive", "bind"}}
RekeyFrames == {Frame(Established, "rekey", Request(nonce)) : nonce \in Nat}
Frames == PlainFrames \cup RekeyFrames

Typed ==
    /\ loop \in [Roles -> {"handshake", "receive", "request", "clear", "ended"}]
    /\ pendingRekey \in [Roles -> Nat] /\ messageCount \in [Roles -> 0 .. RekeyBudget]
    /\ pump \in [Roles -> {"none", "select", "write", "ended"}]
    /\ outboundStop \in [Roles -> {"nil", "open", "closed"}]
    /\ closed \in [Roles -> BOOLEAN] /\ plane \in [Roles -> {"open", "closed"}]
    /\ closer \in [Roles -> [Callers -> {"idle", "device", "wait", "done"}]]
    /\ conn \in [Roles -> {"open", "closed"}]
    /\ inbox \in [Roles -> Seq(Frames)] /\ \A r \in Roles : Len(inbox[r]) <= Capacity
    /\ sends \in 0 .. MaxSends /\ nonces \in Nat /\ hungUp \in BOOLEAN

(* Both ends hold the keys of the handshake. *)
KeysOfHandshake ==
    /\ secrets = [r \in Roles |-> Established]
    /\ installed = [r \in Roles |-> Established]

(* A loop that goes on to receive has budget left. *)
InBudget ==
    \A r \in Roles : loop[r] \in {"handshake", "receive"} => messageCount[r] < RekeyBudget

(* The pump and its stop channel are made together, when the handshake returns. *)
MadeTogether ==
    \A r \in Roles : /\ loop[r] = "handshake" <=> outboundStop[r] = "nil"
                     /\ loop[r] = "handshake" <=> pump[r] = "none"

(* Only a caller that found the device open waits for the pump and closes the plane. *)
ClosedFirst ==
    \A r \in Roles : /\ plane[r] = "closed" => closed[r]
                     /\ \A c \in Callers : closer[r][c] = "wait" => closed[r]

(* Until a process is told to stop, or a rekey is due, nothing is closed, no loop
   has ended, and what is in flight is plain. *)
Calm ==
    ~ hungUp /\ nonces = 0 =>
        \A r \in Roles : /\ conn[r] = "open" /\ loop[r] # "ended"
                         /\ inbox[r] \in Seq(PlainFrames)

IInv == /\ Typed /\ KeysOfHandshake /\ InBudget /\ MadeTogether /\ ClosedFirst /\ Calm
        /\ PlaneOutlivesPump

-----------------------------------------------------------------------------

LEMMA FrameFacts ==
    /\ \A f \in Frames : f.keys = Established
    /\ \A f \in PlainFrames : f.flag \in {"data", "keepalive", "bind"}
    /\ \A f \in Frames : f.flag = "rekey" => f.payload.flag = "request" /\ f \in RekeyFrames
    /\ \A flag \in {"data", "keepalive", "bind"} : Frame(Established, flag, <<>>) \in PlainFrames
    /\ \A nonce \in Nat : Frame(Established, "rekey", Request(nonce)) \in Frames
    /\ PlainFrames \subseteq Frames
  BY DEF Frames, PlainFrames, RekeyFrames, Frame, Request

LEMMA RoleFacts ==
    /\ \A r \in Roles : Other(r) \in Roles
    /\ "client" \in Roles /\ "server" \in Roles
    /\ "session" \in Callers /\ "shutdown" \in Callers
  BY DEF Roles, Other, Callers

(* What a write leaves in the connection. *)
LEMMA WriteLeaves ==
    ASSUME Typed, KeysOfHandshake, NEW r \in Roles, NEW f \in Frames, Writes(r, f)
    PROVE  /\ inbox' \in [Roles -> Seq(Frames)]
           /\ \A q \in Roles : Len(inbox'[q]) <= Capacity
           /\ f \in PlainFrames => \A q \in Roles :
                inbox[q] \in Seq(PlainFrames) => inbox'[q] \in Seq(PlainFrames)
           /\ conn[r] = "open"
  <1>1. Other(r) \in Roles
    BY RoleFacts
  <1>2. /\ inbox \in [Roles -> Seq(Frames)] /\ \A q \in Roles : Len(inbox[q]) <= Capacity
        /\ Len(inbox[Other(r)]) < Capacity /\ conn[r] = "open"
        /\ inbox' = [inbox EXCEPT ![Other(r)] = Append(@, f)]
    BY DEF Typed, Writes
  <1>3. /\ Append(inbox[Other(r)], f) \in Seq(Frames)
        /\ Len(Append(inbox[Other(r)], f)) <= Capacity
    BY <1>1, <1>2, DeviceAssumption DEF DeviceAssumption
  <1>4. \A q \in Roles :
          inbox'[q] = IF q = Other(r) THEN Append(inbox[q], f) ELSE inbox[q]
    BY <1>1, <1>2
  <1> QED
    BY <1>1, <1>2, <1>3, <1>4

(* What a read leaves in the connection. *)
LEMMA ReadLeaves ==
    ASSUME Typed, NEW r \in Roles, inbox[r] # <<>>,
           inbox' = [inbox EXCEPT ![r] = Tail(@)]
    PROVE  /\ inbox' \in [Roles -> Seq(Frames)]
           /\ \A q \in Roles : Len(inbox'[q]) <= Capacity
           /\ \A q \in Roles : inbox[q] \in Seq(PlainFrames) => inbox'[q] \in Seq(PlainFrames)
           /\ Head(inbox[r]) \in Frames
           /\ inbox[r] \in Seq(PlainFrames) => Head(inbox[r]) \in PlainFrames
  <1>1. /\ inbox \in [Roles -> Seq(Frames)] /\ \A q \in Roles : Len(inbox[q]) <= Capacity
        /\ inbox[r] \in Seq(Frames)
    BY DEF Typed
  <1>2. /\ Tail(inbox[r]) \in Seq(Frames) /\ Len(Tail(inbox[r])) = Len(inbox[r]) - 1
        /\ Len(inbox[r]) \in Nat /\ Head(inbox[r]) \in Frames
    BY <1>1, HeadTailProperties
  <1>3. inbox[r] \in Seq(PlainFrames) =>
          Tail(inbox[r]) \in Seq(PlainFrames) /\ Head(inbox[r]) \in PlainFrames
    BY HeadTailProperties
  <1>4. \A q \in Roles : inbox'[q] = IF q = r THEN Tail(inbox[q]) ELSE inbox[q]
    BY <1>1
  <1>5. Len(Tail(inbox[r])) <= Capacity
    BY <1>1, <1>2, DeviceAssumption DEF DeviceAssumption
  <1> QED
    BY <1>1, <1>2, <1>3, <1>4, <1>5

(* A message that is no response fails, whatever rekey is pending. *)
LEMMA RequestsFail ==
    ASSUME NEW current, NEW message, NEW pending, NEW fresh, message.flag = "request"
    PROVE  /\ Fails(ProcessRekey(current, message, pending, fresh))
           /\ Len(ProcessRekey(current, message, pending, fresh).response) = 1
  BY DEF Fails, ProcessRekey

-----------------------------------------------------------------------------
(* The invariant holds at first.                                           *)

LEMMA InitHolds == Init => IInv
  <1> SUFFICES ASSUME Init PROVE IInv
    OBVIOUS
  <1>1. inbox \in [Roles -> Seq(Frames)] /\ \A r \in Roles : Len(inbox[r]) <= Capacity
    BY DeviceAssumption DEF Init, DeviceAssumption
  <1>2. Typed
    <2>1. /\ loop \in [Roles -> {"handshake", "receive", "request", "clear", "ended"}]
          /\ pendingRekey \in [Roles -> Nat] /\ messageCount \in [Roles -> 0 .. RekeyBudget]
          /\ pump \in [Roles -> {"none", "select", "write", "ended"}]
      BY DeviceAssumption DEF Init, DeviceAssumption, NoRekey
    <2>2. /\ outboundStop \in [Roles -> {"nil", "open", "closed"}]
          /\ plane \in [Roles -> {"open", "closed"}] /\ conn \in [Roles -> {"open", "closed"}]
          /\ closer \in [Roles -> [Callers -> {"idle", "device", "wait", "done"}]]
          /\ sends \in 0 .. MaxSends /\ nonces \in Nat
      BY DeviceAssumption DEF Init, DeviceAssumption
    <2>3. closed \in [Roles -> BOOLEAN] /\ hungUp \in BOOLEAN
      BY Zenon DEF Init
    <2> QED
      BY <1>1, <2>1, <2>2, <2>3 DEF Typed
  <1>3. KeysOfHandshake /\ InBudget /\ MadeTogether
    BY DeviceAssumption DEF Init, DeviceAssumption, KeysOfHandshake, InBudget, MadeTogether
  <1>4. ClosedFirst /\ Calm /\ PlaneOutlivesPump
    BY DEF Init, ClosedFirst, Calm, PlaneOutlivesPump
  <1> QED
    BY <1>2, <1>3, <1>4 DEF IInv

-----------------------------------------------------------------------------
(* What an action leaves alone keeps its part of the invariant. *)

LEMMA KeysKept ==
    ASSUME IInv, UNCHANGED <<secrets, installed>> PROVE KeysOfHandshake'
  BY DEF IInv, KeysOfHandshake

LEMMA CloseKept ==
    ASSUME IInv, UNCHANGED closeVars PROVE ClosedFirst'
  BY DEF IInv, ClosedFirst, closeVars

(* An ended loop leaves every part but Calm as it is. *)
LEMMA EndKeeps ==
    ASSUME IInv, NEW r \in Roles, loop[r] # "handshake", EndLoop(r),
           UNCHANGED goroutineVars, UNCHANGED closeVars, UNCHANGED conn, nonces' \in Nat,
           inbox' \in [Roles -> Seq(Frames)], \A q \in Roles : Len(inbox'[q]) <= Capacity
    PROVE  /\ Typed' /\ KeysOfHandshake' /\ InBudget' /\ MadeTogether' /\ ClosedFirst'
           /\ PlaneOutlivesPump'
  <1>1. Typed'
    BY DEF IInv, Typed, EndLoop, goroutineVars, closeVars
  <1>2. \A q \in Roles : loop'[q] = IF q = r THEN "ended" ELSE loop[q]
    BY DEF IInv, Typed, EndLoop
  <1>3. KeysOfHandshake' /\ ClosedFirst'
    BY KeysKept, CloseKept DEF EndLoop
  <1>4. InBudget'
    BY <1>2 DEF IInv, InBudget, EndLoop
  <1>5. MadeTogether' /\ PlaneOutlivesPump'
    BY <1>2 DEF IInv, MadeTogether, PlaneOutlivesPump, goroutineVars, closeVars
  <1> QED
    BY <1>1, <1>3, <1>4, <1>5

(* A counted frame leaves the loop receiving with budget left, or requesting. *)
LEMMA CountKeeps ==
    ASSUME IInv, NEW r \in Roles, loop[r] = "receive", Count(r),
           UNCHANGED <<secrets, installed, pendingRekey>>,
           UNCHANGED nonces, UNCHANGED goroutineVars, UNCHANGED closeVars, UNCHANGED conn,
           inbox' \in [Roles -> Seq(Frames)], \A q \in Roles : Len(inbox'[q]) <= Capacity
    PROVE  /\ Typed' /\ KeysOfHandshake' /\ InBudget' /\ MadeTogether' /\ ClosedFirst'
           /\ PlaneOutlivesPump' /\ \A q \in Roles : loop'[q] = "ended" => loop[q] = "ended"
  <1>1. /\ messageCount[r] \in Nat /\ messageCount[r] < RekeyBudget
        /\ messageCount' = [messageCount EXCEPT ![r] = @ + 1]
        /\ messageCount \in [Roles -> 0 .. RekeyBudget] /\ RekeyBudget \in Nat
    BY DeviceAssumption DEF IInv, Typed, InBudget, Count, DeviceAssumption
  <1>2. /\ messageCount' \in [Roles -> 0 .. RekeyBudget]
        /\ \A q \in Roles :
             messageCount'[q] = IF q = r THEN messageCount[q] + 1 ELSE messageCount[q]
    BY <1>1
  <1>3. PICK due \in {messageCount'[r] >= RekeyBudget, TRUE} :
          loop' = [loop EXCEPT ![r] = IF due THEN "request" ELSE "receive"]
    BY DEF Count
  <1>4. /\ loop \in [Roles -> {"handshake", "receive", "request", "clear", "ended"}]
        /\ \A q \in Roles : loop'[q] = IF q = r THEN IF due THEN "request" ELSE "receive"
                                                ELSE loop[q]
    BY <1>3 DEF IInv, Typed
  <1>5. loop' \in [Roles -> {"handshake", "receive", "request", "clear", "ended"}]
    BY <1>3, <1>4
  <1>6. Typed'
    BY <1>2, <1>5 DEF IInv, Typed, goroutineVars, closeVars
  <1>7. KeysOfHandshake' /\ ClosedFirst'
    BY KeysKept, CloseKept
  <1>8. InBudget'
    <2>1. due \/ due = (messageCount'[r] >= RekeyBudget)
      BY <1>3, Zenon
    <2>2. CASE due
      BY <1>2, <1>4, <2>2 DEF IInv, InBudget
    <2>3. CASE ~ (messageCount'[r] >= RekeyBudget)
      <3>1. messageCount'[r] < RekeyBudget
        BY <1>1, <1>2, <2>3
      <3> QED
        BY <1>2, <1>4, <3>1 DEF IInv, InBudget
    <2>4. due \/ ~ (messageCount'[r] >= RekeyBudget)
      BY <2>1, Zenon
    <2> QED
      BY <2>2, <2>3, <2>4
  <1>9. MadeTogether' /\ PlaneOutlivesPump'
    BY <1>4 DEF IInv, MadeTogether, PlaneOutlivesPump, goroutineVars, closeVars
  <1> QED
    BY <1>4, <1>6, <1>7, <1>8, <1>9

-----------------------------------------------------------------------------
(* One lemma for each action of the tunnel loop. *)

LEMMA StartTunnelKeeps ==
    ASSUME IInv, NEW r \in Roles, StartTunnel(r) PROVE IInv'
  <1> DEFINE bind == Frame(installed[r], "bind", <<>>)
  <1>1. bind \in PlainFrames /\ bind \in Frames
    BY FrameFacts DEF IInv, KeysOfHandshake
  <1>2. /\ inbox' \in [Roles -> Seq(Frames)]
        /\ \A q \in Roles : Len(inbox'[q]) <= Capacity
        /\ \A q \in Roles : inbox[q] \in Seq(PlainFrames) => inbox'[q] \in Seq(PlainFrames)
    <2>1. CASE Writes(r, bind)
      BY <1>1, <2>1, WriteLeaves DEF IInv
    <2>2. CASE UNCHANGED inbox
      BY <2>2 DEF IInv, Typed
    <2> QED
      BY <2>1, <2>2 DEF StartTunnel
  <1>3. Typed'
    BY <1>2 DEF IInv, Typed, StartTunnel
  <1>4. /\ loop[r] = "handshake"
        /\ \A q \in Roles : loop'[q] = IF q = r THEN "receive" ELSE loop[q]
        /\ \A q \in Roles : outboundStop'[q] = IF q = r THEN "open" ELSE outboundStop[q]
        /\ \A q \in Roles : pump'[q] = IF q = r THEN "select" ELSE pump[q]
    BY DEF IInv, Typed, StartTunnel
  <1>5. KeysOfHandshake' /\ ClosedFirst' /\ InBudget'
    BY <1>4, KeysKept DEF IInv, StartTunnel, ClosedFirst, InBudget
  <1>6. MadeTogether' /\ PlaneOutlivesPump'
    BY <1>4 DEF IInv, MadeTogether, PlaneOutlivesPump, StartTunnel
  <1>7. Calm'
    BY <1>2, <1>4 DEF IInv, Calm, StartTunnel
  <1> QED
    BY <1>3, <1>5, <1>6, <1>7 DEF IInv

LEMMA ReceiveFailsKeeps ==
    ASSUME IInv, NEW r \in Roles, ReceiveFails(r) PROVE IInv'
  <1>1. Broken(r) /\ UNCHANGED inbox
    <2>1. ASSUME inbox[r] # <<>>, Head(inbox[r]).keys # installed[r] PROVE FALSE
      <3>1. Head(inbox[r]) \in Frames
        BY <2>1, HeadTailProperties DEF IInv, Typed
      <3> QED
        BY <2>1, <3>1, FrameFacts DEF IInv, KeysOfHandshake
    <2> QED
      BY <2>1 DEF ReceiveFails
  <1>2. /\ Typed' /\ KeysOfHandshake' /\ InBudget' /\ MadeTogether' /\ ClosedFirst'
        /\ PlaneOutlivesPump'
    <2>1. /\ inbox' \in [Roles -> Seq(Frames)] /\ \A q \in Roles : Len(inbox'[q]) <= Capacity
          /\ nonces' \in Nat
      BY <1>1 DEF IInv, Typed, ReceiveFails
    <2>2. /\ EndLoop(r) /\ UNCHANGED goroutineVars /\ UNCHANGED closeVars /\ UNCHANGED conn
          /\ loop[r] # "handshake"
      BY DEF ReceiveFails
    <2> QED
      BY <2>1, <2>2, EndKeeps
  <1>3. Calm'
    <2>1. Other(r) \in Roles
      BY RoleFacts
    <2> QED
      BY <1>1, <2>1 DEF IInv, Calm, Broken, ReceiveFails, closeVars
  <1> QED
    BY <1>2, <1>3 DEF IInv

LEMMA HandleFrameKeeps ==
    ASSUME IInv, NEW r \in Roles, HandleFrame(r) PROVE IInv'
  <1>1. /\ loop[r] = "receive" /\ inbox[r] # <<>>
        /\ Head(inbox[r]).flag \in {"data", "keepalive", "bind"}
        /\ inbox' = [inbox EXCEPT ![r] = Tail(@)]
        /\ UNCHANGED nonces /\ UNCHANGED goroutineVars /\ UNCHANGED closeVars /\ UNCHANGED conn
    BY DEF HandleFrame, Receives
  <1>2. Count(r) /\ UNCHANGED <<secrets, installed, pendingRekey>>
    BY <1>1 DEF HandleFrame, EndsLoop
  <1>3. /\ inbox' \in [Roles -> Seq(Frames)]
        /\ \A q \in Roles : Len(inbox'[q]) <= Capacity
        /\ \A q \in Roles : inbox[q] \in Seq(PlainFrames) => inbox'[q] \in Seq(PlainFrames)
    BY <1>1, ReadLeaves DEF IInv
  <1>4. /\ Typed' /\ KeysOfHandshake' /\ InBudget' /\ MadeTogether' /\ ClosedFirst'
        /\ PlaneOutlivesPump' /\ \A q \in Roles : loop'[q] = "ended" => loop[q] = "ended"
    BY <1>1, <1>2, <1>3, CountKeeps
  <1>5. Calm'
    BY <1>1, <1>3, <1>4 DEF IInv, Calm, closeVars
  <1> QED
    BY <1>4, <1>5 DEF IInv

(* The frame is a request, ProcessRekey asks for a response, and the loop ends. *)
LEMMA HandleRekeyKeeps ==
    ASSUME IInv, NEW r \in Roles, HandleRekey(r) PROVE IInv'
  <1> DEFINE head == Head(inbox[r])
             result == ProcessRekey(secrets[r], head.payload, pendingRekey[r], nonces + 1)
  <1>1. /\ loop[r] = "receive" /\ inbox[r] # <<>> /\ head.flag = "rekey"
        /\ UNCHANGED goroutineVars /\ UNCHANGED closeVars /\ UNCHANGED conn
    BY DEF HandleRekey, Receives
  <1>2. head \in Frames /\ (inbox[r] \in Seq(PlainFrames) => head \in PlainFrames)
    BY <1>1, HeadTailProperties DEF IInv, Typed
  <1>3. head.payload.flag = "request"
    BY <1>1, <1>2, FrameFacts
  <1>4. Fails(result) /\ Len(result.response) = 1
    BY <1>3, RequestsFail
  <1>5. /\ EndLoop(r) /\ inbox' = [inbox EXCEPT ![r] = Tail(@)] /\ nonces' = nonces + 1
    BY <1>4 DEF HandleRekey, EndsLoop
  <1>6. /\ inbox' \in [Roles -> Seq(Frames)]
        /\ \A q \in Roles : Len(inbox'[q]) <= Capacity
    BY <1>1, <1>5, ReadLeaves DEF IInv
  <1>7. nonces' \in Nat /\ nonces' # 0
    BY <1>5 DEF IInv, Typed
  <1>8. /\ Typed' /\ KeysOfHandshake' /\ InBudget' /\ MadeTogether' /\ ClosedFirst'
        /\ PlaneOutlivesPump'
    BY <1>1, <1>5, <1>6, <1>7, EndKeeps
  <1> QED
    BY <1>7, <1>8 DEF IInv, Calm

LEMMA SendRequestKeeps ==
    ASSUME IInv, NEW r \in Roles, SendRequest(r) PROVE IInv'
  <1>1. /\ loop[r] = "request" /\ loop' = [loop EXCEPT ![r] = "clear"]
        /\ UNCHANGED <<secrets, installed, messageCount>>
        /\ UNCHANGED goroutineVars /\ UNCHANGED closeVars /\ UNCHANGED conn
        /\ \A q \in Roles : loop'[q] = IF q = r THEN "clear" ELSE loop[q]
    BY DEF IInv, Typed, SendRequest
  <1>2. \/ UNCHANGED <<pendingRekey, nonces, inbox>>
        \/ /\ nonces' \in Nat /\ nonces' # 0 /\ pendingRekey' \in [Roles -> Nat]
           /\ inbox' \in [Roles -> Seq(Frames)] /\ \A q \in Roles : Len(inbox'[q]) <= Capacity
    <2> SUFFICES ASSUME pendingRekey[r] = NoRekey
                 PROVE  /\ nonces' \in Nat /\ nonces' # 0 /\ pendingRekey' \in [Roles -> Nat]
                        /\ inbox' \in [Roles -> Seq(Frames)]
                        /\ \A q \in Roles : Len(inbox'[q]) <= Capacity
      BY DEF SendRequest
    <2>1. /\ nonces' = nonces + 1 /\ pendingRekey' = [pendingRekey EXCEPT ![r] = nonces']
          /\ Writes(r, Frame(installed[r], "rekey", Request(nonces')))
      BY DEF SendRequest
    <2>2. nonces' \in Nat /\ nonces' # 0 /\ pendingRekey' \in [Roles -> Nat]
      BY <2>1 DEF IInv, Typed
    <2>3. installed[r] = Established
      BY DEF IInv, KeysOfHandshake
    <2>4. Frame(installed[r], "rekey", Request(nonces')) \in Frames
      BY <2>2, <2>3, FrameFacts
    <2> QED
      BY <2>1, <2>2, <2>4, WriteLeaves DEF IInv
  <1>3. Typed'
    BY <1>1, <1>2 DEF IInv, Typed, goroutineVars, closeVars
  <1>4. KeysOfHandshake' /\ ClosedFirst'
    BY <1>1, KeysKept, CloseKept
  <1>5. InBudget' /\ MadeTogether' /\ PlaneOutlivesPump'
    BY <1>1 DEF IInv, InBudget, MadeTogether, PlaneOutlivesPump, goroutineVars, closeVars
  <1>6. Calm'
    BY <1>1, <1>2 DEF IInv, Calm, closeVars
  <1> QED
    BY <1>3, <1>4, <1>5, <1>6 DEF IInv

LEMMA RequestFailsKeeps ==
    ASSUME IInv, NEW r \in Roles, RequestFails(r) PROVE IInv'
  <1>1. /\ loop[r] = "request" /\ Broken(r) /\ EndLoop(r)
        /\ UNCHANGED goroutineVars /\ UNCHANGED closeVars /\ UNCHANGED conn
        /\ UNCHANGED nonces /\ UNCHANGED inbox
    BY DEF RequestFails, AfterFailedRequest
  <1>2. /\ inbox' \in [Roles -> Seq(Frames)] /\ \A q \in Roles : Len(inbox'[q]) <= Capacity
        /\ nonces' \in Nat
    BY <1>1 DEF IInv, Typed
  <1>3. /\ Typed' /\ KeysOfHandshake' /\ InBudget' /\ MadeTogether' /\ ClosedFirst'
        /\ PlaneOutlivesPump'
    BY <1>1, <1>2, EndKeeps
  <1>4. Calm'
    <2>1. Other(r) \in Roles
      BY RoleFacts
    <2> QED
      BY <1>1, <2>1 DEF IInv, Calm, Broken, closeVars
  <1> QED
    BY <1>3, <1>4 DEF IInv

LEMMA ClearKeeps ==
    ASSUME IInv, NEW r \in Roles, Clear(r) PROVE IInv'
  <1>1. /\ loop[r] = "clear" /\ UNCHANGED <<secrets, installed, nonces, conn, inbox>>
        /\ UNCHANGED goroutineVars /\ UNCHANGED closeVars
        /\ \A q \in Roles : loop'[q] = IF q = r THEN "receive" ELSE loop[q]
        /\ \A q \in Roles : messageCount'[q] = IF q = r THEN 0 ELSE messageCount[q]
    BY DEF IInv, Typed, Clear, CountReset
  <1>2. /\ messageCount' \in [Roles -> 0 .. RekeyBudget]
        /\ pendingRekey' \in [Roles -> Nat]
        /\ loop' \in [Roles -> {"handshake", "receive", "request", "clear", "ended"}]
    BY DeviceAssumption DEF IInv, Typed, Clear, CountReset, NoRekey, DeviceAssumption
  <1>3. Typed'
    BY <1>1, <1>2 DEF IInv, Typed, goroutineVars, closeVars
  <1>4. KeysOfHandshake' /\ ClosedFirst'
    BY <1>1, KeysKept, CloseKept
  <1>5. InBudget'
    BY <1>1, DeviceAssumption DEF IInv, InBudget, DeviceAssumption
  <1>6. MadeTogether' /\ PlaneOutlivesPump' /\ Calm'
    BY <1>1 DEF IInv, MadeTogether, PlaneOutlivesPump, Calm, goroutineVars, closeVars
  <1> QED
    BY <1>3, <1>4, <1>5, <1>6 DEF IInv

-----------------------------------------------------------------------------
(* The actions that leave the loops alone. *)

(* Every goroutine but the tunnel loop leaves the keys and the budget alone. *)
LEMMA LoopKept ==
    ASSUME IInv, UNCHANGED loopVars PROVE KeysOfHandshake' /\ InBudget'
  <1>1. KeysOfHandshake'
    BY KeysKept DEF loopVars
  <1>2. InBudget'
    BY DEF IInv, InBudget, loopVars
  <1> QED
    BY <1>1, <1>2

LEMMA SendKeepAliveKeeps ==
    ASSUME IInv, NEW r \in Roles, SendKeepAlive(r) PROVE IInv'
  <1> DEFINE frame == Frame(installed[r], "keepalive", <<>>)
  <1>1. frame \in PlainFrames /\ frame \in Frames
    BY FrameFacts DEF IInv, KeysOfHandshake
  <1>2. /\ Writes(r, frame) /\ UNCHANGED <<pump, conn>> /\ UNCHANGED loopVars
        /\ UNCHANGED closeVars /\ sends < MaxSends /\ sends' = sends + 1
    BY DEF SendKeepAlive
  <1>3. /\ inbox' \in [Roles -> Seq(Frames)]
        /\ \A q \in Roles : Len(inbox'[q]) <= Capacity
        /\ \A q \in Roles : inbox[q] \in Seq(PlainFrames) => inbox'[q] \in Seq(PlainFrames)
    BY <1>1, <1>2, WriteLeaves DEF IInv
  <1>4. sends' \in 0 .. MaxSends
    BY <1>2, DeviceAssumption DEF IInv, Typed, DeviceAssumption
  <1>5. Typed'
    BY <1>2, <1>3, <1>4 DEF IInv, Typed, loopVars, closeVars
  <1>6. KeysOfHandshake' /\ InBudget' /\ ClosedFirst'
    BY <1>2, LoopKept, CloseKept
  <1>7. MadeTogether' /\ PlaneOutlivesPump'
    BY <1>2 DEF IInv, MadeTogether, PlaneOutlivesPump, loopVars, closeVars
  <1>8. Calm'
    BY <1>2, <1>3 DEF IInv, Calm, loopVars, closeVars
  <1> QED
    BY <1>5, <1>6, <1>7, <1>8 DEF IInv

LEMMA TakeOutboundKeeps ==
    ASSUME IInv, NEW r \in Roles, TakeOutbound(r) PROVE IInv'
  <1>1. /\ pump[r] = "select" /\ UNCHANGED <<conn, inbox>> /\ UNCHANGED loopVars
        /\ UNCHANGED closeVars /\ sends < MaxSends /\ sends' = sends + 1
        /\ \A q \in Roles : pump'[q] = IF q = r THEN "write" ELSE pump[q]
    BY DEF IInv, Typed, TakeOutbound
  <1>2. sends' \in 0 .. MaxSends
    BY <1>1, DeviceAssumption DEF IInv, Typed, DeviceAssumption
  <1>3. Typed'
    BY <1>1, <1>2 DEF IInv, Typed, TakeOutbound, loopVars, closeVars
  <1>4. KeysOfHandshake' /\ InBudget' /\ ClosedFirst'
    BY <1>1, LoopKept, CloseKept
  <1>5. MadeTogether' /\ PlaneOutlivesPump' /\ Calm'
    BY <1>1 DEF IInv, MadeTogether, PlaneOutlivesPump, Calm, loopVars, closeVars
  <1> QED
    BY <1>3, <1>4, <1>5 DEF IInv

LEMMA SendPayloadKeeps ==
    ASSUME IInv, NEW r \in Roles, SendPayload(r) PROVE IInv'
  <1> DEFINE frame == Frame(installed[r], "data", <<>>)
  <1>1. frame \in PlainFrames /\ frame \in Frames
    BY FrameFacts DEF IInv, KeysOfHandshake
  <1>2. /\ pump[r] = "write" /\ Writes(r, frame) /\ UNCHANGED <<conn, sends>>
        /\ UNCHANGED loopVars /\ UNCHANGED closeVars
        /\ \A q \in Roles : pump'[q] = IF q = r THEN "select" ELSE pump[q]
    BY DEF IInv, Typed, SendPayload
  <1>3. /\ inbox' \in [Roles -> Seq(Frames)]
        /\ \A q \in Roles : Len(inbox'[q]) <= Capacity
        /\ \A q \in Roles : inbox[q] \in Seq(PlainFrames) => inbox'[q] \in Seq(PlainFrames)
    BY <1>1, <1>2, WriteLeaves DEF IInv
  <1>4. Typed'
    BY <1>2, <1>3 DEF IInv, Typed, SendPayload, loopVars, closeVars
  <1>5. KeysOfHandshake' /\ InBudget' /\ ClosedFirst'
    BY <1>2, LoopKept, CloseKept
  <1>6. MadeTogether' /\ PlaneOutlivesPump'
    BY <1>2 DEF IInv, MadeTogether, PlaneOutlivesPump, loopVars, closeVars
  <1>7. Calm'
    BY <1>2, <1>3 DEF IInv, Calm, loopVars, closeVars
  <1> QED
    BY <1>4, <1>5, <1>6, <1>7 DEF IInv

LEMMA PumpEndsKeeps ==
    ASSUME IInv, NEW r \in Roles, PumpEnds(r) PROVE IInv'
  <1>1. /\ pump[r] # "none" /\ UNCHANGED <<conn, inbox, sends>> /\ UNCHANGED loopVars
        /\ UNCHANGED closeVars
        /\ \A q \in Roles : pump'[q] = IF q = r THEN "ended" ELSE pump[q]
    BY DEF IInv, Typed, PumpEnds
  <1>2. Typed'
    BY <1>1 DEF IInv, Typed, PumpEnds, loopVars, closeVars
  <1>3. KeysOfHandshake' /\ InBudget' /\ ClosedFirst'
    BY <1>1, LoopKept, CloseKept
  <1>4. MadeTogether' /\ PlaneOutlivesPump' /\ Calm'
    BY <1>1 DEF IInv, MadeTogether, PlaneOutlivesPump, Calm, loopVars, closeVars
  <1> QED
    BY <1>2, <1>3, <1>4 DEF IInv

-----------------------------------------------------------------------------
(* Closing. *)

(* The connection of an end is closed for a cause: a loop has ended, the connection
   was closed before, or a process was told to stop. *)
LEMMA CloseConnKeeps ==
    ASSUME IInv, NEW r \in Roles, NEW c \in Callers, CloseConn(r, c), hungUp' \in BOOLEAN,
           hungUp' \/ nonces # 0
    PROVE  IInv'
  <1>1. /\ UNCHANGED <<outboundStop, closed, plane, inbox>> /\ UNCHANGED loopVars
        /\ UNCHANGED goroutineVars
        /\ closer' = [closer EXCEPT ![r][c] = "device"]
        /\ conn' = [conn EXCEPT ![r] = "closed"]
    BY DEF CloseConn
  <1>2. Typed'
    BY <1>1 DEF IInv, Typed, loopVars, goroutineVars
  <1>3. KeysOfHandshake' /\ InBudget'
    BY <1>1, LoopKept
  <1>4. ClosedFirst'
    <2>1. \A q \in Roles : \A d \in Callers :
            closer'[q][d] = "wait" => closer[q][d] = "wait"
      BY <1>1 DEF IInv, Typed
    <2> QED
      BY <1>1, <2>1 DEF IInv, ClosedFirst
  <1>5. MadeTogether' /\ PlaneOutlivesPump'
    BY <1>1 DEF IInv, MadeTogether, PlaneOutlivesPump, loopVars, goroutineVars
  <1>6. Calm'
    BY <1>1 DEF Calm, loopVars
  <1> QED
    BY <1>2, <1>3, <1>4, <1>5, <1>6 DEF IInv

LEMMA SessionClosesKeeps ==
    ASSUME IInv, NEW r \in Roles, SessionCloses(r) PROVE IInv'
  <1>1. CloseConn(r, "session") /\ UNCHANGED hungUp
    BY DEF SessionCloses
  <1>2. hungUp \/ nonces # 0
    BY DEF IInv, Calm, SessionCloses
  <1>3. "session" \in Callers /\ hungUp \in BOOLEAN
    BY RoleFacts DEF IInv, Typed
  <1> QED
    BY <1>1, <1>2, <1>3, CloseConnKeeps

LEMMA ForceShutdownKeeps ==
    ASSUME IInv, ForceShutdown PROVE IInv'
  <1>1. CloseConn("server", "shutdown") /\ hungUp'= TRUE
    BY DEF ForceShutdown
  <1> QED
    BY <1>1, RoleFacts, CloseConnKeeps

LEMMA InterruptClientKeeps ==
    ASSUME IInv, InterruptClient PROVE IInv'
  <1>1. /\ UNCHANGED <<outboundStop, closed, plane, closer, inbox>> /\ UNCHANGED loopVars
        /\ UNCHANGED goroutineVars /\ hungUp' = TRUE
        /\ conn' = [conn EXCEPT !["client"] = "closed"]
    BY DEF InterruptClient
  <1>2. Typed'
    BY <1>1, RoleFacts DEF IInv, Typed, loopVars, goroutineVars
  <1>3. KeysOfHandshake' /\ InBudget'
    BY <1>1, LoopKept
  <1>4. ClosedFirst' /\ MadeTogether' /\ PlaneOutlivesPump' /\ Calm'
    BY <1>1 DEF IInv, ClosedFirst, MadeTogether, PlaneOutlivesPump, Calm, loopVars,
                goroutineVars
  <1> QED
    BY <1>2, <1>3, <1>4 DEF IInv

LEMMA CloseDeviceKeeps ==
    ASSUME IInv, NEW r \in Roles, NEW c \in Callers, CloseDevice(r, c) PROVE IInv'
  <1>1. /\ UNCHANGED <<plane, hungUp, conn, inbox>> /\ UNCHANGED loopVars
        /\ UNCHANGED goroutineVars
        /\ closer' = [closer EXCEPT ![r][c] = IF closed[r] THEN "done" ELSE "wait"]
        /\ \A q \in Roles : closed'[q] = IF q = r THEN TRUE ELSE closed[q]
        /\ \A q \in Roles : outboundStop'[q] =
             IF q = r /\ ~ closed[r] /\ outboundStop[r] = "open"
             THEN "closed" ELSE outboundStop[q]
    BY DEF IInv, Typed, CloseDevice
  <1>2. Typed'
    <2>1. closer' \in [Roles -> [Callers -> {"idle", "device", "wait", "done"}]]
      BY <1>1 DEF IInv, Typed
    <2>2. closed' \in [Roles -> BOOLEAN] /\ outboundStop' \in [Roles -> {"nil", "open", "closed"}]
      BY DEF IInv, Typed, CloseDevice
    <2> QED
      BY <1>1, <2>1, <2>2 DEF IInv, Typed, loopVars, goroutineVars
  <1>3. KeysOfHandshake' /\ InBudget'
    BY <1>1, LoopKept
  <1>4. ClosedFirst'
    <2>1. \A q \in Roles : \A d \in Callers :
            closer'[q][d] = "wait" => q = r \/ closer[q][d] = "wait"
      BY <1>1 DEF IInv, Typed
    <2> QED
      BY <1>1, <2>1 DEF IInv, ClosedFirst
  <1>5. MadeTogether' /\ Calm'
    BY <1>1 DEF IInv, MadeTogether, Calm, loopVars, goroutineVars
  <1>6. PlaneOutlivesPump'
    BY <1>1 DEF IInv, PlaneOutlivesPump, ClosedFirst, goroutineVars
  <1> QED
    BY <1>2, <1>3, <1>4, <1>5, <1>6 DEF IInv

LEMMA ClosePlaneKeeps ==
    ASSUME IInv, NEW r \in Roles, NEW c \in Callers, ClosePlane(r, c) PROVE IInv'
  <1>1. /\ UNCHANGED <<outboundStop, closed, hungUp, conn, inbox>> /\ UNCHANGED loopVars
        /\ UNCHANGED goroutineVars /\ closer[r][c] = "wait" /\ PumpGone(r)
        /\ closer' = [closer EXCEPT ![r][c] = "done"]
        /\ \A q \in Roles : plane'[q] = IF q = r THEN "closed" ELSE plane[q]
    BY DEF IInv, Typed, ClosePlane
  <1>2. Typed'
    <2>1. closer' \in [Roles -> [Callers -> {"idle", "device", "wait", "done"}]]
      BY <1>1 DEF IInv, Typed
    <2>2. plane' \in [Roles -> {"open", "closed"}]
      BY DEF IInv, Typed, ClosePlane
    <2> QED
      BY <1>1, <2>1, <2>2 DEF IInv, Typed, loopVars, goroutineVars
  <1>3. KeysOfHandshake' /\ InBudget'
    BY <1>1, LoopKept
  <1>4. ClosedFirst'
    <2>1. \A q \in Roles : \A d \in Callers :
            closer'[q][d] = "wait" => closer[q][d] = "wait"
      BY <1>1 DEF IInv, Typed
    <2> QED
      BY <1>1, <2>1 DEF IInv, ClosedFirst
  <1>5. MadeTogether' /\ Calm'
    BY <1>1 DEF IInv, MadeTogether, Calm, loopVars, goroutineVars
  <1>6. PlaneOutlivesPump'
    <2>1. pump[r] \in {"none", "ended"} /\ (pump[r] = "none" <=> outboundStop[r] = "nil")
      BY <1>1 DEF IInv, Typed, PumpGone, MadeTogether
    <2> QED
      BY <1>1, <2>1 DEF IInv, PlaneOutlivesPump, goroutineVars
  <1> QED
    BY <1>2, <1>3, <1>4, <1>5, <1>6 DEF IInv

-----------------------------------------------------------------------------
(* The invariant, and what it says. *)

LEMMA NextHolds == IInv /\ [Next]_vars => IInv'
  <1> SUFFICES ASSUME IInv, [Next]_vars PROVE IInv'
    OBVIOUS
  <1>1. ASSUME NEW r \in Roles, TunnelLoop(r) PROVE IInv'
    BY <1>1, StartTunnelKeeps, ReceiveFailsKeeps, HandleFrameKeeps, HandleRekeyKeeps,
       SendRequestKeeps, RequestFailsKeeps, ClearKeeps DEF TunnelLoop
  <1>2. ASSUME NEW r \in Roles, SendKeepAlive(r) \/ Pump(r) \/ SessionCloses(r) PROVE IInv'
    BY <1>2, SendKeepAliveKeeps, TakeOutboundKeeps, SendPayloadKeeps, PumpEndsKeeps,
       SessionClosesKeeps DEF Pump
  <1>3. ASSUME NEW r \in Roles, NEW c \in Callers, Close(r, c) PROVE IInv'
    BY <1>3, CloseDeviceKeeps, ClosePlaneKeeps DEF Close
  <1>4. CASE ForceShutdown \/ InterruptClient
    BY <1>4, ForceShutdownKeeps, InterruptClientKeeps
  <1>5. CASE UNCHANGED vars
    <2>1. /\ UNCHANGED loopVars /\ UNCHANGED goroutineVars /\ UNCHANGED closeVars
          /\ UNCHANGED <<conn, inbox>>
      BY <1>5 DEF vars
    <2>2. Typed'
      BY <2>1 DEF IInv, Typed, loopVars, goroutineVars, closeVars
    <2>3. KeysOfHandshake' /\ InBudget' /\ ClosedFirst'
      BY <2>1, LoopKept, CloseKept
    <2>4. MadeTogether' /\ PlaneOutlivesPump' /\ Calm'
      BY <2>1 DEF IInv, MadeTogether, PlaneOutlivesPump, Calm, loopVars, goroutineVars,
                  closeVars
    <2> QED
      BY <2>2, <2>3, <2>4 DEF IInv
  <1> QED
    BY <1>1, <1>2, <1>3, <1>4, <1>5 DEF Next

(* What the theorems below follow from. *)
LEMMA InvariantHolds == Spec => []IInv
  BY InitHolds, NextHolds, PTL DEF Spec

(* Every variable of the two devices keeps its type; in particular no loop ever
   counts more frames than the budget, and no buffer holds more than its capacity. *)
THEOREM DeviceTypeCorrect == Spec => []TypeOK
  <1>1. IInv => TypeOK
    <2> SUFFICES ASSUME IInv PROVE TypeOK
      OBVIOUS
    <2>1. \A r \in Roles : secrets[r].epoch \in Nat /\ installed[r].epoch \in Nat
      BY DEF IInv, KeysOfHandshake, Established
    <2> QED
      BY <2>1 DEF IInv, Typed, TypeOK
  <1> QED
    BY <1>1, InvariantHolds, PTL

(* While both tunnel loops run, both transports hold the same keys (handleRekey and
   keepaliveLoop of device.go against each other). *)
THEOREM TransportsAgree == Spec => []KeysAgree
  <1>1. IInv => KeysAgree
    BY RoleFacts DEF IInv, KeysOfHandshake, KeysAgree
  <1> QED
    BY <1>1, InvariantHolds, PTL

(* What the agreement rests on: no rekey of this code takes effect, at either end,
   whichever end asks for it and whatever crosses it on the connection: handleRekey
   returns ErrRekeyResponseRequired before it answers or installs. *)
THEOREM NoRekeyTakesEffect == Spec => []KeysOfHandshake
  BY InvariantHolds, PTL DEF IInv

(* A tunnel loop ends because a process was told to stop, or because of a rekey. *)
THEOREM LoopEndsForCause == Spec => []EndsForCause
  <1>1. IInv => EndsForCause
    BY DEF IInv, Calm, EndsForCause
  <1> QED
    BY <1>1, InvariantHolds, PTL

(* Device.Close closes the dataplane only behind the pump that it told to stop,
   whichever of its callers comes first. *)
THEOREM PumpEndsFirst == Spec => []PlaneOutlivesPump
  BY InvariantHolds, PTL DEF IInv
=============================================================================
