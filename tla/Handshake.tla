------------------------------ MODULE Handshake ------------------------------
(***************************************************************************)
(* clientHandshake and serverHandshake (crypto/keyexchange.go) on the two  *)
(* ends of one connection, as Device.Handshake runs them: hello, cookie,   *)
(* hello again, server hello, then the bind frame each end sends first.    *)
(*                                                                         *)
(* Keys are derived from the transcript, so two ends hold the same keys    *)
(* iff their transcripts name the same client hello: each hello has fresh  *)
(* padding and the server answers one.  A MAC verifies iff both ends have  *)
(* the same pre-shared key; it does not cover padding or cookie.           *)
(***************************************************************************)
EXTENDS Naturals, Sequences

LOCAL INSTANCE SequencesExt

MaxUint8 == 255       \* a padding limit is a byte,
MaxUint16 == 65535    \* a keepalive interval two in the server hello

CONSTANTS
    KeepAlives,   \* keepalive intervals a server may have, in milliseconds
    Paddings,     \* padding limits it may have, a byte
    MaxDisturbances   \* bound: records the network loses, cuts or repeats

ASSUME HandshakeAssumption ==
    /\ KeepAlives \subseteq Nat \ 0 .. 4999     \* Config.Validate
    /\ Paddings \subseteq 1 .. MaxUint8
    /\ MaxDisturbances \in Nat

VARIABLES
    network,    \* "tcp", or "udp", which loses, repeats and cuts records
    samePsk,    \* both ends have the same pre-shared key
    keepAlive, maxPadding,   \* the server's options
    pc,         \* "start" (client), "wait" (readRecord), "bind", "done",
                \* "failed", or "crashed" for a server that panicked
    hello,      \* number of the client hello sent last
    attempts,   \* attempts[r]: the cookies r has sent or received
    expired,    \* cookies, numbered as issued, whose TTL has passed
    wire,       \* wire[r]: the records on their way to r
    closed,     \* the ends of the connection that are closed
    agreed,     \* agreed[r]: the hello in r's transcript, 0 before
    params,     \* params[r]: the TransportParameters r installed
    disturbances, repeated, hungUp
    \* history: what the network did so far, whether it repeated a record, and
    \* whether a process was told to stop

options == <<network, samePsk, keepAlive, maxPadding>>
history == <<disturbances, repeated, hungUp>>

vars == <<options, pc, hello, attempts, expired, wire, closed, agreed, params, history>>

Roles == {"client", "server"}
Other(r) == IF r = "client" THEN "server" ELSE "client"
Ended(r) == pc[r] \in {"done", "failed", "crashed"}

Record ==
    [type : {"hello"}, n : 1 .. 4, cookie : 0 .. 4]
    \cup [type : {"cookie"}, cookie : 1 .. 4]
    \cup [type : {"serverHello"}, keepAlive : 0 .. MaxUint16, maxPadding : 0 .. MaxUint8]
    \cup [type : {"bind", "junk"}]

Parameters == [keepAlive : Nat, maxPadding : 0 .. MaxUint8]

(* attempts and hello stay small because both ends give up at the same count. *)
TypeOK ==
    /\ network \in {"tcp", "udp"} /\ samePsk \in BOOLEAN
    /\ keepAlive \in Nat /\ maxPadding \in 0 .. MaxUint8
    /\ pc \in [Roles -> {"start", "wait", "bind", "done", "failed", "crashed"}]
    /\ hello \in 0 .. 4 /\ attempts \in [Roles -> 0 .. 4] /\ expired \in 0 .. 4
    /\ \A r \in Roles : \A i \in DOMAIN wire[r] : wire[r][i] \in Record
    /\ closed \subseteq Roles
    /\ agreed \in [Roles -> 0 .. 4] /\ params \in [Roles -> Parameters]
    /\ disturbances \in 0 .. MaxDisturbances /\ repeated \in BOOLEAN /\ hungUp \in BOOLEAN

Init ==
    /\ network \in {"tcp", "udp"} /\ samePsk \in BOOLEAN
    /\ keepAlive \in KeepAlives /\ maxPadding \in Paddings
    /\ pc = [r \in Roles |-> IF r = "client" THEN "start" ELSE "wait"]
    /\ hello = 0 /\ attempts = [r \in Roles |-> 0] /\ expired = 0
    /\ wire = [r \in Roles |-> <<>>] /\ closed = {}
    /\ agreed = [r \in Roles |-> 0]
    /\ params = [r \in Roles |-> [keepAlive |-> 0, maxPadding |-> 0]]
    /\ disturbances = 0 /\ repeated = FALSE /\ hungUp = FALSE

-----------------------------------------------------------------------------

(* A role reads the first record on its way and writes ms in answer. *)
Exchange(r, read, ms) ==
    wire' = [wire EXCEPT ![r] = IF read THEN Tail(@) ELSE @, ![Other(r)] = @ \o ms]

\* mutant: the connection is not closed
FailLeavesOpen(r) ==
    /\ pc' = [pc EXCEPT ![r] = "failed"]
    /\ UNCHANGED <<closed, hello, expired, agreed, params, history, options>>

(* An error: the caller (runClient, runServer's goroutine) closes the connection. *)
Fail(r) ==
    /\ pc' = [pc EXCEPT ![r] = "failed"] /\ closed' = closed \cup {r}
    /\ UNCHANGED <<hello, expired, agreed, params, history, options>>

Hello(cookie) == [type |-> "hello", n |-> hello', cookie |-> cookie]

SendHello ==
    /\ pc["client"] = "start" /\ "client" \notin closed
    /\ pc' = [pc EXCEPT !["client"] = "wait"] /\ hello' = 1
    /\ Exchange("client", FALSE, <<Hello(0)>>)
    /\ UNCHANGED <<attempts, expired, closed, agreed, params, history, options>>

\* mutant: off by one
TooManyOffByOne(n) == n > 4
TooMany(n) == n > 3

\* mutant: the cookie is not sent back
NextHelloForgetful(m) == Hello(0)
NextHello(m) == Hello(m.cookie)

Reads(r) == pc[r] = "wait" /\ r \notin closed /\ wire[r] # <<>>

(* A cookie: the client starts its transcript again with a new hello. *)
ClientGetsCookie ==
    LET m == Head(wire["client"])
    IN  /\ Reads("client") /\ m.type = "cookie"
        /\ attempts' = [attempts EXCEPT !["client"] = @ + 1]
        /\ \/ /\ TooMany(attempts'["client"])
              /\ Exchange("client", TRUE, <<>>) /\ Fail("client")
           \/ /\ ~ TooMany(attempts'["client"])
              /\ hello' = hello + 1 /\ Exchange("client", TRUE, <<NextHello(m)>>)
              /\ UNCHANGED <<pc, expired, closed, agreed, params, history, options>>

(* InstallSession, for both roles: an interval of zero falls back to 15 s. *)
Install(r, transcript, interval, padding) ==
    /\ pc' = [pc EXCEPT ![r] = "bind"]
    /\ agreed' = [agreed EXCEPT ![r] = transcript]
    /\ params' = [params EXCEPT ![r] =
         [keepAlive |-> IF interval = 0 THEN 15000 ELSE interval, maxPadding |-> padding]]

\* mutant: the transcript is not reset
FirstTranscript == 1
ClientTranscript == hello

\* mutant: the MAC is not checked
VerifiedAlways == TRUE
Verified == samePsk

ClientGetsServerHello ==
    LET m == Head(wire["client"])
    IN  /\ Reads("client") /\ m.type = "serverHello" /\ Verified
        /\ Install("client", ClientTranscript, m.keepAlive, m.maxPadding)
        /\ Exchange("client", TRUE, <<>>)
        /\ UNCHANGED <<hello, attempts, expired, closed, history, options>>

(* A record of another type, or with a MAC that does not verify. *)
Expected(m, r) ==
    IF r = "server" THEN m.type = "hello" /\ Verified
    ELSE m.type = "cookie" \/ (m.type = "serverHello" /\ Verified)

Refuse(r) ==
    /\ Reads(r) /\ ~ Expected(Head(wire[r]), r)
    /\ Exchange(r, TRUE, <<>>) /\ Fail(r)
    /\ UNCHANGED attempts

(* A hello without a cookie, or with one whose TTL has passed, is answered with
   a new cookie; verifyCookie needs no state but the time. *)
Fresh(m) == m.cookie > expired

ServerSendsCookie ==
    LET m == Head(wire["server"])
    IN  /\ Reads("server") /\ Expected(m, "server") /\ ~ Fresh(m)
        /\ attempts' = [attempts EXCEPT !["server"] = @ + 1]
        /\ Exchange("server", TRUE,
                    <<[type |-> "cookie", cookie |-> attempts'["server"]]>>)
        /\ IF TooMany(attempts'["server"]) THEN Fail("server")
           ELSE UNCHANGED <<pc, hello, expired, closed, agreed, params, history, options>>

(* randomPadding divides by uint8(max + 1). *)
PaddingDivisor(max) == (max + 1) % (MaxUint8 + 1)

\* mutant: the unit is confused
MillisecondsInSeconds(interval) == (interval \div 1000) % (MaxUint16 + 1)
Milliseconds(interval) == interval % (MaxUint16 + 1)

ServerHelloRecord ==
    [type |-> "serverHello", keepAlive |-> Milliseconds(keepAlive), maxPadding |-> maxPadding]
\* mutant: the answer is sent twice
ServerHelloTwice == <<ServerHelloRecord, ServerHelloRecord>>
ServerHello == <<ServerHelloRecord>>

ServerSendsHello ==
    LET m == Head(wire["server"])
    IN  /\ Reads("server") /\ Expected(m, "server") /\ Fresh(m)
        /\ PaddingDivisor(maxPadding) # 0
        /\ Install("server", m.n, keepAlive, maxPadding)
        /\ Exchange("server", TRUE, ServerHello)
        /\ UNCHANGED <<hello, attempts, expired, closed, history, options>>

(* The division by zero ends the process, and with it the connection. *)
ServerPanics ==
    LET m == Head(wire["server"])
    IN  /\ Reads("server") /\ Expected(m, "server") /\ Fresh(m)
        /\ PaddingDivisor(maxPadding) = 0
        /\ pc' = [pc EXCEPT !["server"] = "crashed"] /\ closed' = closed \cup {"server"}
        /\ Exchange("server", TRUE, <<>>)
        /\ UNCHANGED <<hello, attempts, expired, agreed, params, history, options>>

(* SendBind, the first frame of the tunnel; that it fails is only logged. *)
SendBind(r) ==
    /\ pc[r] = "bind"
    /\ pc' = [pc EXCEPT ![r] = "done"]
    /\ Exchange(r, FALSE, IF r \in closed THEN <<>> ELSE <<[type |-> "bind"]>>)
    /\ UNCHANGED <<hello, attempts, expired, closed, agreed, params, history, options>>

-----------------------------------------------------------------------------

(* A server told to stop, or a client that is killed, closes its end. *)
Hangup(r) ==
    /\ ~ hungUp /\ hungUp' = TRUE
    /\ closed' = closed \cup {r}
    /\ UNCHANGED <<pc, hello, attempts, expired, wire, agreed, params, disturbances, repeated,
                   options>>

(* readRecord fails on an end that is closed, and so does the client's first
   write; TCP also tells the end that reads of the other's close. *)
Hears(r) == IF network = "tcp" THEN Roles ELSE {r}

ReadFails(r) ==
    /\ \/ pc[r] = "wait" /\ closed \cap Hears(r) # {}
       \/ pc[r] = "start" /\ r \in closed
    /\ Fail(r) /\ UNCHANGED <<attempts, wire>>

Expire ==
    /\ expired < attempts["server"] /\ expired' = expired + 1
    /\ UNCHANGED <<pc, hello, attempts, wire, closed, agreed, params, history, options>>

(* UDP loses a record, cuts one of its two datagrams off, or repeats it at any
   later time. *)
Disturb(r) ==
    /\ network = "udp" /\ disturbances < MaxDisturbances
    /\ disturbances' = disturbances + 1
    /\ \E i \in DOMAIN wire[r] :
         \/ wire' = [wire EXCEPT ![r] = RemoveAt(@, i)] /\ UNCHANGED repeated
         \/ wire' = [wire EXCEPT ![r][i] = [type |-> "junk"]] /\ UNCHANGED repeated
         \/ wire' = [wire EXCEPT ![r] = Append(@, @[i])] /\ repeated' = TRUE
    /\ UNCHANGED <<pc, hello, attempts, expired, closed, agreed, params, hungUp, options>>

Client == \/ SendHello \/ ClientGetsCookie \/ ClientGetsServerHello
          \/ Refuse("client") \/ SendBind("client") \/ ReadFails("client")

Server == \/ ServerSendsCookie \/ ServerSendsHello \/ ServerPanics
          \/ Refuse("server") \/ SendBind("server") \/ ReadFails("server")

Next == Client \/ Server \/ Expire \/ \E r \in Roles : Hangup(r) \/ Disturb(r)

Spec == Init /\ [][Next]_vars

(* Each end runs in a goroutine that goes on when it can. *)
FairSpec == Spec /\ WF_vars(Client) /\ WF_vars(Server)

-----------------------------------------------------------------------------

Installed(r) == agreed[r] # 0

(* Unless the network repeats a record, two ends that both install a session
   derive it from the same transcript, however many hellos and cookies crossed
   and whatever was lost.  (A repeated hello can make the server answer another
   hello than the client's last, under a MAC that still verifies.) *)
Agreement ==
    Installed("client") /\ Installed("server") /\ ~ repeated =>
        agreed["client"] = agreed["server"]

(* docs/protocol.md:20-21, "authenticate via the pre-shared secret": no end
   installs a session with an end that has another key, and the client none
   that the server has not installed before it. *)
Authenticated ==
    /\ ~ samePsk => \A r \in Roles : ~ Installed(r)
    /\ Installed("client") => Installed("server")

(* On TCP a handshake between ends with the same key fails only if someone hung
   up, the server crashed, or three cookies in a row outlived their TTL. *)
FailsOnlyForCause ==
    /\ network = "tcp" /\ samePsk
    /\ \E r \in Roles : pc[r] = "failed"
    => expired >= 3 \/ hungUp \/ pc["server"] = "crashed"

(* On TCP, an end that installed a session has read all of the handshake and
   nothing of the tunnel: what is still on its way to it starts with a frame. *)
CleanHandover ==
    network = "tcp" =>
        \A r \in Roles : Installed(r) =>
            \A i \in DOMAIN wire[r] : wire[r][i].type = "bind"

(* The client installs the server's padding limit and an interval at which it
   sends keepalives at least as often as the server: the same one, unless the
   16 bits of the message cut it. *)
ParametersAgree ==
    Installed("client") =>
        /\ params["client"].maxPadding = params["server"].maxPadding
        /\ params["client"].keepAlive <= params["server"].keepAlive
        /\ keepAlive < 65536 => params["client"] = params["server"]

(* A server survives every handshake, whatever limit its configuration sets:
   config/simple.go:179 makes 255 the default. *)
NeverPanics == pc["server"] # "crashed"

(* On TCP the handshake ends at both ends.  (On UDP a lost record leaves both
   waiting: readRecord sets no deadline and nothing is sent again.) *)
HandshakeEnds == network = "tcp" ~> \A r \in Roles : Ended(r)
=============================================================================
