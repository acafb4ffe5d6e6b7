-------------------------------- MODULE Noise --------------------------------
(***************************************************************************)
(* The Noise IKpsk2 handshake (crypto/noise.go): one client that may try   *)
(* again on the connection it has, and a server that answers every first   *)
(* message it reads.  Cryptography is symbolic: a chaining key or a hash   *)
(* is the list of what was mixed into it, and a ciphertext opens only      *)
(* under the symmetric state it was sealed with.  The network may lose,    *)
(* repeat and reorder whole records.                                       *)
(***************************************************************************)
EXTENDS Naturals, Sequences

CONSTANTS
    SuiteLists,    \* the preference lists an end may be configured with
    KeepAlives,    \* the server's keepalive intervals, in milliseconds
    Paddings,      \* the padding limits, a byte
    MaxAttempts,   \* bound: handshakes the client starts
    MaxReplies     \* bound: first messages the server answers

VARIABLES
    options,    \* what both ends were configured with
    network,    \* the records written so far: any may be read, once or again
    client,     \* client[k]: its attempt k
    server,     \* the results of the server's handshakes, one per answer
    excused     \* history: attempts whose conn.Read failed, or returned the answer
                \* to another attempt

vars == <<options, network, client, server, excused>>

noiseVersion == 2
Versions == 1 .. noiseVersion + 1
Suites == {"chacha20", "aes256", "xchacha20"}
Range16 == 65536   \* the interval travels as a uint16, in milliseconds

(* Public keys: an end's static key has number 0, its ephemeral keys 1, 2 ... *)
Static(end) == <<end, 0>>
Ephemeral(end, n) == <<end, n>>
DH(a, b) == {a, b}
ClientPsk == <<"psk", 1>>
ServerPsk == <<"psk", IF options.samePsk THEN 1 ELSE 2>>
RemoteStatic == IF options.knowsServer THEN Static("server") ELSE Static("another")

(* client and server hold results whose keys are symbolic states; only the
   rest of their type is worth stating. *)
TypeOK ==
    /\ options \in [samePsk : BOOLEAN, knowsServer : BOOLEAN, minVersion : Versions,
                    suites : SuiteLists, supported : SuiteLists,
                    keepAlive : KeepAlives, maxPadding : Paddings]
    /\ DOMAIN client = 1 .. Len(client) /\ Len(client) <= MaxAttempts
    /\ \A k \in DOMAIN client :
         /\ client[k].phase \in {"waiting", "failed", "crashed", "done"}
         /\ client[k].phase = "done" => /\ client[k].result.suite \in Suites
                                        /\ client[k].result.keepAlive \in 0 .. Range16 - 1
    /\ Len(server) <= MaxReplies
    /\ \A n \in DOMAIN server : server[n].suite \in Suites
    /\ excused \subseteq DOMAIN client

Init ==
    /\ options \in [samePsk : BOOLEAN, knowsServer : BOOLEAN, minVersion : Versions,
                    suites : SuiteLists, supported : SuiteLists,
                    keepAlive : KeepAlives, maxPadding : Paddings]
    /\ network = {} /\ client = <<>> /\ server = <<>> /\ excused = {}

-----------------------------------------------------------------------------
(* The symmetric state: initializeSymmetric, mixHash, mixKey, mixKeyAndHash,
   encryptAndHash and decryptAndHash. *)
Symmetric == [chain |-> <<>>, hash |-> <<>>]
MixHash(hs, data) == [hs EXCEPT !.hash = Append(@, data)]
MixKey(hs, secret) == [hs EXCEPT !.chain = Append(@, secret)]
MixKeyAndHash(hs, psk) == MixKey(MixHash(hs, psk), psk)
Encrypt(hs, plaintext) == [under |-> hs, plaintext |-> plaintext]
Decrypts(hs, ciphertext) == ciphertext.under = hs

(* splitKeys: the client's first key is the server's second. *)
SplitKeys(hs, role) ==
    IF role = "client" THEN [send |-> <<hs, 1>>, receive |-> <<hs, 2>>]
    ELSE [send |-> <<hs, 2>>, receive |-> <<hs, 1>>]

(* The state in which the first message's static key is sealed: the server's
   static key, e, es and the PSK. *)
BeforeStatic(responder, e, psk) ==
    MixKeyAndHash(MixKey(MixHash(MixHash(Symmetric, responder), e), DH(e, responder)), psk)

(* ... and after it, and after ss. *)
AfterMessage1(responder, e, psk, static) ==
    LET hs == BeforeStatic(responder, e, psk)
    IN  MixKey(MixHash(hs, Encrypt(hs, static)), DH(static, responder))

(* e, ee, se and the PSK again: the state in which the parameters are sealed. *)
BeforeParams(hs, e, static, re, psk) ==
    MixKeyAndHash(MixKey(MixKey(MixHash(hs, re), DH(e, re)), DH(static, re)), psk)

AfterMessage2(hs, params) == MixHash(hs, Encrypt(hs, params))

(* The first suite of the list that is among the others, or the one both fall
   back to, whether or not they support it. *)
FirstMatch(list, others) ==
    LET common == {i \in DOMAIN list : \E j \in DOMAIN others : others[j] = list[i]}
    IN  IF common = {} THEN "chacha20"
        ELSE list[CHOOSE i \in common : \A j \in common : i <= j]

-----------------------------------------------------------------------------
Attempt(k) == [n |-> k, phase |-> "waiting", result |-> [suite |-> "none"]]

(* randomPadding divides by uint8(max + 1): an end with the limit 255 panics. *)
Divides(max) == max = 0 \/ (max + 1) % 256 # 0

(* The first message; the client then waits in readRecord. *)
Initiate ==
    LET k == Len(client) + 1
        e == Ephemeral("client", k)
        hs == BeforeStatic(RemoteStatic, e, ClientPsk)
    IN  /\ k <= MaxAttempts /\ \A i \in DOMAIN client : client[i].phase = "failed"
        /\ IF Divides(options.maxPadding)
           THEN /\ client' = Append(client, Attempt(k))
                /\ network' = network \cup
                     {[type |-> "initiation", minVersion |-> options.minVersion, session |-> k,
                       suites |-> options.suites, e |-> e, static |-> Encrypt(hs, Static("client"))]}
           ELSE /\ client' = Append(client, [Attempt(k) EXCEPT !.phase = "crashed"])
                /\ UNCHANGED network
        /\ UNCHANGED <<options, server, excused>>

(* Whatever conn.Read fails with, a deadline of the caller's or a broken
   connection, ends the attempt. *)
ReadFails ==
    /\ client # <<>> /\ client[Len(client)].phase = "waiting"
    /\ client' = [client EXCEPT ![Len(client)].phase = "failed"]
    /\ excused' = excused \cup {Len(client)}
    /\ UNCHANGED <<options, network, server>>

(* The server's refusals: a version it does not speak (its own minimum is
   never looked at) and a static key that does not open. *)
Readable(m) == /\ m.minVersion <= noiseVersion
               /\ Decrypts(BeforeStatic(Static("server"), m.e, ServerPsk), m.static)

Params == [keepAlive |-> IF options.keepAlive = 0 THEN 15000 ELSE options.keepAlive]

(* The server reads a first message and answers it; an error is a return
   without an answer, and changes nothing. *)
Respond(m) ==
    LET n == Len(server) + 1
        re == Ephemeral("server", n)
        hs == BeforeParams(AfterMessage1(Static("server"), m.e, ServerPsk, m.static.plaintext),
                           m.e, m.static.plaintext, re, ServerPsk)
        suite == FirstMatch(m.suites, options.supported)
    IN  /\ m.type = "initiation" /\ n <= MaxReplies /\ Readable(m)
        /\ network' = network \cup
             {[type |-> "response", to |-> m.session, version |-> noiseVersion, suite |-> suite,
               e |-> re, params |-> Encrypt(hs, [keepAlive |-> Params.keepAlive % Range16])]}
        /\ server' = Append(server,
             [session |-> m.session, peer |-> m.static.plaintext, suite |-> suite,
              version |-> noiseVersion, keepAlive |-> Params.keepAlive,
              keys |-> SplitKeys(AfterMessage2(hs, [keepAlive |-> Params.keepAlive % Range16]),
                                 "server")])
        /\ UNCHANGED <<options, client, excused>>

(* The client reads an answer. *)
Finish(m) ==
    LET k == Len(client)
        e == Ephemeral("client", k)
        hs == BeforeParams(AfterMessage1(RemoteStatic, e, ClientPsk, Static("client")),
                           e, Static("client"), m.e, ClientPsk)
    IN  /\ m.type = "response" /\ k > 0 /\ client[k].phase = "waiting"
        /\ excused' = IF m.to = k THEN excused ELSE excused \cup {k}
        /\ client' = [client EXCEPT ![k] =
             IF m.version >= options.minVersion /\ Decrypts(hs, m.params)
             THEN [n |-> k, phase |-> "done",
                   result |-> [suite |-> FirstMatch(<<m.suite>>, options.suites),
                               version |-> m.version, peer |-> RemoteStatic,
                               keepAlive |-> m.params.plaintext.keepAlive,
                               keys |-> SplitKeys(AfterMessage2(hs, m.params.plaintext), "client")]]
             ELSE [@ EXCEPT !.phase = "failed"]]
        /\ UNCHANGED <<options, network, server>>

Next ==
    \/ Initiate \/ ReadFails
    \/ \E m \in network : Respond(m) \/ Finish(m)

Spec == Init /\ [][Next]_vars

-----------------------------------------------------------------------------
(* A client that is done shares both keys, the suite and the version with
   exactly one of the server's handshakes, the one that answered this attempt
   and took the client for its peer - whatever other answers were on the
   network, and with different lists of suites. *)
KeysShared ==
    \A k \in {i \in DOMAIN client : client[i].phase = "done"} :
        LET mine == client[k].result
            peers == {n \in DOMAIN server : /\ server[n].keys.send = mine.keys.receive
                                            /\ server[n].keys.receive = mine.keys.send}
        IN  /\ mine.peer = Static("server")
            /\ \E n \in peers : /\ peers = {n} /\ server[n].session = k
                                /\ server[n].peer = Static("client")
                                /\ server[n].suite = mine.suite
                                /\ server[n].version = mine.version

(* A client that got an answer to its own attempt does not fail: whoever could
   read its first message seals parameters it can open. *)
FailsForCause ==
    \A k \in DOMAIN client : client[k].phase = "failed" => k \in excused
=============================================================================
