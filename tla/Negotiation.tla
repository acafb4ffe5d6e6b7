----------------------------- MODULE Negotiation -----------------------------
(***************************************************************************)
(* Negotiation of version, cipher suite and features (crypto/              *)
(* negotiation.go): CreateOffer and ProcessResponse of a client,           *)
(* ProcessOffer of a server.  A message may be lost, repeated or late; a   *)
(* NegotiationState keeps its transcript from one call to the next.  The   *)
(* encodings lose nothing, so a message is its record, and the proof of    *)
(* the response is a MAC over everything it is computed from.              *)
(***************************************************************************)
EXTENDS Naturals, Sequences, FiniteSets, FiniteSetsExt

CONSTANT MaxCalls       \* bound: messages in one transcript

VARIABLES
    config,     \* config[e]: the NegotiationConfig of the end e
    state,      \* state[e]: its NegotiationState
    messages,   \* what was sent; any of it may arrive, once or again
    outcome     \* outcome[e]: how e's last Process call returned

vars == <<config, state, messages, outcome>>

Ends == {"client", "server"}
Versions == {1, 2}      \* ProtocolVersionLegacy, ProtocolVersionNoise
Profiles == {"legacy", "balanced", "strict", "paranoid"}
Features == {"pfs", "antiReplay", "obfuscation", "rekeying", "compression", "doubleRatchet"}
Critical == {"pfs", "antiReplay", "obfuscation"}

GetSecurityProfile(profile) ==
    [min |-> IF profile = "legacy" THEN 1 ELSE 2, max |-> 2,
     suites |-> CASE profile = "legacy" -> <<"chacha20">>
                  [] profile = "balanced" -> <<"chacha20", "aes256">>
                  [] profile = "strict" -> <<"xchacha20", "chacha20">>
                  [] profile = "paranoid" -> <<"xchacha20">>,
     require |-> CASE profile = "legacy" -> {}
                   [] profile = "balanced" -> {"pfs", "antiReplay"}
                   [] OTHER -> Critical,
     protection |-> profile # "legacy", key |-> 1]

Nothing == [version |-> 0, suite |-> "none", features |-> {}]

TypeOK ==
    /\ \A e \in Ends : /\ config[e].max \in Versions /\ config[e].require \subseteq Critical
                       /\ Len(state[e].transcript) <= MaxCalls
                       /\ state[e].agreed.version \in {0} \cup Versions
                       /\ state[e].agreed.features \subseteq Features
    /\ outcome \in [Ends -> {"none", "ok", "error"}]

(* Any profile, as it is or with the protection switched off; the signing key
   is not part of a profile. *)
Chosen(choice) == [GetSecurityProfile(choice.profile) EXCEPT !.protection = @ /\ choice.on,
                                                             !.key = choice.key]

Init ==
    /\ config \in [Ends -> {Chosen(choice) :
                              choice \in [profile : Profiles, on : BOOLEAN, key : {1, 2}]}]
    /\ config["client"].key = 1
    /\ state = [e \in Ends |-> [agreed |-> Nothing, transcript |-> <<>>]]
    /\ messages = {} /\ outcome = [e \in Ends |-> "none"]

-----------------------------------------------------------------------------
getOfferedFeatures(e) == config[e].require \cup {"rekeying", "doubleRatchet"}

negotiateFeatures(e, offered) ==
    (getOfferedFeatures(e) \cup (offered \cap {"compression"})) \cap offered

validateRequiredFeatures(e, features) == config[e].require \subseteq features

computeDowngradeProof(e, transcript, agreed) ==
    {[key |-> config[e].key, transcript |-> transcript, agreed |-> agreed]}

(* The first suite of this end's list that the offer has. *)
Matches(e, offer) == {i \in DOMAIN config[e].suites :
                        \E j \in DOMAIN offer.suites : offer.suites[j] = config[e].suites[i]}

Compatible(e, offer) == offer.max >= config[e].min /\ offer.min <= config[e].max

Lesser(a, b) == IF a < b THEN a ELSE b
Greater(a, b) == IF a < b THEN b ELSE a

AgreedVersion(e, offer) == Greater(Lesser(offer.max, config[e].max), config[e].min)

Agreed(e, offer) ==
    [version |-> AgreedVersion(e, offer),
     suite |-> config[e].suites[Min(Matches(e, offer))],
     features |-> negotiateFeatures(e, offer.features)]

Heard(e, m) == Append(state[e].transcript, m)
Room(e) == Len(state[e].transcript) < MaxCalls

-----------------------------------------------------------------------------
CreateOffer ==
    LET offer == [type |-> "offer", min |-> config["client"].min, max |-> config["client"].max,
                  suites |-> config["client"].suites, features |-> getOfferedFeatures("client")]
    IN  /\ Room("client")
        /\ state' = [state EXCEPT !["client"].transcript = Heard("client", offer)]
        /\ messages' = messages \cup {offer}
        /\ UNCHANGED <<config, outcome>>

(* An offer the server refuses stays in its transcript, and what it had
   agreed to before it refused stays agreed. *)
RefuseOffer(m) ==
    /\ m.type = "offer" /\ Room("server")
    /\ LET old == state["server"].agreed
           Leaves(agreed) == state' = [state EXCEPT !["server"] =
                               [agreed |-> agreed, transcript |-> Heard("server", m)]]
       IN  \/ ~ Compatible("server", m) /\ Leaves(old)
           \/ /\ Compatible("server", m) /\ Matches("server", m) = {}
              /\ Leaves([old EXCEPT !.version = AgreedVersion("server", m)])
           \/ /\ Compatible("server", m) /\ Matches("server", m) # {}
              /\ ~ validateRequiredFeatures("server", Agreed("server", m).features)
              /\ Leaves(Agreed("server", m))
    /\ outcome' = [outcome EXCEPT !["server"] = "error"]
    /\ UNCHANGED <<config, messages>>

(* The proof covers the transcript up to the offer, without the response. *)
ProcessOffer(m) ==
    /\ m.type = "offer" /\ Len(state["server"].transcript) + 1 < MaxCalls
    /\ Compatible("server", m) /\ Matches("server", m) # {}
    /\ LET agreed == Agreed("server", m)
           heard == Heard("server", m)
           response ==
             [type |-> "response", agreed |-> agreed,
              proof |-> IF config["server"].protection
                        THEN computeDowngradeProof("server", heard, agreed) ELSE {}]
       IN  /\ validateRequiredFeatures("server", agreed.features)
           /\ state' = [state EXCEPT !["server"] =
                          [agreed |-> agreed, transcript |-> Append(heard, response)]]
           /\ messages' = messages \cup {response}
    /\ outcome' = [outcome EXCEPT !["server"] = "ok"]
    /\ UNCHANGED config

(* The client appends the response to its transcript before it verifies the
   proof in it.  It takes the parameters over as it checks them; those of a
   server are in its range and from its list, so that what it refuses it has
   taken over in whole. *)
Verified(m) ==
    config["client"].protection =>
        m.proof = computeDowngradeProof("client", Heard("client", m), m.agreed)

Acceptable(m) ==
    /\ m.agreed.version \in config["client"].min .. config["client"].max
    /\ \E i \in DOMAIN config["client"].suites : config["client"].suites[i] = m.agreed.suite
    /\ validateRequiredFeatures("client", m.agreed.features)

ProcessResponse(m) ==
    /\ m.type = "response" /\ Room("client")
    /\ state' = [state EXCEPT !["client"] =
                   [agreed |-> m.agreed, transcript |-> Heard("client", m)]]
    /\ outcome' = [outcome EXCEPT !["client"] =
                     IF Acceptable(m) /\ Verified(m) THEN "ok" ELSE "error"]
    /\ UNCHANGED <<config, messages>>

Next ==
    \/ CreateOffer
    \/ \E m \in messages : RefuseOffer(m) \/ ProcessOffer(m) \/ ProcessResponse(m)

Spec == Init /\ [][Next]_vars

-----------------------------------------------------------------------------
(* A client that accepted and the server hold the same version, suite and
   features, and what either of them requires is among the features. *)
PartiesAgree ==
    outcome["client"] = "ok" =>
        /\ state["client"].agreed = state["server"].agreed
        /\ \A e \in Ends : /\ config[e].require \subseteq state["client"].agreed.features
                           /\ state["client"].agreed.version \in config[e].min .. config[e].max

(* A client without downgrade protection refuses what its server agreed to exactly if
   it requires a feature that the server does not offer, whatever was lost, repeated or
   late before. *)
RefusesForCause ==
    ~ config["client"].protection /\ outcome["client"] # "none" =>
        (outcome["client"] = "error" <=>
            ~ config["client"].require \subseteq getOfferedFeatures("server"))

(* PROTOCOL_IMPROVEMENTS.md:210-215: the transcript is ClientHello + ServerHello, and
   "client and server both verify the MAC, to make sure that the parameters were not
   tampered with": two ends with protection, one key and one transcript, of which the
   server offers what the client requires, come to an agreement. *)
ProtectionAccepts ==
    /\ \A e \in Ends : config[e].protection /\ config[e].key = 1
    /\ config["client"].require \subseteq getOfferedFeatures("server")
    /\ state["client"].transcript = state["server"].transcript
    => outcome["client"] # "error"
=============================================================================
