-------------------------------- MODULE Rekey --------------------------------
(***************************************************************************)
(* NewRekeyRequest and ProcessRekey (crypto/rekey.go) as pure operators.   *)
(* Module Device calls them as device.Device does.                         *)
(*                                                                         *)
(* A rekey derives the next keys from the current ones and from the nonce  *)
(* and ephemeral key that each of the two messages carries.  One number    *)
(* stands for a nonce and its ephemeral key; two ends hold the same keys   *)
(* iff they derived them from the same ancestor and the same two numbers.  *)
(***************************************************************************)
EXTENDS Naturals, Sequences

NoRekey == 0          \* pendingRekey = nil; nonces are positive

Established == [epoch |-> 1, nonces |-> <<>>]     \* the handshake's secrets

Request(nonce) == [flag |-> "request", nonce |-> nonce]
Response(nonce) == [flag |-> "response", nonce |-> nonce]

deriveRekeySecrets(current, initiator, responder) ==
    [epoch |-> current.epoch + 1, nonces |-> Append(current.nonces, <<initiator, responder>>)]

(* A response is accepted whenever a request is pending: it does not say which
   request it answers.  A request is always answered, with an error value that
   says so; fresh is the nonce the answer would use. *)
ProcessRekey(current, message, pending, fresh) ==
    IF message.flag = "response"
    THEN IF pending = NoRekey
         THEN [secrets |-> current, response |-> <<>>, err |-> "unexpected"]
         ELSE [secrets |-> deriveRekeySecrets(current, pending, message.nonce),
               response |-> <<>>, err |-> "none"]
    ELSE [secrets |-> deriveRekeySecrets(current, message.nonce, fresh),
          response |-> <<Response(fresh)>>, err |-> "responseRequired"]
=============================================================================
