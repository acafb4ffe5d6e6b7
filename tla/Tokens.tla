-------------------------------- MODULE Tokens --------------------------------
(***************************************************************************)
(* Authenticator (auth/auth.go): one user, the tokens of its logins, and   *)
(* the administrator who disables it or changes its password meanwhile.    *)
(* Authenticate and ValidateToken leave the lock between their steps.      *)
(***************************************************************************)
EXTENDS Naturals, FiniteSets

CONSTANTS
    Callers,         \* goroutines
    MaxTokens,       \* bound: tokens made
    tokenDuration,
    MaxTime,         \* bound: the clock
    MaxVersion       \* bound: passwords set

VARIABLES
    now,
    added,       \* the user exists
    enabled,
    version,     \* the password's number
    made,        \* tokens generated: token -> ExpiresAt
    tokens,      \* those in the table
    revoked,     \* history: those RevokeToken removed
    caller,      \* [Callers -> [phase, given, token, enabled, right]]
    issuedBad    \* history: tokens issued to a login that was never right

vars == <<now, added, enabled, version, made, tokens, revoked, caller, issuedBad>>

\* enabled, right: history, the account was enabled and the password the user's at
\* a moment since the login began; token holds the salt's number while it is hashed
Idle == [phase |-> "idle", given |-> 0, token |-> 0, enabled |-> FALSE, right |-> FALSE]
Made == DOMAIN made

TypeOK ==
    /\ now \in 0 .. MaxTime /\ added \in BOOLEAN /\ enabled \in BOOLEAN
    /\ version \in 1 .. MaxVersion
    /\ Made \subseteq 1 .. MaxTokens /\ tokens \subseteq Made /\ revoked \subseteq Made
    /\ tokens \cap revoked = {}
    /\ \A c \in Callers :
         /\ caller[c].phase \in {"idle", "found", "hashed", "granted", "looked", "expired"}
         /\ caller[c].given \in 0 .. MaxVersion
         /\ caller[c].token \in (0 .. MaxTokens) \cup (1 .. MaxVersion)
         /\ caller[c].right \in BOOLEAN /\ caller[c].enabled \in BOOLEAN
    /\ issuedBad \subseteq Made

Init ==
    /\ now = 0 /\ added = FALSE /\ enabled = FALSE /\ version = 1
    /\ made = <<>> /\ tokens = {} /\ revoked = {} /\ issuedBad = {}
    /\ caller = [c \in Callers |-> Idle]

AddUser ==
    /\ ~ added /\ added' = TRUE /\ enabled' = TRUE
    /\ UNCHANGED <<now, version, made, tokens, revoked, caller, issuedBad>>

(* What the logins under way have seen of the account. *)
Watched(v, e) ==
    [c \in Callers |->
       IF caller[c].phase \in {"found", "hashed"}
       THEN [caller[c] EXCEPT !.right = @ \/ caller[c].given = v, !.enabled = @ \/ e]
       ELSE caller[c]]

DisableUser ==
    /\ added /\ enabled /\ enabled' = FALSE
    /\ UNCHANGED <<now, added, version, made, tokens, revoked, caller, issuedBad>>

EnableUser ==
    /\ added /\ ~ enabled /\ enabled' = TRUE /\ caller' = Watched(version, TRUE)
    /\ UNCHANGED <<now, added, version, made, tokens, revoked, issuedBad>>

ChangePassword ==
    /\ added /\ version < MaxVersion /\ version' = version + 1
    /\ caller' = Watched(version', enabled)
    /\ UNCHANGED <<now, added, enabled, made, tokens, revoked, issuedBad>>

-----------------------------------------------------------------------------
(* Authenticate: the account is found enabled, the password is hashed and
   compared, the token is stored. *)

Find == added /\ enabled

BeginLogin(c, v) ==
    /\ caller[c].phase = "idle" /\ Find
    /\ caller' = [caller EXCEPT ![c] = [phase |-> "found", given |-> v, token |-> 0,
                                        enabled |-> enabled, right |-> v = version]]
    /\ UNCHANGED <<now, added, enabled, version, made, tokens, revoked, issuedBad>>

(* The salt is read before the hash it belongs to: a change of the password in
   between, or a login between the change's two assignments, refuses old and new
   alike. *)
ReadSalt(c) ==
    /\ caller[c].phase = "found"
    /\ caller' = [caller EXCEPT ![c].phase = "hashed", ![c].token = version]
    /\ UNCHANGED <<now, added, enabled, version, made, tokens, revoked, issuedBad>>

Compare(c) ==
    /\ caller[c].phase = "hashed"
    /\ caller' = IF caller[c].given = version /\ caller[c].token = version
                 THEN [caller EXCEPT ![c].phase = "granted"] ELSE [caller EXCEPT ![c] = Idle]
    /\ UNCHANGED <<now, added, enabled, version, made, tokens, revoked, issuedBad>>

StoreToken(c) ==
    LET token == Cardinality(Made) + 1
    IN  /\ caller[c].phase = "granted" /\ token <= MaxTokens
        /\ made' = [t \in Made \cup {token} |-> IF t = token THEN now + tokenDuration ELSE made[t]]
        /\ tokens' = tokens \cup {token}
        /\ issuedBad' = IF caller[c].right /\ caller[c].enabled THEN issuedBad ELSE issuedBad \cup {token}
        /\ caller' = [caller EXCEPT ![c] = Idle]
        /\ UNCHANGED <<now, added, enabled, version, revoked>>

-----------------------------------------------------------------------------
(* ValidateToken: looked up with the read lock, deleted with the write lock when
   it has expired. *)

Lookup(c, t) ==
    /\ caller[c].phase = "idle" /\ t \in tokens
    /\ caller' = [caller EXCEPT ![c].phase = IF now > made[t] THEN "expired" ELSE "looked",
                                ![c].token = t]
    /\ UNCHANGED <<now, added, enabled, version, made, tokens, revoked, issuedBad>>

Deletes(t) == tokens \ {t}

DeleteExpired(c) ==
    /\ caller[c].phase = "expired"
    /\ tokens' = Deletes(caller[c].token) /\ caller' = [caller EXCEPT ![c] = Idle]
    /\ UNCHANGED <<now, added, enabled, version, made, revoked, issuedBad>>

(* The caller uses what was valid when it was looked up. *)
Valid(c) ==
    /\ caller[c].phase = "looked" /\ caller' = [caller EXCEPT ![c] = Idle]
    /\ UNCHANGED <<now, added, enabled, version, made, tokens, revoked, issuedBad>>

RevokeToken(t) ==
    /\ t \in tokens /\ tokens' = tokens \ {t} /\ revoked' = revoked \cup {t}
    /\ UNCHANGED <<now, added, enabled, version, made, caller, issuedBad>>

CleanupExpiredTokens ==
    /\ tokens' = {t \in tokens : now <= made[t]} /\ tokens' # tokens
    /\ UNCHANGED <<now, added, enabled, version, made, revoked, caller, issuedBad>>

Tick ==
    /\ now < MaxTime /\ now' = now + 1
    /\ UNCHANGED <<added, enabled, version, made, tokens, revoked, caller, issuedBad>>

Next ==
    \/ AddUser \/ DisableUser \/ EnableUser \/ ChangePassword
    \/ \E c \in Callers :
         \/ \E v \in 1 .. MaxVersion : BeginLogin(c, v)
         \/ ReadSalt(c) \/ Compare(c) \/ StoreToken(c) \/ DeleteExpired(c) \/ Valid(c)
         \/ \E t \in tokens : Lookup(c, t)
    \/ \E t \in tokens : RevokeToken(t)
    \/ CleanupExpiredTokens \/ Tick

Spec == Init /\ [][Next]_vars

-----------------------------------------------------------------------------

(* Every token was issued to a login whose password was the user's, and for an
   account that was enabled, each at a moment of the login: not the same moment,
   since nothing holds the lock from the lookup to the grant (auth.go:142-178). *)
IssuedForCause == issuedBad = {}

(* A token leaves the table only when it was revoked or has expired, whatever the
   callers that looked it up do later, and no revoked one comes back. *)
TokensLastUntilExpiry ==
    /\ \A t \in Made \ (tokens \cup revoked) : now > made[t]
    /\ \A t \in revoked : t \notin tokens
=============================================================================
