-------------------------- MODULE ConnectionLimiter --------------------------
(***************************************************************************)
(* ratelimit.ConnectionLimiter (internal/ratelimit/ratelimit.go): the      *)
(* admission control of the server, a cap on concurrent connections and a  *)
(* token bucket.  Each method holds cl.mu from start to end, so each is    *)
(* one step.  Time is abstracted: a token may arrive at any moment.        *)
(***************************************************************************)
EXTENDS Naturals

VARIABLES
    maxConnections, currentCount,
    burst, tokens       \* whole tokens: Allow never spends less than one

limiterVars == <<maxConnections, currentCount, burst, tokens>>

LimiterTypeOK ==
    /\ maxConnections \in Nat /\ currentCount \in Nat
    /\ burst \in Nat /\ tokens \in 0 .. burst

(* NewConnectionLimiter: the bucket starts full. *)
LimiterInit(limits) ==
    /\ maxConnections = limits.max /\ currentCount = 0
    /\ burst = limits.burst /\ tokens = limits.burst

Smaller(m, n) == IF m < n THEN m ELSE n

(* The refill at the head of Allow, whenever time has earned a token. *)
Refill ==
    /\ tokens < burst
    /\ tokens' = tokens + 1
    /\ UNCHANGED <<maxConnections, currentCount, burst>>

CanAllow == currentCount < maxConnections /\ tokens >= 1

Allow ==
    /\ CanAllow
    /\ tokens' = tokens - 1 /\ currentCount' = currentCount + 1
    /\ UNCHANGED <<maxConnections, burst>>

\* mutant: a slot is released twice
ReleaseTwice ==
    /\ currentCount' = IF currentCount > 1 THEN currentCount - 2 ELSE 0
    /\ UNCHANGED <<maxConnections, burst, tokens>>
Release ==
    /\ currentCount' = IF currentCount > 0 THEN currentCount - 1 ELSE 0
    /\ UNCHANGED <<maxConnections, burst, tokens>>

\* mutant: the bucket is not cut to the new burst
UpdateKeepsTokens(limits) ==
    /\ maxConnections' = IF limits.max > 0 THEN limits.max ELSE maxConnections
    /\ burst' = IF limits.burst > 0 THEN limits.burst ELSE burst
    /\ currentCount' = Smaller(currentCount, maxConnections') /\ UNCHANGED tokens
(* A zero keeps the old limit.  The count is cut down to the new maximum,
   although the sessions it counted go on. *)
Update(limits) ==
    /\ maxConnections' = IF limits.max > 0 THEN limits.max ELSE maxConnections
    /\ burst' = IF limits.burst > 0 THEN limits.burst ELSE burst
    /\ tokens' = Smaller(tokens, burst')
    /\ currentCount' = Smaller(currentCount, maxConnections')
=============================================================================
