------------------------------ MODULE AntiReplay ------------------------------
(***************************************************************************)
(* The anti-replay filters (crypto/antireplay.go): simple counter, sliding *)
(* window, Bloom filter, timestamps with nonces, and window and timestamps *)
(* combined.  Several goroutines receive; Check and Accept are two calls,  *)
(* so that another receiver may come in between.                           *)
(***************************************************************************)
EXTENDS Naturals, FiniteSets

CONSTANTS
    Receivers,
    Modulus,         \* sequence numbers wrap here: 2^64
    WindowSize,      \* 64
    Width,           \* bits of windowBits: 64, whatever WindowSize says
    MaxAge,          \* 60 s, of both filters in the combination
    MaxClockSkew,    \* 5 s
    MaxTime, MaxPasses   \* bounds: the clock, the checks passed

VARIABLES
    mode,
    now,
    base,         \* windowBase, or lastSeq
    bits,         \* windowBits as offsets from base, or the Bloom filter's bits
    timestamps,   \* of the accepted numbers, window mode
    lastCleanup,  \* 0 is the zero time
    seenNonces,   \* nonce -> timestamp
    receiver,     \* what each receiver has checked and not yet accepted
    passes,       \* history: [number -> times it passed Check] since the last Reset
    excused       \* history: numbers that may pass again, and why

vars == <<mode, now, base, bits, timestamps, lastCleanup, seenNonces, receiver, passes, excused>>

Seqs == 0 .. Modulus - 1
Idle == Modulus      \* no number
Modes == {"simple", "window", "bloom", "combined"}

(* The honest sender's message number n: its timestamp and its nonce, n itself. *)
SentAt(n) == 1 + (n % MaxTime)

(* The Bloom filter's hash: two bits of three, so that numbers collide. *)
Hash(n) == {n % 3, (n + 1 + n \div 3) % 3}

TypeOK ==
    /\ mode \in Modes /\ now \in 1 .. MaxTime /\ base \in Seqs
    /\ bits \subseteq 0 .. Width - 1
    /\ DOMAIN timestamps \subseteq Seqs /\ DOMAIN seenNonces \subseteq Seqs
    /\ receiver \in [Receivers -> Seqs \cup {Idle}]
    /\ passes \in [Seqs -> 0 .. MaxPasses]
    /\ excused \subseteq Seqs \X {"raced", "edge"}

Empty == [n \in {} |-> 0]

Init ==
    /\ mode \in Modes /\ now = 1 /\ base = 0 /\ bits = {}
    /\ timestamps = Empty /\ lastCleanup = 0 /\ seenNonces = Empty
    /\ receiver = [r \in Receivers |-> Idle]
    /\ passes = [n \in Seqs |-> 0] /\ excused = {}

-----------------------------------------------------------------------------
(* The sequence filter. *)

Windowed == mode \in {"window", "combined"}
Young(f, at) == [n \in {m \in DOMAIN f : at - f[m] <= MaxAge} |-> f[n]]
CleanupDue == now - lastCleanup > MaxAge
Remembered == IF CleanupDue THEN Young(timestamps, now) ELSE timestamps

TooOld(n) == (n + WindowSize) % Modulus < base

(* The bit is looked up only below WindowSize, and a word has Width of them. *)
InBitmap(n) == n <= base /\ base - n < WindowSize /\ base - n \in bits

CheckWindow(n) == n \notin DOMAIN Remembered /\ ~ TooOld(n) /\ ~ InBitmap(n)

SequenceCheck(n) ==
    \/ mode = "simple" /\ n > base
    \/ mode = "bloom" /\ ~ (Hash(n) \subseteq bits)
    \/ Windowed /\ CheckWindow(n)

Shifted(d) == IF d < WindowSize THEN {b + d : b \in bits} \cap (0 .. Width - 1) ELSE {}

AcceptWindow(n) ==
    IF n > base
    THEN base' = n /\ bits' = Shifted(n - base) \cup {0}
    ELSE /\ UNCHANGED base
         /\ bits' = bits \cup ({base - n} \cap (0 .. WindowSize - 1) \cap (0 .. Width - 1))

-----------------------------------------------------------------------------
(* The timestamp filter: what it lets through it has recorded, in one critical
   section. *)

NonceSeen(n) == n \in DOMAIN seenNonces /\ SentAt(n) <= seenNonces[n]

Validate(n) ==
    /\ SentAt(n) <= now + MaxClockSkew /\ now - SentAt(n) <= MaxAge
    /\ ~ NonceSeen(n)

Record(n) ==
    seenNonces' = Young([m \in DOMAIN seenNonces \cup {n} |->
                           IF m = n THEN SentAt(n) ELSE seenNonces[m]], now)

-----------------------------------------------------------------------------

(* At the edge of the window, where the bitmap does not reach and TooOld does
   not hold, or where the word is too short for WindowSize. *)
AtEdge(n) == Windowed /\ n <= base
             /\ (base - n = WindowSize \/ (base - n >= Width /\ base - n <= WindowSize))

Reasons(r, n) ==
    {<<n, "raced">> : q \in {q \in Receivers \ {r} : receiver[q] = n}}
    \cup (IF AtEdge(n) THEN {<<n, "edge">>} ELSE {})

Passed == {n \in Seqs : passes[n] > 0}
Bounded == \A n \in Seqs : passes[n] < MaxPasses

(* Check, or CombinedAntiReplay.Check; the sender's clock is right, so a message
   exists only from its time on. *)
Check(r, n) ==
    /\ receiver[r] = Idle /\ Bounded /\ SentAt(n) <= now
    /\ SequenceCheck(n)
    /\ IF mode = "combined" THEN Validate(n) /\ Record(n) ELSE UNCHANGED seenNonces
    /\ timestamps' = IF Windowed THEN Remembered ELSE timestamps
    /\ lastCleanup' = IF CleanupDue THEN now ELSE lastCleanup
    /\ receiver' = [receiver EXCEPT ![r] = n]
    /\ passes' = [passes EXCEPT ![n] = @ + 1]
    /\ excused' = excused \cup Reasons(r, n)
    /\ UNCHANGED <<mode, now, base, bits>>

Accept(r) ==
    LET n == receiver[r]
    IN  /\ n # Idle /\ receiver' = [receiver EXCEPT ![r] = Idle]
        /\ \/ mode = "simple" /\ base' = (IF n > base THEN n ELSE base)
              /\ UNCHANGED <<bits, timestamps>>
           \/ mode = "bloom" /\ bits' = bits \cup Hash(n) /\ UNCHANGED <<base, timestamps>>
           \/ /\ Windowed /\ AcceptWindow(n)
              /\ timestamps' = [m \in DOMAIN timestamps \cup {n} |->
                                  IF m = n THEN now ELSE timestamps[m]]
        /\ UNCHANGED <<mode, now, lastCleanup, seenNonces, passes, excused>>

(* A message that fails Check changes nothing but the periodic cleanup. *)
Rejected(n) ==
    /\ ~ SequenceCheck(n) /\ SentAt(n) <= now /\ CleanupDue
    /\ lastCleanup' = now /\ timestamps' = (IF Windowed THEN Remembered ELSE timestamps)
    /\ UNCHANGED <<mode, now, base, bits, seenNonces, receiver, passes, excused>>

(* Reset forgets the sequence numbers, not the nonces. *)
Reset ==
    /\ mode # "combined" /\ Passed # {}
    /\ base' = 0 /\ bits' = {} /\ timestamps' = Empty
    /\ passes' = [n \in Seqs |-> 0] /\ excused' = {}
    /\ UNCHANGED <<mode, now, lastCleanup, seenNonces, receiver>>

Tick == /\ now < MaxTime /\ now' = now + 1
        /\ UNCHANGED <<mode, base, bits, timestamps, lastCleanup, seenNonces, receiver, passes, excused>>

Next ==
    \/ \E r \in Receivers : Accept(r) \/ \E n \in Seqs : Check(r, n)
    \/ \E n \in Seqs : Rejected(n)
    \/ Reset \/ Tick

Spec == Init /\ [][Next]_vars

-----------------------------------------------------------------------------

(* Without timestamps a number passes Check twice only if two receivers held it
   between Check and Accept, or if it came back exactly WindowSize behind, where
   neither the bitmap nor the age test looks, after its timestamp was dropped. *)
ReplaysForCause ==
    mode # "combined" => \A n \in Seqs : passes[n] > 1 => \E why \in {"raced", "edge"} : <<n, why>> \in excused

(* With timestamps no message passes twice, raced or not: the nonce is recorded
   in the critical section that looked for it, and is dropped only when its
   message is too old to be let through. *)
CombinedNeverReplays == mode = "combined" => \A n \in Seqs : passes[n] <= 1

(* A number nobody has passed that is newer than all of them passes, except in the
   last WindowSize numbers, where the age test wraps, or in a full Bloom filter. *)
FreshPasses ==
    \A n \in Seqs : n > base /\ (\A m \in Passed : m < n) =>
        \/ SequenceCheck(n) \/ n + WindowSize >= Modulus \/ mode = "bloom"
=============================================================================
