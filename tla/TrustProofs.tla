----------------------------- MODULE TrustProofs -----------------------------
(***************************************************************************)
(* Each component of Trust keeps its promises for every value of the       *)
(* constants, and so does any behaviour of Trust.  Every component has an  *)
(* inductive invariant of its own, with a lemma per action; a last part    *)
(* puts them together, a behaviour of Trust being one of one component.    *)
(***************************************************************************)
EXTENDS Trust, FiniteSetTheorems, SequenceTheorems, WellFoundedInduction, TLAPS

LEMMA LeastElement ==
    ASSUME NEW S \in SUBSET Nat, S # {}
    PROVE  \E m \in S : \A n \in S : m <= n
  <1> DEFINE R == OpToRel(<, Nat)
  <1>0. IsWellFoundedOn(R, Nat)
    BY NatLessThanWellFounded
  <1>2. \A m, n \in Nat : n < m => <<n, m>> \in R
    BY DEF OpToRel
  <1> HIDE DEF R
  <1>1. PICK m \in S : \A n \in S : ~ (<<n, m>> \in R)
    BY <1>0, WFMin
  <1>3. ASSUME NEW n \in S PROVE m <= n
    <2>1. m \in Nat /\ n \in Nat /\ ~ (<<n, m>> \in R)
      BY <1>1
    <2>2. ~ (n < m)
      BY <1>2, <2>1
    <2> QED
      BY <2>1, <2>2
  <1> QED
    BY <1>3

LEMMA UpTo == ASSUME NEW n \in Nat PROVE IsFiniteSet(1 .. n) /\ Cardinality(1 .. n) = n
  <1>1. 1 \in Int /\ n \in Int /\ (IF 1 > n THEN 0 ELSE n - 1 + 1) = n
    OBVIOUS
  <1> QED
    BY <1>1, FS_Interval

LEMMA PartSmaller ==
    ASSUME NEW S, NEW T, IsFiniteSet(S), T \subseteq S
    PROVE  /\ IsFiniteSet(T) /\ Cardinality(T) \in Nat /\ Cardinality(S) \in Nat
           /\ Cardinality(T) <= Cardinality(S)
  BY FS_Subset, FS_CardinalityType

(* A sequence without its i-th element, as RemoveRule of Acl and of Router leave it. *)
Without(s, i) == SubSeq(s, 1, i - 1) \o SubSeq(s, i + 1, Len(s))

(* When an element is lost, the ones after it move up. *)
LEMMA WithoutElements ==
    ASSUME NEW T, NEW s \in Seq(T), NEW i \in 1 .. Len(s)
    PROVE  /\ Without(s, i) \in Seq(T) /\ Len(Without(s, i)) = Len(s) - 1
           /\ \A j \in 1 .. Len(Without(s, i)) :
                /\ j < i => Without(s, i)[j] = s[j] /\ j \in 1 .. Len(s)
                /\ j >= i => Without(s, i)[j] = s[j + 1] /\ j + 1 \in 1 .. Len(s)
  <1> DEFINE p == SubSeq(s, 1, i - 1)
             q == SubSeq(s, i + 1, Len(s))
             t == Without(s, i)
  <1>1. p \in Seq(T) /\ Len(p) = i - 1 /\ \A j \in 1 .. i - 1 : p[j] = s[j]
    BY SubSeqProperties
  <1>2. q \in Seq(T) /\ Len(q) = Len(s) - i /\ \A j \in 1 .. Len(s) - i : q[j] = s[i + j]
    BY SubSeqProperties
  <1>3. t = p \o q /\ Len(s) \in Nat
    BY DEF Without
  <1> HIDE DEF p, q, t
  <1>4. /\ t \in Seq(T) /\ Len(t) = Len(p) + Len(q)
        /\ \A j \in 1 .. Len(p) + Len(q) :
             t[j] = IF j <= Len(p) THEN p[j] ELSE q[j - Len(p)]
    <2>1. /\ p \o q \in Seq(T) /\ Len(p \o q) = Len(p) + Len(q)
          /\ \A j \in 1 .. Len(p) + Len(q) :
               (p \o q)[j] = IF j <= Len(p) THEN p[j] ELSE q[j - Len(p)]
      BY <1>1, <1>2, ConcatProperties, Zenon
    <2> QED
      BY <1>3, <2>1, Zenon
  <1>5. Len(t) = Len(s) - 1
    BY <1>1, <1>2, <1>3, <1>4
  <1>6. ASSUME NEW j \in 1 .. Len(t), j < i PROVE t[j] = s[j] /\ j \in 1 .. Len(s)
    BY <1>1, <1>3, <1>4, <1>5, <1>6
  <1>7. ASSUME NEW j \in 1 .. Len(t), j >= i PROVE t[j] = s[j + 1] /\ j + 1 \in 1 .. Len(s)
    <2>1. t[j] = q[j - (i - 1)] /\ j - (i - 1) \in 1 .. Len(s) - i
      <3>1. j \in Nat /\ i \in Nat /\ j <= Len(s) - 1 /\ i <= j /\ Len(p) = i - 1 /\ Len(s) \in Nat
        BY <1>1, <1>3, <1>5, <1>7
      <3>2. j \in 1 .. Len(p) + Len(q) /\ ~ (j <= Len(p)) /\ j - (i - 1) \in 1 .. Len(s) - i
        BY <1>2, <3>1
      <3> QED
        BY <1>4, <3>1, <3>2
    <2>2. q[j - (i - 1)] = s[i + (j - (i - 1))]
      BY <1>2, <2>1
    <2>3. i + (j - (i - 1)) = j + 1
      BY <1>3
    <2> QED
      BY <1>3, <1>5, <2>1, <2>2, <2>3
  <1>8. t \in Seq(T) /\ Len(t) = Len(s) - 1
    BY <1>4, <1>5, Zenon
  <1>9. \A j \in 1 .. Len(t) :
           /\ j < i => t[j] = s[j] /\ j \in 1 .. Len(s)
           /\ j >= i => t[j] = s[j + 1] /\ j + 1 \in 1 .. Len(s)
    BY <1>6, <1>7, Zenon
  <1>10. t = Without(s, i)
    BY DEF t
  <1> QED
    BY <1>8, <1>9, <1>10

(* A sequence without one of its elements, by what is left of it. *)
LEMMA Removed ==
    ASSUME NEW T, NEW s \in Seq(T), NEW k \in DOMAIN s
    PROVE  /\ Without(s, k) \in Seq(T) /\ Len(Without(s, k)) = Len(s) - 1 /\ Len(s) \in Nat
           /\ \A i \in DOMAIN Without(s, k) :
                /\ i < k => i \in DOMAIN s /\ Without(s, k)[i] = s[i]
                /\ i >= k => i + 1 \in DOMAIN s /\ Without(s, k)[i] = s[i + 1]
                /\ i \in Nat
           /\ \A i \in DOMAIN s : i # k => \E j \in DOMAIN Without(s, k) : Without(s, k)[j] = s[i]
  <1> PICK r : r = Without(s, k)
    OBVIOUS
  <1>1. /\ k \in 1 .. Len(s) /\ Len(s) \in Nat /\ DOMAIN s = 1 .. Len(s)
    OBVIOUS
  <1>2. /\ r \in Seq(T) /\ Len(r) = Len(s) - 1
        /\ \A j \in 1 .. Len(r) : /\ j < k => r[j] = s[j] /\ j \in 1 .. Len(s)
                                  /\ j >= k => r[j] = s[j + 1] /\ j + 1 \in 1 .. Len(s)
    BY <1>1, WithoutElements, Zenon
  <1>3. DOMAIN r = 1 .. Len(r) /\ \A i \in 1 .. Len(r) : i \in Nat
    BY <1>2
  <1>4. ASSUME NEW i \in DOMAIN s, i # k PROVE \E j \in DOMAIN r : r[j] = s[i]
    <2> PICK j : j = IF i < k THEN i ELSE i - 1
      OBVIOUS
    <2>1. j \in 1 .. Len(r)
      BY <1>1, <1>2, <1>4
    <2>2. IF i < k THEN j < k /\ j = i ELSE j >= k /\ j + 1 = i
      BY <1>1, <1>4
    <2>3. r[j] = s[i]
      BY <1>2, <2>1, <2>2
    <2> QED
      BY <1>3, <2>1, <2>3
  <1> QED
    BY <1>1, <1>2, <1>3, <1>4

-----------------------------------------------------------------------------
FilterBounds == /\ Modulus \in Nat \ {0} /\ WindowSize \in Nat /\ Width \in Nat \ {0, 1, 2}
         /\ MaxAge \in Nat /\ MaxClockSkew \in Nat
         /\ MaxTime \in Nat \ {0} /\ MaxPasses \in Nat

(* A receiver has passed n and not yet accepted it. *)
HeldNow(n) == \E q \in Receivers : receiver[q] = n

(* The sequence filter knows n, or n is too far behind for it. *)
Marked(n) ==
    /\ mode = "simple" => n <= base
    /\ mode = "bloom" => Filter!Hash(n) \subseteq bits
    /\ Filter!Windowed => n <= base /\ (base - n \in bits \/ base - n >= WindowSize
                                                   \/ base - n >= Width)

PassedKnown == \A n \in Filter!Seqs : passes[n] > 0 => HeldNow(n) \/ Marked(n)

(* Nothing is remembered that is newer than the window. *)
TimestampsBehind == Filter!Windowed => \A m \in DOMAIN timestamps : m <= base

(* A nonce is remembered under the time of its message, until that is too old. *)
NoncesKept ==
    mode = "combined" =>
        /\ \A m \in DOMAIN seenNonces : seenNonces[m] = Filter!SentAt(m)
        /\ \A n \in Filter!Seqs : passes[n] > 0 =>
             n \in DOMAIN seenNonces \/ now - Filter!SentAt(n) > MaxAge

FilterInv == /\ Filter!TypeOK /\ PassedKnown /\ TimestampsBehind /\ NoncesKept
        /\ Filter!ReplaysForCause /\ Filter!CombinedNeverReplays

-----------------------------------------------------------------------------
(* Numbers. *)

LEMMA FilterNumbers ==
    ASSUME FilterBounds
    PROVE  /\ \A n \in Filter!Seqs : n \in Nat /\ n < Modulus /\ n # Filter!Idle /\ Filter!SentAt(n) \in Nat
           /\ \A n \in Filter!Seqs : Filter!Hash(n) \subseteq 0 .. Width - 1
           /\ \A k \in Nat : k < Modulus => k % Modulus = k
           /\ 0 \in Filter!Seqs /\ Filter!Idle \notin Filter!Seqs
  <1>1. \A n \in Filter!Seqs : n \in Nat /\ n < Modulus /\ n # Filter!Idle
    BY DEF FilterBounds, Filter!Seqs, Filter!Idle
  <1>2. \A n \in Filter!Seqs : Filter!SentAt(n) \in Nat
    <2> SUFFICES ASSUME NEW n \in Filter!Seqs PROVE Filter!SentAt(n) \in Nat
      OBVIOUS
    <2>1. n \in Nat /\ MaxTime \in Nat \ {0}
      BY <1>1 DEF FilterBounds
    <2>2. n % MaxTime \in 0 .. MaxTime - 1
      BY <2>1
    <2> QED
      BY <2>1, <2>2 DEF Filter!SentAt
  <1>3. \A n \in Filter!Seqs : Filter!Hash(n) \subseteq 0 .. Width - 1
    <2> SUFFICES ASSUME NEW n \in Filter!Seqs, NEW h \in Filter!Hash(n) PROVE h \in 0 .. Width - 1
      OBVIOUS
    <2>1. n \in Nat /\ Width \in Nat /\ Width >= 3
      BY <1>1 DEF FilterBounds
    <2>2. n \div 3 \in Nat
      BY <2>1
    <2>3. n + 1 + n \div 3 \in Nat
      BY <2>1, <2>2
    <2>4. \A k \in Nat : k % 3 \in 0 .. 2
      OBVIOUS
    <2>5. h = n % 3 \/ h = (n + 1 + n \div 3) % 3
      BY DEF Filter!Hash
    <2>6. h \in 0 .. 2
      BY <2>1, <2>3, <2>4, <2>5, Zenon
    <2> QED
      BY <2>1, <2>6
  <1>4. \A k \in Nat : k < Modulus => k % Modulus = k
    BY DEF FilterBounds
  <1>5. 0 \in Filter!Seqs /\ Filter!Idle \notin Filter!Seqs
    BY DEF FilterBounds, Filter!Seqs, Filter!Idle
  <1> QED
    BY <1>1, <1>2, <1>3, <1>4, <1>5

LEMMA YoungFacts ==
    ASSUME NEW f, NEW at
    PROVE  /\ DOMAIN Filter!Young(f, at) = {m \in DOMAIN f : at - f[m] <= MaxAge}
           /\ \A m \in DOMAIN Filter!Young(f, at) : Filter!Young(f, at)[m] = f[m]
  BY DEF Filter!Young

LEMMA RememberedFacts == DOMAIN Filter!Remembered \subseteq DOMAIN timestamps
  BY YoungFacts, Zenon DEF Filter!Remembered

(* What is marked passes the sequence filter again only at the edge of its window. *)
LEMMA MarkedPassesAtEdge ==
    ASSUME FilterBounds, Filter!TypeOK, mode # "combined", NEW n \in Filter!Seqs, Marked(n), Filter!SequenceCheck(n)
    PROVE  Filter!AtEdge(n)
  <1>1. n \in Nat /\ base \in Nat /\ base < Modulus /\ WindowSize \in Nat /\ Width \in Nat
    BY FilterNumbers DEF Filter!TypeOK, FilterBounds
  <1>2. mode \in {"simple", "window", "bloom"}
    BY DEF Filter!TypeOK, Filter!Modes
  <1>3. mode = "window" /\ Filter!CheckWindow(n)
    BY <1>1, <1>2 DEF Marked, Filter!SequenceCheck, Filter!Windowed
  <1>4. n <= base /\ (base - n \in bits \/ base - n >= WindowSize \/ base - n >= Width)
    BY <1>3 DEF Marked, Filter!Windowed
  <1>5. base - n >= WindowSize \/ base - n >= Width
    BY <1>1, <1>3, <1>4 DEF Filter!CheckWindow, Filter!InBitmap
  <1>6. base - n <= WindowSize
    <2> SUFFICES ASSUME n + WindowSize < base PROVE FALSE
      BY <1>1
    <2>1. (n + WindowSize) % Modulus = n + WindowSize
      <3>1. n + WindowSize \in Nat /\ n + WindowSize < Modulus
        BY <1>1, FilterNumbers DEF FilterBounds
      <3> QED
        BY <3>1, FilterNumbers
    <2> QED
      BY <1>3, <2>1 DEF Filter!CheckWindow, Filter!TooOld
  <1> QED
    BY <1>1, <1>3, <1>4, <1>5, <1>6 DEF Filter!AtEdge, Filter!Windowed

-----------------------------------------------------------------------------
(* One lemma for each action.                                              *)

LEMMA FilterCheckKeeps ==
    ASSUME FilterBounds, FilterInv, NEW r \in Receivers, NEW n \in Filter!Seqs, Filter!Check(r, n) PROVE FilterInv'
  <1>1. /\ receiver[r] = Filter!Idle /\ Filter!Bounded /\ Filter!SentAt(n) <= now /\ Filter!SequenceCheck(n)
        /\ UNCHANGED <<mode, now, base, bits>>
        /\ receiver' = [receiver EXCEPT ![r] = n]
        /\ passes' = [passes EXCEPT ![n] = @ + 1]
        /\ excused' = excused \cup Filter!Reasons(r, n)
        /\ timestamps' = IF Filter!Windowed THEN Filter!Remembered ELSE timestamps
    BY DEF Filter!Check
  <1>2. /\ receiver \in [Receivers -> Filter!Seqs \cup {Filter!Idle}] /\ passes \in [Filter!Seqs -> 0 .. MaxPasses]
        /\ passes[n] \in Nat
        /\ \A q \in Receivers : receiver'[q] = IF q = r THEN n ELSE receiver[q]
        /\ \A m \in Filter!Seqs : passes'[m] = IF m = n THEN passes[n] + 1 ELSE passes[m]
    BY <1>1 DEF FilterInv, Filter!TypeOK, FilterBounds
  <1>3. DOMAIN timestamps' \subseteq DOMAIN timestamps
    BY <1>1, RememberedFacts
  <1>4. ASSUME mode = "combined"
        PROVE  /\ Filter!Validate(n)
               /\ DOMAIN seenNonces' \subseteq DOMAIN seenNonces \cup {n}
               /\ \A m \in DOMAIN seenNonces' : seenNonces'[m] = Filter!SentAt(m)
               /\ \A m \in DOMAIN seenNonces \cup {n} :
                    m \in DOMAIN seenNonces' \/ now - Filter!SentAt(m) > MaxAge
    <2> DEFINE f == [m \in DOMAIN seenNonces \cup {n} |->
                       IF m = n THEN Filter!SentAt(n) ELSE seenNonces[m]]
    <2>1. Filter!Validate(n) /\ seenNonces' = Filter!Young(f, now)
      BY <1>4 DEF Filter!Check, Filter!Record
    <2>2. /\ DOMAIN f = DOMAIN seenNonces \cup {n}
          /\ \A m \in DOMAIN f : f[m] = Filter!SentAt(m)
      BY <1>4 DEF FilterInv, NoncesKept
    <2> HIDE DEF f
    <2>3. /\ DOMAIN seenNonces' = {m \in DOMAIN f : now - f[m] <= MaxAge}
          /\ \A m \in DOMAIN seenNonces' : seenNonces'[m] = f[m]
      BY <2>1, YoungFacts
    <2>4. \A m \in DOMAIN f : now - Filter!SentAt(m) \in Int
      <3>1. now \in Nat /\ DOMAIN f \subseteq Filter!Seqs
        BY <2>2 DEF FilterInv, Filter!TypeOK, FilterBounds
      <3> QED
        BY <3>1, FilterNumbers
    <2>5. \A m \in DOMAIN f : now - Filter!SentAt(m) <= MaxAge \/ now - Filter!SentAt(m) > MaxAge
      BY <2>4 DEF FilterBounds
    <2> QED
      BY <2>1, <2>2, <2>3, <2>5, Zenon
  <1>5. mode # "combined" => UNCHANGED seenNonces
    BY DEF Filter!Check
  <1>6. Filter!TypeOK'
    <2>1. receiver' \in [Receivers -> Filter!Seqs \cup {Filter!Idle}]
      BY <1>1, <1>2
    <2>2. passes' \in [Filter!Seqs -> 0 .. MaxPasses]
      BY <1>1, <1>2 DEF Filter!Bounded, FilterBounds
    <2>3. DOMAIN timestamps' \subseteq Filter!Seqs /\ DOMAIN seenNonces' \subseteq Filter!Seqs
      BY <1>3, <1>4, <1>5 DEF FilterInv, Filter!TypeOK
    <2>4. excused' \subseteq Filter!Seqs \X {"raced", "edge"}
      BY <1>1 DEF FilterInv, Filter!TypeOK, Filter!Reasons
    <2> QED
      BY <1>1, <2>1, <2>2, <2>3, <2>4 DEF FilterInv, Filter!TypeOK
  <1>7. PassedKnown'
    <2> SUFFICES ASSUME NEW m \in Filter!Seqs, passes'[m] > 0, m # n PROVE HeldNow(m)' \/ Marked(m)'
      BY <1>2 DEF PassedKnown, HeldNow
    <2>1. HeldNow(m) \/ Marked(m)
      BY <1>2 DEF FilterInv, PassedKnown
    <2>2. HeldNow(m) => HeldNow(m)'
      BY <1>1, <1>2, FilterNumbers DEF HeldNow
    <2>3. Marked(m) => Marked(m)'
      BY <1>1 DEF Marked, Filter!Windowed
    <2> QED
      BY <2>1, <2>2, <2>3
  <1>8. TimestampsBehind' /\ NoncesKept'
    <2>1. TimestampsBehind'
      BY <1>1, <1>3 DEF FilterInv, TimestampsBehind, Filter!Windowed
    <2>2. NoncesKept'
      <3> SUFFICES ASSUME mode = "combined"
                   PROVE  /\ \A m \in DOMAIN seenNonces' : seenNonces'[m] = Filter!SentAt(m)
                          /\ \A m \in Filter!Seqs : passes'[m] > 0 =>
                               m \in DOMAIN seenNonces' \/ now - Filter!SentAt(m) > MaxAge
        BY <1>1 DEF NoncesKept
      <3>1. \A m \in Filter!Seqs : passes'[m] > 0 =>
              m \in DOMAIN seenNonces \cup {n} \/ now - Filter!SentAt(m) > MaxAge
        BY <1>2 DEF FilterInv, NoncesKept
      <3> QED
        BY <1>4, <3>1
    <2> QED
      BY <2>1, <2>2
  <1>9. Filter!ReplaysForCause'
    <2> SUFFICES ASSUME mode # "combined", NEW m \in Filter!Seqs, passes'[m] > 1
                 PROVE  \E why \in {"raced", "edge"} : <<m, why>> \in excused'
      BY <1>1 DEF Filter!ReplaysForCause
    <2>1. CASE m # n
      BY <1>1, <1>2, <2>1 DEF FilterInv, Filter!ReplaysForCause
    <2>2. CASE m = n
      <3>1. passes[n] > 0
        BY <1>2, <2>2
      <3>2. CASE HeldNow(n)
        <4>1. PICK q \in Receivers : receiver[q] = n
          BY <3>2 DEF HeldNow
        <4>2. q # r
          BY <1>1, <4>1, FilterNumbers
        <4>3. <<n, "raced">> \in Filter!Reasons(r, n)
          BY <4>1, <4>2 DEF Filter!Reasons
        <4> QED
          BY <1>1, <2>2, <4>3
      <3>3. CASE Marked(n)
        <4>1. Filter!AtEdge(n)
          BY <1>1, <3>3, MarkedPassesAtEdge DEF FilterInv
        <4>2. <<n, "edge">> \in Filter!Reasons(r, n)
          BY <4>1 DEF Filter!Reasons
        <4> QED
          BY <1>1, <2>2, <4>2
      <3> QED
        BY <3>1, <3>2, <3>3 DEF FilterInv, PassedKnown
    <2> QED
      BY <2>1, <2>2
  <1>10. Filter!CombinedNeverReplays'
    <2> SUFFICES ASSUME mode = "combined" PROVE passes[n] = 0
      BY <1>1, <1>2 DEF Filter!CombinedNeverReplays, FilterInv
    <2>1. now - Filter!SentAt(n) <= MaxAge /\ ~ Filter!NonceSeen(n)
      BY <1>4 DEF Filter!Validate
    <2>2. n \notin DOMAIN seenNonces
      <3>1. n \in DOMAIN seenNonces => seenNonces[n] = Filter!SentAt(n)
        BY DEF FilterInv, NoncesKept
      <3> QED
        BY <2>1, <3>1, FilterNumbers DEF Filter!NonceSeen
    <2>3. ~ (now - Filter!SentAt(n) > MaxAge)
      <3>1. now \in Nat /\ Filter!SentAt(n) \in Nat /\ MaxAge \in Nat
        BY FilterNumbers DEF FilterInv, Filter!TypeOK, FilterBounds
      <3> QED
        BY <2>1, <3>1
    <2> QED
      BY <1>2, <2>2, <2>3 DEF FilterInv, NoncesKept
  <1> QED
    BY <1>6, <1>7, <1>8, <1>9, <1>10 DEF FilterInv

LEMMA FilterAcceptKeeps ==
    ASSUME FilterBounds, FilterInv, NEW r \in Receivers, Filter!Accept(r) PROVE FilterInv'
  <1>0. receiver[r] \in Filter!Seqs
    BY DEF Filter!Accept, FilterInv, Filter!TypeOK
  <1> PICK n \in Filter!Seqs : n = receiver[r]
    BY <1>0
  <1>1. /\ n \in Nat /\ receiver' = [receiver EXCEPT ![r] = Filter!Idle]
        /\ UNCHANGED <<mode, now, lastCleanup, seenNonces, passes, excused>>
    BY FilterNumbers DEF Filter!Accept
  <1>2. /\ base \in Filter!Seqs /\ base \in Nat /\ WindowSize \in Nat /\ Width \in Nat /\ Width > 0
        /\ bits \subseteq 0 .. Width - 1 /\ DOMAIN timestamps \subseteq Filter!Seqs
        /\ mode \in {"simple", "window", "bloom", "combined"}
    BY FilterNumbers DEF FilterInv, Filter!TypeOK, FilterBounds, Filter!Modes
  <1>3. \A q \in Receivers : receiver'[q] = IF q = r THEN Filter!Idle ELSE receiver[q]
    BY <1>1 DEF FilterInv, Filter!TypeOK
  <1>4. receiver' \in [Receivers -> Filter!Seqs \cup {Filter!Idle}]
    BY <1>1 DEF FilterInv, Filter!TypeOK
  <1>5. /\ base' \in Filter!Seqs /\ bits' \subseteq 0 .. Width - 1
        /\ DOMAIN timestamps' \subseteq Filter!Seqs
        /\ Filter!Windowed => \A m \in DOMAIN timestamps' : m <= base'
        /\ Marked(n)'
        /\ \A m \in Filter!Seqs : Marked(m) => Marked(m)'
    <2>1. CASE mode = "simple"
      <3>1. base' = (IF n > base THEN n ELSE base) /\ UNCHANGED <<bits, timestamps, mode>>
        BY <2>1 DEF Filter!Accept, Filter!Windowed
      <3>2. ~ Filter!Windowed
        BY <2>1 DEF Filter!Windowed
      <3>3. (\A m : Marked(m) <=> m <= base) /\ (\A m : Marked(m)' <=> m <= base')
        BY <2>1, <3>1 DEF Marked, Filter!Windowed
      <3>4. base' \in Filter!Seqs /\ n <= base' /\ base <= base'
        BY <1>1, <1>2, <3>1
      <3>5. \A m \in Filter!Seqs : m <= base => m <= base'
        BY <1>2, <3>4, FilterNumbers
      <3> QED
        BY <1>2, <3>1, <3>2, <3>3, <3>4, <3>5
    <2>2. CASE mode = "bloom"
      <3>1. bits' = bits \cup Filter!Hash(n) /\ UNCHANGED <<base, timestamps, mode>> /\ ~ Filter!Windowed
        BY <2>2 DEF Filter!Accept, Filter!Windowed
      <3>2. Filter!Hash(n) \subseteq 0 .. Width - 1
        BY FilterNumbers
      <3>3. /\ \A m : Marked(m) <=> Filter!Hash(m) \subseteq bits
            /\ \A m : Marked(m)' <=> Filter!Hash(m) \subseteq bits'
        BY <2>2, <3>1 DEF Marked, Filter!Windowed
      <3>4. bits \subseteq bits' /\ Filter!Hash(n) \subseteq bits' /\ bits' \subseteq 0 .. Width - 1
        BY <1>2, <3>1, <3>2
      <3> QED
        BY <1>2, <3>1, <3>3, <3>4
    <2>3. CASE Filter!Windowed
      <3>1. /\ Filter!AcceptWindow(n) /\ UNCHANGED mode
            /\ timestamps' = [m \in DOMAIN timestamps \cup {n} |->
                                IF m = n THEN now ELSE timestamps[m]]
        BY <2>3 DEF Filter!Accept, Filter!Windowed
      <3>2. DOMAIN timestamps' = DOMAIN timestamps \cup {n}
        BY <3>1
      <3>3. /\ \A m : Marked(m) <=> m <= base /\ (base - m \in bits \/ base - m >= WindowSize
                                                  \/ base - m >= Width)
            /\ \A m : Marked(m)' <=> m <= base' /\ (base' - m \in bits' \/ base' - m >= WindowSize
                                                    \/ base' - m >= Width)
        BY <2>3, <3>1 DEF Marked, Filter!Windowed
      <3>4. \A m \in DOMAIN timestamps : m <= base /\ m \in Nat
        BY <1>2, <2>3, FilterNumbers DEF FilterInv, TimestampsBehind
      <3>5. CASE n > base
        <4>1. base' = n /\ bits' = Filter!Shifted(n - base) \cup {0}
          BY <3>1, <3>5 DEF Filter!AcceptWindow
        <4>2. bits' \subseteq 0 .. Width - 1
          BY <1>2, <4>1 DEF Filter!Shifted
        <4>3. \A m \in DOMAIN timestamps' : m <= base'
          BY <1>1, <1>2, <3>2, <3>4, <3>5, <4>1
        <4>4. Marked(n)'
          <5>1. n <= base' /\ base' - n = 0 /\ 0 \in bits'
            BY <1>1, <4>1
          <5>2. base' - n \in bits'
            BY <5>1
          <5> QED
            BY <3>3, <5>1, <5>2
        <4>5. ASSUME NEW m \in Filter!Seqs, Marked(m) PROVE Marked(m)'
          <5>1. m \in Nat /\ m <= base /\ (base - m \in bits \/ base - m >= WindowSize
                                           \/ base - m >= Width)
            BY <3>3, <4>5, FilterNumbers
          <5>2. m <= base' /\ base' - m = (base - m) + (n - base) /\ base' - m >= base - m
                /\ base' - m >= n - base
            BY <1>1, <1>2, <3>5, <4>1, <5>1
          <5>3. CASE base - m \in bits
            <6>1. CASE n - base < WindowSize
              <7>1. (base - m) + (n - base) \in {b + (n - base) : b \in bits}
                BY <5>3
              <7>2. base' - m >= Width \/ base' - m \in Filter!Shifted(n - base)
                <8>1. base' - m \in 0 .. Width - 1 \/ base' - m >= Width
                  BY <1>1, <1>2, <4>1, <5>1, <5>2
                <8> QED
                  BY <5>2, <6>1, <7>1, <8>1 DEF Filter!Shifted
              <7> QED
                BY <3>3, <4>1, <5>2, <7>2
            <6>2. CASE ~ (n - base < WindowSize)
              <7>1. base' - m >= WindowSize
                BY <1>1, <1>2, <4>1, <5>1, <6>2
              <7> QED
                BY <3>3, <5>2, <7>1
            <6> QED
              BY <6>1, <6>2
          <5>4. CASE base - m >= WindowSize \/ base - m >= Width
            <6>1. base' - m >= WindowSize \/ base' - m >= Width
              BY <1>1, <1>2, <3>5, <4>1, <5>1, <5>4
            <6> QED
              BY <3>3, <5>2, <6>1
          <5> QED
            BY <5>1, <5>3, <5>4
        <4>6. base' \in Filter!Seqs
          BY <1>1, <4>1
        <4>7. DOMAIN timestamps' \subseteq Filter!Seqs
          BY <1>1, <1>2, <3>2
        <4> QED
          BY <4>2, <4>3, <4>4, <4>5, <4>6, <4>7
      <3>6. CASE ~ (n > base)
        <4>1. /\ base' = base
              /\ bits' = bits \cup ({base - n} \cap (0 .. WindowSize - 1) \cap (0 .. Width - 1))
          BY <3>1, <3>6 DEF Filter!AcceptWindow
        <4>2. bits' \subseteq 0 .. Width - 1
          BY <1>2, <4>1
        <4>3. n <= base /\ base - n \in Nat
          BY <1>1, <1>2, <3>6
        <4>4. Marked(n)'
          <5>1. base - n \in 0 .. WindowSize - 1 \/ base - n >= WindowSize
            BY <1>2, <4>3
          <5>2. base - n \in 0 .. Width - 1 \/ base - n >= Width
            BY <1>2, <4>3
          <5>3. base - n \in bits' \/ base - n >= WindowSize \/ base - n >= Width
            BY <4>1, <5>1, <5>2, Zenon
          <5> QED
            BY <3>3, <4>1, <4>3, <5>3
        <4>5. \A m \in Filter!Seqs : Marked(m) => Marked(m)'
          BY <3>3, <4>1
        <4>6. \A m \in DOMAIN timestamps' : m <= base'
          BY <3>2, <3>4, <4>1, <4>3
        <4>7. base' \in Filter!Seqs /\ DOMAIN timestamps' \subseteq Filter!Seqs
          BY <1>1, <1>2, <3>2, <4>1
        <4> QED
          BY <4>2, <4>4, <4>5, <4>6, <4>7
      <3> QED
        BY <3>5, <3>6
    <2> QED
      BY <1>2, <2>1, <2>2, <2>3 DEF Filter!Windowed
  <1>6. Filter!TypeOK'
    BY <1>1, <1>4, <1>5 DEF FilterInv, Filter!TypeOK
  <1>7. PassedKnown'
    <2> SUFFICES ASSUME NEW m \in Filter!Seqs, passes[m] > 0 PROVE HeldNow(m)' \/ Marked(m)'
      BY <1>1 DEF PassedKnown
    <2>1. HeldNow(m) \/ Marked(m)
      BY DEF FilterInv, PassedKnown
    <2>2. CASE HeldNow(m)
      <3>1. PICK q \in Receivers : receiver[q] = m
        BY <2>2 DEF HeldNow
      <3>2. CASE q = r
        BY <1>5, <3>1, <3>2
      <3>3. CASE q # r
        <4>1. receiver'[q] = m
          BY <1>3, <3>1, <3>3
        <4> QED
          BY <4>1 DEF HeldNow
      <3> QED
        BY <3>2, <3>3
    <2>3. CASE Marked(m)
      BY <1>5, <2>3
    <2> QED
      BY <2>1, <2>2, <2>3
  <1>8. TimestampsBehind' /\ NoncesKept' /\ Filter!ReplaysForCause' /\ Filter!CombinedNeverReplays'
    BY <1>1, <1>5 DEF FilterInv, TimestampsBehind, NoncesKept, Filter!ReplaysForCause,
       Filter!CombinedNeverReplays, Filter!Windowed
  <1> QED
    BY <1>6, <1>7, <1>8 DEF FilterInv

LEMMA FilterRejectedKeeps ==
    ASSUME FilterBounds, FilterInv, NEW n \in Filter!Seqs, Filter!Rejected(n) PROVE FilterInv'
  <1>1. /\ UNCHANGED <<mode, now, base, bits, seenNonces, receiver, passes, excused>>
        /\ DOMAIN timestamps' \subseteq DOMAIN timestamps
    BY RememberedFacts DEF Filter!Rejected
  <1>2. Filter!TypeOK' /\ PassedKnown' /\ TimestampsBehind'
    BY <1>1 DEF FilterInv, Filter!TypeOK, PassedKnown, HeldNow, Marked, TimestampsBehind, Filter!Windowed
  <1>3. NoncesKept' /\ Filter!ReplaysForCause' /\ Filter!CombinedNeverReplays'
    BY <1>1 DEF FilterInv, NoncesKept, Filter!ReplaysForCause, Filter!CombinedNeverReplays
  <1> QED
    BY <1>2, <1>3 DEF FilterInv

LEMMA FilterResetKeeps ==
    ASSUME FilterBounds, FilterInv, Filter!Reset PROVE FilterInv'
  <1>1. /\ mode # "combined" /\ base' = 0 /\ bits' = {} /\ timestamps' = Filter!Empty
        /\ passes' = [n \in Filter!Seqs |-> 0] /\ excused' = {}
        /\ UNCHANGED <<mode, now, seenNonces, receiver>>
    BY DEF Filter!Reset
  <1>2. DOMAIN timestamps' = {} /\ passes' \in [Filter!Seqs -> 0 .. MaxPasses] /\ base' \in Filter!Seqs
    BY <1>1, FilterNumbers DEF Filter!Empty, FilterBounds
  <1>3. Filter!TypeOK'
    BY <1>1, <1>2 DEF FilterInv, Filter!TypeOK
  <1>4. \A n \in Filter!Seqs : passes'[n] = 0
    BY <1>1
  <1>5. PassedKnown' /\ TimestampsBehind' /\ NoncesKept' /\ Filter!ReplaysForCause'
        /\ Filter!CombinedNeverReplays'
    BY <1>1, <1>2, <1>4 DEF FilterInv, PassedKnown, TimestampsBehind, NoncesKept,
       Filter!ReplaysForCause, Filter!CombinedNeverReplays
  <1> QED
    BY <1>3, <1>5 DEF FilterInv

LEMMA FilterTickKeeps ==
    ASSUME FilterBounds, FilterInv, Filter!Tick PROVE FilterInv'
  <1>1. /\ now < MaxTime /\ now' = now + 1 /\ now \in Nat
        /\ UNCHANGED <<mode, base, bits, timestamps, lastCleanup, seenNonces, receiver,
                       passes, excused>>
    BY DEF FilterInv, Filter!TypeOK, FilterBounds, Filter!Tick
  <1>2. Filter!TypeOK'
    BY <1>1 DEF FilterInv, Filter!TypeOK, FilterBounds
  <1>3. PassedKnown' /\ TimestampsBehind'
    BY <1>1 DEF FilterInv, PassedKnown, HeldNow, Marked, TimestampsBehind, Filter!Windowed
  <1>4. NoncesKept'
    <2>1. \A m \in Filter!Seqs : now - Filter!SentAt(m) > MaxAge => now' - Filter!SentAt(m) > MaxAge
      BY <1>1, FilterNumbers DEF FilterBounds
    <2> QED
      BY <1>1, <2>1 DEF FilterInv, NoncesKept
  <1>5. Filter!ReplaysForCause' /\ Filter!CombinedNeverReplays'
    BY <1>1 DEF FilterInv, Filter!ReplaysForCause, Filter!CombinedNeverReplays
  <1> QED
    BY <1>2, <1>3, <1>4, <1>5 DEF FilterInv

-----------------------------------------------------------------------------

LEMMA FilterStarts == ASSUME FilterBounds, Filter!Init PROVE FilterInv
  <1>1. DOMAIN Filter!Empty = {} /\ 0 \in Filter!Seqs /\ \A n \in Filter!Seqs : passes[n] = 0
    BY FilterNumbers DEF Filter!Empty, Filter!Init
  <1>2. passes \in [Filter!Seqs -> 0 .. MaxPasses] /\ receiver \in [Receivers -> Filter!Seqs \cup {Filter!Idle}]
        /\ now \in 1 .. MaxTime
    BY DEF Filter!Init, FilterBounds
  <1>3. Filter!TypeOK
    BY <1>1, <1>2 DEF Filter!Init, Filter!TypeOK
  <1>4. PassedKnown /\ TimestampsBehind /\ NoncesKept /\ Filter!ReplaysForCause /\ Filter!CombinedNeverReplays
    BY <1>1 DEF Filter!Init, PassedKnown, TimestampsBehind, NoncesKept, Filter!ReplaysForCause,
       Filter!CombinedNeverReplays
  <1> QED
    BY <1>3, <1>4 DEF FilterInv

LEMMA FilterInvariant ==
    ASSUME FilterBounds PROVE Filter!Spec => []FilterInv
  <1>1. Filter!Init => FilterInv
    BY FilterStarts
  <1>2. FilterInv /\ [Filter!Next]_(Filter!vars) => FilterInv'
    <2> SUFFICES ASSUME FilterInv, [Filter!Next]_(Filter!vars) PROVE FilterInv'
      OBVIOUS
    <2>1. CASE UNCHANGED Filter!vars
      <3>1. Filter!TypeOK' /\ PassedKnown' /\ TimestampsBehind'
        BY <2>1 DEF Filter!vars, FilterInv, Filter!TypeOK, PassedKnown, HeldNow, Marked, TimestampsBehind, Filter!Windowed
      <3>2. NoncesKept' /\ Filter!ReplaysForCause' /\ Filter!CombinedNeverReplays'
        BY <2>1 DEF Filter!vars, FilterInv, NoncesKept, Filter!ReplaysForCause, Filter!CombinedNeverReplays
      <3> QED
        BY <3>1, <3>2 DEF FilterInv
    <2> QED
      BY <2>1, FilterCheckKeeps, FilterAcceptKeeps, FilterRejectedKeeps, FilterResetKeeps, FilterTickKeeps DEF Filter!Next
  <1> QED
    BY <1>1, <1>2, PTL DEF Filter!Spec

(* Every variable of a filter (antireplay.go) keeps its type; the window's word holds only offsets it has bits for. *)
THEOREM FilterTypeCorrect ==
    ASSUME FilterBounds PROVE Filter!Spec => []Filter!TypeOK
  <1>1. FilterInv => Filter!TypeOK
    BY DEF FilterInv
  <1> QED
    BY <1>1, FilterInvariant, PTL

(* Without timestamps a number passes twice only if two receivers raced over it, or
   if it came back at the very edge of the window, for any size of window, word and
   numbers, however they wrap. *)
THEOREM ReplaysHaveCause ==
    ASSUME FilterBounds PROVE Filter!Spec => []Filter!ReplaysForCause
  <1>1. FilterInv => Filter!ReplaysForCause
    BY DEF FilterInv
  <1> QED
    BY <1>1, FilterInvariant, PTL

(* With timestamps (CombinedAntiReplay) no message passes twice, however many receivers race and however
   old the nonces grow before they are dropped. *)
THEOREM CombinationNeverReplays ==
    ASSUME FilterBounds PROVE Filter!Spec => []Filter!CombinedNeverReplays
  <1>1. FilterInv => Filter!CombinedNeverReplays
    BY DEF FilterInv
  <1> QED
    BY <1>1, FilterInvariant, PTL

(* A filter lets through a number newer than all it passed, except in the last
   WindowSize numbers and where a Bloom filter is full: what it remembers, and what
   it forgets in its cleanups, is never newer than its window. *)
THEOREM NewNumbersPass ==
    ASSUME FilterBounds PROVE Filter!Spec => []Filter!FreshPasses
  <1>1. FilterInv => Filter!FreshPasses
    <2> SUFFICES ASSUME FilterInv, NEW n \in Filter!Seqs, n > base, ~ (n + WindowSize >= Modulus),
                        mode # "bloom"
                 PROVE  Filter!SequenceCheck(n)
      BY DEF Filter!FreshPasses
    <2>1. n \in Nat /\ base \in Nat /\ WindowSize \in Nat /\ Modulus \in Nat
      BY FilterNumbers DEF FilterInv, Filter!TypeOK, FilterBounds
    <2>2. CASE mode = "simple"
      BY <2>2 DEF Filter!SequenceCheck
    <2>3. CASE Filter!Windowed
      <3>1. n \notin DOMAIN Filter!Remembered
        BY <2>1, <2>3, RememberedFacts DEF FilterInv, TimestampsBehind
      <3>2. (n + WindowSize) % Modulus = n + WindowSize
        <4>1. n + WindowSize \in Nat /\ n + WindowSize < Modulus
          BY <2>1
        <4> QED
          BY <4>1, FilterNumbers
      <3>3. ~ Filter!TooOld(n) /\ ~ Filter!InBitmap(n)
        BY <2>1, <3>2 DEF Filter!TooOld, Filter!InBitmap
      <3> QED
        BY <2>3, <3>1, <3>3 DEF Filter!SequenceCheck, Filter!CheckWindow
    <2> QED
      BY <2>2, <2>3 DEF FilterInv, Filter!TypeOK, Filter!Modes, Filter!Windowed
  <1> QED
    BY <1>1, FilterInvariant, PTL

-----------------------------------------------------------------------------
(* One account: the logins that have passed the lock test can still fail once each. *)

UsersBounds == /\ MaxRecords \in Nat \ {0} /\ MaxGuesses \in Nat
               /\ maxRetries \in Nat \ {0} /\ IsFiniteSet(Logins)

Phases == {"idle", "unlocked", "got", "matched"}
Trying == {l \in Logins : login[l].phase \in {"unlocked", "got"}}

HoldRecords == \A l \in Logins : login[l].phase \in {"got", "matched"} => login[l].held # Users!NoRecord

Changing == {"idle", "looked", "changed"}
ChangersHold == \A c \in Changers : changer[c].phase # "idle" => changer[c].held # Users!NoRecord

(* A lock is set with the count, and only the logins under way add to it; what is not
   locked has not been guessed at too often since. *)
Guessing ==
    /\ guesses <= failed.count
    /\ Users!isLocked => guesses + Cardinality(Trying) <= maxRetries + Cardinality(Logins) - 1
    /\ ~ Users!isLocked => guesses = 0 \/ failed.count < maxRetries

UsersInv == Users!TypeOK /\ HoldRecords /\ ChangersHold /\ Guessing /\ Users!FileFollows

LEMMA UsersCardinality == \A S : Users!Cardinality(S) = Cardinality(S)
  BY DEF Users!Cardinality, Cardinality

LEMMA TryingFinite ==
    ASSUME UsersBounds
    PROVE  /\ Cardinality(Trying) \in Nat /\ Cardinality(Logins) \in Nat
           /\ Cardinality(Trying') \in Nat
           /\ \A l \in Trying : Cardinality(Trying \ {l}) = Cardinality(Trying) - 1
           /\ \A l \in Logins : \A S : S \subseteq Logins \ {l} =>
                 Cardinality(S) \in Nat /\ Cardinality(S) <= Cardinality(Logins) - 1
           /\ \A S, T : S \subseteq T /\ T \subseteq Logins =>
                 Cardinality(S) \in Nat /\ Cardinality(S) <= Cardinality(T)
  <1>1. IsFiniteSet(Logins) /\ Trying \subseteq Logins /\ Trying' \subseteq Logins
    BY DEF UsersBounds, Trying
  <1>2. \A S, T : S \subseteq T /\ T \subseteq Logins =>
            IsFiniteSet(S) /\ Cardinality(S) \in Nat /\ Cardinality(S) <= Cardinality(T)
    BY <1>1, FS_Subset, FS_CardinalityType
  <1>3. \A l \in Trying : Cardinality(Trying \ {l}) = Cardinality(Trying) - 1
    BY <1>1, <1>2, FS_RemoveElement
  <1>4. \A l \in Logins : Cardinality(Logins \ {l}) = Cardinality(Logins) - 1
    BY <1>1, FS_RemoveElement
  <1>5. \A l \in Logins : \A S : S \subseteq Logins \ {l} =>
                 Cardinality(S) \in Nat /\ Cardinality(S) <= Cardinality(Logins) - 1
    BY <1>2, <1>4, Zenon
  <1> QED
    BY <1>1, <1>2, <1>3, <1>5

(* What save leaves in the file. *)
LEMMA SaveKeeps ==
    ASSUME record' \in Seq(Users!Value), table' \in {Users!NoRecord} \cup DOMAIN record',
           file \in Users!Value \cup {Users!Absent, Users!Torn}, Users!Save
    PROVE  /\ file' \in Users!Value \cup {Users!Absent, Users!Torn}
           /\ unsaved' \in BOOLEAN
           /\ ~ unsaved' => file' = Users!Memory(table', record')
  <1>1. Users!Memory(table', record') \in Users!Value \cup {Users!Absent}
    <2>1. CASE table' = Users!NoRecord
      BY <2>1 DEF Users!Memory
    <2>2. CASE table' \in DOMAIN record' /\ table' # Users!NoRecord
      BY <2>2 DEF Users!Memory
    <2> QED
      BY <2>1, <2>2
  <1>2. CASE file' = Users!Memory(table', record') /\ unsaved' = FALSE
    BY <1>1, <1>2
  <1>3. CASE file' \in {file, Users!Torn} /\ unsaved' = TRUE
    BY <1>3
  <1> QED
    BY <1>2, <1>3 DEF Users!Save

(* What UpdateUser leaves of the table and the file. *)
LEMMA PutBackKeeps ==
    ASSUME UsersInv, NEW held \in {Users!NoRecord} \cup DOMAIN record, Users!PutBack(held)
    PROVE  /\ table' \in {Users!NoRecord} \cup DOMAIN record
           /\ file' \in Users!Value \cup {Users!Absent, Users!Torn} /\ unsaved' \in BOOLEAN
           /\ \/ UNCHANGED <<table, file, unsaved>> /\ table = Users!NoRecord
              \/ ~ unsaved' => file' = Users!Memory(table', record')
  <1>1. CASE table = Users!NoRecord
    BY <1>1 DEF UsersInv, Users!TypeOK, Users!PutBack
  <1>2. CASE table # Users!NoRecord
    <2>1. table' = held /\ Users!Save /\ record' = record
      BY <1>2 DEF Users!PutBack
    <2>2. /\ record' \in Seq(Users!Value) /\ table' \in {Users!NoRecord} \cup DOMAIN record'
          /\ file \in Users!Value \cup {Users!Absent, Users!Torn}
      BY <2>1 DEF UsersInv, Users!TypeOK
    <2> QED
      BY <2>1, <2>2, SaveKeeps
  <1> QED
    BY <1>1, <1>2

LEMMA UsersStart == ASSUME UsersBounds, Users!Init PROVE UsersInv
  <1>1. record \in Seq(Users!Value) /\ Len(record) = 1 /\ record[1] \in Users!Value /\ DOMAIN record = {1}
    BY DEF Users!Init, Users!Value, Users!Passwords
  <1>2. /\ login \in [Logins -> [phase : Phases, held : {Users!NoRecord} \cup DOMAIN record]]
        /\ changer \in [Changers -> [phase : Changing, held : {Users!NoRecord} \cup DOMAIN record]]
    BY DEF Users!Init, Users!Idle, Phases, Changing
  <1>3. failed \in [count : 0 .. MaxGuesses, lock : {"none", "set"}]
    BY DEF Users!Init, Users!NobodyFailed, UsersBounds
  <1>4. Users!TypeOK
    <2>1. /\ table = 1 /\ Len(record) <= MaxRecords
          /\ guesses = 0 /\ 0 \in 0 .. MaxGuesses
      BY <1>1 DEF Users!Init, UsersBounds
    <2>2. /\ file \in Users!Value /\ backup = Users!Nothing /\ unsaved \in BOOLEAN /\ up \in BOOLEAN
      BY <1>1 DEF Users!Init
    <2> QED
      BY <1>1, <1>2, <1>3, <2>1, <2>2 DEF Users!TypeOK, Phases, Changing
  <1>5. HoldRecords /\ ChangersHold /\ Users!FileFollows
    BY DEF HoldRecords, ChangersHold, Users!FileFollows, Users!Init, Users!Idle, Users!Memory, Users!NoRecord
  <1>6. ~ Users!isLocked /\ guesses = 0 /\ failed.count = 0
    BY DEF Users!Init, Users!isLocked, Users!NobodyFailed
  <1> QED
    BY <1>4, <1>5, <1>6 DEF UsersInv, Guessing

(* What a step may do to the table, the records and the file: the rest is the logins'. *)
LEMMA RecordsKeep ==
    ASSUME UsersBounds, UsersInv, login' = login, changer' = changer, failed' = failed,
           guesses' = guesses,
           up' \in BOOLEAN,
           record' \in Seq(Users!Value), Len(record) <= Len(record'), Len(record') <= MaxRecords,
           table' \in {Users!NoRecord} \cup DOMAIN record',
           backup' \in Users!Value \cup {Users!Nothing, Users!Absent, Users!Torn},
           Users!Save
    PROVE  UsersInv'
  <1>1. /\ file' \in Users!Value \cup {Users!Absent, Users!Torn} /\ unsaved' \in BOOLEAN
        /\ ~ unsaved' => file' = Users!Memory(table', record')
    BY SaveKeeps DEF UsersInv, Users!TypeOK
  <1>2. DOMAIN record \subseteq DOMAIN record'
    BY DEF UsersInv, Users!TypeOK
  <1>3. /\ login' \in [Logins -> [phase : Phases, held : {Users!NoRecord} \cup DOMAIN record']]
        /\ changer' \in [Changers -> [phase : Changing, held : {Users!NoRecord} \cup DOMAIN record']]
    <2>1. /\ login \in [Logins -> [phase : Phases, held : {Users!NoRecord} \cup DOMAIN record]]
          /\ changer \in [Changers -> [phase : Changing, held : {Users!NoRecord} \cup DOMAIN record]]
      BY DEF UsersInv, Users!TypeOK, Phases, Changing
    <2> QED
      BY <1>2, <2>1
  <1>4. Users!TypeOK'
    BY <1>1, <1>3 DEF UsersInv, Users!TypeOK, Phases, Changing
  <1>5. Guessing'
    <2>1. Trying' = Trying
      BY DEF Trying
    <2> QED
      BY <2>1 DEF UsersInv, Guessing, Users!isLocked
  <1> QED
    BY <1>1, <1>4, <1>5 DEF UsersInv, HoldRecords, ChangersHold, Users!FileFollows

LEMMA LoginUpdates ==
    ASSUME NEW S, login \in [Logins -> [phase : Phases, held : S]], NEW l \in Logins, NEW x
    PROVE  [login EXCEPT ![l].phase = x]
              = [login EXCEPT ![l] = [phase |-> x, held |-> login[l].held]]
  <1>1. login[l] = [phase |-> login[l].phase, held |-> login[l].held] /\ DOMAIN login = Logins
    OBVIOUS
  <1>2. [login[l] EXCEPT !.phase = x] = [phase |-> x, held |-> login[l].held]
    BY <1>1
  <1>3. [login EXCEPT ![l].phase = x] = [login EXCEPT ![l] = [login[l] EXCEPT !.phase = x]]
    OBVIOUS
  <1> QED
    BY <1>2, <1>3

(* A login step changes one login: its type, and who may still fail. *)
LEMMA LoginTyped ==
    ASSUME UsersInv, NEW l \in Logins, NEW ph \in Phases, NEW h \in {Users!NoRecord} \cup DOMAIN record,
           login' = [login EXCEPT ![l] = [phase |-> ph, held |-> h]],
           ph \in {"got", "matched"} => h # Users!NoRecord
    PROVE  /\ login' \in [Logins -> [phase : Phases, held : {Users!NoRecord} \cup DOMAIN record]]
           /\ \A k \in Logins : login'[k].phase \in {"got", "matched"} =>
                                   login'[k].held # Users!NoRecord
           /\ Trying \ {l} \subseteq Trying' /\ Trying' \subseteq Trying \cup {l}
           /\ l \in Trying' <=> ph \in {"unlocked", "got"}
  <1>1. login \in [Logins -> [phase : Phases, held : {Users!NoRecord} \cup DOMAIN record]]
    BY DEF UsersInv, Users!TypeOK, Phases
  <1>2. [phase |-> ph, held |-> h] \in [phase : Phases, held : {Users!NoRecord} \cup DOMAIN record]
    OBVIOUS
  <1>3. /\ login' \in [Logins -> [phase : Phases, held : {Users!NoRecord} \cup DOMAIN record]]
        /\ login'[l] = [phase |-> ph, held |-> h]
        /\ \A k \in Logins : k # l => login'[k] = login[k]
    BY <1>1, <1>2
  <1>4. \A k \in Logins : login'[k].phase \in {"got", "matched"} => login'[k].held # Users!NoRecord
    BY <1>3 DEF UsersInv, HoldRecords
  <1> QED
    BY <1>3, <1>4 DEF Trying

LEMMA LoginMoves ==
    ASSUME UsersBounds, UsersInv, NEW l \in Logins, UNCHANGED up,
           Users!CheckLock(l) \/ Users!GetUser(l) \/ Users!Declines(l)
    PROVE  UsersInv'
  <1>1. /\ login \in [Logins -> [phase : Phases, held : {Users!NoRecord} \cup DOMAIN record]]
        /\ table \in {Users!NoRecord} \cup DOMAIN record
        /\ login[l] \in [phase : Phases, held : {Users!NoRecord} \cup DOMAIN record]
    BY DEF UsersInv, Users!TypeOK, Phases
  <1>2. PICK ph \in Phases, h \in {Users!NoRecord} \cup DOMAIN record :
           /\ login' = [login EXCEPT ![l] = [phase |-> ph, held |-> h]]
           /\ ph \in {"got", "matched"} => h # Users!NoRecord
           /\ Users!isLocked => (ph \in {"unlocked", "got"} => l \in Trying)
    <2>1. CASE Users!CheckLock(l)
      <3>1. login' = [login EXCEPT ![l] = [phase |-> "unlocked", held |-> login[l].held]]
        BY <1>1, <2>1, LoginUpdates DEF Users!CheckLock
      <3> QED
        BY <1>1, <2>1, <3>1 DEF Users!CheckLock, Phases
    <2>2. CASE Users!GetUser(l)
      <3>1. login' = [login EXCEPT ![l] = [phase |-> "got", held |-> table]]
        BY <2>2 DEF Users!GetUser
      <3> QED
        BY <1>1, <2>2, <3>1 DEF Users!GetUser, Phases, Trying
    <2>3. CASE Users!Declines(l)
      <3>1. login' = [login EXCEPT ![l] = [phase |-> "idle", held |-> Users!NoRecord]]
        BY <1>1, <2>3 DEF Users!Declines, Users!Idle
      <3> QED
        BY <3>1 DEF Phases
    <2> QED
      BY <2>1, <2>2, <2>3
  <1>3. UNCHANGED <<record, table, file, backup, changer, failed, guesses, unsaved, up>>
    BY DEF Users!CheckLock, Users!GetUser, Users!Declines
  <1>4. /\ login' \in [Logins -> [phase : Phases, held : {Users!NoRecord} \cup DOMAIN record]]
        /\ HoldRecords'
        /\ Trying' \subseteq Trying \cup {l}
        /\ l \in Trying' <=> ph \in {"unlocked", "got"}
    BY <1>2, LoginTyped DEF HoldRecords
  <1>5. Users!TypeOK'
    BY <1>3, <1>4 DEF UsersInv, Users!TypeOK, Phases
  <1>6. Users!isLocked => Cardinality(Trying') <= Cardinality(Trying)
    BY <1>2, <1>4, TryingFinite DEF Trying
  <1>7. Guessing'
    <2>1. guesses \in Nat /\ maxRetries \in Nat
      BY DEF UsersInv, Users!TypeOK, UsersBounds
    <2> QED
      BY <1>3, <1>6, <2>1, TryingFinite DEF UsersInv, Guessing, Users!isLocked
  <1>8. ChangersHold' /\ Users!FileFollows'
    BY <1>3 DEF UsersInv, ChangersHold, Users!FileFollows, Users!Memory
  <1> QED
    BY <1>4, <1>5, <1>7, <1>8 DEF UsersInv

LEMMA LoginSucceeds ==
    ASSUME UsersBounds, UsersInv, NEW l \in Logins, UNCHANGED up, Users!Matches(l)
    PROVE  UsersInv'
  <1>1. /\ login \in [Logins -> [phase : Phases, held : {Users!NoRecord} \cup DOMAIN record]]
        /\ login[l] \in [phase : Phases, held : {Users!NoRecord} \cup DOMAIN record]
    BY DEF UsersInv, Users!TypeOK, Phases
  <1>2. /\ login' = [login EXCEPT ![l] = [phase |-> "matched", held |-> login[l].held]]
        /\ login[l].held # Users!NoRecord
    BY <1>1, LoginUpdates DEF Users!Matches, UsersInv, HoldRecords
  <1>3. /\ login' \in [Logins -> [phase : Phases, held : {Users!NoRecord} \cup DOMAIN record]]
        /\ HoldRecords'
    BY <1>1, <1>2, LoginTyped DEF HoldRecords, Phases
  <1>4. /\ UNCHANGED <<record, table, file, backup, changer, unsaved, up>>
        /\ failed' = [count |-> 0, lock |-> "none"] /\ guesses' = 0
    BY DEF Users!Matches, Users!NobodyFailed
  <1>5. Users!TypeOK'
    <2>1. failed' \in [count : 0 .. MaxGuesses, lock : {"none", "set"}]
          /\ guesses' \in 0 .. MaxGuesses
      BY <1>4 DEF UsersBounds
    <2> QED
      BY <1>3, <1>4, <2>1 DEF UsersInv, Users!TypeOK, Phases
  <1>6. Guessing'
    BY <1>4 DEF Guessing, Users!isLocked
  <1>7. ChangersHold' /\ Users!FileFollows'
    BY <1>4 DEF UsersInv, ChangersHold, Users!FileFollows, Users!Memory
  <1> QED
    BY <1>3, <1>5, <1>6, <1>7 DEF UsersInv

LEMMA LoginFails ==
    ASSUME UsersBounds, UsersInv, NEW l \in Logins, UNCHANGED up, Users!Fails(l)
    PROVE  UsersInv'
  <1>1. l \in Trying /\ login' = [login EXCEPT ![l] = [phase |-> "idle", held |-> Users!NoRecord]]
    BY DEF Users!Fails, Users!Idle, Trying
  <1>2. /\ login' \in [Logins -> [phase : Phases, held : {Users!NoRecord} \cup DOMAIN record]]
        /\ HoldRecords'
        /\ Trying' = Trying \ {l}
    BY <1>1, LoginTyped, Zenon DEF HoldRecords, Phases
  <1>3. UNCHANGED <<record, table, file, backup, changer, unsaved, up>> /\ Users!RecordFailed
    BY DEF Users!Fails
  <1>4. /\ guesses \in 0 .. MaxGuesses /\ maxRetries \in Nat \ {0} /\ MaxGuesses \in Nat
        /\ failed.count \in 0 .. MaxGuesses /\ failed.lock \in {"none", "set"}
    BY DEF UsersInv, Users!TypeOK, UsersBounds
  <1> DEFINE lock == IF failed.count + 1 >= maxRetries THEN "set" ELSE failed.lock
  <1>5. /\ guesses < MaxGuesses /\ failed.count < MaxGuesses /\ guesses' = guesses + 1
        /\ failed' = [count |-> failed.count + 1, lock |-> lock]
    BY <1>3, <1>4 DEF Users!RecordFailed, Users!Locks
  <1>6. lock \in {"none", "set"}
    BY <1>4
  <1> HIDE DEF lock
  <1>7. Users!TypeOK'
    <2>1. failed.count + 1 \in 0 .. MaxGuesses /\ guesses + 1 \in 0 .. MaxGuesses
      BY <1>4, <1>5
    <2>2. failed' \in [count : 0 .. MaxGuesses, lock : {"none", "set"}]
      BY <1>5, <1>6, <2>1
    <2> QED
      BY <1>2, <1>3, <1>5, <2>1, <2>2 DEF UsersInv, Users!TypeOK, Phases
  <1>8. Guessing'
    <2>1. /\ Cardinality(Trying') = Cardinality(Trying) - 1
          /\ Cardinality(Trying) \in Nat /\ Cardinality(Logins) \in Nat
          /\ Cardinality(Trying') <= Cardinality(Logins) - 1
      <3>1. Trying \ {l} \subseteq Logins \ {l} /\ l \in Logins
        BY DEF Trying
      <3> QED
        BY <1>1, <1>2, <3>1, TryingFinite
    <2>2. guesses' = guesses + 1 /\ failed'.count = failed.count + 1 /\ failed'.lock = lock
      BY <1>5
    <2>3. Users!isLocked' <=> lock = "set"
      BY <1>3, <2>2 DEF Users!isLocked
    <2>4. guesses' <= failed'.count
      BY <1>4, <2>2 DEF UsersInv, Guessing
    <2>5. CASE Users!isLocked
      <3>1. lock = "set"
        BY <1>4, <2>5 DEF lock, Users!isLocked
      <3> QED
        BY <1>4, <2>1, <2>2, <2>3, <2>4, <2>5, <3>1 DEF UsersInv, Guessing
    <2>6. CASE ~ Users!isLocked
      <3>1. failed.count + 1 >= maxRetries => lock = "set"
        BY <1>4 DEF lock
      <3>2. failed.count + 1 < maxRetries => lock # "set"
        BY <1>4, <2>6 DEF lock, Users!isLocked
      <3>3. guesses = 0 \/ failed.count < maxRetries
        BY <2>6 DEF UsersInv, Guessing
      <3>4. guesses + 1 <= maxRetries
        BY <1>4, <3>3 DEF UsersInv, Guessing
      <3> QED
        BY <1>4, <2>1, <2>2, <2>3, <2>4, <3>1, <3>2, <3>4 DEF Guessing
    <2> QED
      BY <2>5, <2>6
  <1>9. ChangersHold' /\ Users!FileFollows'
    BY <1>3 DEF UsersInv, ChangersHold, Users!FileFollows, Users!Memory
  <1> QED
    BY <1>2, <1>7, <1>8, <1>9 DEF UsersInv

LEMMA LoginWritesBack ==
    ASSUME UsersBounds, UsersInv, NEW l \in Logins, UNCHANGED up, Users!WriteBack(l)
    PROVE  UsersInv'
  <1>1. /\ login \in [Logins -> [phase : Phases, held : {Users!NoRecord} \cup DOMAIN record]]
        /\ login[l].held \in {Users!NoRecord} \cup DOMAIN record
    BY DEF UsersInv, Users!TypeOK, Phases
  <1>2. login' = [login EXCEPT ![l] = [phase |-> "idle", held |-> Users!NoRecord]]
    BY DEF Users!WriteBack, Users!Idle
  <1>3. /\ login' \in [Logins -> [phase : Phases, held : {Users!NoRecord} \cup DOMAIN record]]
        /\ HoldRecords' /\ Trying' \subseteq Trying
    <2>1. login[l].phase = "matched"
      BY DEF Users!WriteBack
    <2> QED
      BY <1>2, <2>1, LoginTyped, Zenon DEF HoldRecords, Phases, Trying
  <1>4. UNCHANGED <<record, backup, changer, failed, guesses, up>> /\ Users!PutBack(login[l].held)
    BY DEF Users!WriteBack, Users!PutBack
  <1>5. /\ table' \in {Users!NoRecord} \cup DOMAIN record
        /\ file' \in Users!Value \cup {Users!Absent, Users!Torn} /\ unsaved' \in BOOLEAN
        /\ \/ UNCHANGED <<table, file, unsaved>>
           \/ ~ unsaved' => file' = Users!Memory(table', record')
    BY <1>1, <1>4, PutBackKeeps
  <1>6. Users!TypeOK'
    BY <1>3, <1>4, <1>5 DEF UsersInv, Users!TypeOK, Phases
  <1>7. Guessing'
    <2>1. guesses \in Nat /\ maxRetries \in Nat
      BY DEF UsersInv, Users!TypeOK, UsersBounds
    <2>2. Cardinality(Trying') <= Cardinality(Trying)
      BY <1>3, TryingFinite DEF Trying
    <2> QED
      BY <1>4, <2>1, <2>2, TryingFinite DEF UsersInv, Guessing, Users!isLocked
  <1>8. ChangersHold' /\ Users!FileFollows'
    BY <1>4, <1>5 DEF UsersInv, ChangersHold, Users!FileFollows, Users!Memory
  <1> QED
    BY <1>3, <1>6, <1>7, <1>8 DEF UsersInv


(* A change of the password touches no login: what is left to show is that the changers
   hold records, and that the file follows. *)
LEMMA ChangerTyped ==
    ASSUME UsersInv, NEW c \in Changers, NEW ph \in Changing, NEW h \in {Users!NoRecord} \cup DOMAIN record,
           changer' = [changer EXCEPT ![c] = [phase |-> ph, held |-> h]],
           ph # "idle" => h # Users!NoRecord
    PROVE  /\ changer' \in [Changers -> [phase : Changing, held : {Users!NoRecord} \cup DOMAIN record]]
           /\ changer'[c] = [phase |-> ph, held |-> h]
           /\ \A d \in Changers : d # c => changer'[d] = changer[d]
           /\ ChangersHold'
  <1>1. changer \in [Changers -> [phase : Changing, held : {Users!NoRecord} \cup DOMAIN record]]
    BY DEF UsersInv, Users!TypeOK, Changing
  <1>2. [phase |-> ph, held |-> h] \in [phase : Changing, held : {Users!NoRecord} \cup DOMAIN record]
    OBVIOUS
  <1>3. /\ changer' \in [Changers -> [phase : Changing, held : {Users!NoRecord} \cup DOMAIN record]]
        /\ changer'[c] = [phase |-> ph, held |-> h]
        /\ \A d \in Changers : d # c => changer'[d] = changer[d]
    BY <1>1, <1>2
  <1> QED
    BY <1>3 DEF UsersInv, ChangersHold

LEMMA ChangerKeeps ==
    ASSUME UsersBounds, UsersInv, UNCHANGED <<backup, login, failed, guesses, up>>,
           changer' \in [Changers -> [phase : Changing, held : {Users!NoRecord} \cup DOMAIN record]],
           record' \in Seq(Users!Value), Len(record') = Len(record),
           table' \in {Users!NoRecord} \cup DOMAIN record,
           file' \in Users!Value \cup {Users!Absent, Users!Torn}, unsaved' \in BOOLEAN,
           ChangersHold', Users!FileFollows'
    PROVE  UsersInv'
  <1>1. DOMAIN record' = DOMAIN record /\ Trying' = Trying
    BY DEF UsersInv, Users!TypeOK, Trying
  <1>2. Users!TypeOK'
    BY <1>1 DEF UsersInv, Users!TypeOK, Changing
  <1>3. Guessing' /\ HoldRecords'
    BY <1>1 DEF UsersInv, Guessing, HoldRecords, Users!isLocked
  <1> QED
    BY <1>2, <1>3 DEF UsersInv

LEMMA LooksKeeps ==
    ASSUME UsersBounds, UsersInv, NEW c \in Changers, UNCHANGED up, Users!Looks(c)
    PROVE  UsersInv'
  <1>1. /\ changer[c].phase = "idle" /\ table # Users!NoRecord
        /\ changer' = [changer EXCEPT ![c] = [phase |-> "looked", held |-> table]]
        /\ UNCHANGED <<record, table, file, backup, login, failed, guesses, unsaved>>
    BY DEF Users!Looks
  <1>2. /\ record \in Seq(Users!Value) /\ table \in {Users!NoRecord} \cup DOMAIN record
        /\ file \in Users!Value \cup {Users!Absent, Users!Torn} /\ unsaved \in BOOLEAN
    BY DEF UsersInv, Users!TypeOK
  <1>3. /\ changer' \in [Changers -> [phase : Changing, held : {Users!NoRecord} \cup DOMAIN record]]
        /\ \A d \in Changers : d # c => changer'[d] = changer[d]
        /\ ChangersHold'
    BY <1>1, <1>2, ChangerTyped DEF Changing
  <1>4. \A d \in Changers : changer[d].phase = "changed" => changer'[d] = changer[d]
    BY <1>1, <1>3
  <1>5. Users!FileFollows'
    <2>1. \A h : (\E d \in Changers : changer[d] = [phase |-> "changed", held |-> h])
                   => \E d \in Changers : changer'[d] = [phase |-> "changed", held |-> h]
      BY <1>4
    <2> QED
      BY <1>1, <2>1 DEF UsersInv, Users!FileFollows, Users!Memory
  <1> QED
    BY <1>1, <1>2, <1>3, <1>5, ChangerKeeps

LEMMA ChangesKeeps ==
    ASSUME UsersBounds, UsersInv, NEW c \in Changers, NEW password \in Users!Passwords,
           UNCHANGED up, Users!Changes(c, password)
    PROVE  UsersInv'
  <1>1. PICK h \in {Users!NoRecord} \cup DOMAIN record : changer[c] = [phase |-> "looked", held |-> h]
    BY DEF Users!Changes, UsersInv, Users!TypeOK
  <1>2. /\ record' = [record EXCEPT ![h].password = password]
        /\ changer' = [changer EXCEPT ![c].phase = "changed"]
        /\ UNCHANGED <<table, file, backup, login, failed, guesses, unsaved>>
    BY <1>1 DEF Users!Changes
  <1>3. /\ record \in Seq(Users!Value) /\ table \in {Users!NoRecord} \cup DOMAIN record
        /\ file \in Users!Value \cup {Users!Absent, Users!Torn} /\ unsaved \in BOOLEAN
        /\ DOMAIN record = 1 .. Len(record) /\ Len(record) \in Nat
        /\ changer \in [Changers -> [phase : Changing, held : {Users!NoRecord} \cup DOMAIN record]]
    BY DEF UsersInv, Users!TypeOK, Changing
  <1>4. h \in 1 .. Len(record) /\ h # Users!NoRecord
    BY <1>1, <1>3 DEF UsersInv, ChangersHold
  <1>5. changer' = [changer EXCEPT ![c] = [phase |-> "changed", held |-> h]]
    <2>1. [changer[c] EXCEPT !.phase = "changed"] = [phase |-> "changed", held |-> h]
      BY <1>1
    <2>2. changer' = [changer EXCEPT ![c] = [changer[c] EXCEPT !.phase = "changed"]]
      BY <1>2
    <2> QED
      BY <2>1, <2>2
  <1>6. /\ changer' \in [Changers -> [phase : Changing, held : {Users!NoRecord} \cup DOMAIN record]]
        /\ changer'[c] = [phase |-> "changed", held |-> h]
        /\ \A d \in Changers : d # c => changer'[d] = changer[d]
        /\ ChangersHold'
    BY <1>1, <1>4, <1>5, ChangerTyped DEF Changing
  <1>7. PICK v \in Users!Value :
           /\ v = [record[h] EXCEPT !.password = password]
           /\ record' = [record EXCEPT ![h] = v]
    <2>1. record[h] \in Users!Value
      BY <1>3, <1>4
    <2>2. [record[h] EXCEPT !.password = password] \in Users!Value
      BY <2>1 DEF Users!Value
    <2>3. record' = [record EXCEPT ![h] = [record[h] EXCEPT !.password = password]]
      BY <1>2
    <2> QED
      BY <2>2, <2>3
  <1>8. /\ record' \in Seq(Users!Value) /\ Len(record') = Len(record) /\ record'[h] = v
        /\ \A r \in DOMAIN record : r # h => record'[r] = record[r]
    BY <1>3, <1>4, <1>7
  <1>9. Users!FileFollows'
    <2> SUFFICES ASSUME up, ~ unsaved PROVE Users!FileFollows'
      BY <1>2 DEF Users!FileFollows
    <2>1. \/ file = Users!Memory(table, record)
          \/ /\ \E d \in Changers : changer[d] = [phase |-> "changed", held |-> table]
             /\ file = [Users!Memory(table, record) EXCEPT !.password = file.password]
             /\ file.password \in Users!Passwords
      BY DEF UsersInv, Users!FileFollows
    <2>2. CASE h # table
      <3>1. Users!Memory(table, record') = Users!Memory(table, record)
        BY <1>3, <1>8, <2>2 DEF Users!Memory
      <3>2. (\E d \in Changers : changer[d] = [phase |-> "changed", held |-> table])
               => \E d \in Changers : changer'[d] = [phase |-> "changed", held |-> table]
        BY <1>1, <1>6
      <3> QED
        BY <1>2, <2>1, <3>1, <3>2 DEF Users!FileFollows
    <2>3. CASE h = table
      <3>1. Users!Memory(table, record) = record[h] /\ Users!Memory(table, record') = v
        BY <1>4, <1>8, <2>3 DEF Users!Memory
      <3>2. record[h] \in Users!Value
        BY <1>3, <1>4
      <3>3. file = [record[h] EXCEPT !.password = file.password] /\ file.password \in Users!Passwords
        BY <2>1, <3>1, <3>2 DEF Users!Value
      <3>4. file = [v EXCEPT !.password = file.password]
        BY <1>7, <3>2, <3>3 DEF Users!Value
      <3> QED
        BY <1>2, <1>6, <2>3, <3>1, <3>3, <3>4 DEF Users!FileFollows
    <2> QED
      BY <2>2, <2>3
  <1> QED
    BY <1>2, <1>3, <1>6, <1>8, <1>9, ChangerKeeps

LEMMA StoresKeeps ==
    ASSUME UsersBounds, UsersInv, NEW c \in Changers, UNCHANGED up, Users!Stores(c)
    PROVE  UsersInv'
  <1>1. PICK h \in {Users!NoRecord} \cup DOMAIN record : changer[c] = [phase |-> "changed", held |-> h]
    BY DEF Users!Stores, UsersInv, Users!TypeOK
  <1>2. /\ changer' = [changer EXCEPT ![c] = [phase |-> "idle", held |-> Users!NoRecord]]
        /\ Users!PutBack(h) /\ record' = record
        /\ UNCHANGED <<backup, login, failed, guesses>>
    BY <1>1 DEF Users!Stores, Users!PutBack, Users!Idle
  <1>3. /\ changer' \in [Changers -> [phase : Changing, held : {Users!NoRecord} \cup DOMAIN record]]
        /\ ChangersHold'
    BY <1>2, ChangerTyped DEF Changing
  <1>4. /\ table' \in {Users!NoRecord} \cup DOMAIN record
        /\ file' \in Users!Value \cup {Users!Absent, Users!Torn} /\ unsaved' \in BOOLEAN
        /\ \/ UNCHANGED <<table, file, unsaved>> /\ table = Users!NoRecord
           \/ ~ unsaved' => file' = Users!Memory(table', record')
    BY <1>2, PutBackKeeps
  <1>5. Users!FileFollows'
    <2>1. CASE UNCHANGED <<table, file, unsaved>> /\ table = Users!NoRecord
      <3>1. ~ \E d \in Changers : changer[d] = [phase |-> "changed", held |-> table]
        BY <2>1 DEF UsersInv, ChangersHold
      <3>2. up /\ ~ unsaved => file = Users!Memory(table, record)
        BY <3>1 DEF UsersInv, Users!FileFollows
      <3> QED
        BY <1>2, <2>1, <3>2 DEF Users!FileFollows, Users!Memory
    <2>2. CASE ~ unsaved' => file' = Users!Memory(table', record')
      BY <2>2 DEF Users!FileFollows
    <2> QED
      BY <1>4, <2>1, <2>2
  <1>6. record \in Seq(Users!Value)
    BY DEF UsersInv, Users!TypeOK
  <1> QED
    BY <1>2, <1>3, <1>4, <1>5, <1>6, ChangerKeeps

LEMMA AdministratorKeeps ==
    ASSUME UsersBounds, UsersInv, UNCHANGED up,
           \/ \E password \in Users!Passwords : Users!CreateUser(password)
           \/ \E value \in Users!Value : Users!UpdateUser(value)
           \/ Users!DeleteUser \/ Users!Restore
    PROVE  UsersInv'
  <1>1. /\ record \in Seq(Users!Value) /\ Len(record) \in Nat /\ Len(record) <= MaxRecords
        /\ table \in {Users!NoRecord} \cup DOMAIN record /\ DOMAIN record = 1 .. Len(record)
        /\ backup \in Users!Value \cup {Users!Nothing, Users!Absent, Users!Torn}
        /\ MaxRecords \in Nat /\ up \in BOOLEAN
    BY DEF UsersInv, Users!TypeOK, UsersBounds
  <1>2. UNCHANGED <<backup, login, changer, failed, guesses>> /\ Users!Save
    BY DEF Users!CreateUser, Users!UpdateUser, Users!DeleteUser, Users!Restore
  <1>3. ASSUME NEW value \in Users!Value, Users!Made(value)
        PROVE  /\ record' \in Seq(Users!Value) /\ Len(record) <= Len(record')
               /\ Len(record') <= MaxRecords /\ table' \in DOMAIN record'
    <2>1. record' = Append(record, value) /\ table' = Len(record') /\ Len(record) < MaxRecords
      BY <1>3 DEF Users!Made
    <2>2. record' \in Seq(Users!Value) /\ Len(record') = Len(record) + 1
      BY <1>1, <2>1
    <2> QED
      BY <1>1, <2>1, <2>2
  <1>4. ASSUME record' = record
        PROVE  /\ record' \in Seq(Users!Value) /\ Len(record) <= Len(record')
               /\ Len(record') <= MaxRecords /\ DOMAIN record' = DOMAIN record
    BY <1>1, <1>4
  <1>5. /\ record' \in Seq(Users!Value) /\ Len(record) <= Len(record') /\ Len(record') <= MaxRecords
        /\ table' \in {Users!NoRecord} \cup DOMAIN record'
    <2>1. CASE \E password \in Users!Passwords : Users!CreateUser(password)
      <3>1. PICK password \in Users!Passwords :
               Users!Made([password |-> password, enabled |-> TRUE])
        BY <2>1 DEF Users!CreateUser
      <3>2. [password |-> password, enabled |-> TRUE] \in Users!Value
        BY DEF Users!Value
      <3> QED
        BY <1>3, <3>1, <3>2
    <2>2. CASE \E value \in Users!Value : Users!UpdateUser(value)
      BY <1>3, <2>2 DEF Users!UpdateUser
    <2>3. CASE Users!DeleteUser
      BY <1>4, <2>3 DEF Users!DeleteUser
    <2>4. CASE Users!Restore
      BY <1>3, <1>4, <2>4 DEF Users!Restore
    <2> QED
      BY <2>1, <2>2, <2>3, <2>4
  <1> QED
    BY <1>1, <1>2, <1>5, RecordsKeep

LEMMA CrashKeeps ==
    ASSUME UsersBounds, UsersInv, NEW during \in BOOLEAN, Users!Crash(during)
    PROVE  UsersInv'
  <1>1. /\ file' \in Users!Value \cup {Users!Absent, Users!Torn} /\ up' \in BOOLEAN
        /\ (up' => file' # Users!Torn)
    BY DEF Users!Crash, UsersInv, Users!TypeOK
  <1>2. /\ login' = [l \in Logins |-> Users!Idle] /\ changer' = [c \in Changers |-> Users!Idle]
        /\ failed' = [count |-> 0, lock |-> "none"] /\ guesses' = 0 /\ unsaved' = FALSE /\ UNCHANGED backup
    BY DEF Users!Crash, Users!NobodyFailed
  <1>3. /\ record' \in Seq(Users!Value) /\ Len(record') <= MaxRecords
        /\ table' \in {Users!NoRecord} \cup DOMAIN record'
        /\ up' => file' = Users!Memory(table', record')
    <2>1. CASE file' \in Users!Value
      <3>1. table' = 1 /\ record' = <<file'>>
        BY <2>1 DEF Users!Crash
      <3>2. record' \in Seq(Users!Value) /\ Len(record') = 1 /\ record'[1] = file' /\ DOMAIN record' = {1}
        BY <2>1, <3>1
      <3> QED
        BY <3>1, <3>2 DEF UsersBounds, Users!Memory, Users!NoRecord
    <2>2. CASE file' \notin Users!Value
      <3>1. table' = Users!NoRecord /\ record' = <<>>
        BY <2>2 DEF Users!Crash
      <3> QED
        BY <1>1, <2>2, <3>1 DEF UsersBounds, Users!Memory
    <2> QED
      BY <2>1, <2>2
  <1>4. /\ login' \in [Logins -> [phase : Phases, held : {Users!NoRecord} \cup DOMAIN record']]
        /\ changer' \in [Changers -> [phase : Changing, held : {Users!NoRecord} \cup DOMAIN record']]
        /\ HoldRecords' /\ ChangersHold'
    BY <1>2 DEF HoldRecords, ChangersHold, Users!Idle, Phases, Changing
  <1>5. /\ failed' \in [count : 0 .. MaxGuesses, lock : {"none", "set"}]
        /\ guesses' \in 0 .. MaxGuesses
    BY <1>2 DEF UsersBounds
  <1>6. Users!TypeOK'
    BY <1>1, <1>2, <1>3, <1>4, <1>5 DEF UsersInv, Users!TypeOK, Phases, Changing
  <1>7. Guessing'
    BY <1>2 DEF Guessing, Users!isLocked
  <1>8. Users!FileFollows'
    BY <1>3 DEF Users!FileFollows
  <1> QED
    BY <1>4, <1>6, <1>7, <1>8 DEF UsersInv

LEMMA LockEndsKeeps ==
    ASSUME UsersBounds, UsersInv, UNCHANGED up, Users!LockEnds
    PROVE  UsersInv'
  <1>1. /\ UNCHANGED <<record, table, file, backup, login, changer, unsaved, up>>
        /\ guesses' = 0 /\ failed' = [failed EXCEPT !.lock = "none"]
    BY DEF Users!LockEnds
  <1>2. failed' \in [count : 0 .. MaxGuesses, lock : {"none", "set"}] /\ failed'.lock = "none"
    BY <1>1 DEF UsersInv, Users!TypeOK
  <1>3. Users!TypeOK'
    <2>1. guesses' \in 0 .. MaxGuesses
      BY <1>1 DEF UsersBounds
    <2> QED
      BY <1>1, <1>2, <2>1 DEF UsersInv, Users!TypeOK
  <1>4. Guessing'
    <2>1. guesses' = 0 /\ ~ Users!isLocked' /\ failed'.count \in Nat
      BY <1>1, <1>2 DEF Users!isLocked
    <2> QED
      BY <2>1 DEF Guessing
  <1>5. HoldRecords' /\ ChangersHold' /\ Users!FileFollows'
    BY <1>1 DEF UsersInv, HoldRecords, ChangersHold, Users!FileFollows, Users!Memory
  <1> QED
    BY <1>3, <1>4, <1>5 DEF UsersInv

LEMMA UsersInvariant == ASSUME UsersBounds PROVE Users!Spec => []UsersInv
  <1>1. Users!Init => UsersInv
    BY UsersStart
  <1>2. UsersInv /\ [Users!Next]_(Users!vars) => UsersInv'
    <2> SUFFICES ASSUME UsersInv, [Users!Next]_(Users!vars) PROVE UsersInv'
      OBVIOUS
    <2>1. CASE UNCHANGED Users!vars \/ (Users!Backup /\ UNCHANGED up)
      <3>1. UNCHANGED <<record, table, file, login, changer, failed, guesses, unsaved, up>>
            /\ backup' \in {backup, file}
        BY <2>1 DEF Users!vars, Users!Backup
      <3>2. Trying' = Trying
        BY <3>1 DEF Trying
      <3>3. Users!TypeOK'
        BY <3>1 DEF UsersInv, Users!TypeOK
      <3>4. Guessing'
        BY <3>1, <3>2 DEF UsersInv, Guessing, Users!isLocked
      <3> QED
        BY <3>1, <3>3, <3>4 DEF UsersInv, HoldRecords, ChangersHold, Users!FileFollows, Users!Memory
    <2>2. CASE Users!Next
      <3>1. CASE Users!Crash(TRUE) \/ Users!Crash(FALSE)
        BY <3>1, CrashKeeps
      <3>2. CASE Users!Serve
        <4>1. UNCHANGED up
          BY <3>2 DEF Users!Serve
        <4>2. CASE \E l \in Logins : \/ Users!CheckLock(l) \/ Users!GetUser(l) \/ Users!Fails(l)
                                      \/ Users!Declines(l) \/ Users!Matches(l) \/ Users!WriteBack(l)
          BY <4>1, <4>2, LoginMoves, LoginSucceeds, LoginFails, LoginWritesBack
        <4>3. CASE \E c \in Changers : Users!Looks(c) \/ Users!Stores(c)
          BY <4>1, <4>3, LooksKeeps, StoresKeeps
        <4>4. CASE \E c \in Changers, password \in Users!Passwords : Users!Changes(c, password)
          BY <4>1, <4>4, ChangesKeeps
        <4>5. CASE \/ \E password \in Users!Passwords : Users!CreateUser(password)
                   \/ \E value \in Users!Value : Users!UpdateUser(value)
                   \/ Users!DeleteUser \/ Users!Restore
          BY <4>1, <4>5, AdministratorKeeps
        <4>6. CASE Users!LockEnds
          BY <4>1, <4>6, LockEndsKeeps
        <4>7. CASE Users!Backup
          BY <2>1, <4>1, <4>7
        <4> QED
          BY <3>2, <4>2, <4>3, <4>4, <4>5, <4>6, <4>7 DEF Users!Serve
      <3> QED
        BY <2>2, <3>1, <3>2 DEF Users!Next
    <2> QED
      BY <2>1, <2>2
  <1> QED
    BY <1>1, <1>2, PTL DEF Users!Spec

LEMMA UsersImply == ASSUME UsersBounds, UsersInv PROVE Users!GuessesBounded
  <1>1. Users!Cardinality(Logins) = Cardinality(Logins)
    BY UsersCardinality
  <1>2. /\ guesses \in Nat /\ failed.count \in Nat /\ maxRetries \in Nat \ {0}
    BY DEF UsersInv, Users!TypeOK, UsersBounds
  <1>3. CASE Users!isLocked
    BY <1>1, <1>2, <1>3, TryingFinite DEF UsersInv, Guessing, Users!GuessesBounded
  <1>4. CASE ~ Users!isLocked
    <2>1. guesses <= maxRetries - 1
      BY <1>2, <1>4 DEF UsersInv, Guessing
    <2> QED
      BY <1>1, <1>2, <2>1, TryingFinite DEF Users!GuessesBounded
  <1> QED
    BY <1>3, <1>4

(* Until a success or the end of a lock, no more wrong passwords are tried than
   maxRetries and one for each other login that had passed the lock test, for any
   number of logins and retries (Authenticate of password.go). *)
THEOREM GuessesStayBounded == ASSUME UsersBounds PROVE Users!Spec => []Users!GuessesBounded
  BY UsersInvariant, UsersImply, PTL

(* The file holds what the table holds, through torn writes, crashes and restores, unless
   the last save failed, or but for the password while the table's record is being changed
   (save and NewFileDatabase of database.go, ResetPassword of password.go). *)
THEOREM FileStaysTrue == ASSUME UsersBounds PROVE Users!Spec => []Users!FileFollows
  <1>1. UsersInv => Users!FileFollows
    BY DEF UsersInv
  <1> QED
    BY <1>1, UsersInvariant, PTL

-----------------------------------------------------------------------------
(* The audit log: an event that left the log file did so in a rotation, and is in the
   file rotated in that second for as long as there is no other rotation in it. *)

LogBounds == /\ bufferSize \in Nat \ {0} /\ MaxEvents \in Nat
             /\ MaxStarts \in Nat /\ MaxLogTime \in Nat

\* how often a value is in a sequence
Times(s, t) == Cardinality({i \in DOMAIN s : s[i] = t})

Sites(e) ==
    \/ e \in logFile
    \/ /\ e \in DOMAIN movedAt
       /\ \/ movedAt[e] \in DOMAIN rotated /\ e \in rotated[movedAt[e]]
          \/ Times(rotations, movedAt[e]) > 1

LogInv ==
    /\ Log!TypeOK
    /\ logFile \subseteq 1 .. events /\ DOMAIN movedAt \subseteq 1 .. events
    /\ logFile \cap DOMAIN movedAt = {} /\ sizes.current <= events
    /\ \A e \in DOMAIN movedAt : \E i \in DOMAIN rotations : rotations[i] = movedAt[e]
    /\ \A e \in logged : Sites(e)

LEMMA LogCounts == \A t : Log!RotatedIn(t) = Times(rotations, t)
  BY DEF Log!RotatedIn, Log!Cardinality, Cardinality, Times

LEMMA Longer ==
    ASSUME NEW T, NEW s \in Seq(T), NEW x \in T
    PROVE  /\ Append(s, x) \in Seq(T)
           /\ \A i \in DOMAIN s : i \in DOMAIN Append(s, x) /\ Append(s, x)[i] = s[i]
           /\ \E i \in DOMAIN Append(s, x) : Append(s, x)[i] = x
  <1> DEFINE n == Len(s)
             r == Append(s, x)
  <1>1. /\ n \in Nat /\ DOMAIN s = 1 .. n /\ DOMAIN r = 1 .. n + 1 /\ r \in Seq(T)
        /\ r[n + 1] = x /\ \A i \in 1 .. n : r[i] = s[i]
    OBVIOUS
  <1> HIDE DEF n, r
  <1>2. n + 1 \in DOMAIN r /\ DOMAIN s \subseteq DOMAIN r
    BY <1>1
  <1> QED
    BY <1>1, <1>2 DEF r

(* What another element adds to how often a value is in a sequence. *)
LEMMA AnotherCounts ==
    ASSUME NEW T, NEW s \in Seq(T), NEW x \in T
    PROVE  /\ \A t : Times(s, t) \in Nat /\ Times(Append(s, x), t) \in Nat
                     /\ Times(Append(s, x), t) >= Times(s, t)
           /\ \A i \in DOMAIN s : s[i] = x => Times(Append(s, x), x) > 1
  <1> DEFINE n == Len(s)
             At(q, t) == {i \in DOMAIN q : q[i] = t}
             r == Append(s, x)
  <1>1. /\ n \in Nat /\ DOMAIN s = 1 .. n /\ DOMAIN r = 1 .. n + 1
        /\ r[n + 1] = x /\ \A i \in 1 .. n : r[i] = s[i]
    OBVIOUS
  <1> HIDE DEF n, r
  <1>2. IsFiniteSet(1 .. n + 1)
    <2>1. 1 \in Int /\ n + 1 \in Int
      BY <1>1
    <2> QED
      BY <2>1, FS_Interval
  <1>3. ASSUME NEW t
        PROVE  /\ IsFiniteSet(At(s, t)) /\ IsFiniteSet(At(r, t))
               /\ At(s, t) \subseteq At(r, t)
    <2>1. At(s, t) \subseteq 1 .. n + 1 /\ At(r, t) \subseteq 1 .. n + 1
      BY <1>1
    <2>2. At(s, t) \subseteq At(r, t)
      BY <1>1
    <2> QED
      BY <1>2, <2>1, <2>2, FS_Subset
  <1>4. \A t : /\ Cardinality(At(s, t)) \in Nat /\ Cardinality(At(r, t)) \in Nat
               /\ Cardinality(At(s, t)) <= Cardinality(At(r, t))
    BY <1>3, FS_CardinalityType, FS_Subset
  <1>5. ASSUME NEW i \in DOMAIN s, s[i] = x PROVE Cardinality(At(r, x)) > 1
    <2> DEFINE two == {i} \cup {n + 1}
    <2>1. i \in At(r, x) /\ n + 1 \in At(r, x) /\ n + 1 \notin {i}
      BY <1>1, <1>5
    <2>2. two \subseteq At(r, x)
      BY <2>1
    <2>3. IsFiniteSet({i}) /\ Cardinality({i}) = 1
      BY FS_Singleton
    <2>4. Cardinality(two) = 2
      <3>1. Cardinality(two) = Cardinality({i}) + 1
        BY <2>1, <2>3, FS_AddElement
      <3> QED
        BY <2>3, <3>1
    <2> HIDE DEF two
    <2>5. Cardinality(two) <= Cardinality(At(r, x))
      BY <1>3, <2>2, FS_Subset
    <2>6. Cardinality(At(r, x)) \in Nat
      BY <1>4
    <2> QED
      BY <2>4, <2>5, <2>6
  <1>6. \A q, t : Times(q, t) = Cardinality(At(q, t))
    BY DEF Times
  <1> HIDE DEF At
  <1>7. \A t : Times(s, t) \in Nat /\ Times(r, t) \in Nat /\ Times(r, t) >= Times(s, t)
    BY <1>4, <1>6
  <1>8. \A i \in DOMAIN s : s[i] = x => Times(r, x) > 1
    BY <1>5, <1>6
  <1> QED
    BY <1>7, <1>8 DEF r

LEMMA LogStarts == ASSUME LogBounds, Log!Init PROVE LogInv
  <1>1. /\ sizes \in [rotate : 0 .. MaxEvents, current : 0 .. MaxEvents] /\ sizes.current = 0
        /\ buffer \in Seq(Log!Events) /\ Len(buffer) = 0 /\ rotations \in Seq(0 .. MaxLogTime)
        /\ DOMAIN rotated = {} /\ DOMAIN movedAt = {} /\ logFile = {} /\ logged = {}
    BY DEF Log!Init, LogBounds
  <1>2. /\ logNow \in 0 .. MaxLogTime /\ starts \in 0 .. MaxStarts /\ events \in 0 .. MaxEvents
        /\ logger = "none" /\ events = 0
    BY DEF Log!Init, LogBounds
  <1> QED
    BY <1>1, <1>2 DEF LogInv, Log!TypeOK, LogBounds

LEMMA BufferTyped ==
    ASSUME LogBounds, LogInv, NEW e \in Log!Events
    PROVE  Log!Buffered(e) \in Seq(Log!Events) /\ Len(Log!Buffered(e)) <= bufferSize
  <1> DEFINE all == Append(buffer, e)
  <1>1. all \in Seq(Log!Events) /\ Len(all) = Len(buffer) + 1 /\ Len(buffer) \in Nat
        /\ Len(buffer) <= bufferSize /\ bufferSize \in Nat
    BY DEF LogInv, Log!TypeOK, LogBounds
  <1> HIDE DEF all
  <1>2. Len(all) > bufferSize => Tail(all) \in Seq(Log!Events) /\ Len(Tail(all)) = Len(all) - 1
    BY <1>1
  <1>3. Log!Buffered(e) = IF Len(all) > bufferSize THEN Tail(all) ELSE all
    BY DEF Log!Buffered, all
  <1> QED
    BY <1>1, <1>2, <1>3

(* Where an event is that a rotation moves, or another event's. *)
LEMMA RotationKeeps ==
    ASSUME LogBounds, LogInv, NEW written, NEW o \in {"rotated", "openFailed"},
           written \subseteq 1 .. events', written \cap DOMAIN movedAt = {}, logFile \subseteq written,
           events' \in 0 .. MaxEvents, events <= events',
           Log!Rotated(written, o)
    PROVE  /\ logFile' = {} /\ DOMAIN rotated' \subseteq 0 .. MaxLogTime
           /\ DOMAIN movedAt' \subseteq 1 .. events' /\ rotations' \in Seq(0 .. MaxLogTime)
           /\ \A e \in DOMAIN movedAt' : \E i \in DOMAIN rotations' : rotations'[i] = movedAt'[e]
           /\ \A e \in written : Sites(e)'
           /\ \A e : Sites(e) => Sites(e)'
           /\ logger' \in {"none", "open", "stuck", "closed"}
  <1>1. /\ logFile' = {} /\ rotations' = Append(rotations, logNow)
        /\ rotated' = [t \in DOMAIN rotated \cup {logNow} |->
                          IF t = logNow THEN written ELSE rotated[t]]
        /\ movedAt' = [e \in DOMAIN movedAt \cup written |->
                          IF e \in DOMAIN movedAt THEN movedAt[e] ELSE logNow]
    BY DEF Log!Rotated
  <1>2. /\ rotations \in Seq(0 .. MaxLogTime) /\ logNow \in 0 .. MaxLogTime
        /\ DOMAIN rotated \subseteq 0 .. MaxLogTime /\ DOMAIN movedAt \subseteq 1 .. events
        /\ events \in Nat /\ events' \in Nat
    <2>1. Log!TypeOK /\ DOMAIN movedAt \subseteq 1 .. events
      BY DEF LogInv
    <2>2. MaxEvents \in Nat /\ events \in 0 .. MaxEvents /\ events' \in 0 .. MaxEvents
      BY <2>1 DEF Log!TypeOK, LogBounds
    <2>3. events \in Nat /\ events' \in Nat
      BY <2>2
    <2>4. /\ rotations \in Seq(0 .. MaxLogTime) /\ logNow \in 0 .. MaxLogTime
          /\ DOMAIN rotated \subseteq 0 .. MaxLogTime
      BY <2>1, Zenon DEF Log!TypeOK
    <2> QED
      BY <2>1, <2>3, <2>4
  <1>3. /\ rotations' \in Seq(0 .. MaxLogTime)
        /\ \A i \in DOMAIN rotations : i \in DOMAIN rotations' /\ rotations'[i] = rotations[i]
        /\ \E i \in DOMAIN rotations' : rotations'[i] = logNow
    <2>1. rotations' = Append(rotations, logNow)
      BY <1>1
    <2>2. rotations \in Seq(0 .. MaxLogTime) /\ logNow \in 0 .. MaxLogTime
      BY <1>2
    <2> QED
      BY <2>1, <2>2, Longer
  <1>4. /\ DOMAIN movedAt' = DOMAIN movedAt \cup written /\ DOMAIN rotated' = DOMAIN rotated \cup {logNow}
        /\ \A e \in DOMAIN movedAt : movedAt'[e] = movedAt[e]
        /\ \A e \in written : movedAt'[e] = logNow
        /\ rotated'[logNow] = written /\ \A t \in DOMAIN rotated : t # logNow => rotated'[t] = rotated[t]
    BY <1>1
  <1>5. ASSUME NEW e \in DOMAIN movedAt' PROVE \E i \in DOMAIN rotations' : rotations'[i] = movedAt'[e]
    <2>1. CASE e \in DOMAIN movedAt
      BY <1>3, <1>4, <2>1 DEF LogInv
    <2>2. CASE e \in written
      BY <1>3, <1>4, <2>2
    <2> QED
      BY <1>4, <2>1, <2>2
  <1>6. \A e \in written : Sites(e)'
    BY <1>4 DEF Sites
  <1>7. ASSUME NEW e, Sites(e) PROVE Sites(e)'
    <2>1. CASE e \in logFile
      BY <1>6, <2>1
    <2>2. CASE e \in DOMAIN movedAt /\ movedAt[e] = logNow
      <3>1. \E i \in DOMAIN rotations : rotations[i] = logNow
        BY <2>2 DEF LogInv
      <3>2. Times(rotations', logNow) > 1
        BY <1>1, <1>2, <3>1, AnotherCounts
      <3>3. movedAt'[e] = logNow /\ e \in DOMAIN movedAt'
        BY <1>4, <2>2
      <3> QED
        BY <3>2, <3>3 DEF Sites
    <2>3. CASE e \in DOMAIN movedAt /\ movedAt[e] # logNow
      <3> PICK t : t = movedAt[e]
        OBVIOUS
      <3>1. movedAt'[e] = t /\ e \in DOMAIN movedAt'
        BY <1>4, <2>3
      <3>2. CASE t \in DOMAIN rotated /\ e \in rotated[t]
        BY <1>4, <2>3, <3>1, <3>2 DEF Sites
      <3>3. CASE Times(rotations, t) > 1
        <4> PICK s : s = rotations
          OBVIOUS
        <4>1. s \in Seq(0 .. MaxLogTime) /\ rotations' = Append(s, logNow)
          BY <1>1, <1>2
        <4>2. Times(s, t) \in Nat /\ Times(rotations', t) \in Nat
              /\ Times(rotations', t) >= Times(s, t)
          BY <1>2, <4>1, AnotherCounts
        <4>3. Times(s, t) > 1
          BY <3>3
        <4>4. \A a, b \in Nat : b >= a /\ a > 1 => b > 1
          OBVIOUS
        <4>5. Times(rotations', t) > 1
          BY <4>2, <4>3, <4>4
        <4> QED
          BY <3>1, <4>5 DEF Sites
      <3>4. CASE e \in logFile
        BY <1>6, <3>4
      <3> QED
        BY <1>7, <3>2, <3>3, <3>4 DEF Sites
    <2> QED
      BY <1>7, <2>1, <2>2, <2>3 DEF Sites
  <1>8. logger' \in {"none", "open", "stuck", "closed"}
    BY DEF Log!Rotated, LogInv, Log!TypeOK
  <1>9. DOMAIN movedAt' \subseteq 1 .. events' /\ DOMAIN rotated' \subseteq 0 .. MaxLogTime
    <2>1. written \subseteq 1 .. events'
      OBVIOUS
    <2>2. 1 .. events \subseteq 1 .. events'
      BY <1>2
    <2> QED
      BY <1>2, <1>4, <2>1, <2>2
  <1> QED
    BY <1>1, <1>3, <1>5, <1>6, <1>7, <1>8, <1>9

-----------------------------------------------------------------------------

LEMMA NewAuditLoggerKeeps ==
    ASSUME LogBounds, LogInv, Log!NewAuditLogger PROVE LogInv'
  <1>1. /\ logFile' = logFile /\ starts' \in 0 .. MaxStarts /\ logger' = "open"
        /\ buffer' = <<>> /\ UNCHANGED <<logNow, rotated, events, logged, movedAt, rotations>>
    BY DEF Log!NewAuditLogger, Log!Opened, LogInv, Log!TypeOK, LogBounds
  <1>2. sizes' \in [rotate : 0 .. MaxEvents, current : 0 .. MaxEvents] /\ sizes'.current <= events'
    <2>1. Log!Cardinality(logFile) \in 0 .. MaxEvents
      <3>1. logFile \subseteq 1 .. MaxEvents /\ MaxEvents \in Nat
        BY DEF LogInv, Log!TypeOK, Log!Events, LogBounds
      <3>2. IsFiniteSet(1 .. MaxEvents) /\ Cardinality(1 .. MaxEvents) = MaxEvents
        <4>1. 1 \in Int /\ MaxEvents \in Int /\ (IF 1 > MaxEvents THEN 0 ELSE MaxEvents - 1 + 1) = MaxEvents
          BY <3>1
        <4> QED
          BY <4>1, FS_Interval
      <3>3. IsFiniteSet(logFile) /\ Cardinality(logFile) <= MaxEvents
        BY <3>1, <3>2, FS_Subset
      <3>4. Cardinality(logFile) \in Nat
        BY <3>3, FS_CardinalityType
      <3>5. Log!Cardinality(logFile) = Cardinality(logFile)
        BY DEF Log!Cardinality, Cardinality
      <3> QED
        BY <3>1, <3>3, <3>4, <3>5
    <2>2. sizes' = [rotate |-> Log!Cardinality(logFile), current |-> 0]
      BY DEF Log!NewAuditLogger, Log!Opened
    <2>3. events' = events /\ events \in Nat
      BY <1>1 DEF LogInv, Log!TypeOK, LogBounds
    <2> QED
      BY <2>1, <2>2, <2>3 DEF LogBounds
  <1>3. buffer' \in Seq(Log!Events) /\ Len(buffer') <= bufferSize
    BY <1>1 DEF LogBounds
  <1>4. Log!TypeOK'
    BY <1>1, <1>2, <1>3 DEF LogInv, Log!TypeOK, Log!Events
  <1> QED
    BY <1>1, <1>2, <1>4 DEF LogInv, Sites

LEMMA LogKeeps ==
    ASSUME LogBounds, LogInv, NEW o \in {"rotated", "renameFailed", "openFailed"}, Log!Log(o)
    PROVE  LogInv'
  <1> PICK e : e = events + 1
    OBVIOUS
  <1> PICK written : written = logFile \cup {e}
    OBVIOUS
  <1> DEFINE full == sizes.rotate > 0 /\ sizes.current + 1 >= sizes.rotate
  <1>1. /\ events < MaxEvents /\ events' = e /\ logged' = logged \cup {e} /\ buffer' = Log!Buffered(e)
        /\ UNCHANGED <<logNow, starts>>
    BY DEF Log!Log
  <1>2. /\ events \in 0 .. MaxEvents /\ MaxEvents \in Nat /\ logged \subseteq 1 .. events
        /\ logFile \subseteq 1 .. events /\ DOMAIN movedAt \subseteq 1 .. events
        /\ logFile \cap DOMAIN movedAt = {}
    BY DEF LogInv, Log!TypeOK, LogBounds
  <1>3. /\ events' \in 0 .. MaxEvents /\ events <= events' /\ e \in Log!Events /\ e \notin DOMAIN movedAt
        /\ written \subseteq 1 .. events' /\ written \cap DOMAIN movedAt = {} /\ logFile \subseteq written
    BY <1>1, <1>2 DEF Log!Events
  <1>4. buffer' \in Seq(Log!Events) /\ Len(buffer') <= bufferSize
    BY <1>1, <1>3, BufferTyped
  <1>5. sizes' \in [rotate : 0 .. MaxEvents, current : 0 .. MaxEvents] /\ sizes'.current <= events'
    <2>1. /\ sizes \in [rotate : 0 .. MaxEvents, current : 0 .. MaxEvents] /\ sizes.current <= events
          /\ sizes.current \in Nat
      BY DEF LogInv, Log!TypeOK, LogBounds
    <2>2. \/ sizes' = [sizes EXCEPT !.current = 0]
          \/ sizes' = [sizes EXCEPT !.current = sizes.current + 1]
      BY DEF Log!Log
    <2> QED
      BY <1>1, <1>2, <2>1, <2>2
  <1>6. CASE ~full \/ o = "renameFailed"
    <2>1. logFile' = written /\ UNCHANGED <<rotated, movedAt, rotations>>
      BY <1>6 DEF Log!Log, Log!Rotated
    <2>2. logger' \in {"none", "open", "stuck", "closed"}
      BY <1>6 DEF Log!Log, Log!Rotated, LogInv, Log!TypeOK
    <2>3. Log!TypeOK'
      BY <1>1, <1>2, <1>3, <1>4, <1>5, <2>1, <2>2 DEF LogInv, Log!TypeOK, Log!Events
    <2>4. \A x : Sites(x) => Sites(x)'
      BY <2>1 DEF Sites
    <2>5. Sites(e)'
      BY <2>1 DEF Sites
    <2>6. \A x \in logged' : Sites(x)'
      BY <1>1, <2>4, <2>5 DEF LogInv
    <2>7. \A x \in DOMAIN movedAt' : \E i \in DOMAIN rotations' : rotations'[i] = movedAt'[x]
      BY <2>1 DEF LogInv
    <2>8. logFile' \subseteq 1 .. events' /\ DOMAIN movedAt' \subseteq 1 .. events'
          /\ logFile' \cap DOMAIN movedAt' = {}
      BY <1>2, <1>3, <1>1, <2>1
    <2> QED
      BY <1>5, <2>3, <2>6, <2>7, <2>8 DEF LogInv
  <1>7. CASE full /\ o # "renameFailed"
    <2>1. Log!Rotated(written, o) /\ o \in {"rotated", "openFailed"}
      BY <1>7 DEF Log!Log
    <2>2. /\ logFile' = {} /\ DOMAIN rotated' \subseteq 0 .. MaxLogTime
          /\ DOMAIN movedAt' \subseteq 1 .. events' /\ rotations' \in Seq(0 .. MaxLogTime)
          /\ \A x \in DOMAIN movedAt' : \E i \in DOMAIN rotations' : rotations'[i] = movedAt'[x]
          /\ \A x \in written : Sites(x)'
          /\ \A x : Sites(x) => Sites(x)'
          /\ logger' \in {"none", "open", "stuck", "closed"}
      BY <1>3, <2>1, RotationKeeps
    <2>3. e \in written
      OBVIOUS
    <2>4. \A x \in logged' : Sites(x)'
      BY <1>1, <2>2, <2>3 DEF LogInv
    <2>5. Log!TypeOK'
      BY <1>1, <1>2, <1>3, <1>4, <1>5, <2>2 DEF LogInv, Log!TypeOK, Log!Events
    <2> QED
      BY <1>5, <2>2, <2>4, <2>5 DEF LogInv
  <1> QED
    BY <1>6, <1>7

LEMMA OtherLogStepsKeep ==
    ASSUME LogBounds, LogInv, Log!EncodeFails \/ Log!Close \/ Log!Tick \/ UNCHANGED Log!vars
    PROVE  LogInv'
  <1>1. /\ UNCHANGED <<starts, logFile, rotated, sizes, buffer, logged, movedAt, rotations>>
        /\ logNow' \in 0 .. MaxLogTime /\ events' \in 0 .. MaxEvents /\ events <= events'
        /\ events \in Nat /\ events' \in Nat
        /\ logger' \in {"none", "open", "stuck", "closed"}
    <2>1. UNCHANGED <<starts, logFile, rotated, sizes, buffer, logged, movedAt, rotations>>
      BY DEF Log!EncodeFails, Log!Close, Log!Tick, Log!vars
    <2>2. /\ logNow \in 0 .. MaxLogTime /\ MaxLogTime \in Nat
          /\ events \in 0 .. MaxEvents /\ MaxEvents \in Nat
          /\ logger \in {"none", "open", "stuck", "closed"}
      BY DEF LogInv, Log!TypeOK, LogBounds
    <2>3. \/ logNow' = logNow
          \/ logNow < MaxLogTime /\ logNow' = logNow + 1
      BY Zenon DEF Log!EncodeFails, Log!Close, Log!Tick, Log!vars
    <2>4. \/ events' = events
          \/ events < MaxEvents /\ events' = events + 1
      BY Zenon DEF Log!EncodeFails, Log!Close, Log!Tick, Log!vars
    <2>5. logger' \in {logger, "stuck", "closed"}
      BY DEF Log!EncodeFails, Log!Close, Log!Tick, Log!vars
    <2>6. logNow' \in 0 .. MaxLogTime
      BY <2>2, <2>3
    <2>7. events' \in 0 .. MaxEvents /\ events <= events' /\ events \in Nat /\ events' \in Nat
      BY <2>2, <2>4
    <2>8. logger' \in {"none", "open", "stuck", "closed"}
      BY <2>2, <2>5
    <2> QED
      BY <2>1, <2>6, <2>7, <2>8
  <1>2. 1 .. events \subseteq 1 .. events'
    BY <1>1
  <1>3. \A e : Sites(e) => Sites(e)'
    BY <1>1 DEF Sites
  <1>4. sizes'.current <= events'
    BY <1>1 DEF LogInv, Log!TypeOK, LogBounds
  <1>5. Log!TypeOK'
    BY <1>1, <1>2 DEF LogInv, Log!TypeOK
  <1> QED
    BY <1>1, <1>2, <1>3, <1>4, <1>5 DEF LogInv

LEMMA LogInvariant == ASSUME LogBounds, LogInv, [Log!Next]_(Log!vars) PROVE LogInv'
  BY NewAuditLoggerKeeps, LogKeeps, OtherLogStepsKeep DEF Log!Next

LEMMA LogImplies == LogInv => Log!TypeOK /\ Log!LoggedIsKept
  <1>1. LogInv => Log!LoggedIsKept
    BY LogCounts DEF LogInv, Sites, Log!LoggedIsKept
  <1> QED
    BY <1>1 DEF LogInv

(* What Log took is in the log file or in a rotated one, through failures and restarts,
   unless its file was rotated in a second that saw another rotation (rotate renames
   over the file of that second). *)
THEOREM LoggedStaysKept == ASSUME LogBounds PROVE Log!Spec => []Log!LoggedIsKept
  <1>1. Log!Init => LogInv
    BY LogStarts
  <1>2. LogInv /\ [Log!Next]_(Log!vars) => LogInv'
    BY LogInvariant
  <1> QED
    BY <1>1, <1>2, LogImplies, PTL DEF Log!Spec

-----------------------------------------------------------------------------
TicketsBounds ==
    /\ MaxTickets \in Nat /\ TicketLifetime \in Nat /\ RetryWindow \in Nat \ {0} /\ UsedKept \in Nat
    /\ MaxTicketUsage \in Nat /\ MaxTicketsPerPeer \in Nat /\ MaxTicketTime \in Nat \ {0}

(* Every use of a ticket is within the retry window of the one on record, or within that
   of an earlier one whose record was, or can be, gone. *)
Rooted(id, t) ==
    \/ /\ id \in DOMAIN usedTickets /\ usedTickets[id] <= t /\ t - usedTickets[id] < RetryWindow
    \/ \E root \in accepted[id] :
         /\ root <= t /\ t - root < RetryWindow
         /\ id \in DOMAIN usedTickets => t < usedTickets[id] /\ usedTickets[id] - root > UsedKept
         /\ id \notin DOMAIN usedTickets => ticketNow - root > UsedKept

\* what ReacceptedForCause says of one use
Caused(id, t) ==
    \E first \in accepted[id] :
        /\ first <= t /\ t - first < RetryWindow
        /\ \A other \in accepted[id] : other < first =>
             \E root \in accepted[id] : root <= other /\ other - root < RetryWindow
                                        /\ first - root > UsedKept

TicketHistory(id) ==
    /\ accepted[id] \subseteq 1 .. ticketNow
    /\ accepted[id] # {} => id <= issued
    /\ id \in DOMAIN usedTickets => usedTickets[id] \in accepted[id]
    /\ \A t \in accepted[id] : Rooted(id, t) /\ Caused(id, t) /\ t <= expires[id]

TicketsInv ==
    /\ Tickets!TypeOK
    /\ expires \in Seq(Nat) /\ Len(expires) = issued
    /\ \A ticket \in flights : ticket.id <= issued
    /\ \A id \in Tickets!Ids : TicketHistory(id)

LEMMA TicketsCardinality == \A S : Tickets!Cardinality(S) = Cardinality(S)
  BY DEF Tickets!Cardinality, Cardinality

LEMMA TicketsStart == ASSUME TicketsBounds, Tickets!Init PROVE TicketsInv
  <1>1. /\ ticketNow = 1 /\ issued = 0 /\ expires = <<>> /\ DOMAIN clientTickets = {}
        /\ serverTickets = {} /\ flights = {} /\ DOMAIN usedTickets = {}
        /\ accepted = [id \in Tickets!Ids |-> {}] /\ stopped = FALSE
    BY DEF Tickets!Init
  <1>2. Tickets!Cardinality({}) = 0
    BY TicketsCardinality, FS_EmptySet
  <1>3. Tickets!TypeOK
    <2>1. /\ ticketNow \in 1 .. MaxTicketTime /\ issued \in 0 .. MaxTickets /\ DOMAIN expires = 1 .. issued
          /\ stopped \in BOOLEAN
      <3>1. 1 \in 1 .. MaxTicketTime /\ 0 \in 0 .. MaxTickets
        BY DEF TicketsBounds
      <3>2. DOMAIN << >> = 1 .. 0
        OBVIOUS
      <3> QED
        BY <1>1, <3>1, <3>2
    <2>2. Tickets!Cardinality({}) <= MaxTicketsPerPeer
      BY <1>2 DEF TicketsBounds
    <2>3. accepted \in [Tickets!Ids -> SUBSET (1 .. MaxTicketTime)]
      BY <1>1
    <2> QED
      BY <1>1, <2>1, <2>2, <2>3 DEF Tickets!TypeOK
  <1> QED
    BY <1>1, <1>3 DEF TicketsInv, TicketHistory

(* Storing a ticket keeps at most MaxTicketsPerPeer of those there and the new one. *)
LEMMA StoredBounded ==
    ASSUME TicketsBounds, TicketsInv, issued < MaxTickets,
           NEW S, S \subseteq 1 .. issued, Tickets!Cardinality(S) <= MaxTicketsPerPeer
    PROVE  /\ Tickets!Stored(S, issued + 1) \subseteq S \cup {issued + 1}
           /\ Tickets!Cardinality(Tickets!Stored(S, issued + 1)) <= MaxTicketsPerPeer
  <1>1. issued \in Nat /\ MaxTicketsPerPeer \in Nat /\ Cardinality(S) <= MaxTicketsPerPeer
    BY TicketsCardinality DEF TicketsInv, Tickets!TypeOK, TicketsBounds
  <1> DEFINE id == issued + 1
             all == S \cup {id}
  <1>2. IsFiniteSet(S) /\ Cardinality(S) \in Nat
    BY <1>1, UpTo, PartSmaller
  <1>3. id \notin S /\ all \subseteq Nat /\ all # {}
    BY <1>1
  <1>4. IsFiniteSet(all) /\ Cardinality(all) = Cardinality(S) + 1
    BY <1>2, <1>3, FS_AddElement
  <1>5. Tickets!Min(all) \in all
    <2>1. \E x \in all : \A y \in all : x <= y
      BY <1>3, LeastElement
    <2> HIDE DEF all
    <2> QED
      BY <2>1 DEF Tickets!Min
  <1>6. Cardinality(all \ {Tickets!Min(all)}) = Cardinality(all) - 1
    BY <1>4, <1>5, FS_RemoveElement
  <1>61. Cardinality(all \ {Tickets!Min(all)}) = Cardinality(S)
    <2> HIDE DEF all
    <2>1. \A a, b, c : a \in Nat /\ b = a + 1 /\ c = b - 1 => c = a
      OBVIOUS
    <2> QED
      BY <1>2, <1>4, <1>6, <2>1
  <1>7. Tickets!Stored(S, id) = IF Cardinality(all) > MaxTicketsPerPeer THEN all \ {Tickets!Min(all)} ELSE all
    BY TicketsCardinality DEF Tickets!Stored
  <1>8. Tickets!Stored(S, id) \subseteq all
    BY <1>7
  <1>9. Cardinality(Tickets!Stored(S, id)) <= MaxTicketsPerPeer
    <2> HIDE DEF all
    <2>1. CASE Cardinality(all) > MaxTicketsPerPeer
      <3>1. Tickets!Stored(S, id) = all \ {Tickets!Min(all)}
        BY <1>7, <2>1
      <3>2. Cardinality(Tickets!Stored(S, id)) = Cardinality(S)
        BY <1>61, <3>1
      <3> QED
        BY <1>1, <3>2
    <2>2. CASE ~ (Cardinality(all) > MaxTicketsPerPeer)
      BY <1>1, <1>2, <1>4, <1>7, <2>2
    <2> QED
      BY <2>1, <2>2
  <1> QED
    BY <1>8, <1>9, TicketsCardinality

LEMMA IssueTicketKeeps == ASSUME TicketsBounds, TicketsInv, Tickets!IssueTicket PROVE TicketsInv'
  <1>1. /\ issued < MaxTickets /\ issued' = issued + 1
        /\ expires' = Append(expires, ticketNow + TicketLifetime)
        /\ serverTickets' = Tickets!Stored(serverTickets, issued + 1)
        /\ DOMAIN clientTickets' = Tickets!Stored(DOMAIN clientTickets, issued + 1)
        /\ \A id \in DOMAIN clientTickets' :
             clientTickets'[id] = IF id = issued + 1 THEN 0 ELSE clientTickets[id]
        /\ UNCHANGED <<ticketNow, flights, usedTickets, accepted, stopped>>
    BY DEF Tickets!IssueTicket
  <1>2. /\ issued \in Nat /\ MaxTickets \in Nat /\ MaxTicketUsage \in Nat /\ TicketLifetime \in Nat
        /\ DOMAIN clientTickets \subseteq 1 .. issued /\ serverTickets \subseteq 1 .. issued
        /\ Tickets!Cardinality(DOMAIN clientTickets) <= MaxTicketsPerPeer
        /\ Tickets!Cardinality(serverTickets) <= MaxTicketsPerPeer
        /\ ticketNow \in Nat
    BY DEF TicketsInv, Tickets!TypeOK, TicketsBounds
  <1>3. /\ serverTickets' \subseteq serverTickets \cup {issued + 1}
        /\ DOMAIN clientTickets' \subseteq DOMAIN clientTickets \cup {issued + 1}
        /\ Tickets!Cardinality(DOMAIN clientTickets') <= MaxTicketsPerPeer
        /\ Tickets!Cardinality(serverTickets') <= MaxTicketsPerPeer
    BY <1>1, <1>2, StoredBounded
  <1>4. /\ serverTickets' \subseteq 1 .. issued' /\ DOMAIN clientTickets' \subseteq 1 .. issued'
        /\ issued' \in 0 .. MaxTickets
    <2>1. 1 .. issued \subseteq 1 .. issued' /\ issued + 1 \in 1 .. issued' /\ issued' \in 0 .. MaxTickets
      BY <1>1, <1>2
    <2> QED
      BY <1>2, <1>3, <2>1
  <1>5. \A id \in DOMAIN clientTickets' : clientTickets'[id] \in 0 .. MaxTicketUsage
    BY <1>1, <1>2, <1>3 DEF TicketsInv, Tickets!TypeOK
  <1>6. /\ expires' \in Seq(Nat) /\ Len(expires') = issued' /\ DOMAIN expires' = 1 .. issued'
        /\ \A id \in 1 .. issued : expires'[id] = expires[id]
    BY <1>1, <1>2 DEF TicketsInv
  <1>7. Tickets!TypeOK'
    <2>1. DOMAIN usedTickets \subseteq 1 .. issued'
      BY <1>1, <1>2 DEF TicketsInv, Tickets!TypeOK
    <2> QED
      BY <1>1, <1>3, <1>4, <1>5, <1>6, <2>1 DEF TicketsInv, Tickets!TypeOK, Tickets!Ticket, Tickets!Ids
  <1>8. \A id \in Tickets!Ids : TicketHistory(id)'
    <2> SUFFICES ASSUME NEW id \in Tickets!Ids PROVE TicketHistory(id)'
      OBVIOUS
    <2>1. TicketHistory(id) /\ id \in Nat /\ 1 <= id
      BY <1>2 DEF TicketsInv, Tickets!Ids
    <2>2. \A t \in accepted[id] : id \in 1 .. issued
      BY <1>2, <2>1 DEF TicketHistory
    <2>3. \A t \in accepted[id] : Rooted(id, t)' /\ Caused(id, t)' /\ t <= expires'[id]
      BY <1>1, <1>6, <2>1, <2>2 DEF TicketHistory, Rooted, Caused
    <2>4. id <= issued => id <= issued'
      BY <1>1, <1>2, <2>1
    <2> QED
      BY <1>1, <2>1, <2>3, <2>4 DEF TicketHistory
  <1>9. \A ticket \in flights' : ticket.id <= issued'
    <2>1. \A ticket \in flights : ticket.id \in Nat
      BY <1>2 DEF TicketsInv, Tickets!TypeOK, Tickets!Ticket, Tickets!Ids
    <2> QED
      BY <1>1, <1>2, <2>1 DEF TicketsInv
  <1> QED
    BY <1>6, <1>7, <1>8, <1>9 DEF TicketsInv

(* What leaves the histories of the tickets alone. *)
LEMMA HistoryStays ==
    ASSUME TicketsBounds, TicketsInv, UNCHANGED <<issued, expires, usedTickets, accepted>>,
           ticketNow \in Nat, ticketNow' \in Nat, ticketNow <= ticketNow'
    PROVE  \A id \in Tickets!Ids : TicketHistory(id)'
  <1> SUFFICES ASSUME NEW id \in Tickets!Ids PROVE TicketHistory(id)'
    OBVIOUS
  <1>1. TicketHistory(id)
    BY DEF TicketsInv
  <1>2. accepted[id] \subseteq 1 .. ticketNow /\ 1 .. ticketNow \subseteq 1 .. ticketNow'
    BY <1>1 DEF TicketHistory
  <1>3. ASSUME NEW t \in accepted[id], Rooted(id, t) PROVE Rooted(id, t)'
    <2>1. CASE id \in DOMAIN usedTickets /\ usedTickets[id] <= t /\ t - usedTickets[id] < RetryWindow
      BY <2>1 DEF Rooted
    <2>2. ASSUME NEW root \in accepted[id],
                 /\ root <= t /\ t - root < RetryWindow
                 /\ id \in DOMAIN usedTickets => t < usedTickets[id] /\ usedTickets[id] - root > UsedKept
                 /\ id \notin DOMAIN usedTickets => ticketNow - root > UsedKept
          PROVE  Rooted(id, t)'
      <3>1. root \in Nat /\ UsedKept \in Nat
        BY <1>2 DEF TicketsBounds
      <3>2. ticketNow - root > UsedKept => ticketNow' - root > UsedKept
        <4>1. \A a, b, r, k \in Nat : a <= b /\ a - r > k => b - r > k
          OBVIOUS
        <4> QED
          BY <3>1, <4>1
      <3> QED
        BY <2>2, <3>2 DEF Rooted
    <2> QED
      BY <1>3, <2>1, <2>2 DEF Rooted
  <1> QED
    BY <1>1, <1>2, <1>3 DEF TicketHistory, Caused

LEMMA UseTicketKeeps == ASSUME TicketsBounds, TicketsInv, Tickets!UseTicket PROVE TicketsInv'
  <1>1. PICK id \in DOMAIN clientTickets :
           /\ Tickets!Valid(id)
           /\ clientTickets' = [clientTickets EXCEPT ![id] = clientTickets[id] + 1]
           /\ flights' = flights \cup {[id |-> id, usage |-> clientTickets[id] + 1]}
           /\ UNCHANGED <<ticketNow, issued, expires, serverTickets, usedTickets, accepted, stopped>>
    BY DEF Tickets!UseTicket
  <1>2. /\ clientTickets[id] + 1 \in 0 .. MaxTicketUsage /\ id \in 1 .. issued /\ id \in Tickets!Ids
        /\ id <= issued /\ ticketNow \in Nat
    <2>1. /\ DOMAIN clientTickets \subseteq 1 .. issued /\ issued \in 0 .. MaxTickets
          /\ ticketNow \in 1 .. MaxTicketTime /\ clientTickets[id] \in 0 .. MaxTicketUsage
      BY <1>1 DEF TicketsInv, Tickets!TypeOK
    <2>2. MaxTickets \in Nat /\ MaxTicketUsage \in Nat /\ MaxTicketTime \in Nat
      BY DEF TicketsBounds
    <2>3. clientTickets[id] < MaxTicketUsage
      BY <1>1 DEF Tickets!Valid
    <2>4. id \in 1 .. issued
      BY <1>1, <2>1
    <2> QED
      BY <2>1, <2>2, <2>3, <2>4 DEF Tickets!Ids
  <1>3. /\ DOMAIN clientTickets' = DOMAIN clientTickets
        /\ \A i \in DOMAIN clientTickets : clientTickets'[i] \in 0 .. MaxTicketUsage
    BY <1>1, <1>2 DEF TicketsInv, Tickets!TypeOK
  <1>4. flights' \subseteq Tickets!Ticket /\ \A ticket \in flights' : ticket.id <= issued
    BY <1>1, <1>2 DEF TicketsInv, Tickets!TypeOK, Tickets!Ticket
  <1>5. Tickets!TypeOK'
    BY <1>1, <1>3, <1>4 DEF TicketsInv, Tickets!TypeOK
  <1>6. \A i \in Tickets!Ids : TicketHistory(i)'
    BY <1>1, <1>2, HistoryStays
  <1> QED
    BY <1>1, <1>4, <1>5, <1>6 DEF TicketsInv

LEMMA ValidateTicketKeeps ==
    ASSUME TicketsBounds, TicketsInv, NEW ticket \in flights, Tickets!ValidateTicket(ticket)
    PROVE  TicketsInv'
  <1> DEFINE id == ticket.id
  <1>1. /\ expires[id] >= ticketNow
        /\ accepted' = [accepted EXCEPT ![id] = accepted[id] \cup {ticketNow}]
        /\ UNCHANGED <<ticketNow, issued, expires, clientTickets, serverTickets, flights, stopped>>
    BY DEF Tickets!ValidateTicket
  <1>2. \/ id \in DOMAIN usedTickets /\ Tickets!Retry(id) /\ UNCHANGED usedTickets
        \/ /\ id \notin DOMAIN usedTickets
           /\ usedTickets' = [i \in DOMAIN usedTickets \cup {id} |->
                                IF i = id THEN ticketNow ELSE usedTickets[i]]
    BY DEF Tickets!ValidateTicket
  <1>3. /\ id \in Tickets!Ids /\ id \in 1 .. issued /\ id <= issued /\ TicketHistory(id)
        /\ ticketNow \in 1 .. MaxTicketTime /\ ticketNow \in Nat /\ ticketNow >= 1
        /\ accepted \in [Tickets!Ids -> SUBSET (1 .. MaxTicketTime)]
    BY DEF TicketsInv, Tickets!TypeOK, Tickets!Ticket, Tickets!Ids, TicketsBounds
  <1> HIDE DEF id
  <1>4. /\ accepted'[id] = accepted[id] \cup {ticketNow}
        /\ \A i \in Tickets!Ids : i # id => accepted'[i] = accepted[i]
        /\ accepted' \in [Tickets!Ids -> SUBSET (1 .. MaxTicketTime)]
    BY <1>1, <1>3
  <1>5. /\ \A i \in Tickets!Ids : i # id => (i \in DOMAIN usedTickets <=> i \in DOMAIN usedTickets')
        /\ \A i \in DOMAIN usedTickets : usedTickets'[i] = usedTickets[i]
        /\ DOMAIN usedTickets' \subseteq DOMAIN usedTickets \cup {id} /\ id \in DOMAIN usedTickets'
        /\ id \notin DOMAIN usedTickets => usedTickets'[id] = ticketNow
    BY <1>2
  <1>6. Tickets!TypeOK'
    <2>1. DOMAIN usedTickets' \subseteq 1 .. issued
      BY <1>3, <1>5 DEF TicketsInv, Tickets!TypeOK
    <2>2. \A i \in DOMAIN usedTickets' : usedTickets'[i] \in 1 .. ticketNow
      BY <1>3, <1>5 DEF TicketsInv, Tickets!TypeOK
    <2> QED
      BY <1>1, <1>4, <2>1, <2>2 DEF TicketsInv, Tickets!TypeOK
  <1>7. ASSUME NEW i \in Tickets!Ids, i # id PROVE TicketHistory(i)'
    <2>1. TicketHistory(i)
      BY DEF TicketsInv
    <2>2. accepted'[i] = accepted[i] /\ (i \in DOMAIN usedTickets' <=> i \in DOMAIN usedTickets)
          /\ (i \in DOMAIN usedTickets => usedTickets'[i] = usedTickets[i])
      BY <1>4, <1>5, <1>7
    <2>3. \A t \in accepted[i] : (Rooted(i, t) => Rooted(i, t)') /\ (Caused(i, t) => Caused(i, t)')
      BY <1>1, <2>2 DEF Rooted, Caused
    <2> QED
      BY <1>1, <2>1, <2>2, <2>3 DEF TicketHistory
  <1>8. TicketHistory(id)'
    <2> DEFINE now_ == ticketNow
    <2>1. accepted[id] \subseteq 1 .. ticketNow /\ RetryWindow \in Nat \ {0} /\ UsedKept \in Nat
      BY <1>3 DEF TicketHistory, TicketsBounds
    <2>2. accepted'[id] \subseteq 1 .. ticketNow /\ ticketNow \in accepted'[id]
      BY <1>3, <1>4, <2>1
    <2>3. usedTickets'[id] \in accepted'[id]
      BY <1>3, <1>4, <1>5 DEF TicketHistory
    <2>4. \A t \in accepted'[id] : t <= expires'[id]
      BY <1>1, <1>3, <1>4 DEF TicketHistory
    <2>5. ASSUME NEW t \in accepted[id] PROVE Caused(id, t)'
      <3>1. PICK first \in accepted[id] :
              /\ first <= t /\ t - first < RetryWindow
              /\ \A other \in accepted[id] : other < first =>
                   \E root \in accepted[id] : root <= other /\ other - root < RetryWindow
                                              /\ first - root > UsedKept
        BY <1>3 DEF TicketHistory, Caused
      <3>2. ~ (ticketNow < first) /\ first \in accepted'[id]
        <4>1. \A x \in 1 .. ticketNow : ~ (ticketNow < x)
          BY <1>3
        <4> QED
          BY <1>4, <2>1, <3>1, <4>1
      <3>3. \A other \in accepted'[id] : other < first =>
                   \E root \in accepted'[id] : root <= other /\ other - root < RetryWindow
                                              /\ first - root > UsedKept
        BY <1>4, <3>1, <3>2
      <3> QED
        BY <3>1, <3>2, <3>3 DEF Caused
    <2>6. CASE id \in DOMAIN usedTickets
      <3> DEFINE u == usedTickets[id]
      <3>1. u \in accepted[id] /\ u \in 1 .. ticketNow /\ ticketNow - u < RetryWindow
            /\ u \in accepted'[id] /\ usedTickets'[id] = u
        BY <1>2, <1>3, <1>4, <1>5, <2>1, <2>6 DEF TicketHistory, Tickets!Retry
      <3> HIDE DEF u
      <3>2. ASSUME NEW t \in accepted'[id] PROVE Rooted(id, t)'
        <4>1. CASE t = ticketNow
          BY <1>5, <3>1, <4>1 DEF Rooted
        <4>2. CASE t \in accepted[id]
          <5>1. Rooted(id, t)
            BY <1>3, <4>2 DEF TicketHistory
          <5>2. usedTickets[id] = u
            BY DEF u
          <5>3. CASE u <= t /\ t - u < RetryWindow
            BY <1>5, <3>1, <5>3 DEF Rooted
          <5>4. CASE \E root \in accepted[id] : /\ root <= t /\ t - root < RetryWindow
                                                /\ t < u /\ u - root > UsedKept
            BY <1>4, <1>5, <3>1, <5>4 DEF Rooted
          <5> QED
            BY <2>6, <5>1, <5>2, <5>3, <5>4 DEF Rooted
        <4> QED
          BY <1>4, <4>1, <4>2
      <3>3. Caused(id, ticketNow)'
        <4>1. ASSUME NEW other \in accepted'[id], other < u
              PROVE  \E root \in accepted'[id] : root <= other /\ other - root < RetryWindow
                                                 /\ u - root > UsedKept
          <5>0. \A x \in 1 .. ticketNow : x \in Nat /\ ~ (ticketNow < x)
            BY <1>3
          <5>1. other \in accepted[id] /\ other \in Nat /\ u \in Nat /\ ~ (u <= other)
            <6>1. other # ticketNow
              BY <3>1, <4>1, <5>0
            <6>2. other \in accepted[id]
              BY <1>4, <6>1
            <6>3. other \in Nat /\ u \in Nat
              BY <2>1, <3>1, <5>0, <6>2
            <6> QED
              BY <4>1, <6>2, <6>3
          <5>2. Rooted(id, other)
            BY <1>3, <5>1 DEF TicketHistory
          <5>3. usedTickets[id] = u
            BY DEF u
          <5> QED
            BY <1>4, <2>6, <5>1, <5>2, <5>3 DEF Rooted
        <4>2. u <= ticketNow
          BY <3>1
        <4> QED
          BY <1>1, <3>1, <4>1, <4>2 DEF Caused
      <3>4. \A t \in accepted'[id] : Caused(id, t)'
        <4>1. ASSUME NEW t \in accepted'[id] PROVE Caused(id, t)'
          <5>1. CASE t = ticketNow
            <6>1. ticketNow' = ticketNow
              BY <1>1
            <6> QED
              BY <3>3, <5>1, <6>1 DEF Caused
          <5>2. CASE t \in accepted[id]
            BY <2>5, <5>2
          <5> QED
            BY <1>4, <5>1, <5>2
        <4> QED
          BY <4>1
      <3> QED
        BY <1>1, <1>3, <2>2, <2>3, <2>4, <3>2, <3>4 DEF TicketHistory
    <2>7. CASE id \notin DOMAIN usedTickets
      <3>1. usedTickets'[id] = ticketNow /\ id \in DOMAIN usedTickets'
        BY <1>5, <2>7
      <3>2. ASSUME NEW t \in accepted[id]
            PROVE  \E root \in accepted'[id] : /\ root <= t /\ t - root < RetryWindow
                                               /\ ticketNow - root > UsedKept
        <4>1. Rooted(id, t)
          BY <1>3 DEF TicketHistory
        <4> QED
          BY <1>4, <2>7, <4>1 DEF Rooted
      <3>3. ASSUME NEW t \in accepted'[id] PROVE Rooted(id, t)'
        <4>1. CASE t = ticketNow
          BY <1>3, <2>1, <3>1, <4>1 DEF Rooted
        <4>2. CASE t \in accepted[id] /\ t # ticketNow
          <5>0. \A x \in 1 .. ticketNow : x # ticketNow => x < ticketNow
            BY <1>3
          <5>1. t < ticketNow
            BY <2>1, <4>2, <5>0
          <5> QED
            BY <3>1, <3>2, <4>2, <5>1 DEF Rooted
        <4> QED
          BY <1>4, <4>1, <4>2
      <3>4. ASSUME NEW t \in accepted'[id] PROVE Caused(id, t)'
        <4>1. CASE t = ticketNow
          <5>1. \A other \in accepted'[id] : other < ticketNow => other \in accepted[id]
            BY <1>3, <1>4
          <5>2. ticketNow <= ticketNow /\ ticketNow - ticketNow < RetryWindow
            BY <1>3, <2>1
          <5> QED
            BY <2>2, <3>2, <4>1, <5>1, <5>2 DEF Caused
        <4>2. CASE t \in accepted[id]
          BY <2>5, <4>2
        <4> QED
          BY <1>4, <4>1, <4>2
      <3> QED
        BY <1>1, <1>3, <2>2, <2>3, <2>4, <3>3, <3>4 DEF TicketHistory
    <2> QED
      BY <2>6, <2>7
  <1> QED
    BY <1>1, <1>6, <1>7, <1>8 DEF TicketsInv

LEMMA ClientForgets ==
    ASSUME TicketsBounds, TicketsInv, NEW S, S \subseteq DOMAIN clientTickets,
           clientTickets' = Tickets!Restrict(clientTickets, S),
           UNCHANGED <<ticketNow, issued, expires, serverTickets, flights, usedTickets, accepted, stopped>>
    PROVE  TicketsInv'
  <1>1. DOMAIN clientTickets' = S /\ \A id \in S : clientTickets'[id] = clientTickets[id]
    BY DEF Tickets!Restrict
  <1>2. Tickets!Cardinality(S) <= MaxTicketsPerPeer /\ S \subseteq 1 .. issued
    <2>1. issued \in Nat /\ MaxTicketsPerPeer \in Nat /\ DOMAIN clientTickets \subseteq 1 .. issued
          /\ Cardinality(DOMAIN clientTickets) <= MaxTicketsPerPeer
      BY TicketsCardinality DEF TicketsInv, Tickets!TypeOK, TicketsBounds
    <2>2. IsFiniteSet(DOMAIN clientTickets)
      BY <2>1, UpTo, PartSmaller
    <2>3. /\ Cardinality(S) <= Cardinality(DOMAIN clientTickets)
          /\ Cardinality(S) \in Nat /\ Cardinality(DOMAIN clientTickets) \in Nat
      BY <2>2, PartSmaller
    <2> QED
      BY <2>1, <2>3, TicketsCardinality
  <1>3. Tickets!TypeOK'
    BY <1>1, <1>2 DEF TicketsInv, Tickets!TypeOK
  <1>4. ticketNow \in Nat
    BY DEF TicketsInv, Tickets!TypeOK, TicketsBounds
  <1> QED
    BY <1>3, <1>4, HistoryStays DEF TicketsInv

LEMMA ServerForgets ==
    ASSUME TicketsBounds, TicketsInv, NEW S, S \subseteq serverTickets, serverTickets' = S,
           usedTickets' = Tickets!Restrict(usedTickets, {id \in DOMAIN usedTickets : Tickets!Kept(id)}),
           UNCHANGED <<ticketNow, issued, expires, clientTickets, flights, accepted, stopped>>
    PROVE  TicketsInv'
  <1>1. /\ DOMAIN usedTickets' = {id \in DOMAIN usedTickets : ticketNow - usedTickets[id] <= UsedKept}
        /\ \A id \in DOMAIN usedTickets' : usedTickets'[id] = usedTickets[id]
    BY DEF Tickets!Restrict, Tickets!Kept
  <1>2. Tickets!Cardinality(S) <= MaxTicketsPerPeer /\ S \subseteq 1 .. issued
    <2>1. issued \in Nat /\ MaxTicketsPerPeer \in Nat /\ serverTickets \subseteq 1 .. issued
          /\ Cardinality(serverTickets) <= MaxTicketsPerPeer
      BY TicketsCardinality DEF TicketsInv, Tickets!TypeOK, TicketsBounds
    <2>2. IsFiniteSet(serverTickets)
      BY <2>1, UpTo, PartSmaller
    <2>3. /\ Cardinality(S) <= Cardinality(serverTickets)
          /\ Cardinality(S) \in Nat /\ Cardinality(serverTickets) \in Nat
      BY <2>2, PartSmaller
    <2> QED
      BY <2>1, <2>3, TicketsCardinality
  <1>3. Tickets!TypeOK'
    BY <1>1, <1>2 DEF TicketsInv, Tickets!TypeOK
  <1>4. ASSUME NEW id \in Tickets!Ids PROVE TicketHistory(id)'
    <2>1. TicketHistory(id) /\ ticketNow \in Nat /\ UsedKept \in Nat /\ accepted[id] \subseteq 1 .. ticketNow
          /\ (id \in DOMAIN usedTickets => usedTickets[id] \in accepted[id])
      BY DEF TicketsInv, Tickets!TypeOK, TicketsBounds, TicketHistory
    <2>2. ASSUME NEW t \in accepted[id], Rooted(id, t) PROVE Rooted(id, t)'
      <3>1. CASE id \in DOMAIN usedTickets'
        BY <1>1, <2>2, <3>1 DEF Rooted
      <3>2. CASE id \notin DOMAIN usedTickets /\ id \notin DOMAIN usedTickets'
        BY <2>2, <3>2 DEF Rooted
      <3>3. CASE id \in DOMAIN usedTickets /\ id \notin DOMAIN usedTickets'
        <4> DEFINE u == usedTickets[id]
        <4>1. u \in accepted[id] /\ u \in 1 .. ticketNow /\ ticketNow - u > UsedKept
          BY <1>1, <2>1, <3>3
        <4> HIDE DEF u
        <4>2. CASE u <= t /\ t - u < RetryWindow
          BY <3>3, <4>1, <4>2 DEF Rooted
        <4>3. ASSUME NEW root \in accepted[id], root <= t, t - root < RetryWindow, u - root > UsedKept
              PROVE  Rooted(id, t)'
          <5>1. ticketNow - root > UsedKept
            BY <2>1, <4>1, <4>3
          <5> QED
            BY <3>3, <4>3, <5>1 DEF Rooted
        <4> QED
          BY <2>2, <3>3, <4>2, <4>3 DEF Rooted, u
      <3> QED
        BY <1>1, <3>1, <3>2, <3>3
    <2> QED
      BY <1>1, <2>1, <2>2 DEF TicketHistory, Caused
  <1> QED
    BY <1>3, <1>4 DEF TicketsInv

LEMMA OtherTicketStepsKeep ==
    ASSUME TicketsBounds, TicketsInv, Tickets!Stop \/ Tickets!Tick \/ UNCHANGED Tickets!vars
    PROVE  TicketsInv'
  <1>1. /\ UNCHANGED <<issued, expires, clientTickets, serverTickets, flights, usedTickets, accepted>>
        /\ stopped' \in BOOLEAN /\ ticketNow' \in 1 .. MaxTicketTime /\ ticketNow' \in Nat
        /\ ticketNow \in Nat /\ ticketNow <= ticketNow'
    <2>1. /\ ticketNow \in 1 .. MaxTicketTime /\ MaxTicketTime \in Nat /\ stopped \in BOOLEAN
      BY DEF TicketsInv, Tickets!TypeOK, TicketsBounds
    <2>2. ticketNow \in Nat /\ ticketNow <= ticketNow
      BY <2>1
    <2>3. CASE Tickets!Stop
      BY <2>1, <2>2, <2>3 DEF Tickets!Stop
    <2>4. CASE Tickets!Tick
      <3>1. ticketNow' = ticketNow + 1 /\ ticketNow < MaxTicketTime
            /\ UNCHANGED <<issued, expires, clientTickets, serverTickets, flights, usedTickets, accepted, stopped>>
        BY <2>4 DEF Tickets!Tick
      <3> QED
        BY <2>1, <2>2, <3>1
    <2>5. CASE UNCHANGED Tickets!vars
      BY <2>1, <2>2, <2>5 DEF Tickets!vars
    <2> QED
      BY <2>3, <2>4, <2>5
  <1>2. 1 .. ticketNow \subseteq 1 .. ticketNow'
    BY <1>1
  <1>3. Tickets!TypeOK'
    BY <1>1, <1>2 DEF TicketsInv, Tickets!TypeOK
  <1> QED
    BY <1>1, <1>3, HistoryStays DEF TicketsInv

LEMMA TicketsInvariant ==
    ASSUME TicketsBounds, TicketsInv, [Tickets!Next]_(Tickets!vars) PROVE TicketsInv'
  <1>1. ASSUME NEW id, Tickets!RemoveTicket(id) PROVE TicketsInv'
    BY <1>1, ClientForgets DEF Tickets!RemoveTicket
  <1>2. ASSUME Tickets!Cleanup PROVE TicketsInv'
    <2>1. CASE UNCHANGED clientTickets
               /\ serverTickets' = {id \in serverTickets : Tickets!Alive(id, 0)}
               /\ usedTickets' = Tickets!Restrict(usedTickets, {id \in DOMAIN usedTickets : Tickets!Kept(id)})
      BY <1>2, <2>1, ServerForgets DEF Tickets!Cleanup
    <2>2. CASE clientTickets' = Tickets!Restrict(clientTickets,
                  {id \in DOMAIN clientTickets : Tickets!Alive(id, clientTickets[id])})
               /\ UNCHANGED <<serverTickets, usedTickets>>
      BY <1>2, <2>2, ClientForgets DEF Tickets!Cleanup
    <2> QED
      BY <1>2, <2>1, <2>2 DEF Tickets!Cleanup
  <1> QED
    BY <1>1, <1>2, IssueTicketKeeps, UseTicketKeeps, ValidateTicketKeeps, OtherTicketStepsKeep
       DEF Tickets!Next

LEMMA TicketsImply ==
    ASSUME TicketsBounds PROVE TicketsInv => Tickets!TypeOK /\ Tickets!ReacceptedForCause /\ Tickets!AcceptedAlive
  <1>1. TicketsInv => Tickets!ReacceptedForCause
    BY DEF TicketsInv, TicketHistory, Caused, Tickets!ReacceptedForCause
  <1>2. TicketsInv => Tickets!AcceptedAlive
    <2>1. TicketsBounds /\ TicketsInv => 1 .. issued \subseteq Tickets!Ids
      <3>1. ASSUME NEW a \in Nat, NEW b \in 0 .. a PROVE 1 .. b \subseteq 1 .. a
        OBVIOUS
      <3> QED
        BY <3>1 DEF TicketsInv, Tickets!TypeOK, Tickets!Ids, TicketsBounds
    <2> QED
      BY <2>1 DEF TicketsInv, TicketHistory, Tickets!AcceptedAlive
  <1> QED
    BY <1>1, <1>2 DEF TicketsInv

(* A ticket is accepted again within the retry window, or once its record may be gone,
   and never after it has expired (ValidateTicket and cleanup of zero_rtt.go). *)
THEOREM TicketsReacceptedForCause == ASSUME TicketsBounds PROVE
    Tickets!Spec => [](Tickets!ReacceptedForCause /\ Tickets!AcceptedAlive)
  <1>1. Tickets!Init => TicketsInv
    BY TicketsStart
  <1>2. TicketsInv /\ [Tickets!Next]_(Tickets!vars) => TicketsInv'
    BY TicketsInvariant
  <1> QED
    BY <1>1, <1>2, TicketsImply, PTL DEF Tickets!Spec

-----------------------------------------------------------------------------
SecrecyBounds == MaxNonce \in Nat /\ MaxData \in Nat

Derived(known, n, m) == Secrecy!deriveRekeySecrets(known, n, m)

(* The two ends of a rekey that met neither a crossing request nor a loss. *)
Asked(e) ==
    /\ messages = {[to |-> Secrecy!Other(e), message |-> Secrecy!Request(pending[e])]}
    /\ pending[e] # 0 /\ pending[Secrecy!Other(e)] = 0
    /\ current[e] = current[Secrecy!Other(e)]

Answered(e) ==
    /\ \E n \in 1 .. nonce : /\ messages = {[to |-> e, message |-> Secrecy!Response(n)]}
                             /\ current[Secrecy!Other(e)] = Derived(current[e], pending[e], n)
    /\ pending[e] # 0 /\ pending[Secrecy!Other(e)] = 0
    /\ "early" \notin flaw => previous[Secrecy!Other(e)] = current[e]

Settled ==
    /\ messages = {} /\ \A e \in Secrecy!Ends : pending[e] = 0
    /\ \A e \in Secrecy!Ends : current[e] = current[Secrecy!Other(e)]

Clean == "crossed" \notin flaw /\ "lost" \notin flaw

Agreement == Clean => Settled \/ \E e \in Secrecy!Ends : Asked(e) \/ Answered(e)

\* data that opens now, opens after the response that is on its way, or came too late
Reaches(d) ==
    \/ Answered(d.to) /\ d.secrets = current[Secrecy!Other(d.to)]
    \/ d.secrets.epoch + 1 < current[d.to].epoch
    \/ d.secrets = current[d.to]
    \/ previous[d.to] # Secrecy!None /\ d.secrets = previous[d.to]

Opening == flaw = {} => \A d \in data : Reaches(d)

\* every switch of an end and every message in flight has a nonce of its own
Switches ==
    /\ IsFiniteSet(messages) /\ IsFiniteSet(data)
    /\ (current["client"].epoch - 1) + (current["server"].epoch - 1) + Cardinality(messages) <= nonce

SecrecyTyped == Secrecy!TypeOK /\ Switches
SecrecyInv == SecrecyTyped /\ Agreement /\ Opening

LEMMA SecrecyCardinality == \A S : Secrecy!Cardinality(S) = Cardinality(S)
  BY DEF Secrecy!Cardinality, Cardinality

LEMMA TwoEnds ==
    /\ Secrecy!Ends = {"client", "server"}
    /\ Secrecy!Other("client") = "server" /\ Secrecy!Other("server") = "client"
    /\ \A e \in Secrecy!Ends : /\ Secrecy!Other(e) \in Secrecy!Ends /\ Secrecy!Other(e) # e
                               /\ Secrecy!Other(Secrecy!Other(e)) = e
                               /\ \A x \in Secrecy!Ends : x = e \/ x = Secrecy!Other(e)
  BY DEF Secrecy!Ends, Secrecy!Other

(* What a message, or one fewer, makes of a finite set. *)
LEMMA OneMore ==
    ASSUME NEW S, IsFiniteSet(S), NEW x
    PROVE  /\ IsFiniteSet(S \cup {x}) /\ Cardinality(S \cup {x}) \in Nat /\ Cardinality(S) \in Nat
           /\ Cardinality(S \cup {x}) <= Cardinality(S) + 1
  <1>0. Cardinality(S) \in Nat /\ Cardinality(S) <= Cardinality(S) + 1
    <2>1. Cardinality(S) \in Nat
      BY FS_CardinalityType
    <2> QED
      BY <2>1
  <1>1. CASE x \in S
    <2>1. S \cup {x} = S
      BY <1>1
    <2> QED
      BY <1>0, <2>1
  <1>2. CASE x \notin S
    <2>1. IsFiniteSet(S \cup {x}) /\ Cardinality(S \cup {x}) = Cardinality(S) + 1
      BY <1>2, FS_AddElement
    <2> QED
      BY <1>0, <2>1
  <1> QED
    BY <1>1, <1>2

LEMMA OneLess ==
    ASSUME NEW S, IsFiniteSet(S), NEW x \in S
    PROVE  /\ IsFiniteSet(S \ {x}) /\ Cardinality(S \ {x}) \in Nat /\ Cardinality(S) \in Nat
           /\ Cardinality(S \ {x}) = Cardinality(S) - 1
  BY FS_RemoveElement, FS_CardinalityType

LEMMA SecretsTyped ==
    ASSUME SecrecyBounds, SecrecyTyped
    PROVE  /\ nonce \in Nat /\ MaxNonce \in Nat /\ nonce <= MaxNonce
           /\ \A e \in Secrecy!Ends :
                /\ current[e].epoch \in Nat /\ current[e].epoch >= 1
                /\ current[e].epoch + Cardinality(messages) <= nonce + 1
                /\ current[e].nonces \in Seq((1 .. MaxNonce) \X (1 .. MaxNonce))
                /\ current[e] = [epoch |-> current[e].epoch, nonces |-> current[e].nonces]
                /\ pending[e] \in 0 .. nonce
           /\ Cardinality(messages) \in Nat
  <1>1. /\ nonce \in Nat /\ MaxNonce \in Nat /\ nonce <= MaxNonce
        /\ \A e \in Secrecy!Ends : pending[e] \in 0 .. nonce /\ current[e] \in Secrecy!Secrets
    BY DEF SecrecyTyped, Secrecy!TypeOK, SecrecyBounds
  <1>2. \A e \in Secrecy!Ends :
                /\ current[e].epoch \in Nat /\ current[e].epoch >= 1
                /\ current[e].nonces \in Seq((1 .. MaxNonce) \X (1 .. MaxNonce))
                /\ current[e] = [epoch |-> current[e].epoch, nonces |-> current[e].nonces]
    BY <1>1 DEF Secrecy!Secrets, Secrecy!Epochs
  <1>3. Cardinality(messages) \in Nat
    BY FS_CardinalityType DEF SecrecyTyped, Switches
  <1>4. \A a, b, c, n \in Nat : a >= 1 /\ b >= 1 /\ (a - 1) + (b - 1) + c <= n => a + c <= n + 1 /\ b + c <= n + 1
    OBVIOUS
  <1>5. current["client"].epoch + Cardinality(messages) <= nonce + 1
        /\ current["server"].epoch + Cardinality(messages) <= nonce + 1
    BY <1>1, <1>2, <1>3, <1>4, TwoEnds DEF SecrecyTyped, Switches
  <1> QED
    BY <1>1, <1>2, <1>3, <1>5, TwoEnds

LEMMA SecrecyStarts == ASSUME SecrecyBounds, Secrecy!Init PROVE SecrecyInv
  <1>1. /\ \A e \in Secrecy!Ends : /\ current[e] = [epoch |-> 1, nonces |-> <<>>] /\ previous[e] = Secrecy!None
                                   /\ pending[e] = 0 /\ timers[e] = {}
        /\ current = [e \in Secrecy!Ends |-> [epoch |-> 1, nonces |-> <<>>]]
        /\ previous = [e \in Secrecy!Ends |-> Secrecy!None]
        /\ pending = [e \in Secrecy!Ends |-> 0] /\ timers = [e \in Secrecy!Ends |-> {}]
        /\ messages = {} /\ data = {} /\ nonce = 0 /\ flaw = {}
    BY DEF Secrecy!Init, Secrecy!Established, Secrecy!NoRekey
  <1>2. Cardinality({}) = 0 /\ IsFiniteSet({})
    BY FS_EmptySet
  <1>3. [epoch |-> 1, nonces |-> <<>>] \in Secrecy!Secrets
    BY DEF Secrecy!Secrets, Secrecy!Epochs, SecrecyBounds
  <1>4. Secrecy!TypeOK
    <2>1. current \in [Secrecy!Ends -> Secrecy!Secrets]
      BY <1>1, <1>3
    <2>2. previous \in [Secrecy!Ends -> Secrecy!Secrets \cup {Secrecy!None}]
      BY <1>1
    <2>3. pending \in [Secrecy!Ends -> 0 .. nonce] /\ timers \in [Secrecy!Ends -> SUBSET Secrecy!Epochs]
      BY <1>1
    <2>4. \A e \in Secrecy!Ends : Len(current[e].nonces) = current[e].epoch - 1
      BY <1>1
    <2>5. Secrecy!Cardinality(data) <= MaxData /\ nonce \in 0 .. MaxNonce
      BY <1>1, <1>2, SecrecyCardinality DEF SecrecyBounds
    <2> QED
      BY <1>1, <2>1, <2>2, <2>3, <2>4, <2>5 DEF Secrecy!TypeOK
  <1>5. Switches
    BY <1>1, <1>2, TwoEnds DEF Switches
  <1>6. Settled
    BY <1>1, TwoEnds DEF Settled
  <1> QED
    BY <1>1, <1>4, <1>5, <1>6 DEF SecrecyInv, SecrecyTyped, Agreement, Opening

(* What the two kinds of rekey message do to their receiver. *)
LEMMA RequestEffect ==
    ASSUME NEW m \in messages, m.message.flag = "request", Secrecy!ProcessRekeyMessage(m)
    PROVE  /\ nonce < MaxNonce /\ nonce' = nonce + 1
           /\ current' = [current EXCEPT ![m.to] = Derived(current[m.to], m.message.nonce, nonce + 1)]
           /\ previous' = [previous EXCEPT ![m.to] = current[m.to]]
           /\ timers' = [timers EXCEPT ![m.to] = timers[m.to] \cup {current[m.to].epoch}]
           /\ pending' = [pending EXCEPT ![m.to] = 0]
           /\ messages' = (messages \ {m}) \cup
                 {[to |-> Secrecy!Other(m.to), message |-> Secrecy!Response(nonce + 1)]}
           /\ UNCHANGED <<data, flaw>>
  <1> DEFINE result == Secrecy!ProcessRekey(current[m.to], m.message, pending[m.to], nonce + 1)
  <1>1. /\ result.secrets = Derived(current[m.to], m.message.nonce, nonce + 1)
        /\ result.response = <<Secrecy!Response(nonce + 1)>> /\ result.err = "responseRequired"
    BY DEF Secrecy!ProcessRekey, Derived
  <1> HIDE DEF result
  <1>2. {[to |-> Secrecy!Other(m.to), message |-> result.response[i]] : i \in DOMAIN result.response}
          = {[to |-> Secrecy!Other(m.to), message |-> Secrecy!Response(nonce + 1)]}
    BY <1>1
  <1>3. /\ (m.message.flag = "request" => nonce < MaxNonce)
        /\ Secrecy!Commit(m.to, result.secrets)
        /\ pending' = [pending EXCEPT ![m.to] = 0]
        /\ nonce' = IF result.err = "responseRequired" THEN nonce + 1 ELSE nonce
        /\ messages' = (messages \ {m}) \cup
             {[to |-> Secrecy!Other(m.to), message |-> result.response[i]] : i \in DOMAIN result.response}
        /\ UNCHANGED <<data, flaw>>
    BY DEF Secrecy!ProcessRekeyMessage, Secrecy!NoRekey, result
  <1> QED
    BY <1>1, <1>2, <1>3 DEF Secrecy!Commit, Secrecy!Previous

LEMMA ResponseEffect ==
    ASSUME NEW m \in messages, m.message.flag = "response", Secrecy!ProcessRekeyMessage(m)
    PROVE  /\ pending[m.to] # 0
           /\ current' = [current EXCEPT ![m.to] = Derived(current[m.to], pending[m.to], m.message.nonce)]
           /\ previous' = [previous EXCEPT ![m.to] = current[m.to]]
           /\ timers' = [timers EXCEPT ![m.to] = timers[m.to] \cup {current[m.to].epoch}]
           /\ pending' = [pending EXCEPT ![m.to] = 0]
           /\ messages' = messages \ {m}
           /\ UNCHANGED <<nonce, data, flaw>>
  <1> DEFINE result == Secrecy!ProcessRekey(current[m.to], m.message, pending[m.to], nonce + 1)
  <1>1. /\ pending[m.to] = 0 => result.err = "unexpected"
        /\ pending[m.to] # 0 =>
             /\ result.secrets = Derived(current[m.to], pending[m.to], m.message.nonce)
             /\ result.response = <<>> /\ result.err = "none"
    BY DEF Secrecy!ProcessRekey, Derived, Secrecy!NoRekey
  <1> HIDE DEF result
  <1>2. result.response = <<>> =>
          {[to |-> Secrecy!Other(m.to), message |-> result.response[i]] : i \in DOMAIN result.response} = {}
    OBVIOUS
  <1>3. /\ result.err # "unexpected"
        /\ Secrecy!Commit(m.to, result.secrets)
        /\ pending' = [pending EXCEPT ![m.to] = 0]
        /\ nonce' = IF result.err = "responseRequired" THEN nonce + 1 ELSE nonce
        /\ messages' = (messages \ {m}) \cup
             {[to |-> Secrecy!Other(m.to), message |-> result.response[i]] : i \in DOMAIN result.response}
        /\ UNCHANGED <<data, flaw>>
    BY DEF Secrecy!ProcessRekeyMessage, Secrecy!NoRekey, result
  <1> QED
    BY <1>1, <1>2, <1>3 DEF Secrecy!Commit, Secrecy!Previous

-----------------------------------------------------------------------------
(* Types and counts. *)

MessageType == [to : Secrecy!Ends, message : [flag : {"request", "response"}, nonce : 1 .. nonce]]

LEMMA MessageGrows ==
    ASSUME nonce \in Nat, nonce' \in Nat, nonce <= nonce' PROVE MessageType \subseteq MessageType'
  <1>1. 1 .. nonce \subseteq 1 .. nonce'
    OBVIOUS
  <1> QED
    BY <1>1 DEF MessageType

LEMMA CommitTyped ==
    ASSUME SecrecyBounds, SecrecyTyped, NEW e \in Secrecy!Ends,
           NEW a \in 1 .. MaxNonce, NEW b \in 1 .. MaxNonce, current[e].epoch + 1 <= MaxNonce + 1,
           current' = [current EXCEPT ![e] = Derived(current[e], a, b)],
           previous' = [previous EXCEPT ![e] = current[e]],
           timers' = [timers EXCEPT ![e] = timers[e] \cup {current[e].epoch}]
    PROVE  /\ current' \in [Secrecy!Ends -> Secrecy!Secrets]
           /\ previous' \in [Secrecy!Ends -> Secrecy!Secrets \cup {Secrecy!None}]
           /\ timers' \in [Secrecy!Ends -> SUBSET Secrecy!Epochs]
           /\ \A x \in Secrecy!Ends :
                /\ Len(current'[x].nonces) = current'[x].epoch - 1
                /\ previous'[x] # Secrecy!None => /\ previous'[x].epoch = current'[x].epoch - 1
                                                  /\ previous'[x].epoch \in timers'[x]
           /\ current'[e].epoch = current[e].epoch + 1
           /\ current'[Secrecy!Other(e)].epoch = current[Secrecy!Other(e)].epoch
  <1> DEFINE new == Derived(current[e], a, b)
  <1>1. /\ current[e].epoch \in Nat /\ current[e].epoch >= 1 /\ MaxNonce \in Nat
        /\ current[e].nonces \in Seq((1 .. MaxNonce) \X (1 .. MaxNonce))
        /\ current[e] \in Secrecy!Secrets
    BY SecretsTyped DEF SecrecyTyped, Secrecy!TypeOK
  <1>2. new = [epoch |-> current[e].epoch + 1, nonces |-> Append(current[e].nonces, <<a, b>>)]
    BY DEF Derived, Secrecy!deriveRekeySecrets
  <1>3. /\ Append(current[e].nonces, <<a, b>>) \in Seq((1 .. MaxNonce) \X (1 .. MaxNonce))
        /\ Len(Append(current[e].nonces, <<a, b>>)) = Len(current[e].nonces) + 1
    BY <1>1
  <1>4. current[e].epoch + 1 \in Secrecy!Epochs /\ current[e].epoch \in Secrecy!Epochs
    BY <1>1 DEF Secrecy!Epochs
  <1>5. new \in Secrecy!Secrets
    BY <1>2, <1>3, <1>4 DEF Secrecy!Secrets
  <1>6. /\ new.epoch = current[e].epoch + 1 /\ Len(new.nonces) = Len(current[e].nonces) + 1
    BY <1>2, <1>3
  <1> HIDE DEF new
  <1>7. /\ current \in [Secrecy!Ends -> Secrecy!Secrets]
        /\ previous \in [Secrecy!Ends -> Secrecy!Secrets \cup {Secrecy!None}]
        /\ timers \in [Secrecy!Ends -> SUBSET Secrecy!Epochs]
        /\ \A x \in Secrecy!Ends :
             /\ Len(current[x].nonces) = current[x].epoch - 1
             /\ previous[x] # Secrecy!None => /\ previous[x].epoch = current[x].epoch - 1
                                              /\ previous[x].epoch \in timers[x]
        /\ current' = [current EXCEPT ![e] = new]
    BY DEF SecrecyTyped, Secrecy!TypeOK, new
  <1>8. /\ current'[e] = new /\ previous'[e] = current[e]
        /\ timers'[e] = timers[e] \cup {current[e].epoch}
        /\ \A x \in Secrecy!Ends : x # e => /\ current'[x] = current[x] /\ previous'[x] = previous[x]
                                            /\ timers'[x] = timers[x]
    BY <1>7
  <1>9. /\ current' \in [Secrecy!Ends -> Secrecy!Secrets]
        /\ previous' \in [Secrecy!Ends -> Secrecy!Secrets \cup {Secrecy!None}]
        /\ timers' \in [Secrecy!Ends -> SUBSET Secrecy!Epochs]
    BY <1>1, <1>4, <1>5, <1>7
  <1>10. ASSUME NEW x \in Secrecy!Ends
         PROVE  /\ Len(current'[x].nonces) = current'[x].epoch - 1
                /\ previous'[x] # Secrecy!None => /\ previous'[x].epoch = current'[x].epoch - 1
                                                  /\ previous'[x].epoch \in timers'[x]
    <2>1. CASE x = e
      <3>1. Len(current[e].nonces) = current[e].epoch - 1
        BY <1>7
      <3>2. Len(new.nonces) = new.epoch - 1 /\ current[e].epoch = new.epoch - 1
        BY <1>1, <1>6, <3>1
      <3> QED
        BY <1>8, <2>1, <3>2
    <2>2. CASE x # e
      BY <1>7, <1>8, <2>2
    <2> QED
      BY <2>1, <2>2
  <1>11. Secrecy!Other(e) \in Secrecy!Ends /\ Secrecy!Other(e) # e
    BY TwoEnds
  <1> QED
    BY <1>6, <1>8, <1>9, <1>10, <1>11

\* the epochs of the two ends add up the same from either
LEMMA EpochSum ==
    ASSUME SecrecyBounds, SecrecyTyped, NEW e \in Secrecy!Ends
    PROVE  (current[e].epoch - 1) + (current[Secrecy!Other(e)].epoch - 1)
              = (current["client"].epoch - 1) + (current["server"].epoch - 1)
  <1>1. /\ current["client"].epoch \in Nat /\ current["server"].epoch \in Nat
    BY SecretsTyped, TwoEnds
  <1>2. \A a, b \in Nat : (a - 1) + (b - 1) = (b - 1) + (a - 1)
    OBVIOUS
  <1>3. e = "client" \/ e = "server"
    BY TwoEnds
  <1> QED
    BY <1>1, <1>2, <1>3, TwoEnds

\* what a step leaves typed and counted
LEMMA TypedFrom ==
    ASSUME SecrecyBounds, SecrecyTyped, NEW e \in Secrecy!Ends,
           nonce' \in 0 .. MaxNonce, pending' \in [Secrecy!Ends -> 0 .. nonce'],
           messages' \subseteq MessageType', data' \subseteq [to : Secrecy!Ends, secrets : Secrecy!Secrets],
           Cardinality(data') <= MaxData, IsFiniteSet(data'),
           flaw' \subseteq {"crossed", "lost", "early"},
           current' \in [Secrecy!Ends -> Secrecy!Secrets],
           previous' \in [Secrecy!Ends -> Secrecy!Secrets \cup {Secrecy!None}],
           timers' \in [Secrecy!Ends -> SUBSET Secrecy!Epochs],
           \A x \in Secrecy!Ends :
              /\ Len(current'[x].nonces) = current'[x].epoch - 1
              /\ previous'[x] # Secrecy!None => /\ previous'[x].epoch = current'[x].epoch - 1
                                                /\ previous'[x].epoch \in timers'[x],
           IsFiniteSet(messages'),
           (current'[e].epoch - 1) + (current'[Secrecy!Other(e)].epoch - 1) + Cardinality(messages') <= nonce'
    PROVE  SecrecyTyped'
  <1>1. Secrecy!TypeOK'
    BY SecrecyCardinality DEF Secrecy!TypeOK, MessageType
  <1>2. (current'["client"].epoch - 1) + (current'["server"].epoch - 1) + Cardinality(messages') <= nonce'
    <2>1. e = "client" \/ e = "server"
      BY TwoEnds
    <2>2. CASE e = "client"
      BY <2>2, TwoEnds
    <2>3. CASE e = "server"
      <3>1. \A x \in Secrecy!Ends : current'[x].epoch \in Nat
        BY DEF Secrecy!Secrets, Secrecy!Epochs
      <3>2. \A a, b \in Nat : (a - 1) + (b - 1) = (b - 1) + (a - 1)
        OBVIOUS
      <3> QED
        BY <2>3, <3>1, <3>2, TwoEnds
    <2> QED
      BY <2>1, <2>2, <2>3
  <1> QED
    BY <1>1, <1>2 DEF SecrecyTyped, Switches

LEMMA ProcessTyped ==
    ASSUME SecrecyBounds, SecrecyTyped, NEW m \in messages, Secrecy!ProcessRekeyMessage(m)
    PROVE  SecrecyTyped'
  <1> PICK e : e = m.to
    OBVIOUS
  <1> PICK o : o = Secrecy!Other(e)
    OBVIOUS
  <1>1. /\ e \in Secrecy!Ends /\ m.message.flag \in {"request", "response"}
        /\ m.message.nonce \in 1 .. nonce /\ o \in Secrecy!Ends /\ e # o
        /\ messages \subseteq MessageType
    BY TwoEnds DEF SecrecyTyped, Secrecy!TypeOK, MessageType
  <1>2. /\ nonce \in Nat /\ MaxNonce \in Nat /\ nonce <= MaxNonce
        /\ current[e].epoch \in Nat /\ current[o].epoch \in Nat
        /\ current[e].epoch + Cardinality(messages) <= nonce + 1 /\ pending[e] \in 0 .. nonce
        /\ pending \in [Secrecy!Ends -> 0 .. nonce]
    BY <1>1, SecretsTyped DEF SecrecyTyped, Secrecy!TypeOK
  <1>3. /\ IsFiniteSet(messages \ {m}) /\ Cardinality(messages \ {m}) \in Nat /\ Cardinality(messages) \in Nat
        /\ Cardinality(messages \ {m}) = Cardinality(messages) - 1
    BY OneLess DEF SecrecyTyped, Switches
  <1>4. current[e].epoch + 1 <= MaxNonce + 1
    BY <1>2, <1>3
  <1>5. (current[e].epoch - 1) + (current[o].epoch - 1) + Cardinality(messages) <= nonce
    BY <1>1, EpochSum DEF SecrecyTyped, Switches
  <1>8. /\ data \subseteq [to : Secrecy!Ends, secrets : Secrecy!Secrets] /\ IsFiniteSet(data)
        /\ Cardinality(data) <= MaxData /\ flaw \subseteq {"crossed", "lost", "early"}
    BY SecrecyCardinality DEF SecrecyTyped, Secrecy!TypeOK, Switches
  <1>6. CASE m.message.flag = "request"
    <2>1. /\ nonce < MaxNonce /\ nonce' = nonce + 1
          /\ current' = [current EXCEPT ![e] = Derived(current[e], m.message.nonce, nonce + 1)]
          /\ previous' = [previous EXCEPT ![e] = current[e]]
          /\ timers' = [timers EXCEPT ![e] = timers[e] \cup {current[e].epoch}]
          /\ pending' = [pending EXCEPT ![e] = 0]
          /\ messages' = (messages \ {m}) \cup {[to |-> o, message |-> Secrecy!Response(nonce + 1)]}
          /\ UNCHANGED <<data, flaw>>
      BY <1>6, RequestEffect
    <2>2. m.message.nonce \in 1 .. MaxNonce /\ nonce + 1 \in 1 .. MaxNonce /\ nonce' \in 0 .. MaxNonce
          /\ nonce' \in Nat /\ nonce <= nonce'
      BY <1>1, <1>2, <2>1
    <2>3. /\ current' \in [Secrecy!Ends -> Secrecy!Secrets]
          /\ previous' \in [Secrecy!Ends -> Secrecy!Secrets \cup {Secrecy!None}]
          /\ timers' \in [Secrecy!Ends -> SUBSET Secrecy!Epochs]
          /\ \A x \in Secrecy!Ends :
                /\ Len(current'[x].nonces) = current'[x].epoch - 1
                /\ previous'[x] # Secrecy!None => /\ previous'[x].epoch = current'[x].epoch - 1
                                                  /\ previous'[x].epoch \in timers'[x]
          /\ current'[e].epoch = current[e].epoch + 1
          /\ current'[o].epoch = current[o].epoch
      BY <1>1, <1>4, <2>1, <2>2, CommitTyped
    <2>4. messages' \subseteq MessageType'
      <3>1. [to |-> o, message |-> Secrecy!Response(nonce + 1)] \in MessageType'
        BY <1>1, <2>1, <2>2 DEF MessageType, Secrecy!Response
      <3> QED
        BY <1>1, <1>2, <2>1, <2>2, <3>1, MessageGrows
    <2>5. IsFiniteSet(messages') /\ Cardinality(messages') \in Nat
          /\ Cardinality(messages') <= Cardinality(messages)
      <3> DEFINE x == [to |-> o, message |-> Secrecy!Response(nonce + 1)]
                 S == messages \ {m}
      <3>1. IsFiniteSet(S \cup {x}) /\ Cardinality(S \cup {x}) \in Nat /\ Cardinality(S \cup {x}) <= Cardinality(S) + 1
        BY <1>3, OneMore
      <3>2. messages' = S \cup {x}
        BY <2>1
      <3> HIDE DEF x, S
      <3>3. Cardinality(S) + 1 = Cardinality(messages)
        BY <1>3 DEF S
      <3> QED
        BY <3>1, <3>2, <3>3
    <2>6. pending' \in [Secrecy!Ends -> 0 .. nonce']
      <3>1. 0 .. nonce \subseteq 0 .. nonce' /\ 0 \in 0 .. nonce'
        BY <2>2, <1>2
      <3> QED
        BY <1>1, <1>2, <2>1, <3>1
    <2>7. (current'[e].epoch - 1) + (current'[o].epoch - 1) + Cardinality(messages') <= nonce'
      <3>1. \A a, b, c, d, n \in Nat : (a - 1) + (b - 1) + c <= n /\ d <= c => (a + 1 - 1) + (b - 1) + d <= n + 1
        OBVIOUS
      <3>2. (current[e].epoch + 1 - 1) + (current[o].epoch - 1) + Cardinality(messages') <= nonce + 1
        BY <1>2, <1>3, <1>5, <2>5, <3>1
      <3>3. current'[e].epoch = current[e].epoch + 1 /\ current'[o].epoch = current[o].epoch
        BY <2>3
      <3>4. nonce' = nonce + 1
        BY <2>1
      <3> QED
        BY <1>2, <1>3, <2>5, <3>2, <3>3, <3>4
    <2> QED
      BY <1>1, <1>8, <2>1, <2>2, <2>3, <2>4, <2>5, <2>6, <2>7, TypedFrom
  <1>7. CASE m.message.flag = "response"
    <2>1. /\ pending[e] # 0
          /\ current' = [current EXCEPT ![e] = Derived(current[e], pending[e], m.message.nonce)]
          /\ previous' = [previous EXCEPT ![e] = current[e]]
          /\ timers' = [timers EXCEPT ![e] = timers[e] \cup {current[e].epoch}]
          /\ pending' = [pending EXCEPT ![e] = 0]
          /\ messages' = messages \ {m}
          /\ UNCHANGED <<nonce, data, flaw>>
      BY <1>7, ResponseEffect
    <2>2. m.message.nonce \in 1 .. MaxNonce /\ pending[e] \in 1 .. MaxNonce /\ nonce' \in 0 .. MaxNonce
      BY <1>1, <1>2, <2>1
    <2>3. /\ current' \in [Secrecy!Ends -> Secrecy!Secrets]
          /\ previous' \in [Secrecy!Ends -> Secrecy!Secrets \cup {Secrecy!None}]
          /\ timers' \in [Secrecy!Ends -> SUBSET Secrecy!Epochs]
          /\ \A x \in Secrecy!Ends :
                /\ Len(current'[x].nonces) = current'[x].epoch - 1
                /\ previous'[x] # Secrecy!None => /\ previous'[x].epoch = current'[x].epoch - 1
                                                  /\ previous'[x].epoch \in timers'[x]
          /\ current'[e].epoch = current[e].epoch + 1
          /\ current'[o].epoch = current[o].epoch
      BY <1>1, <1>4, <2>1, <2>2, CommitTyped
    <2>4. messages' \subseteq MessageType' /\ IsFiniteSet(messages')
      BY <1>1, <1>3, <2>1 DEF MessageType
    <2>5. pending' \in [Secrecy!Ends -> 0 .. nonce']
      <3>1. 0 \in 0 .. nonce
        BY <1>2
      <3> QED
        BY <1>1, <1>2, <2>1, <3>1
    <2>6. (current'[e].epoch - 1) + (current'[o].epoch - 1) + Cardinality(messages') <= nonce'
      <3>1. \A a, b, c, d, n \in Nat : (a - 1) + (b - 1) + c <= n /\ d = c - 1 => (a + 1 - 1) + (b - 1) + d <= n
        OBVIOUS
      <3>2. (current[e].epoch + 1 - 1) + (current[o].epoch - 1) + Cardinality(messages \ {m}) <= nonce
        BY <1>2, <1>3, <1>5, <3>1
      <3>3. current'[e].epoch = current[e].epoch + 1 /\ current'[o].epoch = current[o].epoch
        BY <2>3
      <3>4. nonce' = nonce /\ messages' = messages \ {m}
        BY <2>1
      <3> QED
        BY <1>2, <1>3, <2>5, <3>2, <3>3, <3>4
    <2> QED
      BY <1>1, <1>8, <2>1, <2>2, <2>3, <2>4, <2>5, <2>6, TypedFrom
  <1> QED
    BY <1>1, <1>6, <1>7

(* The steps that switch no end. *)
LEMMA TypedFromSame ==
    ASSUME SecrecyBounds, SecrecyTyped, UNCHANGED current,
           nonce' \in 0 .. MaxNonce, pending' \in [Secrecy!Ends -> 0 .. nonce'],
           messages' \subseteq MessageType', data' \subseteq [to : Secrecy!Ends, secrets : Secrecy!Secrets],
           Cardinality(data') <= MaxData, IsFiniteSet(data'),
           flaw' \subseteq {"crossed", "lost", "early"},
           previous' \in [Secrecy!Ends -> Secrecy!Secrets \cup {Secrecy!None}],
           timers' \in [Secrecy!Ends -> SUBSET Secrecy!Epochs],
           \A x \in Secrecy!Ends :
              previous'[x] # Secrecy!None => previous'[x] = previous[x] /\ previous'[x].epoch \in timers'[x],
           IsFiniteSet(messages'), Cardinality(messages') \in Nat,
           Cardinality(messages') + nonce <= Cardinality(messages) + nonce'
    PROVE  SecrecyTyped'
  <1>1. "client" \in Secrecy!Ends /\ Secrecy!Other("client") = "server" /\ "server" \in Secrecy!Ends
    BY TwoEnds
  <1>2. /\ current["client"].epoch \in Nat /\ current["server"].epoch \in Nat
        /\ nonce \in Nat /\ nonce' \in Nat /\ Cardinality(messages) \in Nat
    <2>1. nonce \in Nat /\ MaxNonce \in Nat /\ Cardinality(messages) \in Nat
          /\ \A e \in Secrecy!Ends : current[e].epoch \in Nat
      BY SecretsTyped
    <2>2. nonce' \in Nat
      BY <2>1
    <2> QED
      BY <1>1, <2>1, <2>2
  <1>3. (current'["client"].epoch - 1) + (current'[Secrecy!Other("client")].epoch - 1) + Cardinality(messages') <= nonce'
    <2>1. \A a, b, c, d, n, k \in Nat : (a - 1) + (b - 1) + c <= n /\ d + n <= c + k => (a - 1) + (b - 1) + d <= k
      OBVIOUS
    <2> QED
      BY <1>1, <1>2, <2>1 DEF SecrecyTyped, Switches
  <1>4. /\ current' \in [Secrecy!Ends -> Secrecy!Secrets]
        /\ \A x \in Secrecy!Ends :
              /\ Len(current'[x].nonces) = current'[x].epoch - 1
              /\ previous'[x] # Secrecy!None => /\ previous'[x].epoch = current'[x].epoch - 1
                                                /\ previous'[x].epoch \in timers'[x]
    BY DEF SecrecyTyped, Secrecy!TypeOK
  <1> QED
    BY <1>1, <1>3, <1>4, TypedFrom

LEMMA InitiateTyped ==
    ASSUME SecrecyBounds, SecrecyTyped, NEW e \in Secrecy!Ends, Secrecy!InitiateRekey(e)
    PROVE  SecrecyTyped'
  <1> DEFINE x == [to |-> Secrecy!Other(e), message |-> Secrecy!Request(nonce')]
  <1>1. /\ nonce < MaxNonce /\ nonce' = nonce + 1 /\ pending' = [pending EXCEPT ![e] = nonce']
        /\ messages' = messages \cup {x} /\ UNCHANGED <<current, previous, timers, data>>
        /\ flaw' = flaw \cup {"crossed"} \/ flaw' = flaw
    BY DEF Secrecy!InitiateRekey
  <1>2. /\ nonce \in Nat /\ MaxNonce \in Nat /\ nonce' \in 0 .. MaxNonce /\ nonce' \in 1 .. nonce' /\ nonce <= nonce'
        /\ nonce' \in Nat
    BY <1>1, SecretsTyped
  <1>3. pending' \in [Secrecy!Ends -> 0 .. nonce']
    BY <1>1, <1>2 DEF SecrecyTyped, Secrecy!TypeOK
  <1>4. messages' \subseteq MessageType'
    <2>1. x \in MessageType'
      BY <1>2, TwoEnds DEF MessageType, Secrecy!Request
    <2>2. messages \subseteq MessageType
      BY DEF SecrecyTyped, Secrecy!TypeOK, MessageType
    <2> QED
      BY <1>1, <1>2, <2>1, <2>2, MessageGrows
  <1> HIDE DEF x
  <1>5. IsFiniteSet(messages') /\ Cardinality(messages') \in Nat
        /\ Cardinality(messages') + nonce <= Cardinality(messages) + nonce'
    <2>1. IsFiniteSet(messages) /\ messages' = messages \cup {x}
      BY <1>1 DEF SecrecyTyped, Switches
    <2>2. IsFiniteSet(messages') /\ Cardinality(messages') \in Nat /\ Cardinality(messages) \in Nat
          /\ Cardinality(messages') <= Cardinality(messages) + 1
      BY <2>1, OneMore
    <2> QED
      BY <1>1, <1>2, <2>2
  <1>6. /\ data' \subseteq [to : Secrecy!Ends, secrets : Secrecy!Secrets] /\ Cardinality(data') <= MaxData
        /\ IsFiniteSet(data') /\ flaw' \subseteq {"crossed", "lost", "early"}
        /\ previous' \in [Secrecy!Ends -> Secrecy!Secrets \cup {Secrecy!None}]
        /\ timers' \in [Secrecy!Ends -> SUBSET Secrecy!Epochs]
        /\ \A y \in Secrecy!Ends :
              previous'[y] # Secrecy!None => previous'[y] = previous[y] /\ previous'[y].epoch \in timers'[y]
    BY <1>1, SecrecyCardinality DEF SecrecyTyped, Secrecy!TypeOK, Switches
  <1> QED
    BY <1>1, <1>2, <1>3, <1>4, <1>5, <1>6, TypedFromSame

LEMMA DropTyped ==
    ASSUME SecrecyBounds, SecrecyTyped, NEW m \in messages, messages' = messages \ {m},
           flaw' = flaw \/ flaw' = flaw \cup {"lost"},
           UNCHANGED <<current, previous, pending, timers, data, nonce>>
    PROVE  SecrecyTyped'
  <1>1. /\ IsFiniteSet(messages') /\ Cardinality(messages') \in Nat /\ nonce \in Nat /\ nonce \in 0 .. MaxNonce
        /\ Cardinality(messages') + nonce <= Cardinality(messages) + nonce
    <2>1. IsFiniteSet(messages')  /\ Cardinality(messages') \in Nat /\ Cardinality(messages) \in Nat
          /\ Cardinality(messages') = Cardinality(messages) - 1
      BY OneLess DEF SecrecyTyped, Switches
    <2>2. nonce \in Nat /\ MaxNonce \in Nat /\ nonce <= MaxNonce
      BY SecretsTyped
    <2> QED
      BY <2>1, <2>2
  <1>2. /\ data' \subseteq [to : Secrecy!Ends, secrets : Secrecy!Secrets] /\ Cardinality(data') <= MaxData
        /\ IsFiniteSet(data') /\ flaw' \subseteq {"crossed", "lost", "early"}
        /\ previous' \in [Secrecy!Ends -> Secrecy!Secrets \cup {Secrecy!None}]
        /\ timers' \in [Secrecy!Ends -> SUBSET Secrecy!Epochs]
        /\ pending' \in [Secrecy!Ends -> 0 .. nonce'] /\ messages' \subseteq MessageType'
        /\ \A y \in Secrecy!Ends :
              previous'[y] # Secrecy!None => previous'[y] = previous[y] /\ previous'[y].epoch \in timers'[y]
    BY SecrecyCardinality DEF SecrecyTyped, Secrecy!TypeOK, Switches, MessageType
  <1> QED
    BY <1>1, <1>2, TypedFromSame

LEMMA DataTyped ==
    ASSUME SecrecyBounds, SecrecyTyped,
           (\E e \in Secrecy!Ends : Secrecy!Send(e)) \/ \E d \in data : Secrecy!Receive(d)
    PROVE  SecrecyTyped'
  <1>1. UNCHANGED <<current, previous, pending, timers, messages, nonce, flaw>>
    BY DEF Secrecy!Send, Secrecy!Receive
  <1>2. /\ data' \subseteq [to : Secrecy!Ends, secrets : Secrecy!Secrets] /\ IsFiniteSet(data')
        /\ Cardinality(data') <= MaxData
    <2>1. IsFiniteSet(data) /\ data \subseteq [to : Secrecy!Ends, secrets : Secrecy!Secrets] /\ MaxData \in Nat
          /\ Cardinality(data) \in Nat /\ Cardinality(data) <= MaxData
      BY SecrecyCardinality, FS_CardinalityType DEF SecrecyTyped, Secrecy!TypeOK, Switches, SecrecyBounds
    <2>2. ASSUME NEW e \in Secrecy!Ends, Secrecy!Send(e)
          PROVE  /\ data' \subseteq [to : Secrecy!Ends, secrets : Secrecy!Secrets] /\ IsFiniteSet(data')
                 /\ Cardinality(data') <= MaxData
      <3> DEFINE x == [to |-> Secrecy!Other(e), secrets |-> current[e]]
      <3>1. data' = data \cup {x} /\ Cardinality(data) < MaxData
        BY <2>2, SecrecyCardinality DEF Secrecy!Send
      <3>2. x \in [to : Secrecy!Ends, secrets : Secrecy!Secrets]
        BY TwoEnds DEF SecrecyTyped, Secrecy!TypeOK
      <3> HIDE DEF x
      <3>3. IsFiniteSet(data') /\ Cardinality(data') \in Nat /\ Cardinality(data') <= Cardinality(data) + 1
        BY <2>1, <3>1, OneMore
      <3> QED
        BY <2>1, <3>1, <3>2, <3>3
    <2>3. ASSUME NEW d \in data, Secrecy!Receive(d)
          PROVE  /\ data' \subseteq [to : Secrecy!Ends, secrets : Secrecy!Secrets] /\ IsFiniteSet(data')
                 /\ Cardinality(data') <= MaxData
      <3>1. data' = data \ {d}
        BY <2>3 DEF Secrecy!Receive
      <3>2. IsFiniteSet(data') /\ Cardinality(data') \in Nat /\ Cardinality(data') = Cardinality(data) - 1
        BY <2>1, <3>1, OneLess
      <3> QED
        BY <2>1, <3>1, <3>2
    <2> QED
      BY <2>2, <2>3
  <1>3. /\ nonce \in 0 .. MaxNonce /\ nonce \in Nat /\ Cardinality(messages) \in Nat
        /\ Cardinality(messages) + nonce <= Cardinality(messages) + nonce
    <2>1. nonce \in Nat /\ MaxNonce \in Nat /\ nonce <= MaxNonce /\ Cardinality(messages) \in Nat
      BY SecretsTyped
    <2> QED
      BY <2>1
  <1>4. /\ flaw' \subseteq {"crossed", "lost", "early"} /\ IsFiniteSet(messages')
        /\ previous' \in [Secrecy!Ends -> Secrecy!Secrets \cup {Secrecy!None}]
        /\ timers' \in [Secrecy!Ends -> SUBSET Secrecy!Epochs]
        /\ pending' \in [Secrecy!Ends -> 0 .. nonce'] /\ messages' \subseteq MessageType'
        /\ \A y \in Secrecy!Ends :
              previous'[y] # Secrecy!None => previous'[y] = previous[y] /\ previous'[y].epoch \in timers'[y]
    BY <1>1 DEF SecrecyTyped, Secrecy!TypeOK, Switches, MessageType
  <1> QED
    BY <1>1, <1>2, <1>3, <1>4, TypedFromSame

LEMMA GraceTyped ==
    ASSUME SecrecyBounds, SecrecyTyped, NEW e \in Secrecy!Ends, NEW k, Secrecy!GraceEnds(e, k)
    PROVE  SecrecyTyped'
  <1>1. /\ timers' = [timers EXCEPT ![e] = timers[e] \ {k}]
        /\ previous' = IF previous[e] # Secrecy!None /\ previous[e].epoch = k
                       THEN [previous EXCEPT ![e] = Secrecy!None] ELSE previous
        /\ flaw' = flaw \cup {"early"} \/ flaw' = flaw
        /\ UNCHANGED <<current, pending, messages, data, nonce>>
    BY DEF Secrecy!GraceEnds, Secrecy!Expires
  <1>2. /\ previous \in [Secrecy!Ends -> Secrecy!Secrets \cup {Secrecy!None}]
        /\ timers \in [Secrecy!Ends -> SUBSET Secrecy!Epochs]
        /\ \A x \in Secrecy!Ends : previous[x] # Secrecy!None => previous[x].epoch \in timers[x]
    BY DEF SecrecyTyped, Secrecy!TypeOK
  <1>3. /\ previous' \in [Secrecy!Ends -> Secrecy!Secrets \cup {Secrecy!None}]
        /\ timers' \in [Secrecy!Ends -> SUBSET Secrecy!Epochs]
    BY <1>1, <1>2
  <1>4. ASSUME NEW x \in Secrecy!Ends, previous'[x] # Secrecy!None
        PROVE  previous'[x] = previous[x] /\ previous'[x].epoch \in timers'[x]
    <2>1. CASE x # e
      BY <1>1, <1>2, <1>4, <2>1
    <2>2. CASE x = e
      <3>1. ~ (previous[e] # Secrecy!None /\ previous[e].epoch = k)
        BY <1>1, <1>2, <1>4, <2>2
      <3> QED
        BY <1>1, <1>2, <1>4, <2>2, <3>1
    <2> QED
      BY <2>1, <2>2
  <1>5. /\ nonce \in 0 .. MaxNonce /\ nonce \in Nat /\ Cardinality(messages) \in Nat
        /\ Cardinality(messages) + nonce <= Cardinality(messages) + nonce
    <2>1. nonce \in Nat /\ MaxNonce \in Nat /\ nonce <= MaxNonce /\ Cardinality(messages) \in Nat
      BY SecretsTyped
    <2> QED
      BY <2>1
  <1>6. /\ data' \subseteq [to : Secrecy!Ends, secrets : Secrecy!Secrets] /\ Cardinality(data') <= MaxData
        /\ IsFiniteSet(data') /\ flaw' \subseteq {"crossed", "lost", "early"} /\ IsFiniteSet(messages')
        /\ pending' \in [Secrecy!Ends -> 0 .. nonce'] /\ messages' \subseteq MessageType'
    BY <1>1, SecrecyCardinality DEF SecrecyTyped, Secrecy!TypeOK, Switches, MessageType
  <1> QED
    BY <1>1, <1>3, <1>4, <1>5, <1>6, TypedFromSame

LEMMA SecrecyStaysTyped ==
    ASSUME SecrecyBounds, SecrecyTyped, [Secrecy!Next]_(Secrecy!vars) PROVE SecrecyTyped'
  <1>1. ASSUME NEW m \in messages, Secrecy!Unexpected(m) \/ Secrecy!Lose(m) PROVE SecrecyTyped'
    BY <1>1, DropTyped DEF Secrecy!Unexpected, Secrecy!Lose
  <1>2. ASSUME UNCHANGED Secrecy!vars PROVE SecrecyTyped'
    BY <1>2 DEF Secrecy!vars, SecrecyTyped, Switches, Secrecy!TypeOK
  <1> QED
    BY <1>1, <1>2, ProcessTyped, InitiateTyped, DataTyped, GraceTyped DEF Secrecy!Next

-----------------------------------------------------------------------------
(* The protocol: which of the clean states a step leads to. *)

LEMMA EarlierFlaw == \A f : f = {} => Clean \/ flaw # f
  BY DEF Clean

LEMMA Distinct ==
    ASSUME SecrecyTyped, NEW e \in Secrecy!Ends
    PROVE  /\ current[e] # Secrecy!None /\ current[e].epoch \in Nat
           /\ previous[e] # Secrecy!None => previous[e].epoch + 1 = current[e].epoch
                                            /\ previous[e].epoch \in Nat
  <1>1. current[e] \in Secrecy!Secrets /\ previous[e] \in Secrecy!Secrets \cup {Secrecy!None}
    BY DEF SecrecyTyped, Secrecy!TypeOK
  <1>2. current[e].epoch \in Nat /\ current[e].epoch >= 1
    BY <1>1 DEF Secrecy!Secrets, Secrecy!Epochs
  <1>3. Secrecy!None.epoch = 0
    BY DEF Secrecy!None
  <1>4. previous[e] # Secrecy!None => previous[e].epoch \in Nat /\ previous[e].epoch = current[e].epoch - 1
    BY <1>1 DEF SecrecyTyped, Secrecy!TypeOK, Secrecy!Secrets, Secrecy!Epochs
  <1> QED
    BY <1>2, <1>3, <1>4

LEMMA CleanMessage ==
    ASSUME SecrecyInv, Clean, NEW m \in messages
    PROVE  \E x \in Secrecy!Ends :
             \/ Asked(x) /\ m.message.flag = "request" /\ m.to = Secrecy!Other(x)
                /\ m.message.nonce = pending[x] /\ messages = {m}
             \/ Answered(x) /\ m.message.flag = "response" /\ m.to = x /\ messages = {m}
                /\ current[Secrecy!Other(x)] = Derived(current[x], pending[x], m.message.nonce)
  <1>1. PICK x \in Secrecy!Ends : Asked(x) \/ Answered(x)
    BY DEF SecrecyInv, Agreement, Settled
  <1>2. CASE Asked(x)
    BY <1>2 DEF Asked, Secrecy!Request
  <1>3. CASE Answered(x)
    BY <1>3 DEF Answered, Secrecy!Response
  <1> QED
    BY <1>1, <1>2, <1>3

LEMMA InitiateAgrees ==
    ASSUME SecrecyBounds, SecrecyInv, NEW e \in Secrecy!Ends, Secrecy!InitiateRekey(e)
    PROVE  Agreement' /\ Opening'
  <1> DEFINE o == Secrecy!Other(e)
             x == [to |-> Secrecy!Other(e), message |-> Secrecy!Request(nonce')]
  <1>1. /\ nonce < MaxNonce /\ nonce' = nonce + 1 /\ pending' = [pending EXCEPT ![e] = nonce']
        /\ messages' = messages \cup {x} /\ UNCHANGED <<current, previous, timers, data>>
        /\ flaw' = IF pending[o] # 0 \/ current[e] # current[o] THEN flaw \cup {"crossed"} ELSE flaw
        /\ pending[e] = 0
    BY DEF Secrecy!InitiateRekey, Secrecy!NoRekey
  <1> SUFFICES ASSUME Clean' PROVE Agreement' /\ Opening'
    BY DEF Agreement, Opening, Clean
  <1>2. flaw' = flaw /\ Clean /\ pending[o] = 0 /\ current[e] = current[o]
    BY <1>1 DEF Clean
  <1>3. /\ o \in Secrecy!Ends /\ e # o /\ nonce' \in Nat /\ nonce' # 0
        /\ pending \in [Secrecy!Ends -> 0 .. nonce]
        /\ \A y \in Secrecy!Ends : y = e \/ y = o
    BY <1>1, SecretsTyped, TwoEnds DEF SecrecyInv, SecrecyTyped, Secrecy!TypeOK
  <1>4. \A y \in Secrecy!Ends : ~ Asked(y) /\ ~ Answered(y)
    <2>1. pending[e] = 0
      BY <1>1
    <2>2. pending[o] = 0
      BY <1>2
    <2>3. \A y \in Secrecy!Ends : pending[y] = 0
      BY <2>1, <2>2, <1>3, Zenon
    <2> QED
      BY <2>3, Zenon DEF Asked, Answered
  <1>5. Settled
    BY <1>2, <1>4 DEF SecrecyInv, Agreement
  <1>6. pending'[e] = nonce' /\ pending'[o] = 0
    BY <1>1, <1>2, <1>3
  <1>7. messages' = {x} /\ x = [to |-> o, message |-> Secrecy!Request(pending'[e])]
    BY <1>1, <1>5, <1>6 DEF Settled
  <1>8. current'[e] = current'[o]
    BY <1>1, <1>2
  <1>9. Asked(e)'
    BY <1>3, <1>6, <1>7, <1>8 DEF Asked
  <1>10. Opening'
    <2> SUFFICES ASSUME flaw' = {}, NEW d \in data' PROVE Reaches(d)'
      BY DEF Opening
    <2>1. Reaches(d) /\ d.to \in Secrecy!Ends
      BY <1>1, <1>2 DEF SecrecyInv, Opening, SecrecyTyped, Secrecy!TypeOK
    <2> QED
      BY <1>1, <1>4, <2>1 DEF Reaches
  <1> QED
    BY <1>9, <1>10 DEF Agreement

(* What an end had or could open before it switches, it can open after, or has switched
   twice since. *)
LEMMA SwitchReaches ==
    ASSUME SecrecyInv, NEW e \in Secrecy!Ends, NEW new,
           current' = [current EXCEPT ![e] = new], previous' = [previous EXCEPT ![e] = current[e]],
           new.epoch = current[e].epoch + 1,
           NEW d, d.to \in Secrecy!Ends, d.secrets \in Secrecy!Secrets,
           \/ d.secrets.epoch + 1 < current[d.to].epoch
           \/ d.secrets = current[d.to]
           \/ previous[d.to] # Secrecy!None /\ d.secrets = previous[d.to]
    PROVE  Reaches(d)'
  <1>1. /\ current \in [Secrecy!Ends -> Secrecy!Secrets]
        /\ previous \in [Secrecy!Ends -> Secrecy!Secrets \cup {Secrecy!None}]
    BY DEF SecrecyInv, SecrecyTyped, Secrecy!TypeOK
  <1>2. /\ current'[e] = new /\ previous'[e] = current[e]
        /\ \A x \in Secrecy!Ends : x # e => current'[x] = current[x] /\ previous'[x] = previous[x]
    BY <1>1
  <1>3. CASE d.to # e
    <2>1. current'[d.to] = current[d.to] /\ previous'[d.to] = previous[d.to]
      BY <1>2, <1>3
    <2> QED
      BY <2>1 DEF Reaches
  <1>4. CASE d.to = e
    <2>1. /\ current[e] # Secrecy!None /\ current[e].epoch \in Nat
          /\ previous[e] # Secrecy!None => previous[e].epoch + 1 = current[e].epoch
      BY Distinct DEF SecrecyInv
    <2>2. CASE d.secrets = current[d.to]
      BY <1>2, <1>4, <2>1, <2>2 DEF Reaches
    <2>3. CASE d.secrets # current[d.to]
      <3>1. d.secrets.epoch \in Nat
        BY DEF Secrecy!Secrets, Secrecy!Epochs
      <3>2. d.secrets.epoch + 1 < current[e].epoch \/ d.secrets.epoch + 1 = current[e].epoch
        BY <1>4, <2>1, <2>3
      <3>3. d.secrets.epoch + 1 < new.epoch
        BY <2>1, <3>1, <3>2
      <3> QED
        BY <1>2, <1>4, <3>3 DEF Reaches
    <2> QED
      BY <2>2, <2>3
  <1> QED
    BY <1>3, <1>4

LEMMA DerivedEpoch == \A s, n, m : Derived(s, n, m).epoch = s.epoch + 1
  BY DEF Derived, Secrecy!deriveRekeySecrets

LEMMA DataHas ==
    ASSUME SecrecyInv, NEW d \in data
    PROVE  /\ d.to \in Secrecy!Ends /\ d.secrets \in Secrecy!Secrets
           /\ flaw = {} => Reaches(d)
  BY DEF SecrecyInv, SecrecyTyped, Secrecy!TypeOK, Opening

LEMMA RequestAgrees ==
    ASSUME SecrecyBounds, SecrecyInv, NEW m \in messages, m.message.flag = "request",
           Secrecy!ProcessRekeyMessage(m)
    PROVE  Agreement' /\ Opening'
  <1>1. UNCHANGED <<data, flaw>>
    BY RequestEffect
  <1> SUFFICES ASSUME Clean PROVE Agreement' /\ Opening'
    BY <1>1 DEF Agreement, Opening, Clean
  <1>2. PICK x \in Secrecy!Ends : Asked(x) /\ m.to = Secrecy!Other(x)
                                  /\ m.message.nonce = pending[x] /\ messages = {m}
    BY CleanMessage
  <1> PICK e : e = m.to
    OBVIOUS
  <1>3. e \in Secrecy!Ends /\ e # x /\ e = Secrecy!Other(x) /\ Secrecy!Other(e) = x
        /\ current[x] = current[e] /\ pending[x] # 0
    BY <1>2, TwoEnds DEF Asked
  <1>4. /\ nonce < MaxNonce /\ nonce' = nonce + 1
        /\ current' = [current EXCEPT ![e] = Derived(current[e], m.message.nonce, nonce + 1)]
        /\ previous' = [previous EXCEPT ![e] = current[e]]
        /\ pending' = [pending EXCEPT ![e] = 0]
        /\ messages' = (messages \ {m}) \cup {[to |-> x, message |-> Secrecy!Response(nonce + 1)]}
    BY <1>3, RequestEffect
  <1>5. /\ current \in [Secrecy!Ends -> Secrecy!Secrets] /\ pending \in [Secrecy!Ends -> 0 .. nonce]
        /\ previous \in [Secrecy!Ends -> Secrecy!Secrets \cup {Secrecy!None}]
        /\ nonce \in Nat
    BY SecretsTyped DEF SecrecyInv, SecrecyTyped, Secrecy!TypeOK
  <1>6. /\ current'[e] = Derived(current[x], pending[x], nonce + 1) /\ current'[x] = current[x]
        /\ previous'[e] = current[x] /\ pending'[x] = pending[x] /\ pending'[e] = 0
        /\ messages' = {[to |-> x, message |-> Secrecy!Response(nonce + 1)]} /\ nonce + 1 \in 1 .. nonce'
    BY <1>2, <1>3, <1>4, <1>5
  <1>7. Answered(x)'
    <2>1. /\ messages' = {[to |-> x, message |-> Secrecy!Response(nonce + 1)]}
          /\ current'[Secrecy!Other(x)] = Derived(current'[x], pending'[x], nonce + 1)
      BY <1>3, <1>6
    <2>2. /\ pending'[x] # 0 /\ pending'[Secrecy!Other(x)] = 0
          /\ previous'[Secrecy!Other(x)] = current'[x]
      BY <1>3, <1>6
    <2> QED
      BY <1>6, <2>1, <2>2 DEF Answered
  <1>8. Opening'
    <2> SUFFICES ASSUME flaw' = {}, NEW d \in data' PROVE Reaches(d)'
      BY DEF Opening
    <2>1. Reaches(d) /\ d.to \in Secrecy!Ends /\ d.secrets \in Secrecy!Secrets
      BY <1>1, DataHas
    <2>2. \A y : ~ Answered(y)
      BY <1>2 DEF Answered, Asked, Secrecy!Request, Secrecy!Response
    <2>3. \/ d.secrets.epoch + 1 < current[d.to].epoch
          \/ d.secrets = current[d.to]
          \/ previous[d.to] # Secrecy!None /\ d.secrets = previous[d.to]
      BY <2>1, <2>2 DEF Reaches
    <2> DEFINE new == Derived(current[e], m.message.nonce, nonce + 1)
    <2>4. new.epoch = current[e].epoch + 1
      BY DerivedEpoch
    <2> HIDE DEF new
    <2> QED
      BY <1>3, <1>4, <2>1, <2>3, <2>4, SwitchReaches DEF new
  <1> QED
    BY <1>7, <1>8 DEF Agreement

LEMMA ResponseAgrees ==
    ASSUME SecrecyBounds, SecrecyInv, NEW m \in messages, m.message.flag = "response",
           Secrecy!ProcessRekeyMessage(m)
    PROVE  Agreement' /\ Opening'
  <1>1. UNCHANGED <<data, flaw>>
    BY ResponseEffect
  <1> SUFFICES ASSUME Clean PROVE Agreement' /\ Opening'
    BY <1>1 DEF Agreement, Opening, Clean
  <1>2. PICK x \in Secrecy!Ends :
              /\ Answered(x) /\ m.to = x /\ messages = {m}
              /\ current[Secrecy!Other(x)] = Derived(current[x], pending[x], m.message.nonce)
    BY CleanMessage
  <1> PICK o : o = Secrecy!Other(x)
    OBVIOUS
  <1>3. o \in Secrecy!Ends /\ o # x /\ x = Secrecy!Other(o) /\ pending[o] = 0
        /\ \A y \in Secrecy!Ends : y = x \/ y = o
    BY <1>2, TwoEnds DEF Answered
  <1>4. /\ current' = [current EXCEPT ![x] = Derived(current[x], pending[x], m.message.nonce)]
        /\ previous' = [previous EXCEPT ![x] = current[x]]
        /\ pending' = [pending EXCEPT ![x] = 0]
        /\ messages' = messages \ {m}
    BY <1>2, ResponseEffect
  <1>5. /\ current \in [Secrecy!Ends -> Secrecy!Secrets] /\ pending \in [Secrecy!Ends -> 0 .. nonce]
        /\ previous \in [Secrecy!Ends -> Secrecy!Secrets \cup {Secrecy!None}]
    BY DEF SecrecyInv, SecrecyTyped, Secrecy!TypeOK
  <1>6. /\ current'[x] = current[o] /\ current'[o] = current[o]
        /\ pending'[x] = 0 /\ pending'[o] = 0 /\ messages' = {}
    BY <1>2, <1>3, <1>4, <1>5
  <1>7. Settled'
    BY <1>3, <1>6 DEF Settled
  <1>8. Opening'
    <2> SUFFICES ASSUME flaw' = {}, NEW d \in data' PROVE Reaches(d)'
      BY DEF Opening
    <2>1. Reaches(d) /\ d.to \in Secrecy!Ends /\ d.secrets \in Secrecy!Secrets
      BY <1>1, DataHas
    <2> DEFINE new == Derived(current[x], pending[x], m.message.nonce)
    <2>2. new.epoch = current[x].epoch + 1
      BY DerivedEpoch
    <2> HIDE DEF new
    <2>3. CASE \/ d.secrets.epoch + 1 < current[d.to].epoch
               \/ d.secrets = current[d.to]
               \/ previous[d.to] # Secrecy!None /\ d.secrets = previous[d.to]
      BY <1>4, <2>1, <2>2, <2>3, SwitchReaches DEF new
    <2>4. CASE Answered(d.to) /\ d.secrets = current[Secrecy!Other(d.to)]
      <3>1. d.to = x
        BY <1>2, <2>4 DEF Answered
      <3>2. d.secrets = current'[d.to]
        BY <1>6, <2>4, <3>1
      <3> QED
        BY <3>2 DEF Reaches
    <2> QED
      BY <2>1, <2>3, <2>4 DEF Reaches
  <1> QED
    BY <1>7, <1>8 DEF Agreement

LEMMA DropAgrees ==
    ASSUME SecrecyBounds, SecrecyInv, NEW m \in messages, Secrecy!Unexpected(m) \/ Secrecy!Lose(m)
    PROVE  Agreement' /\ Opening'
  <1>1. ~ Clean'
    <2>1. CASE Secrecy!Lose(m)
      BY <2>1 DEF Secrecy!Lose, Clean
    <2>2. CASE Secrecy!Unexpected(m)
      <3>1. m.message.flag = "response" /\ pending[m.to] = 0 /\ flaw' = flaw
        BY <2>2 DEF Secrecy!Unexpected, Secrecy!NoRekey
      <3>2. ~ Clean
        BY <3>1, CleanMessage DEF Answered
      <3> QED
        BY <3>1, <3>2 DEF Clean
    <2> QED
      BY <2>1, <2>2
  <1> QED
    BY <1>1 DEF Agreement, Opening, Clean

LEMMA GraceAgrees ==
    ASSUME SecrecyBounds, SecrecyInv, NEW e \in Secrecy!Ends, NEW k, Secrecy!GraceEnds(e, k)
    PROVE  Agreement' /\ Opening'
  <1> DEFINE early == \/ \E d \in data : d.to = e /\ d.secrets.epoch = k
                      \/ current[Secrecy!Other(e)].epoch = k
  <1>1. /\ previous' = IF previous[e] # Secrecy!None /\ previous[e].epoch = k
                       THEN [previous EXCEPT ![e] = Secrecy!None] ELSE previous
        /\ flaw' = IF early THEN flaw \cup {"early"} ELSE flaw
        /\ UNCHANGED <<current, pending, messages, data, nonce>>
    BY DEF Secrecy!GraceEnds, Secrecy!Expires
  <1>2. previous \in [Secrecy!Ends -> Secrecy!Secrets \cup {Secrecy!None}]
    BY DEF SecrecyInv, SecrecyTyped, Secrecy!TypeOK
  <1> HIDE DEF early
  <1>3. ASSUME NEW x \in Secrecy!Ends, previous'[x] # previous[x]
        PROVE  x = e /\ previous[e].epoch = k
    BY <1>1, <1>2, <1>3
  <1>4. ASSUME NEW x \in Secrecy!Ends, Answered(x) PROVE Answered(x)'
    <2>1. CASE previous'[Secrecy!Other(x)] = previous[Secrecy!Other(x)]
      <3>1. "early" \notin flaw' => "early" \notin flaw
        BY <1>1
      <3> QED
        BY <1>1, <1>4, <2>1, <3>1 DEF Answered
    <2>2. CASE previous'[Secrecy!Other(x)] # previous[Secrecy!Other(x)]
      <3>1. Secrecy!Other(x) = e /\ previous[e].epoch = k /\ Secrecy!Other(e) = x
        BY <1>3, <2>2, TwoEnds
      <3>2. "early" \notin flaw => current[x].epoch = k
        BY <1>4, <3>1 DEF Answered
      <3>3. "early" \in flaw'
        BY <1>1, <3>1, <3>2 DEF early
      <3> QED
        BY <1>1, <1>4, <3>3 DEF Answered
    <2> QED
      BY <2>1, <2>2
  <1>5. Agreement'
    <2>1. Clean' => Clean
      BY <1>1 DEF Clean
    <2>2. (Settled => Settled') /\ \A x \in Secrecy!Ends : Asked(x) => Asked(x)'
      BY <1>1 DEF Settled, Asked
    <2> QED
      BY <1>4, <2>1, <2>2 DEF SecrecyInv, Agreement
  <1>6. Opening'
    <2> SUFFICES ASSUME flaw' = {}, NEW d \in data' PROVE Reaches(d)'
      BY DEF Opening
    <2>1. flaw = {} /\ ~ early /\ d \in data
      BY <1>1
    <2>2. Reaches(d) /\ d.to \in Secrecy!Ends
      BY <2>1, DataHas
    <2>3. CASE Answered(d.to) /\ d.secrets = current[Secrecy!Other(d.to)]
      BY <1>1, <1>4, <2>2, <2>3 DEF Reaches
    <2>4. CASE d.secrets.epoch + 1 < current[d.to].epoch \/ d.secrets = current[d.to]
      BY <1>1, <2>4 DEF Reaches
    <2>5. CASE previous[d.to] # Secrecy!None /\ d.secrets = previous[d.to]
      <3>1. previous'[d.to] = previous[d.to]
        BY <1>3, <2>1, <2>2, <2>5 DEF early
      <3> QED
        BY <2>5, <3>1 DEF Reaches
    <2> QED
      BY <2>2, <2>3, <2>4, <2>5 DEF Reaches
  <1> QED
    BY <1>5, <1>6

LEMMA DataAgrees ==
    ASSUME SecrecyBounds, SecrecyInv,
           \/ \E e \in Secrecy!Ends : Secrecy!Send(e)
           \/ \E d \in data : Secrecy!Receive(d)
           \/ UNCHANGED Secrecy!vars
    PROVE  Agreement' /\ Opening'
  <1>1. UNCHANGED <<current, previous, pending, timers, messages, nonce, flaw>>
    BY DEF Secrecy!Send, Secrecy!Receive, Secrecy!vars
  <1>2. \A x : (Asked(x) => Asked(x)') /\ (Answered(x) => Answered(x)') /\ (Reaches(x) => Reaches(x)')
    BY <1>1 DEF Asked, Answered, Reaches
  <1>3. Agreement'
    BY <1>1, <1>2 DEF SecrecyInv, Agreement, Settled, Clean
  <1>4. ASSUME flaw = {}, NEW e \in Secrecy!Ends
        PROVE  Reaches([to |-> Secrecy!Other(e), secrets |-> current[e]])
    <2> PICK o : o = Secrecy!Other(e)
      OBVIOUS
    <2> PICK d : d = [to |-> o, secrets |-> current[e]]
      OBVIOUS
    <2>1. o \in Secrecy!Ends /\ Secrecy!Other(o) = e /\ Clean /\ d.to = o /\ d.secrets = current[e]
          /\ \A y \in Secrecy!Ends : y = e \/ y = o
      BY <1>4, TwoEnds DEF Clean
    <2>2. CASE current[e] = current[o]
      BY <2>1, <2>2 DEF Reaches
    <2>3. CASE Answered(o)
      BY <2>1, <2>3 DEF Reaches
    <2>4. CASE Answered(e)
      <3>1. previous[o] = current[e]
        BY <1>4, <2>1, <2>4 DEF Answered
      <3>2. current[e] # Secrecy!None
        BY Distinct DEF SecrecyInv
      <3> QED
        BY <2>1, <3>1, <3>2 DEF Reaches
    <2>5. current[e] = current[o] \/ Answered(o) \/ Answered(e)
      BY <2>1, TwoEnds DEF SecrecyInv, Agreement, Settled, Asked
    <2> QED
      BY <2>2, <2>3, <2>4, <2>5
  <1>5. Opening'
    <2> SUFFICES ASSUME flaw' = {}, NEW d \in data' PROVE Reaches(d)'
      BY DEF Opening
    <2>1. flaw = {}
      BY <1>1
    <2>2. CASE d \in data
      BY <1>2, <2>1, <2>2, DataHas
    <2>3. CASE d \notin data
      <3>1. PICK e \in Secrecy!Ends : Secrecy!Send(e)
        BY <2>3 DEF Secrecy!Receive, Secrecy!vars
      <3>2. d = [to |-> Secrecy!Other(e), secrets |-> current[e]]
        BY <2>3, <3>1 DEF Secrecy!Send
      <3>3. Reaches([to |-> Secrecy!Other(e), secrets |-> current[e]])
        BY <1>4, <2>1
      <3>4. Reaches(d)
        BY <3>2, <3>3
      <3> QED
        BY <1>2, <3>4
    <2> QED
      BY <2>2, <2>3
  <1> QED
    BY <1>3, <1>5

LEMMA SecrecyInvariant ==
    ASSUME SecrecyBounds, SecrecyInv, [Secrecy!Next]_(Secrecy!vars) PROVE SecrecyInv'
  <1>1. SecrecyTyped'
    BY SecrecyStaysTyped DEF SecrecyInv
  <1>2. ASSUME NEW m \in messages, Secrecy!ProcessRekeyMessage(m) PROVE Agreement' /\ Opening'
    <2>1. m.message.flag = "request" \/ m.message.flag = "response"
      BY DEF SecrecyInv, SecrecyTyped, Secrecy!TypeOK
    <2> QED
      BY <1>2, <2>1, RequestAgrees, ResponseAgrees
  <1>3. Agreement' /\ Opening'
    BY <1>2, InitiateAgrees, DropAgrees, GraceAgrees, DataAgrees DEF Secrecy!Next
  <1> QED
    BY <1>1, <1>3 DEF SecrecyInv

LEMMA SecrecyImplies == SecrecyInv => Secrecy!TypeOK /\ Secrecy!EndsAgree /\ Secrecy!DataOpens
  <1> SUFFICES ASSUME SecrecyInv PROVE Secrecy!TypeOK /\ Secrecy!EndsAgree /\ Secrecy!DataOpens
    OBVIOUS
  <1>1. Secrecy!EndsAgree
    <2> SUFFICES ASSUME messages = {}, flaw \cap {"crossed", "lost"} = {}
                 PROVE  current["client"] = current["server"] /\ \A e \in Secrecy!Ends : pending[e] = 0
      BY DEF Secrecy!EndsAgree, Secrecy!NoRekey
    <2>1. Clean /\ \A x : ~ Asked(x) /\ ~ Answered(x)
      BY DEF Clean, Asked, Answered
    <2>2. Settled
      BY <2>1 DEF SecrecyInv, Agreement
    <2> QED
      BY <2>2, TwoEnds DEF Settled
  <1>2. Secrecy!DataOpens
    <2> SUFFICES ASSUME flaw = {}, NEW d \in data
                 PROVE  \/ d.secrets.epoch > current[d.to].epoch
                        \/ d.secrets.epoch + 1 < current[d.to].epoch
                        \/ Secrecy!Opens(d)
      BY DEF Secrecy!DataOpens
    <2> PICK e : e = d.to
      OBVIOUS
    <2>1. Reaches(d) /\ e \in Secrecy!Ends
      BY DataHas
    <2>2. /\ current[e].epoch \in Nat
          /\ previous[e] # Secrecy!None => previous[e].epoch + 1 = current[e].epoch
                                           /\ previous[e].epoch \in Nat
      BY <2>1, Distinct DEF SecrecyInv
    <2>3. CASE Answered(e) /\ d.secrets = current[Secrecy!Other(e)]
      <3>1. d.secrets.epoch = current[e].epoch + 1
        BY <2>3, DerivedEpoch DEF Answered
      <3> QED
        BY <2>2, <3>1
    <2>4. CASE d.secrets = current[e]
      BY <2>4 DEF Secrecy!Opens, Secrecy!GetSecretsForEpoch
    <2>5. CASE previous[e] # Secrecy!None /\ d.secrets = previous[e]
      <3>1. previous[e].epoch # current[e].epoch
        BY <2>2, <2>5
      <3> QED
        BY <2>5, <3>1 DEF Secrecy!Opens, Secrecy!GetSecretsForEpoch
    <2> QED
      BY <2>1, <2>3, <2>4, <2>5 DEF Reaches
  <1> QED
    BY <1>1, <1>2 DEF SecrecyInv, SecrecyTyped

(* Two ends whose requests did not cross and whose messages all came hold the same
   secrets, and what one seals the other opens (ProcessRekeyMessage and commitRekey of
   pfs.go), for any number of rekeys. *)
THEOREM SecretsAgree == ASSUME SecrecyBounds PROVE
    Secrecy!Spec => [](Secrecy!EndsAgree /\ Secrecy!DataOpens)
  <1>1. Secrecy!Init => SecrecyInv
    BY SecrecyStarts
  <1>2. SecrecyInv /\ [Secrecy!Next]_(Secrecy!vars) => SecrecyInv'
    BY SecrecyInvariant
  <1> QED
    BY <1>1, <1>2, SecrecyImplies, PTL DEF Secrecy!Spec

-----------------------------------------------------------------------------
(* The negotiation: one offer, which is the configuration's, and one result. *)

OfferBounds == MaxCalls \in Nat

AnySuite == {"none", "chacha20", "aes256", "xchacha20"}
Results == [version : 0 .. 2, suite : AnySuite, features : SUBSET Offer!Features]

Configured ==
    \A e \in Offer!Ends :
       /\ config[e].max = 2 /\ config[e].min \in {1, 2} /\ config[e].require \subseteq Offer!Critical
       /\ config[e].suites \in Seq(AnySuite) /\ config[e].protection \in BOOLEAN
       /\ config[e].key \in Nat

TheOffer == [type |-> "offer", min |-> config["client"].min, max |-> config["client"].max,
             suites |-> config["client"].suites, features |-> Offer!getOfferedFeatures("client")]
TheResult == Offer!Agreed("server", TheOffer)

Accepts == /\ Offer!Compatible("server", TheOffer) /\ Offer!Matches("server", TheOffer) # {}
           /\ Offer!validateRequiredFeatures("server", TheResult.features)

\* a proof is over a transcript that ends with the offer
Proves(m) == \/ m.proof = {}
             \/ \E k \in Nat : \E t \in Seq(transcript) :
                   m.proof = {[key |-> k, transcript |-> Append(t, TheOffer), agreed |-> m.agreed]}

Refused == \/ config["client"].protection
           \/ ~ config["client"].require \subseteq Offer!getOfferedFeatures("server")

OfferInv ==
    /\ Configured
    /\ state \in [Offer!Ends -> [agreed : Results, transcript : Seq(transcript)]]
    /\ outcome \in [Offer!Ends -> {"none", "ok", "error"}]
    /\ \A e \in Offer!Ends : Len(state[e].transcript) <= MaxCalls
    /\ \A m \in transcript : m = TheOffer \/ (m.type = "response" /\ m.agreed = TheResult /\ Proves(m))
    /\ (\E m \in transcript : m.type = "response") => Accepts /\ state["server"].agreed = TheResult
    /\ outcome["client"] # "none" =>
          /\ \E m \in transcript : m.type = "response"
          /\ state["client"].agreed = TheResult
          /\ outcome["client"] = "error" <=> Refused

LEMMA OfferEnds == Offer!Ends = {"client", "server"}
  BY DEF Offer!Ends

LEMMA OfferStarts == ASSUME OfferBounds, Offer!Init PROVE OfferInv
  <1>1. Configured
    <2> SUFFICES ASSUME NEW e \in Offer!Ends
                 PROVE  /\ config[e].max = 2 /\ config[e].min \in {1, 2}
                        /\ config[e].require \subseteq Offer!Critical
                        /\ config[e].suites \in Seq(AnySuite) /\ config[e].protection \in BOOLEAN
                        /\ config[e].key \in Nat
      BY DEF Configured
    <2>1. PICK choice \in [profile : Offer!Profiles, on : BOOLEAN, key : {1, 2}] :
            config[e] = Offer!Chosen(choice)
      BY DEF Offer!Init
    <2> PICK p \in Offer!Profiles : p = choice.profile
      OBVIOUS
    <2>2. /\ config[e].max = Offer!GetSecurityProfile(p).max
          /\ config[e].min = Offer!GetSecurityProfile(p).min
          /\ config[e].require = Offer!GetSecurityProfile(p).require
          /\ config[e].suites = Offer!GetSecurityProfile(p).suites
          /\ config[e].protection = (Offer!GetSecurityProfile(p).protection /\ choice.on)
          /\ config[e].key = choice.key
      BY <2>1, Zenon DEF Offer!GetSecurityProfile, Offer!Chosen
    <2>3. /\ Offer!GetSecurityProfile(p).max = 2
          /\ Offer!GetSecurityProfile(p).min \in {1, 2}
          /\ Offer!GetSecurityProfile(p).require \subseteq Offer!Critical
      BY DEF Offer!GetSecurityProfile, Offer!Critical, Offer!Profiles
    <2>4. Offer!GetSecurityProfile(p).suites \in Seq(AnySuite)
      <3>1. Offer!GetSecurityProfile(p).suites =
              CASE p = "legacy" -> <<"chacha20">>
                [] p = "balanced" -> <<"chacha20", "aes256">>
                [] p = "strict" -> <<"xchacha20", "chacha20">>
                [] p = "paranoid" -> <<"xchacha20">>
        BY DEF Offer!GetSecurityProfile
      <3>2. /\ <<"chacha20">> \in Seq(AnySuite) /\ <<"chacha20", "aes256">> \in Seq(AnySuite)
            /\ <<"xchacha20", "chacha20">> \in Seq(AnySuite) /\ <<"xchacha20">> \in Seq(AnySuite)
        BY DEF AnySuite
      <3>3. p = "legacy" \/ p = "balanced" \/ p = "strict" \/ p = "paranoid"
        BY DEF Offer!Profiles
      <3> QED
        BY <3>1, <3>2, <3>3
    <2> QED
      BY <2>2, <2>3, <2>4
  <1>2. /\ state = [e \in Offer!Ends |-> [agreed |-> Offer!Nothing, transcript |-> <<>>]]
        /\ transcript = {} /\ outcome = [e \in Offer!Ends |-> "none"]
    BY DEF Offer!Init
  <1>3. Offer!Nothing \in Results
    BY DEF Offer!Nothing, Results, AnySuite
  <1>4. state \in [Offer!Ends -> [agreed : Results, transcript : Seq(transcript)]]
    <2>1. <<>> \in Seq(transcript)
      OBVIOUS
    <2> QED
      BY <1>2, <1>3, <2>1
  <1>5. \A e \in Offer!Ends : Len(state[e].transcript) = 0
    BY <1>2
  <1> QED
    BY <1>1, <1>2, <1>4, <1>5, OfferEnds DEF OfferInv, OfferBounds

(* What the one offer leads to. *)
LEMMA OneResult ==
    ASSUME Configured
    PROVE  /\ TheResult.version = 2 /\ TheResult.features \subseteq Offer!Features
           /\ TheResult.features \in SUBSET Offer!Features
           /\ Accepts => TheResult \in Results
           /\ Offer!Matches("server", TheOffer) # {} => TheResult \in Results
           /\ Accepts => /\ \E i \in DOMAIN config["client"].suites :
                               config["client"].suites[i] = TheResult.suite
                         /\ config["server"].require \subseteq TheResult.features
           /\ config["client"].require \subseteq TheResult.features
                <=> config["client"].require \subseteq Offer!getOfferedFeatures("server")
           /\ \A e \in Offer!Ends : TheResult.version \in config[e].min .. config[e].max
  <1>1. \A e \in Offer!Ends : /\ config[e].max = 2 /\ config[e].min \in {1, 2}
                              /\ config[e].require \subseteq Offer!Critical
    BY DEF Configured
  <1>2. TheOffer.max = 2 /\ TheOffer.min = config["client"].min /\ TheOffer.suites = config["client"].suites
        /\ TheOffer.features = Offer!getOfferedFeatures("client")
    BY <1>1, OfferEnds DEF TheOffer
  <1>3. Offer!AgreedVersion("server", TheOffer) = 2
    <2>1. config["server"].max = 2 /\ (config["server"].min = 1 \/ config["server"].min = 2)
      BY <1>1, OfferEnds
    <2> QED
      BY <1>2, <2>1 DEF Offer!AgreedVersion, Offer!Greater, Offer!Lesser
  <1>4. /\ TheResult.version = 2
        /\ TheResult.suite = config["server"].suites[Offer!Min(Offer!Matches("server", TheOffer))]
        /\ TheResult.features = Offer!negotiateFeatures("server", TheOffer.features)
        /\ TheResult = [version |-> TheResult.version, suite |-> TheResult.suite,
                        features |-> TheResult.features]
    BY <1>3 DEF TheResult, Offer!Agreed
  <1>5. TheResult.features \subseteq Offer!Features
    BY <1>1, <1>2, <1>4, OfferEnds DEF Offer!negotiateFeatures, Offer!getOfferedFeatures, Offer!Features, Offer!Critical
  <1>6. ASSUME Offer!Matches("server", TheOffer) # {}
        PROVE  /\ TheResult.suite \in AnySuite
               /\ \E i \in DOMAIN config["client"].suites : config["client"].suites[i] = TheResult.suite
    <2> DEFINE M == Offer!Matches("server", TheOffer)
    <2>1. M \subseteq DOMAIN config["server"].suites
      BY DEF Offer!Matches
    <2>2. config["server"].suites \in Seq(AnySuite)
      BY OfferEnds DEF Configured
    <2>3. M \in SUBSET Nat
      BY <2>1, <2>2
    <2>4. PICK i \in M : \A j \in M : i <= j
      <3> HIDE DEF M
      <3>1. M # {}
        BY <1>6 DEF M
      <3> QED
        BY <2>3, <3>1, LeastElement
    <2>5. Offer!Min(M) \in M
      BY <2>4 DEF Offer!Min
    <2>6. Offer!Min(M) \in DOMAIN config["server"].suites
      BY <2>1, <2>5
    <2>7. \E j \in DOMAIN TheOffer.suites : TheOffer.suites[j] = config["server"].suites[Offer!Min(M)]
      BY <2>5 DEF Offer!Matches
    <2>8. config["server"].suites[Offer!Min(M)] \in AnySuite
      BY <2>2, <2>6
    <2> QED
      BY <1>2, <1>4, <2>7, <2>8
  <1>7. Offer!Matches("server", TheOffer) # {} => TheResult \in Results
    BY <1>4, <1>5, <1>6 DEF Results
  <1>8. Accepts => config["server"].require \subseteq TheResult.features
    BY DEF Accepts, Offer!validateRequiredFeatures
  <1>9. config["client"].require \subseteq TheResult.features
          <=> config["client"].require \subseteq Offer!getOfferedFeatures("server")
    <2>1. TheResult.features = (Offer!getOfferedFeatures("server")
             \cup (Offer!getOfferedFeatures("client") \cap {"compression"}))
             \cap Offer!getOfferedFeatures("client")
      BY <1>2, <1>4 DEF Offer!negotiateFeatures
    <2>2. config["client"].require \subseteq Offer!getOfferedFeatures("client")
      BY DEF Offer!getOfferedFeatures
    <2>3. "compression" \notin config["client"].require
      BY <1>1, OfferEnds DEF Offer!Critical
    <2> QED
      BY <2>1, <2>2, <2>3
  <1>10. \A e \in Offer!Ends : TheResult.version \in config[e].min .. config[e].max
    BY <1>1, <1>4
  <1>11. Accepts => Offer!Matches("server", TheOffer) # {}
    BY DEF Accepts
  <1> QED
    BY <1>4, <1>5, <1>6, <1>7, <1>8, <1>9, <1>10, <1>11

(* A transcript that one message is added to. *)
LEMMA HeardMore ==
    ASSUME NEW s, NEW T, NEW m \in T, transcript \subseteq T, s \in Seq(transcript)
    PROVE  /\ s \in Seq(T) /\ Append(s, m) \in Seq(T) /\ Len(Append(s, m)) = Len(s) + 1
           /\ Len(s) \in Nat
  <1>1. s \in Seq(T)
    BY SeqMonotonic
  <1> QED
    BY <1>1

LEMMA ProofsStay ==
    ASSUME NEW m, Proves(m), transcript \subseteq transcript', UNCHANGED config
    PROVE  Proves(m)'
  <1>1. TheOffer' = TheOffer
    BY DEF TheOffer, Offer!getOfferedFeatures
  <1>2. ASSUME NEW t \in Seq(transcript) PROVE t \in Seq(transcript')
    BY <1>2, SeqMonotonic
  <1> QED
    BY <1>1, <1>2 DEF Proves

\* what no step of the negotiation changes
LEMMA OneOffer ==
    ASSUME UNCHANGED config
    PROVE  /\ TheOffer' = TheOffer /\ TheResult' = TheResult
           /\ (Accepts' <=> Accepts) /\ (Refused' <=> Refused) /\ (Configured' <=> Configured)
  <1>1. TheOffer' = TheOffer
    BY DEF TheOffer, Offer!getOfferedFeatures
  <1>2. Offer!Matches("server", TheOffer)' = Offer!Matches("server", TheOffer)
    BY <1>1 DEF Offer!Matches
  <1>3. TheResult' = TheResult
    BY <1>1, <1>2 DEF TheResult, Offer!Agreed, Offer!AgreedVersion, Offer!negotiateFeatures,
                      Offer!getOfferedFeatures
  <1>4. Accepts' <=> Accepts
    BY <1>1, <1>2, <1>3 DEF Accepts, Offer!Compatible, Offer!validateRequiredFeatures
  <1>5. Refused' <=> Refused
    BY DEF Refused, Offer!getOfferedFeatures
  <1>6. Configured' <=> Configured
    BY DEF Configured
  <1> QED
    BY <1>1, <1>3, <1>4, <1>5, <1>6

LEMMA CreateOfferKeeps == ASSUME OfferBounds, OfferInv, Offer!CreateOffer PROVE OfferInv'
  <1>1. /\ state' = [state EXCEPT !["client"].transcript = Append(state["client"].transcript, TheOffer)]
        /\ transcript' = transcript \cup {TheOffer} /\ UNCHANGED <<config, outcome>>
        /\ Len(state["client"].transcript) < MaxCalls
    BY DEF Offer!CreateOffer, Offer!Heard, Offer!Room, TheOffer
  <1>2. /\ TheOffer' = TheOffer /\ TheResult' = TheResult
        /\ (Accepts' <=> Accepts) /\ (Refused' <=> Refused) /\ (Configured' <=> Configured)
    BY <1>1, OneOffer
  <1> PICK s : s = Append(state["client"].transcript, TheOffer)
    OBVIOUS
  <1>3. /\ s \in Seq(transcript') /\ Len(s) <= MaxCalls
        /\ \A e \in Offer!Ends : state[e].transcript \in Seq(transcript') /\ state[e].agreed \in Results
    <2>1. \A e \in Offer!Ends : state[e].transcript \in Seq(transcript) /\ state[e].agreed \in Results
      BY DEF OfferInv
    <2>2. transcript \subseteq transcript' /\ TheOffer \in transcript'
      BY <1>1
    <2>3. \A e \in Offer!Ends : state[e].transcript \in Seq(transcript')
      BY <2>1, <2>2, HeardMore
    <2>4. s \in Seq(transcript') /\ Len(s) = Len(state["client"].transcript) + 1
          /\ Len(state["client"].transcript) \in Nat
      BY <2>1, <2>2, HeardMore, OfferEnds
    <2> QED
      BY <1>1, <2>1, <2>3, <2>4 DEF OfferBounds
  <1>4. /\ state' \in [Offer!Ends -> [agreed : Results, transcript : Seq(transcript')]]
        /\ state'["client"].transcript = s /\ state'["client"].agreed = state["client"].agreed
        /\ state'["server"] = state["server"]
    BY <1>1, <1>3, OfferEnds, Zenon DEF OfferInv
  <1>5. \A e \in Offer!Ends : Len(state'[e].transcript) <= MaxCalls
    BY <1>3, <1>4, OfferEnds DEF OfferInv
  <1>6. \A m : Proves(m) => Proves(m)'
    BY <1>1, ProofsStay
  <1>7. TheOffer.type = "offer"
    BY DEF TheOffer
  <1>8. ASSUME NEW m \in transcript', m # TheOffer'
        PROVE  m.type = "response" /\ m.agreed = TheResult' /\ Proves(m)'
    <2>1. m \in transcript /\ m # TheOffer
      BY <1>1, <1>2, <1>8
    <2>2. m.type = "response" /\ m.agreed = TheResult /\ Proves(m)
      BY <2>1 DEF OfferInv
    <2> QED
      BY <1>2, <1>6, <2>2
  <1>9. (\E m \in transcript' : m.type = "response") <=> (\E m \in transcript : m.type = "response")
    BY <1>1, <1>7
  <1>10. \A m \in transcript' : m = TheOffer' \/ (m.type = "response" /\ m.agreed = TheResult' /\ Proves(m)')
    BY <1>8
  <1>11. Configured' /\ UNCHANGED outcome
    BY <1>1, <1>2 DEF OfferInv
  <1>12. state'["client"].agreed = state["client"].agreed /\ state'["server"].agreed = state["server"].agreed
    BY <1>4
  <1>13. (\E m \in transcript' : m.type = "response") => Accepts' /\ state'["server"].agreed = TheResult'
    BY <1>2, <1>9, <1>12 DEF OfferInv
  <1>14. outcome'["client"] # "none" =>
          /\ \E m \in transcript' : m.type = "response"
          /\ state'["client"].agreed = TheResult'
          /\ outcome'["client"] = "error" <=> Refused'
    BY <1>2, <1>9, <1>11, <1>12 DEF OfferInv
  <1> QED
    BY <1>4, <1>5, <1>10, <1>11, <1>13, <1>14 DEF OfferInv

LEMMA RefuseOfferKeeps ==
    ASSUME OfferBounds, OfferInv, NEW m \in transcript, Offer!RefuseOffer(m) PROVE OfferInv'
  <1>1. m = TheOffer /\ ~ Accepts
    <2>1. m = TheOffer
      BY DEF OfferInv, Offer!RefuseOffer
    <2> QED
      BY <2>1 DEF Offer!RefuseOffer, Accepts, TheResult
  <1>2. /\ \A x \in transcript : x.type # "response"
        /\ outcome["client"] = "none"
    BY <1>1 DEF OfferInv
  <1> PICK s : s = Append(state["server"].transcript, m)
    OBVIOUS
  <1>3. PICK agreed \in Results : state' = [state EXCEPT !["server"] = [agreed |-> agreed, transcript |-> s]]
    <2> DEFINE old == state["server"].agreed
    <2>1. old \in Results
      BY OfferEnds DEF OfferInv
    <2>2. Offer!Matches("server", m) # {} => Offer!Agreed("server", m) \in Results
      BY <1>1, OneResult DEF TheResult, OfferInv
    <2>3. [old EXCEPT !.version = Offer!AgreedVersion("server", m)] \in Results
      <3>1. Offer!AgreedVersion("server", m) = 2
        BY <1>1, OneResult DEF TheResult, Offer!Agreed, OfferInv
      <3> HIDE DEF old
      <3> QED
        BY <2>1, <3>1 DEF Results
    <2> QED
      BY <2>1, <2>2, <2>3 DEF Offer!RefuseOffer, Offer!Heard
  <1>4. /\ UNCHANGED <<config, transcript>> /\ outcome' = [outcome EXCEPT !["server"] = "error"]
        /\ Len(state["server"].transcript) < MaxCalls
    BY DEF Offer!RefuseOffer, Offer!Room
  <1>5. /\ TheOffer' = TheOffer /\ TheResult' = TheResult
        /\ (Accepts' <=> Accepts) /\ (Refused' <=> Refused) /\ (Configured' <=> Configured)
    BY <1>4, OneOffer
  <1>6. s \in Seq(transcript) /\ Len(s) <= MaxCalls
    <2>1. state["server"].transcript \in Seq(transcript)
      BY OfferEnds DEF OfferInv
    <2>2. s \in Seq(transcript) /\ Len(s) = Len(state["server"].transcript) + 1
          /\ Len(state["server"].transcript) \in Nat
      BY <2>1, HeardMore
    <2> QED
      BY <1>4, <2>2 DEF OfferBounds
  <1>7. /\ state' \in [Offer!Ends -> [agreed : Results, transcript : Seq(transcript')]]
        /\ state'["client"] = state["client"] /\ state'["server"].transcript = s
    BY <1>3, <1>4, <1>6, OfferEnds DEF OfferInv
  <1>8. \A e \in Offer!Ends : Len(state'[e].transcript) <= MaxCalls
    BY <1>6, <1>7, OfferEnds DEF OfferInv
  <1>9. outcome' \in [Offer!Ends -> {"none", "ok", "error"}] /\ outcome'["client"] = "none"
    BY <1>2, <1>4, OfferEnds DEF OfferInv
  <1>10. \A x : Proves(x) => Proves(x)'
    BY <1>4, ProofsStay
  <1>11. Configured'
    BY <1>5 DEF OfferInv
  <1>12. \A x \in transcript' : x = TheOffer' \/ (x.type = "response" /\ x.agreed = TheResult' /\ Proves(x)')
    BY <1>4, <1>5, <1>10 DEF OfferInv
  <1> QED
    BY <1>2, <1>4, <1>7, <1>8, <1>9, <1>11, <1>12 DEF OfferInv

LEMMA ProcessOfferKeeps ==
    ASSUME OfferBounds, OfferInv, NEW m \in transcript, Offer!ProcessOffer(m) PROVE OfferInv'
  <1>1. m = TheOffer
    BY DEF OfferInv, Offer!ProcessOffer
  <1>2. Accepts
    BY <1>1 DEF Offer!ProcessOffer, Accepts, TheResult
  <1> PICK heard : heard = Append(state["server"].transcript, TheOffer)
    OBVIOUS
  <1> PICK response : response =
          [type |-> "response", agreed |-> TheResult,
           proof |-> IF config["server"].protection
                     THEN Offer!computeDowngradeProof("server", heard, TheResult) ELSE {}]
    OBVIOUS
  <1>3. /\ response.type = "response" /\ response.agreed = TheResult
        /\ \/ response.proof = {}
           \/ response.proof = {[key |-> config["server"].key, transcript |-> heard, agreed |-> TheResult]}
        /\ state' = [state EXCEPT !["server"] =
                       [agreed |-> TheResult, transcript |-> Append(heard, response)]]
        /\ transcript' = transcript \cup {response}
    <2>1. /\ response.type = "response" /\ response.agreed = TheResult
          /\ \/ response.proof = {}
             \/ response.proof = {[key |-> config["server"].key, transcript |-> heard, agreed |-> TheResult]}
      BY DEF Offer!computeDowngradeProof
    <2>2. /\ Offer!Agreed("server", m) = TheResult /\ Offer!Heard("server", m) = heard
      BY <1>1 DEF TheResult, Offer!Heard
    <2>3. /\ state' = [state EXCEPT !["server"] =
                         [agreed |-> TheResult, transcript |-> Append(heard, response)]]
          /\ transcript' = transcript \cup {response}
      BY <2>2 DEF Offer!ProcessOffer
    <2> QED
      BY <2>1, <2>3
  <1>4. /\ UNCHANGED config /\ outcome' = [outcome EXCEPT !["server"] = "ok"]
        /\ Len(state["server"].transcript) + 1 < MaxCalls
    BY DEF Offer!ProcessOffer
  <1>5. /\ TheOffer' = TheOffer /\ TheResult' = TheResult
        /\ (Accepts' <=> Accepts) /\ (Refused' <=> Refused) /\ (Configured' <=> Configured)
    BY <1>4, OneOffer
  <1> PICK s : s = Append(heard, response)
    OBVIOUS
  <1>6. /\ \A e \in Offer!Ends : state[e].transcript \in Seq(transcript) /\ state[e].agreed \in Results
        /\ TheOffer \in transcript /\ transcript \subseteq transcript' /\ response \in transcript'
    BY <1>1, <1>3 DEF OfferInv
  <1>7. /\ heard \in Seq(transcript) /\ Len(heard) = Len(state["server"].transcript) + 1
        /\ Len(state["server"].transcript) \in Nat
    BY <1>6, HeardMore, OfferEnds
  <1>8. s \in Seq(transcript') /\ Len(s) = Len(heard) + 1
    BY <1>6, <1>7, HeardMore
  <1>9. Len(s) <= MaxCalls
    BY <1>4, <1>7, <1>8 DEF OfferBounds
  <1>10. \A e \in Offer!Ends : state[e].transcript \in Seq(transcript')
    BY <1>6, HeardMore
  <1>11. TheResult \in Results
    BY <1>2, OneResult DEF OfferInv
  <1>12. /\ state' \in [Offer!Ends -> [agreed : Results, transcript : Seq(transcript')]]
         /\ state'["client"] = state["client"] /\ state'["server"].transcript = s
         /\ state'["server"].agreed = TheResult
    <2>1. state \in [Offer!Ends -> [agreed : Results, transcript : Seq(transcript')]]
      BY <1>10 DEF OfferInv
    <2>2. [agreed |-> TheResult, transcript |-> s] \in [agreed : Results, transcript : Seq(transcript')]
      BY <1>8, <1>11
    <2> QED
      BY <1>3, <2>1, <2>2, OfferEnds
  <1>13. \A e \in Offer!Ends : Len(state'[e].transcript) <= MaxCalls
    BY <1>9, <1>12, OfferEnds DEF OfferInv
  <1>14. outcome' \in [Offer!Ends -> {"none", "ok", "error"}] /\ outcome'["client"] = outcome["client"]
    BY <1>4, OfferEnds DEF OfferInv
  <1>15. \A x : Proves(x) => Proves(x)'
    BY <1>4, <1>6, ProofsStay
  <1>16. Proves(response)'
    <2>1. state["server"].transcript \in Seq(transcript') /\ config["server"].key \in Nat
      BY <1>10, OfferEnds DEF OfferInv, Configured
    <2> PICK k \in Nat, t \in Seq(transcript') :
              k = config["server"].key /\ t = state["server"].transcript
      BY <2>1
    <2>2. heard = Append(t, TheOffer') /\ response.agreed = TheResult
      BY <1>3, <1>5
    <2>3. response.proof # {} =>
            response.proof = {[key |-> k, transcript |-> Append(t, TheOffer'), agreed |-> response.agreed]}
      BY <1>3, <2>2
    <2> QED
      BY <2>3 DEF Proves
  <1>17. \A x \in transcript' : x = TheOffer' \/ (x.type = "response" /\ x.agreed = TheResult' /\ Proves(x)')
    BY <1>3, <1>5, <1>15, <1>16 DEF OfferInv
  <1>18. Configured'
    BY <1>5 DEF OfferInv
  <1>19. outcome'["client"] # "none" =>
          /\ \E x \in transcript' : x.type = "response"
          /\ state'["client"].agreed = TheResult'
          /\ outcome'["client"] = "error" <=> Refused'
    BY <1>3, <1>5, <1>12, <1>14 DEF OfferInv
  <1> QED
    BY <1>2, <1>5, <1>12, <1>13, <1>14, <1>17, <1>18, <1>19 DEF OfferInv

(* A proof whose transcript ends with the offer is none of a transcript that ends with
   the response. *)
LEMMA NeverVerified ==
    ASSUME OfferInv, NEW m \in transcript, m.type = "response", config["client"].protection
    PROVE  ~ Offer!Verified(m)
  <1> PICK heard : heard = Append(state["client"].transcript, m)
    OBVIOUS
  <1>1. state["client"].transcript \in Seq(transcript)
    BY OfferEnds DEF OfferInv
  <1>2. heard[Len(heard)] = m
    BY <1>1
  <1>3. TheOffer.type = "offer" /\ m # TheOffer
    BY DEF TheOffer
  <1>4. Proves(m)
    BY <1>3 DEF OfferInv
  <1>5. SUFFICES ASSUME m.proof = Offer!computeDowngradeProof("client", heard, m.agreed) PROVE FALSE
    BY DEF Offer!Verified, Offer!Heard
  <1>6. m.proof # {} /\ \A x \in m.proof : x.transcript = heard
    BY <1>5 DEF Offer!computeDowngradeProof
  <1>7. PICK k \in Nat, t \in Seq(transcript) :
          m.proof = {[key |-> k, transcript |-> Append(t, TheOffer), agreed |-> m.agreed]}
    BY <1>4, <1>6 DEF Proves
  <1>8. heard = Append(t, TheOffer)
    BY <1>6, <1>7
  <1>9. heard[Len(heard)] = TheOffer
    BY <1>8
  <1> QED
    BY <1>2, <1>3, <1>9

LEMMA ProcessResponseKeeps ==
    ASSUME OfferBounds, OfferInv, NEW m \in transcript, Offer!ProcessResponse(m) PROVE OfferInv'
  <1>1. m.type = "response" /\ UNCHANGED <<config, transcript>>
        /\ Len(state["client"].transcript) < MaxCalls
    BY DEF Offer!ProcessResponse, Offer!Room
  <1>2. m.agreed = TheResult /\ Accepts /\ state["server"].agreed = TheResult
    <2>1. m # TheOffer
      BY <1>1 DEF TheOffer
    <2> QED
      BY <1>1, <2>1 DEF OfferInv
  <1>3. /\ TheOffer' = TheOffer /\ TheResult' = TheResult
        /\ (Accepts' <=> Accepts) /\ (Refused' <=> Refused) /\ (Configured' <=> Configured)
    BY <1>1, OneOffer
  <1> PICK s : s = Append(state["client"].transcript, m)
    OBVIOUS
  <1>4. state' = [state EXCEPT !["client"] = [agreed |-> TheResult, transcript |-> s]]
    BY <1>2 DEF Offer!ProcessResponse, Offer!Heard
  <1>5. s \in Seq(transcript) /\ Len(s) <= MaxCalls
    <2>1. state["client"].transcript \in Seq(transcript)
      BY OfferEnds DEF OfferInv
    <2>2. s \in Seq(transcript) /\ Len(s) = Len(state["client"].transcript) + 1
          /\ Len(state["client"].transcript) \in Nat
      BY <2>1, HeardMore
    <2> QED
      BY <1>1, <2>2 DEF OfferBounds
  <1>6. TheResult \in Results
    BY <1>2, OneResult DEF OfferInv
  <1>7. /\ state' \in [Offer!Ends -> [agreed : Results, transcript : Seq(transcript')]]
        /\ state'["server"] = state["server"] /\ state'["client"].transcript = s
        /\ state'["client"].agreed = TheResult
    BY <1>1, <1>4, <1>5, <1>6, OfferEnds DEF OfferInv
  <1>8. \A e \in Offer!Ends : Len(state'[e].transcript) <= MaxCalls
    BY <1>5, <1>7, OfferEnds DEF OfferInv
  <1>9. Offer!Acceptable(m) <=> config["client"].require \subseteq Offer!getOfferedFeatures("server")
    <2>1. Configured
      BY DEF OfferInv
    <2>2. /\ TheResult.version \in config["client"].min .. config["client"].max
          /\ \E i \in DOMAIN config["client"].suites : config["client"].suites[i] = TheResult.suite
          /\ config["client"].require \subseteq TheResult.features
               <=> config["client"].require \subseteq Offer!getOfferedFeatures("server")
      BY <1>2, <2>1, OneResult, OfferEnds
    <2> QED
      BY <1>2, <2>2 DEF Offer!Acceptable, Offer!validateRequiredFeatures
  <1>10. Offer!Verified(m) <=> ~ config["client"].protection
    BY <1>1, NeverVerified DEF Offer!Verified
  <1>11. (Offer!Acceptable(m) /\ Offer!Verified(m)) <=> ~ Refused
    BY <1>9, <1>10 DEF Refused
  <1>12. outcome' = [outcome EXCEPT !["client"] = IF Refused THEN "error" ELSE "ok"]
    BY <1>11 DEF Offer!ProcessResponse
  <1>13. /\ outcome' \in [Offer!Ends -> {"none", "ok", "error"}]
         /\ outcome'["client"] = "error" <=> Refused
    BY <1>12, OfferEnds DEF OfferInv
  <1>14. \A x : Proves(x) => Proves(x)'
    BY <1>1, ProofsStay
  <1>15. \A x \in transcript' : x = TheOffer' \/ (x.type = "response" /\ x.agreed = TheResult' /\ Proves(x)')
    BY <1>1, <1>3, <1>14 DEF OfferInv
  <1>16. Configured'
    BY <1>3 DEF OfferInv
  <1> QED
    BY <1>1, <1>2, <1>3, <1>7, <1>8, <1>13, <1>15, <1>16 DEF OfferInv

LEMMA OfferInvariant == ASSUME OfferBounds, OfferInv, [Offer!Next]_(Offer!vars) PROVE OfferInv'
  <1>1. CASE UNCHANGED Offer!vars
    <2>1. UNCHANGED <<config, state, transcript, outcome>>
      BY <1>1 DEF Offer!vars
    <2>2. /\ TheOffer' = TheOffer /\ TheResult' = TheResult
          /\ (Accepts' <=> Accepts) /\ (Refused' <=> Refused) /\ (Configured' <=> Configured)
      BY <2>1, OneOffer
    <2>3. \A x : Proves(x) => Proves(x)'
      BY <2>1, ProofsStay
    <2>4. \A x \in transcript' : x = TheOffer' \/ (x.type = "response" /\ x.agreed = TheResult' /\ Proves(x)')
      BY <2>1, <2>2, <2>3 DEF OfferInv
    <2> QED
      BY <2>1, <2>2, <2>4 DEF OfferInv
  <1> QED
    BY <1>1, CreateOfferKeeps, RefuseOfferKeeps, ProcessOfferKeeps, ProcessResponseKeeps DEF Offer!Next

LEMMA OfferImplies == OfferInv => Offer!TypeOK /\ Offer!PartiesAgree /\ Offer!RefusesForCause
  <1> SUFFICES ASSUME OfferInv PROVE Offer!TypeOK /\ Offer!PartiesAgree /\ Offer!RefusesForCause
    OBVIOUS
  <1>1. Offer!TypeOK
    <2>1. \A e \in Offer!Ends : config[e].max \in Offer!Versions /\ config[e].require \subseteq Offer!Critical
      BY DEF OfferInv, Configured, Offer!Versions
    <2>2. \A e \in Offer!Ends : /\ state[e].agreed.version \in {0} \cup Offer!Versions
                                /\ state[e].agreed.features \subseteq Offer!Features
      <3> SUFFICES ASSUME NEW e \in Offer!Ends
                   PROVE  /\ state[e].agreed.version \in {0} \cup Offer!Versions
                          /\ state[e].agreed.features \subseteq Offer!Features
        OBVIOUS
      <3>1. state[e].agreed \in Results
        BY DEF OfferInv
      <3>2. state[e].agreed.version \in 0 .. 2 /\ state[e].agreed.features \in SUBSET Offer!Features
        BY <3>1 DEF Results
      <3>3. 0 .. 2 = {0} \cup Offer!Versions
        BY DEF Offer!Versions
      <3> QED
        BY <3>2, <3>3
    <2> QED
      BY <2>1, <2>2 DEF OfferInv, Offer!TypeOK
  <1>2. Offer!RefusesForCause
    BY DEF OfferInv, Offer!RefusesForCause, Refused
  <1>3. Offer!PartiesAgree
    <2> SUFFICES ASSUME outcome["client"] = "ok"
                 PROVE  /\ state["client"].agreed = state["server"].agreed
                        /\ \A e \in Offer!Ends :
                              /\ config[e].require \subseteq state["client"].agreed.features
                              /\ state["client"].agreed.version \in config[e].min .. config[e].max
      BY DEF Offer!PartiesAgree
    <2>1. /\ Configured /\ Accepts /\ ~ Refused
          /\ state["client"].agreed = TheResult /\ state["server"].agreed = TheResult
      BY DEF OfferInv
    <2>2. \A e \in Offer!Ends : config[e].require \subseteq TheResult.features
      BY <2>1, OneResult, OfferEnds DEF Refused
    <2> QED
      BY <2>1, <2>2, OneResult
  <1> QED
    BY <1>1, <1>2, <1>3

(* A client that accepted and its server hold one result with all that either requires;
   and a client that asks for no proof refuses exactly if it requires a feature the server
   does not offer (ProcessOffer and ProcessResponse of negotiation.go). *)
THEOREM NegotiationAgrees == ASSUME OfferBounds PROVE
    Offer!Spec => [](Offer!PartiesAgree /\ Offer!RefusesForCause)
  <1>1. Offer!Init => OfferInv
    BY OfferStarts
  <1>2. OfferInv /\ [Offer!Next]_(Offer!vars) => OfferInv'
    BY OfferInvariant
  <1> QED
    BY <1>1, <1>2, OfferImplies, PTL DEF Offer!Spec

-----------------------------------------------------------------------------
(* Tokens: what a login under way has seen of the account, and why a token is gone. *)

GrantedBounds == /\ MaxTokens \in Nat /\ tokenDuration \in Nat
                 /\ MaxTokenTime \in Nat /\ MaxVersion \in Nat \ {0}

CallerPhases == {"idle", "found", "hashed", "granted", "looked", "expired"}

\* what a caller's token is: a token's number, or a salt's
Held == (0 .. MaxTokens) \cup (1 .. MaxVersion)
CallerRecords == [phase : CallerPhases, given : 0 .. MaxVersion, token : Nat,
                  enabled : BOOLEAN, right : BOOLEAN]

\* a login knows the account enabled, and the password right if it is the one in force
Seen(c) == /\ c.phase \in {"found", "hashed"} => c.enabled /\ (c.given = version => c.right)
           /\ c.phase = "granted" => c.enabled /\ c.right
           /\ c.phase \in {"looked", "expired"} => c.token \in DOMAIN made
           /\ c.phase = "expired" => tokenNow > made[c.token]

Numbered == /\ \E k \in 0 .. MaxTokens : DOMAIN made = 1 .. k
            /\ \A t \in DOMAIN made : made[t] \in Nat

GrantedInv ==
    /\ Granted!TypeOK /\ Numbered
    /\ caller \in [Callers -> CallerRecords] /\ \A c \in Callers : Seen(caller[c])
    /\ Granted!IssuedForCause /\ Granted!TokensLastUntilExpiry

LEMMA GrantedStarts == ASSUME GrantedBounds, Granted!Init PROVE GrantedInv
  <1>1. DOMAIN made = {} /\ DOMAIN made = 1 .. 0
    BY DEF Granted!Init
  <1>2. Granted!Idle \in CallerRecords /\ Granted!Idle.phase = "idle"
    BY DEF Granted!Idle, CallerRecords, CallerPhases, GrantedBounds
  <1>3. caller \in [Callers -> CallerRecords] /\ \A c \in Callers : caller[c] = Granted!Idle
    BY <1>2 DEF Granted!Init
  <1>4. Granted!TypeOK
    <2>1. /\ tokenNow \in 0 .. MaxTokenTime /\ added \in BOOLEAN /\ enabled \in BOOLEAN
          /\ version \in 1 .. MaxVersion /\ DOMAIN made = {} /\ tokens = {} /\ revoked = {}
          /\ issuedBad = {}
      <3>1. added \in BOOLEAN /\ enabled \in BOOLEAN /\ tokens = {} /\ revoked = {} /\ issuedBad = {}
        BY DEF Granted!Init
      <3>2. tokenNow = 0 /\ version = 1
        BY DEF Granted!Init
      <3> QED
        BY <1>1, <3>1, <3>2 DEF GrantedBounds
    <2>2. \A c \in Callers : /\ caller[c].phase = "idle" /\ caller[c].given = 0 /\ caller[c].token = 0
                             /\ caller[c].enabled = FALSE /\ caller[c].right = FALSE
      BY <1>3 DEF Granted!Idle
    <2>3. 0 \in 0 .. MaxVersion /\ 0 \in (0 .. MaxTokens) \cup (1 .. MaxVersion)
      BY DEF GrantedBounds
    <2> QED
      BY <2>1, <2>2, <2>3 DEF Granted!TypeOK, Granted!Made
  <1>5. Numbered
    BY <1>1 DEF Numbered, GrantedBounds
  <1>6. \A c \in Callers : Seen(caller[c])
    BY <1>2, <1>3 DEF Seen
  <1> QED
    BY <1>1, <1>3, <1>4, <1>5, <1>6
    DEF GrantedInv, Granted!Init, Granted!IssuedForCause, Granted!TokensLastUntilExpiry, Granted!Made

(* A step that changes callers only, keeping to what Seen says of them. *)
LEMMA CallersChange ==
    ASSUME GrantedBounds, GrantedInv,
           UNCHANGED <<tokenNow, made, tokens, revoked, issuedBad>>,
           version' \in 1 .. MaxVersion, added' \in BOOLEAN, enabled' \in BOOLEAN,
           caller' \in [Callers -> CallerRecords],
           \A c \in Callers : Seen(caller[c])' /\ caller'[c].token \in Held
    PROVE  GrantedInv'
  <1>1. \A c \in Callers : /\ caller'[c].phase \in CallerPhases /\ caller'[c].given \in 0 .. MaxVersion
                           /\ caller'[c].right \in BOOLEAN /\ caller'[c].enabled \in BOOLEAN
    BY DEF CallerRecords
  <1>2. Granted!TypeOK'
    BY <1>1 DEF GrantedInv, Granted!TypeOK, Granted!Made, CallerPhases, Held
  <1> QED
    BY <1>2 DEF GrantedInv, Numbered, Granted!IssuedForCause, Granted!TokensLastUntilExpiry, Granted!Made

LEMMA CallerTokens == ASSUME GrantedInv PROVE \A c \in Callers : caller[c].token \in Held
  BY DEF GrantedInv, Granted!TypeOK, Held

(* The administrator's steps: a change that the logins under way watch. *)
LEMMA AccountsChange ==
    ASSUME GrantedBounds, GrantedInv,
           \/ Granted!AddUser \/ Granted!DisableUser \/ Granted!EnableUser \/ Granted!ChangePassword
    PROVE  GrantedInv'
  <1>1. UNCHANGED <<tokenNow, made, tokens, revoked, issuedBad>>
    BY DEF Granted!AddUser, Granted!DisableUser, Granted!EnableUser, Granted!ChangePassword
  <1>2. /\ version' \in 1 .. MaxVersion /\ added' \in BOOLEAN /\ enabled' \in BOOLEAN
    <2>1. version \in 1 .. MaxVersion /\ added \in BOOLEAN /\ enabled \in BOOLEAN
      BY DEF GrantedInv, Granted!TypeOK
    <2>2. added' \in BOOLEAN
      BY <2>1 DEF Granted!AddUser, Granted!DisableUser, Granted!EnableUser, Granted!ChangePassword
    <2>3. enabled' \in BOOLEAN
      BY <2>1 DEF Granted!AddUser, Granted!DisableUser, Granted!EnableUser, Granted!ChangePassword
    <2>4. version' = version \/ (version < MaxVersion /\ version' = version + 1)
      BY DEF Granted!AddUser, Granted!DisableUser, Granted!EnableUser, Granted!ChangePassword
    <2> QED
      BY <2>1, <2>2, <2>3, <2>4 DEF GrantedBounds
  <1>3. CASE UNCHANGED <<version, caller>>
    <2>1. \A c \in Callers : Seen(caller[c])'
      BY <1>1, <1>3 DEF GrantedInv, Seen
    <2> QED
      BY <1>1, <1>2, <1>3, <2>1, CallersChange, CallerTokens DEF GrantedInv
  <1>4. CASE \E v \in 1 .. MaxVersion, e \in BOOLEAN : version' = v /\ caller' = Granted!Watched(v, e)
    <2> PICK v \in 1 .. MaxVersion, e \in BOOLEAN : version' = v /\ caller' = Granted!Watched(v, e)
      BY <1>4
    <2>1. ASSUME NEW c \in Callers
          PROVE  /\ caller'[c] \in CallerRecords /\ Seen(caller[c])' /\ caller'[c].token \in Held
      <3> PICK old : old = caller[c]
        OBVIOUS
      <3>1. old \in CallerRecords /\ Seen(old) /\ old.token \in Held
        BY CallerTokens DEF GrantedInv
      <3>2. CASE old.phase \in {"found", "hashed"}
        <4>1. caller'[c] = [old EXCEPT !.right = @ \/ old.given = v, !.enabled = @ \/ e]
          BY <3>2, Zenon DEF Granted!Watched
        <4> PICK new : new = caller'[c]
          OBVIOUS
        <4>2. /\ new.phase = old.phase /\ new.given = old.given /\ new.token = old.token
              /\ new.right = (old.right \/ old.given = v) /\ new.enabled = (old.enabled \/ e)
              /\ new \in CallerRecords
          BY <3>1, <4>1 DEF CallerRecords
        <4>3. Seen(new)'
          BY <1>1, <3>1, <3>2, <4>2 DEF Seen
        <4> QED
          BY <3>1, <4>2, <4>3
      <3>3. CASE old.phase \notin {"found", "hashed"}
        <4>1. caller'[c] = old
          BY <3>3, Zenon DEF Granted!Watched
        <4>2. Seen(old)'
          BY <1>1, <3>1, <3>3 DEF Seen
        <4> QED
          BY <3>1, <4>1, <4>2
      <3> QED
        BY <3>2, <3>3
    <2>2. caller' \in [Callers -> CallerRecords]
      <3>1. DOMAIN caller' = Callers /\ caller' = [c \in Callers |-> caller'[c]]
        BY Zenon DEF Granted!Watched
      <3> QED
        BY <2>1, <3>1
    <2> QED
      BY <1>1, <1>2, <2>1, <2>2, CallersChange
  <1>5. (\E v \in 1 .. MaxVersion, e \in BOOLEAN : version' = v /\ caller' = Granted!Watched(v, e))
        \/ UNCHANGED <<version, caller>>
    <2>1. version \in 1 .. MaxVersion /\ enabled \in BOOLEAN /\ version' \in 1 .. MaxVersion
      BY <1>2 DEF GrantedInv, Granted!TypeOK
    <2> QED
      BY <2>1 DEF Granted!AddUser, Granted!DisableUser, Granted!EnableUser, Granted!ChangePassword
  <1> QED
    BY <1>3, <1>4, <1>5

(* One caller's step: the others have seen what they saw. *)
LEMMA OneCaller ==
    ASSUME GrantedBounds, GrantedInv, NEW c \in Callers, NEW new \in CallerRecords,
           new.token \in Held, Seen(new),
           caller' = [caller EXCEPT ![c] = new],
           UNCHANGED <<tokenNow, added, enabled, version, made, tokens, revoked, issuedBad>>
    PROVE  GrantedInv'
  <1>1. caller' \in [Callers -> CallerRecords]
    BY DEF GrantedInv
  <1>2. \A x \in Callers : Seen(caller'[x]) /\ caller'[x].token \in Held
    BY CallerTokens DEF GrantedInv
  <1>3. \A x : Seen(x) => Seen(x)'
    BY DEF Seen
  <1>4. version \in 1 .. MaxVersion /\ added \in BOOLEAN /\ enabled \in BOOLEAN
    BY DEF GrantedInv, Granted!TypeOK
  <1> QED
    BY <1>1, <1>2, <1>3, <1>4, CallersChange

LEMMA IdleSeen ==
    ASSUME GrantedBounds
    PROVE  Granted!Idle \in CallerRecords /\ Granted!Idle.token \in Held /\ Seen(Granted!Idle)
  BY DEF Granted!Idle, CallerRecords, CallerPhases, GrantedBounds, Seen, Held

LEMMA CallerStepKeeps ==
    ASSUME GrantedBounds, GrantedInv, NEW c \in Callers,
           \/ \E v \in 1 .. MaxVersion : Granted!BeginLogin(c, v)
           \/ Granted!ReadSalt(c) \/ Granted!Compare(c) \/ Granted!Valid(c)
           \/ \E t \in tokens : Granted!Lookup(c, t)
    PROVE  GrantedInv'
  <1> PICK old : old = caller[c]
    OBVIOUS
  <1>1. old \in CallerRecords /\ Seen(old) /\ old.token \in Held
    BY CallerTokens DEF GrantedInv
  <1>2. /\ version \in 1 .. MaxVersion /\ enabled \in BOOLEAN
        /\ caller \in [Callers -> CallerRecords]
    BY DEF GrantedInv, Granted!TypeOK
  <1>3. ASSUME NEW v \in 1 .. MaxVersion, Granted!BeginLogin(c, v) PROVE GrantedInv'
    <2> PICK new : new = [phase |-> "found", given |-> v, token |-> 0, enabled |-> enabled, right |-> v = version]
      OBVIOUS
    <2>1. new \in CallerRecords /\ new.token \in Held
      BY <1>2 DEF CallerRecords, CallerPhases, GrantedBounds, Held
    <2>2. Seen(new)
      BY <1>3 DEF Seen, Granted!BeginLogin, Granted!Find
    <2> QED
      BY <1>3, <2>1, <2>2, OneCaller DEF Granted!BeginLogin
  <1>4. ASSUME Granted!ReadSalt(c) PROVE GrantedInv'
    <2> PICK one : one = [old EXCEPT !.phase = "hashed"]
      OBVIOUS
    <2> PICK new : new = [one EXCEPT !.token = version]
      OBVIOUS
    <2>1. /\ new \in CallerRecords /\ new.phase = "hashed" /\ new.token = version
          /\ new.given = old.given /\ new.enabled = old.enabled /\ new.right = old.right
      <3>1. /\ one \in CallerRecords /\ one.phase = "hashed" /\ one.given = old.given
            /\ one.enabled = old.enabled /\ one.right = old.right
        BY <1>1 DEF CallerRecords, CallerPhases
      <3>2. version \in Nat
        BY <1>2 DEF GrantedBounds
      <3> QED
        BY <3>1, <3>2 DEF CallerRecords
    <2>2. Seen(new)
      BY <1>1, <1>4, <2>1 DEF Seen, Granted!ReadSalt
    <2>3. caller' = [caller EXCEPT ![c] = new]
      BY <1>2, <1>4 DEF Granted!ReadSalt
    <2>4. new.token \in Held
      BY <1>2, <2>1 DEF Held
    <2> QED
      BY <1>4, <2>1, <2>2, <2>3, <2>4, OneCaller DEF Granted!ReadSalt
  <1>5. ASSUME Granted!Compare(c) PROVE GrantedInv'
    <2>1. CASE old.given = version /\ old.token = version
      <3> PICK new : new = [old EXCEPT !.phase = "granted"]
        OBVIOUS
      <3>1. /\ new \in CallerRecords /\ new.phase = "granted" /\ new.token = old.token
            /\ new.enabled = old.enabled /\ new.right = old.right
        BY <1>1 DEF CallerRecords, CallerPhases
      <3>2. Seen(new)
        BY <1>1, <1>5, <2>1, <3>1 DEF Seen, Granted!Compare
      <3>3. caller' = [caller EXCEPT ![c] = new]
        BY <1>2, <1>5, <2>1 DEF Granted!Compare
      <3> QED
        BY <1>1, <1>5, <3>1, <3>2, <3>3, OneCaller DEF Granted!Compare
    <2>2. CASE ~ (old.given = version /\ old.token = version)
      <3>1. caller' = [caller EXCEPT ![c] = Granted!Idle]
        BY <1>5, <2>2 DEF Granted!Compare
      <3> QED
        BY <1>5, <3>1, IdleSeen, OneCaller DEF Granted!Compare
    <2> QED
      BY <2>1, <2>2
  <1>6. ASSUME Granted!Valid(c) PROVE GrantedInv'
    BY <1>6, IdleSeen, OneCaller DEF Granted!Valid
  <1>7. ASSUME NEW t \in tokens, Granted!Lookup(c, t) PROVE GrantedInv'
    <2> PICK ph : ph = IF tokenNow > made[t] THEN "expired" ELSE "looked"
      OBVIOUS
    <2> PICK one : one = [old EXCEPT !.phase = ph]
      OBVIOUS
    <2> PICK new : new = [one EXCEPT !.token = t]
      OBVIOUS
    <2>0. t \in DOMAIN made /\ t \in 1 .. MaxTokens
      BY DEF GrantedInv, Granted!TypeOK, Granted!Made
    <2>1. /\ new \in CallerRecords /\ new.phase = ph /\ new.token = t
      <3>1. t \in Nat /\ ph \in CallerPhases
        BY <2>0 DEF GrantedBounds, CallerPhases
      <3>2. one \in CallerRecords /\ one.phase = ph
        BY <1>1, <3>1 DEF CallerRecords
      <3> QED
        BY <3>1, <3>2 DEF CallerRecords
    <2>2. Seen(new)
      BY <2>0, <2>1 DEF Seen
    <2>3. caller' = [caller EXCEPT ![c] = new]
      BY <1>2, <1>7 DEF Granted!Lookup
    <2>4. new.token \in Held
      BY <2>0, <2>1 DEF Held, GrantedBounds
    <2> QED
      BY <1>7, <2>1, <2>2, <2>3, <2>4, OneCaller DEF Granted!Lookup
  <1> QED
    BY <1>3, <1>4, <1>5, <1>6, <1>7

LEMMA StoreTokenKeeps == ASSUME GrantedBounds, GrantedInv, NEW c \in Callers, Granted!StoreToken(c) PROVE GrantedInv'
  <1> PICK token : token = Granted!Cardinality(Granted!Made) + 1
    OBVIOUS
  <1>1. PICK k \in 0 .. MaxTokens : DOMAIN made = 1 .. k
    BY DEF GrantedInv, Numbered
  <1>2. token = k + 1 /\ k \in Nat
    <2>1. Granted!Cardinality(Granted!Made) = Cardinality(1 .. k)
      BY <1>1 DEF Granted!Made, Granted!Cardinality, Cardinality
    <2>2. k \in Nat
      BY <1>1 DEF GrantedBounds
    <2> QED
      BY <2>1, <2>2, UpTo
  <1>3. /\ caller[c].phase = "granted" /\ token <= MaxTokens
        /\ made' = [t \in (1 .. k) \cup {token} |-> IF t = token THEN tokenNow + tokenDuration ELSE made[t]]
        /\ tokens' = tokens \cup {token}
        /\ issuedBad' = (IF caller[c].right /\ caller[c].enabled THEN issuedBad ELSE issuedBad \cup {token})
        /\ caller' = [caller EXCEPT ![c] = Granted!Idle]
        /\ UNCHANGED <<tokenNow, added, enabled, version, revoked>>
    BY <1>1 DEF Granted!StoreToken, Granted!Made
  <1>4. DOMAIN made' = 1 .. token /\ token \in 1 .. MaxTokens /\ token \notin DOMAIN made
        /\ DOMAIN made \subseteq DOMAIN made'
    <2>1. (1 .. k) \cup {k + 1} = 1 .. k + 1
      BY <1>2
    <2> QED
      BY <1>1, <1>2, <1>3, <2>1 DEF GrantedBounds
  <1>5. tokenNow + tokenDuration \in Nat
    BY DEF GrantedInv, Granted!TypeOK, GrantedBounds
  <1>6. /\ made'[token] = tokenNow + tokenDuration
        /\ \A t \in DOMAIN made : made'[t] = made[t]
    BY <1>1, <1>3, <1>4
  <1>7. Numbered'
    <2>1. \A t \in DOMAIN made' : t = token \/ t \in DOMAIN made
      BY <1>1, <1>3
    <2>2. \A t \in DOMAIN made' : made'[t] \in Nat
      BY <1>5, <1>6, <2>1 DEF GrantedInv, Numbered
    <2>3. token \in 0 .. MaxTokens
      BY <1>4
    <2> QED
      BY <1>4, <2>2, <2>3 DEF Numbered
  <1>8. Seen(caller[c])
    BY DEF GrantedInv
  <1>9. issuedBad' = issuedBad
    BY <1>3, <1>8 DEF Seen
  <1>10. /\ caller' \in [Callers -> CallerRecords]
         /\ \A x \in Callers : (caller'[x] = caller[x] \/ caller'[x] = Granted!Idle)
    BY <1>3, IdleSeen DEF GrantedInv
  <1>11. \A x \in Callers : Seen(caller[x])'
    <2>1. \A x : Seen(x) => Seen(x)'
      BY <1>3, <1>4, <1>6 DEF Seen
    <2>2. \A x \in Callers : Seen(caller'[x])
      BY <1>10, IdleSeen DEF GrantedInv
    <2> QED
      BY <2>1, <2>2
  <1>12. /\ Granted!Made' \subseteq 1 .. MaxTokens /\ tokens' \subseteq Granted!Made'
         /\ revoked' \subseteq Granted!Made' /\ tokens' \cap revoked' = {} /\ issuedBad' \subseteq Granted!Made'
    <2>1. 1 .. token \subseteq 1 .. MaxTokens /\ token \in DOMAIN made'
      BY <1>4 DEF GrantedBounds
    <2>2. tokens \subseteq DOMAIN made /\ revoked \subseteq DOMAIN made /\ tokens \cap revoked = {}
          /\ issuedBad \subseteq DOMAIN made
      BY DEF GrantedInv, Granted!TypeOK, Granted!Made
    <2> QED
      BY <1>3, <1>4, <1>9, <2>1, <2>2 DEF Granted!Made
  <1>13. \A x \in Callers : caller'[x].token \in Held
    BY <1>10, CallerTokens, IdleSeen
  <1>14. Granted!TypeOK'
    <2>1. \A x \in Callers : /\ caller'[x].phase \in CallerPhases /\ caller'[x].given \in 0 .. MaxVersion
                             /\ caller'[x].right \in BOOLEAN /\ caller'[x].enabled \in BOOLEAN
      BY <1>10 DEF CallerRecords
    <2>2. /\ tokenNow' \in 0 .. MaxTokenTime /\ added' \in BOOLEAN /\ enabled' \in BOOLEAN
          /\ version' \in 1 .. MaxVersion
      BY <1>3 DEF GrantedInv, Granted!TypeOK
    <2> QED
      BY <1>12, <1>13, <2>1, <2>2 DEF Granted!TypeOK, CallerPhases, Held
  <1>15. Granted!TokensLastUntilExpiry'
    <2>1. \A t \in DOMAIN made' : t # token => t \in DOMAIN made
      BY <1>1, <1>3
    <2>2. \A t \in DOMAIN made \ (tokens \cup revoked) : tokenNow > made[t]
      BY DEF GrantedInv, Granted!TokensLastUntilExpiry, Granted!Made
    <2>3. \A t \in DOMAIN made' \ (tokens' \cup revoked') : tokenNow' > made'[t]
      BY <1>3, <1>6, <2>1, <2>2
    <2> QED
      BY <1>12, <2>3 DEF Granted!TokensLastUntilExpiry, Granted!Made
  <1>16. Granted!IssuedForCause'
    BY <1>9 DEF GrantedInv, Granted!IssuedForCause
  <1> QED
    BY <1>7, <1>10, <1>11, <1>14, <1>15, <1>16 DEF GrantedInv

(* The steps that only take tokens away, or let time pass. *)
LEMMA TokensGo ==
    ASSUME GrantedBounds, GrantedInv, UNCHANGED <<added, enabled, version, made, issuedBad>>,
           tokenNow' \in 0 .. MaxTokenTime, tokenNow' >= tokenNow, tokens' \subseteq tokens,
           revoked' \subseteq revoked \cup (tokens \ tokens'), revoked \subseteq revoked',
           \A t \in tokens \ (tokens' \cup revoked') : tokenNow' > made[t],
           UNCHANGED caller \/ \E c \in Callers : caller' = [caller EXCEPT ![c] = Granted!Idle]
    PROVE  GrantedInv'
  <1>1. /\ caller' \in [Callers -> CallerRecords]
        /\ \A x \in Callers : (caller'[x] = caller[x] \/ caller'[x] = Granted!Idle)
    BY IdleSeen DEF GrantedInv
  <1>2. tokenNow \in Nat /\ tokenNow' \in Nat
    BY DEF GrantedInv, Granted!TypeOK, GrantedBounds
  <1>3. \A t \in DOMAIN made : made[t] \in Nat
    BY DEF GrantedInv, Numbered
  <1>4. \A x : Seen(x) => Seen(x)'
    BY <1>2, <1>3 DEF Seen
  <1>5. \A x \in Callers : Seen(caller'[x])
    BY <1>1, IdleSeen DEF GrantedInv
  <1>6. \A x \in Callers : Seen(caller[x])'
    BY <1>4, <1>5
  <1>7. \A x \in Callers : /\ caller'[x].phase \in CallerPhases /\ caller'[x].given \in 0 .. MaxVersion
                           /\ caller'[x].right \in BOOLEAN /\ caller'[x].enabled \in BOOLEAN
                           /\ caller'[x].token \in Held
    BY <1>1, CallerTokens, IdleSeen DEF CallerRecords
  <1>8. /\ tokens \subseteq DOMAIN made /\ revoked \subseteq DOMAIN made /\ tokens \cap revoked = {}
        /\ \A t \in DOMAIN made \ (tokens \cup revoked) : tokenNow > made[t]
    BY DEF GrantedInv, Granted!TypeOK, Granted!Made, Granted!TokensLastUntilExpiry
  <1>9. /\ tokens' \subseteq DOMAIN made /\ revoked' \subseteq DOMAIN made /\ tokens' \cap revoked' = {}
    BY <1>8
  <1>10. /\ version' \in 1 .. MaxVersion /\ added' \in BOOLEAN /\ enabled' \in BOOLEAN
         /\ DOMAIN made \subseteq 1 .. MaxTokens /\ issuedBad' \subseteq DOMAIN made
    BY DEF GrantedInv, Granted!TypeOK, Granted!Made
  <1>11. Granted!TypeOK'
    BY <1>7, <1>9, <1>10 DEF Granted!TypeOK, Granted!Made, CallerPhases, Held
  <1>12. Granted!TokensLastUntilExpiry'
    <2>1. ASSUME NEW t \in DOMAIN made, t \notin tokens', t \notin revoked' PROVE tokenNow' > made[t]
      <3>1. t \in tokens => tokenNow' > made[t]
        BY <2>1
      <3>2. t \notin tokens => tokenNow > made[t]
        BY <1>8, <2>1
      <3> QED
        BY <1>2, <1>3, <3>1, <3>2
    <2> QED
      BY <1>9, <2>1 DEF Granted!TokensLastUntilExpiry, Granted!Made
  <1>13. Numbered' /\ Granted!IssuedForCause'
    BY DEF GrantedInv, Numbered, Granted!IssuedForCause
  <1> QED
    BY <1>1, <1>6, <1>11, <1>12, <1>13 DEF GrantedInv

LEMMA TakingKeeps ==
    ASSUME GrantedBounds, GrantedInv,
           \/ \E c \in Callers : Granted!DeleteExpired(c)
           \/ \E t \in tokens : Granted!RevokeToken(t)
           \/ Granted!CleanupExpiredTokens \/ Granted!Tick
    PROVE  GrantedInv'
  <1>1. tokenNow \in 0 .. MaxTokenTime /\ tokenNow \in Nat /\ \A t \in DOMAIN made : made[t] \in Nat
    BY DEF GrantedInv, Granted!TypeOK, GrantedBounds, Numbered
  <1>2. ASSUME NEW c \in Callers, Granted!DeleteExpired(c) PROVE GrantedInv'
    <2> PICK t : t = caller[c].token
      OBVIOUS
    <2>1. Seen(caller[c])
      BY DEF GrantedInv
    <2>2. tokenNow > made[t]
      BY <1>2, <2>1 DEF Seen, Granted!DeleteExpired
    <2>3. /\ tokens' = tokens \ {t} /\ caller' = [caller EXCEPT ![c] = Granted!Idle]
          /\ UNCHANGED <<tokenNow, added, enabled, version, made, revoked, issuedBad>>
      BY <1>2 DEF Granted!DeleteExpired, Granted!Deletes
    <2>4. /\ tokens' \subseteq tokens /\ revoked' = revoked
          /\ \A x \in tokens \ (tokens' \cup revoked') : tokenNow' > made[x]
      BY <2>2, <2>3
    <2>5. \E d \in Callers : caller' = [caller EXCEPT ![d] = Granted!Idle]
      BY <2>3
    <2>6. tokenNow' \in 0 .. MaxTokenTime /\ tokenNow' >= tokenNow
      BY <1>1, <2>3
    <2> QED
      BY <2>3, <2>4, <2>5, <2>6, TokensGo
  <1>3. ASSUME NEW t \in tokens, Granted!RevokeToken(t) PROVE GrantedInv'
    <2>1. /\ tokens' = tokens \ {t} /\ revoked' = revoked \cup {t}
          /\ UNCHANGED <<tokenNow, added, enabled, version, made, caller, issuedBad>>
      BY <1>3 DEF Granted!RevokeToken
    <2> QED
      BY <1>1, <2>1, TokensGo
  <1>4. ASSUME Granted!CleanupExpiredTokens PROVE GrantedInv'
    <2>1. /\ tokens' = {t \in tokens : tokenNow <= made[t]}
          /\ UNCHANGED <<tokenNow, added, enabled, version, made, revoked, caller, issuedBad>>
      BY <1>4 DEF Granted!CleanupExpiredTokens
    <2>2. tokens \subseteq DOMAIN made
      BY DEF GrantedInv, Granted!TypeOK, Granted!Made
    <2>3. \A t \in tokens \ tokens' : tokenNow > made[t]
      BY <1>1, <2>1, <2>2
    <2> QED
      BY <1>1, <2>1, <2>3, TokensGo
  <1>5. ASSUME Granted!Tick PROVE GrantedInv'
    <2>1. /\ tokenNow < MaxTokenTime /\ tokenNow' = tokenNow + 1
          /\ UNCHANGED <<added, enabled, version, made, tokens, revoked, caller, issuedBad>>
      BY <1>5 DEF Granted!Tick
    <2>2. tokenNow' \in 0 .. MaxTokenTime /\ tokenNow' >= tokenNow
      BY <1>1, <2>1 DEF GrantedBounds
    <2> QED
      BY <2>1, <2>2, TokensGo
  <1> QED
    BY <1>2, <1>3, <1>4, <1>5

LEMMA GrantedInvariant == ASSUME GrantedBounds, GrantedInv, [Granted!Next]_(Granted!vars) PROVE GrantedInv'
  <1>1. CASE UNCHANGED Granted!vars
    <2>1. UNCHANGED <<tokenNow, added, enabled, version, made, tokens, revoked, caller, issuedBad>>
      BY <1>1 DEF Granted!vars
    <2>2. tokenNow \in 0 .. MaxTokenTime /\ tokenNow >= tokenNow
      BY DEF GrantedInv, Granted!TypeOK, GrantedBounds
    <2> QED
      BY <2>1, <2>2, TokensGo
  <1> QED
    BY <1>1, AccountsChange, CallerStepKeeps, StoreTokenKeeps, TakingKeeps DEF Granted!Next

LEMMA GrantedImplies == GrantedInv => Granted!TypeOK /\ Granted!IssuedForCause /\ Granted!TokensLastUntilExpiry
  BY DEF GrantedInv

(* A token is issued only to a login that was right, of an account that was enabled, and
   leaves the table only when revoked or expired (auth.go), whatever the callers between
   the lock's sections do. *)
THEOREM TokensIssuedForCause == ASSUME GrantedBounds PROVE
    Granted!Spec => [](Granted!IssuedForCause /\ Granted!TokensLastUntilExpiry)
  <1>1. Granted!Init => GrantedInv
    BY GrantedStarts
  <1>2. GrantedInv /\ [Granted!Next]_(Granted!vars) => GrantedInv'
    BY GrantedInvariant
  <1> QED
    BY <1>1, <1>2, GrantedImplies, PTL DEF Granted!Spec

-----------------------------------------------------------------------------
(* Access rules: two rules of a name make it doubled, and a rule that is on is wanted. *)

RulesBounds == MaxRules \in Nat /\ MaxPermission \in Nat

Allowed == \A i \in DOMAIN rules : rules[i].enabled => rules[i].name \in wanted \cup doubled
Shared == \A i, j \in DOMAIN rules : i # j /\ rules[i].name = rules[j].name => rules[i].name \in doubled

RulesInv == Rules!TypeOK /\ Allowed /\ Shared

LEMMA RulesStart == ASSUME RulesBounds, Rules!Init PROVE RulesInv
  <1>1. /\ rules = <<>> /\ rules \in Seq(Rules!Rule) /\ Len(rules) = 0 /\ DOMAIN rules = {}
        /\ wanted = {} /\ doubled = {} /\ defaultACL \in Rules!Permissions
    BY DEF Rules!Init
  <1> QED
    BY <1>1 DEF RulesInv, Rules!TypeOK, Allowed, Shared, RulesBounds

\* the first rule of a name
LEMMA FirstBearing ==
    ASSUME RulesInv, NEW name, Rules!Bearing(name) # {}
    PROVE  LET k == Rules!Min(Rules!Bearing(name)) IN k \in DOMAIN rules /\ rules[k].name = name
  <1>1. rules \in Seq(Rules!Rule)
    BY DEF RulesInv, Rules!TypeOK
  <1>2. Rules!Bearing(name) \in SUBSET Nat
    BY <1>1 DEF Rules!Bearing
  <1>3. \E m \in Rules!Bearing(name) : \A n \in Rules!Bearing(name) : m <= n
    BY <1>2, LeastElement
  <1>4. Rules!Min(Rules!Bearing(name)) \in Rules!Bearing(name)
    BY <1>3 DEF Rules!Min
  <1> QED
    BY <1>4 DEF Rules!Bearing

LEMMA AddRuleKeeps ==
    ASSUME RulesBounds, RulesInv, NEW rule \in Rules!Rule, Rules!AddRule(rule) PROVE RulesInv'
  <1> PICK n : n = Len(rules)
    OBVIOUS
  <1>1. /\ rules \in Seq(Rules!Rule) /\ n \in Nat /\ n < MaxRules
    BY DEF RulesInv, Rules!TypeOK, Rules!AddRule
  <1>2. /\ rules' = Append(rules, rule) /\ wanted' = wanted \cup {rule.name}
        /\ doubled' = (IF Rules!Bearing(rule.name) = {} THEN doubled ELSE doubled \cup {rule.name})
        /\ UNCHANGED defaultACL
    BY DEF Rules!AddRule
  <1>3. /\ rules' \in Seq(Rules!Rule) /\ Len(rules') = n + 1 /\ rules'[n + 1] = rule
        /\ \A i \in DOMAIN rules' : i = n + 1 \/ (i \in DOMAIN rules /\ rules'[i] = rules[i])
    BY <1>1, <1>2
  <1>4. rule.name \in Names
    BY DEF Rules!Rule
  <1>5. Rules!TypeOK'
    BY <1>1, <1>2, <1>3, <1>4 DEF RulesInv, Rules!TypeOK, RulesBounds, Rules!Permissions, Rules!Rule
  <1>6. Allowed'
    BY <1>2, <1>3 DEF RulesInv, Allowed
  <1>7. Shared'
    <2>1. ASSUME NEW i \in DOMAIN rules, rules[i].name = rule.name PROVE rule.name \in doubled'
      <3>1. Rules!Bearing(rule.name) # {}
        BY <2>1 DEF Rules!Bearing
      <3> QED
        BY <1>2, <3>1
    <2> QED
      BY <1>2, <1>3, <2>1 DEF RulesInv, Shared
  <1> QED
    BY <1>5, <1>6, <1>7 DEF RulesInv

(* One rule changes, and keeps its name. *)
LEMMA RuleChanges ==
    ASSUME RulesBounds, RulesInv, NEW k \in DOMAIN rules, NEW new \in Rules!Rule, NEW name \in Names,
           rules[k].name = name, new.name = name, rules' = [rules EXCEPT ![k] = new],
           UNCHANGED <<defaultACL, doubled>>, wanted' \subseteq Names,
           \A x : x # name => (x \in wanted <=> x \in wanted'),
           name \in wanted' \/ ~ new.enabled \/ (new.enabled = rules[k].enabled /\ wanted' = wanted)
    PROVE  RulesInv'
  <1>1. rules \in Seq(Rules!Rule) /\ k \in 1 .. Len(rules)
    BY DEF RulesInv, Rules!TypeOK
  <1>2. /\ rules' \in Seq(Rules!Rule) /\ Len(rules') = Len(rules)
        /\ \A j \in 1 .. Len(rules) : rules'[j] = IF j = k THEN new ELSE rules[j]
    BY <1>1, ExceptSeq
  <1>3. /\ DOMAIN rules' = DOMAIN rules
        /\ \A i \in DOMAIN rules : rules'[i].name = rules[i].name
    BY <1>1, <1>2
  <1>4. Rules!TypeOK'
    BY <1>2 DEF RulesInv, Rules!TypeOK
  <1>5. Shared'
    BY <1>3 DEF RulesInv, Shared
  <1>6. ASSUME NEW i \in DOMAIN rules, rules'[i].enabled PROVE rules'[i].name \in wanted' \cup doubled'
    <2>1. CASE i = k
      <3>1. rules'[i] = new
        BY <1>1, <1>2, <2>1
      <3>2. CASE name \in wanted'
        BY <3>1, <3>2
      <3>3. CASE new.enabled = rules[k].enabled /\ wanted' = wanted
        BY <1>6, <2>1, <3>1, <3>3 DEF RulesInv, Allowed
      <3> QED
        BY <1>6, <3>1, <3>2, <3>3
    <2>2. CASE i # k
      <3>1. rules'[i] = rules[i]
        BY <1>1, <1>2, <2>2
      <3>2. rules[i].name \in wanted \cup doubled
        BY <1>6, <3>1 DEF RulesInv, Allowed
      <3>3. rules[i].name = name => name \in doubled
        BY <2>2 DEF RulesInv, Shared
      <3> QED
        BY <3>1, <3>2, <3>3
    <2> QED
      BY <2>1, <2>2
  <1>7. Allowed'
    BY <1>3, <1>6 DEF Allowed
  <1> QED
    BY <1>4, <1>5, <1>7 DEF RulesInv

LEMMA RemoveRuleKeeps ==
    ASSUME RulesBounds, RulesInv, NEW name \in Names, Rules!RemoveRule(name) PROVE RulesInv'
  <1> PICK k : k = Rules!Min(Rules!Bearing(name))
    OBVIOUS
  <1>1. k \in DOMAIN rules /\ rules[k].name = name
    BY FirstBearing DEF Rules!RemoveRule
  <1>2. /\ rules' = Without(rules, k) /\ wanted' = wanted \ {name} /\ UNCHANGED <<defaultACL, doubled>>
    BY DEF Rules!RemoveRule, Without
  <1>3. rules \in Seq(Rules!Rule) /\ Len(rules) <= MaxRules
    BY DEF RulesInv, Rules!TypeOK
  <1>4. /\ rules' \in Seq(Rules!Rule) /\ Len(rules') = Len(rules) - 1 /\ Len(rules) \in Nat
        /\ \A i \in DOMAIN rules' :
                /\ i < k => i \in DOMAIN rules /\ rules'[i] = rules[i]
                /\ i >= k => i + 1 \in DOMAIN rules /\ rules'[i] = rules[i + 1]
                /\ i \in Nat
    BY <1>1, <1>2, <1>3, Removed
  <1>5. k \in Nat
    BY <1>1, <1>3
  <1>6. ASSUME NEW i \in DOMAIN rules'
        PROVE  \E j \in DOMAIN rules : rules'[i] = rules[j] /\ j # k /\ j = IF i < k THEN i ELSE i + 1
    <2>1. CASE i < k
      BY <1>4, <1>5, <1>6, <2>1
    <2>2. CASE ~ (i < k)
      <3>1. i >= k /\ i + 1 # k
        BY <1>4, <1>5, <1>6, <2>2
      <3> QED
        BY <1>4, <1>6, <2>2, <3>1
    <2> QED
      BY <2>1, <2>2
  <1>7. Rules!TypeOK'
    <2>1. Len(rules') <= MaxRules
      BY <1>3, <1>4 DEF RulesBounds
    <2> QED
      BY <1>2, <1>4, <2>1 DEF RulesInv, Rules!TypeOK
  <1>8. Allowed'
    <2> SUFFICES ASSUME NEW i \in DOMAIN rules', rules'[i].enabled
                 PROVE  rules'[i].name \in wanted' \cup doubled'
      BY DEF Allowed
    <2>1. PICK j \in DOMAIN rules : rules'[i] = rules[j] /\ j # k
      BY <1>6
    <2>2. rules[j].name \in wanted \cup doubled
      BY <2>1 DEF RulesInv, Allowed
    <2>3. rules[j].name = name => name \in doubled
      BY <1>1, <2>1 DEF RulesInv, Shared
    <2> QED
      BY <1>2, <2>1, <2>2, <2>3
  <1>9. Shared'
    <2> SUFFICES ASSUME NEW i \in DOMAIN rules', NEW j \in DOMAIN rules', i # j,
                        rules'[i].name = rules'[j].name
                 PROVE  rules'[i].name \in doubled'
      BY DEF Shared
    <2>1. PICK a \in DOMAIN rules : rules'[i] = rules[a] /\ a = IF i < k THEN i ELSE i + 1
      BY <1>6
    <2>2. PICK b \in DOMAIN rules : rules'[j] = rules[b] /\ b = IF j < k THEN j ELSE j + 1
      BY <1>6
    <2>3. a # b
      BY <1>4, <1>5, <2>1, <2>2
    <2> QED
      BY <1>2, <2>1, <2>2, <2>3 DEF RulesInv, Shared
  <1> QED
    BY <1>7, <1>8, <1>9 DEF RulesInv

(* EnableRule, DisableRule and UpdateRule change the first rule of the name. *)
LEMMA OneRuleKeeps ==
    ASSUME RulesBounds, RulesInv, NEW name \in Names,
           \/ Rules!EnableRule(name) \/ Rules!DisableRule(name)
           \/ \E p \in Rules!Permissions, r \in SUBSET Roles : Rules!UpdateRule(name, p, r)
    PROVE  RulesInv'
  <1> PICK k : k = Rules!Min(Rules!Bearing(name))
    OBVIOUS
  <1>1. k \in DOMAIN rules /\ rules[k].name = name
    BY FirstBearing DEF Rules!EnableRule, Rules!DisableRule, Rules!UpdateRule
  <1> PICK old : old = rules[k]
    OBVIOUS
  <1>2. old \in Rules!Rule /\ wanted \subseteq Names /\ rules \in Seq(Rules!Rule)
    BY <1>1 DEF RulesInv, Rules!TypeOK
  <1>3. ASSUME Rules!EnableRule(name) PROVE RulesInv'
    <2> PICK new : new = [old EXCEPT !.enabled = TRUE]
      OBVIOUS
    <2>1. new \in Rules!Rule /\ new.name = name
      BY <1>1, <1>2 DEF Rules!Rule
    <2>2. /\ rules' = [rules EXCEPT ![k] = new] /\ wanted' = wanted \cup {name}
          /\ UNCHANGED <<defaultACL, doubled>>
      BY <1>3 DEF Rules!EnableRule
    <2>3. wanted' \subseteq Names /\ (\A x : x # name => (x \in wanted <=> x \in wanted')) /\ name \in wanted'
      BY <1>2, <2>2
    <2> QED
      BY <1>1, <2>1, <2>2, <2>3, RuleChanges
  <1>4. ASSUME Rules!DisableRule(name) PROVE RulesInv'
    <2> PICK new : new = [old EXCEPT !.enabled = FALSE]
      OBVIOUS
    <2>1. new \in Rules!Rule /\ new.name = name /\ ~ new.enabled
      BY <1>1, <1>2 DEF Rules!Rule
    <2>2. /\ rules' = [rules EXCEPT ![k] = new] /\ wanted' = wanted \ {name}
          /\ UNCHANGED <<defaultACL, doubled>>
      BY <1>4 DEF Rules!DisableRule
    <2>3. wanted' \subseteq Names /\ (\A x : x # name => (x \in wanted <=> x \in wanted'))
      BY <1>2, <2>2
    <2> QED
      BY <1>1, <2>1, <2>2, <2>3, RuleChanges
  <1>5. ASSUME NEW p \in Rules!Permissions, NEW r \in SUBSET Roles, Rules!UpdateRule(name, p, r)
        PROVE  RulesInv'
    <2> PICK one : one = [old EXCEPT !.permission = p]
      OBVIOUS
    <2> PICK new : new = [one EXCEPT !.roles = r]
      OBVIOUS
    <2>1. one \in Rules!Rule /\ one.name = name /\ one.enabled = old.enabled
      BY <1>1, <1>2 DEF Rules!Rule
    <2>2. new \in Rules!Rule /\ new.name = name /\ new.enabled = old.enabled
      BY <2>1 DEF Rules!Rule
    <2>3. /\ rules' = [rules EXCEPT ![k] = new] /\ UNCHANGED <<defaultACL, wanted, doubled>>
      <3>1. /\ rules' = [rules EXCEPT ![k].permission = p, ![k].roles = r]
            /\ UNCHANGED <<defaultACL, wanted, doubled>>
        BY <1>5 DEF Rules!UpdateRule
      <3> QED
        BY <1>1, <1>2, <3>1
    <2>4. wanted' \subseteq Names /\ (\A x : x # name => (x \in wanted <=> x \in wanted')) /\ wanted' = wanted
      BY <1>2, <2>3
    <2> QED
      BY <1>1, <2>2, <2>3, <2>4, RuleChanges
  <1> QED
    BY <1>3, <1>4, <1>5

LEMMA RulesInvariant == ASSUME RulesBounds, RulesInv, [Rules!Next]_(Rules!vars) PROVE RulesInv'
  <1>1. ASSUME UNCHANGED Rules!vars \/ \E p \in Rules!Permissions : Rules!SetDefaultPermission(p) PROVE RulesInv'
    <2>1. UNCHANGED <<rules, wanted, doubled>> /\ defaultACL' \in Rules!Permissions
      BY <1>1 DEF Rules!vars, Rules!SetDefaultPermission, RulesInv, Rules!TypeOK
    <2> QED
      BY <2>1 DEF RulesInv, Rules!TypeOK, Allowed, Shared
  <1> QED
    BY <1>1, AddRuleKeeps, RemoveRuleKeeps, OneRuleKeeps DEF Rules!Next

(* Who holds more roles has every rule apply that applied: the first that does now is no
   later, and is another one only if it did not apply before. *)
LEMMA MoreRoles == ASSUME RulesInv PROVE Rules!MoreRolesDecideEarlier
  <1> SUFFICES ASSUME NEW ip \in Ips, NEW given \in SUBSET Roles, NEW more \in SUBSET Roles,
                      given \subseteq more, Rules!Granted(ip, given) # Rules!Granted(ip, more)
               PROVE  \E i \in Rules!Deciding(ip, more) \ Rules!Deciding(ip, given) :
                         \A j \in Rules!Deciding(ip, given) : i < j
    BY DEF Rules!MoreRolesDecideEarlier
  <1> PICK D, E : D = Rules!Deciding(ip, given) /\ E = Rules!Deciding(ip, more)
    OBVIOUS
  <1>1. D \subseteq E
    BY DEF Rules!Deciding, Rules!Applies
  <1>2. E \in SUBSET Nat
    <2>1. rules \in Seq(Rules!Rule)
      BY DEF RulesInv, Rules!TypeOK
    <2> QED
      BY <2>1 DEF Rules!Deciding
  <1>3. E # {}
    <2> SUFFICES ASSUME E = {} PROVE FALSE
      OBVIOUS
    <2>1. D = {} /\ E = {}
      BY <1>1
    <2> QED
      BY <2>1 DEF Rules!Granted
  <1>4. PICK m \in E : \A n \in E : m <= n
    BY <1>2, <1>3, LeastElement
  <1>5. CASE m \in D
    <2>1. \A n \in D : m <= n
      BY <1>1, <1>4
    <2>2. Rules!Min(D) \in D /\ Rules!Min(E) \in E /\ (\A n \in D : Rules!Min(D) <= n)
          /\ \A n \in E : Rules!Min(E) <= n
      BY <1>4, <1>5, <2>1 DEF Rules!Min
    <2>3. Rules!Min(D) = m /\ Rules!Min(E) = m
      <3>1. Rules!Min(D) <= m /\ m <= Rules!Min(D) /\ Rules!Min(E) <= m /\ m <= Rules!Min(E)
        BY <1>4, <1>5, <2>1, <2>2
      <3>2. m \in Nat /\ Rules!Min(D) \in Nat /\ Rules!Min(E) \in Nat
        BY <1>1, <1>2, <2>2
      <3> QED
        BY <3>1, <3>2
    <2> QED
      BY <1>3, <1>5, <2>3 DEF Rules!Granted
  <1>6. CASE m \notin D
    <2>1. \A n \in D : m <= n /\ m # n /\ n \in Nat /\ m \in Nat
      BY <1>1, <1>2, <1>4, <1>6
    <2>2. \A n \in D : m < n
      BY <2>1
    <2> QED
      BY <1>4, <1>6, <2>2
  <1> QED
    BY <1>5, <1>6

LEMMA RulesImply ==
    RulesInv => Rules!TypeOK /\ Rules!UnwantedDecidesOnlyIfDoubled /\ Rules!MoreRolesDecideEarlier
  <1>1. RulesInv => Rules!UnwantedDecidesOnlyIfDoubled
    BY DEF RulesInv, Allowed, Rules!UnwantedDecidesOnlyIfDoubled, Rules!Deciding, Rules!Applies
  <1> QED
    BY <1>1, MoreRoles DEF RulesInv

(* A rule that was disabled or removed decides only if its name was on two rules at once,
   and further roles never take a decision from an earlier rule (auth/acl.go). *)
THEOREM RulesDecideForCause == ASSUME RulesBounds PROVE
    Rules!Spec => [](Rules!UnwantedDecidesOnlyIfDoubled /\ Rules!MoreRolesDecideEarlier)
  <1>1. Rules!Init => RulesInv
    BY RulesStart
  <1>2. RulesInv /\ [Rules!Next]_(Rules!vars) => RulesInv'
    BY RulesInvariant
  <1> QED
    BY <1>1, <1>2, RulesImply, PTL DEF Rules!Spec

-----------------------------------------------------------------------------
(* Routing rules: those of a load that no removal disturbed are all in the table, in the
   order of their configuration. *)

RoutesBounds ==
    /\ MaxIp \in Nat /\ MaxEntries \in Nat /\ MaxRemovals \in Nat
    /\ V4[1] \in Nat /\ V4[2] \in Nat
    /\ \A e \in Entry : e.start \in Nat /\ e.end \in Nat

Templates == {Routes!Local, Routes!Ads, Routes!Foreign, Routes!China, Routes!Broken}
Patterns == {t.pattern : t \in Templates}
RouteTypes == {"ip-cidr", "domain-keyword", "domain-suffix", "geoip"}
RouteActions == {"direct", "block", "proxy"}
Placed == [type : RouteTypes, pattern : Patterns, action : RouteActions, of : Loaders, nth : 1 .. 4]
LoadRecords == [todo : Seq(Templates), nth : 0 .. 4, config : Seq(Templates), disturbed : BOOLEAN]

\* where a load is in its configuration
Loading(ld) == /\ Len(ld.config) <= 4 /\ ld.nth + Len(ld.todo) <= Len(ld.config)
               /\ \A i \in DOMAIN ld.todo : ld.todo[i] = ld.config[ld.nth + i]
               /\ ld.nth + Len(ld.todo) > 0 => ld.config # <<>>

Before(l) ==
    /\ loader[l].config = <<>> => \A i \in DOMAIN routes : routes[i].of # l
    /\ \/ loader[l].disturbed
       \/ /\ \A i \in DOMAIN routes : routes[i].of = l =>
                /\ routes[i].nth <= loader[l].nth
                /\ routes[i].type = loader[l].config[routes[i].nth].type
                /\ routes[i].pattern = loader[l].config[routes[i].nth].pattern
          /\ \A n \in 1 .. loader[l].nth :
                \E i \in DOMAIN routes : routes[i].of = l /\ routes[i].nth = n
          /\ \A i, j \in DOMAIN routes : routes[i].of = l /\ routes[j].of = l /\ i < j
                => routes[i].nth < routes[j].nth

RoutesInv ==
    /\ routes \in Seq(Placed) /\ loader \in [Loaders -> LoadRecords]
    /\ entries \in Seq(Entry) /\ Len(entries) <= MaxEntries
    /\ geoip \in BOOLEAN /\ removals \in 0 .. MaxRemovals
    /\ \A l \in Loaders : Loading(loader[l]) /\ Before(l)

LEMMA RoutesStart == ASSUME RoutesBounds, Routes!Init PROVE RoutesInv
  <1> PICK ld : ld = [todo |-> <<>>, nth |-> 0, config |-> <<>>, disturbed |-> FALSE]
    OBVIOUS
  <1>1. /\ routes = <<>> /\ entries = <<>> /\ geoip = FALSE /\ removals = 0
        /\ loader = [l \in Loaders |-> ld]
    BY DEF Routes!Init
  <1>2. ld \in LoadRecords /\ ld.config = <<>> /\ ld.todo = <<>> /\ ld.nth = 0
    BY DEF LoadRecords
  <1>3. Loading(ld)
    BY <1>2 DEF Loading
  <1>4. /\ routes \in Seq(Placed) /\ entries \in Seq(Entry) /\ Len(entries) = 0 /\ DOMAIN routes = {}
    BY <1>1
  <1>5. \A l \in Loaders : loader[l] = ld
    BY <1>1
  <1>6. \A l \in Loaders : Before(l)
    BY <1>2, <1>4, <1>5 DEF Before
  <1>7. geoip \in BOOLEAN
    BY <1>1
  <1>8. removals \in 0 .. MaxRemovals /\ Len(entries) <= MaxEntries
    BY <1>1, <1>4 DEF RoutesBounds
  <1>9. loader \in [Loaders -> LoadRecords]
    BY <1>1, <1>2
  <1> QED
    BY <1>3, <1>4, <1>5, <1>6, <1>7, <1>8, <1>9 DEF RoutesInv

LEMMA TemplateTypes ==
    \A t \in Templates : t.type \in RouteTypes /\ t.pattern \in Patterns /\ t.action \in RouteActions
  BY DEF Templates, Patterns, RouteTypes, RouteActions, Routes!Local, Routes!Ads, Routes!Foreign,
         Routes!China, Routes!Broken

(* The steps that leave rules and loads alone. *)
LEMMA EntriesKeep ==
    ASSUME RoutesBounds, RoutesInv, UNCHANGED <<routes, loader, removals>>,
           entries' \in Seq(Entry), Len(entries') <= MaxEntries, geoip' \in BOOLEAN
    PROVE  RoutesInv'
  <1>1. \A l \in Loaders : Before(l)'
    BY DEF RoutesInv, Before
  <1> QED
    BY <1>1 DEF RoutesInv

LEMMA BeginLoadKeeps ==
    ASSUME RoutesBounds, RoutesInv, NEW l \in Loaders, NEW config_ \in {Routes!All, Routes!Configured},
           Routes!BeginLoad(l, config_)
    PROVE  RoutesInv'
  <1> PICK ld : ld = [todo |-> config_, nth |-> 0, config |-> config_, disturbed |-> FALSE]
    OBVIOUS
  <1>1. /\ loader[l].config = <<>> /\ loader' = [loader EXCEPT ![l] = ld]
        /\ UNCHANGED <<routes, entries, geoip, removals>>
    BY DEF Routes!BeginLoad
  <1>2. config_ \in Seq(Templates) /\ (Len(config_) = 3 \/ Len(config_) = 4)
    <2>1. /\ Routes!Local \in Templates /\ Routes!Ads \in Templates /\ Routes!Foreign \in Templates
          /\ Routes!China \in Templates /\ Routes!Broken \in Templates
      BY DEF Templates
    <2>2. Routes!All \in Seq(Templates) /\ Len(Routes!All) = 4
      BY <2>1 DEF Routes!All
    <2>3. Routes!Configured \in Seq(Templates) /\ Len(Routes!Configured) = 3
      BY <2>1 DEF Routes!Configured
    <2> QED
      BY <2>2, <2>3
  <1>3. ld \in LoadRecords /\ ld.config = config_ /\ ld.todo = config_ /\ ld.nth = 0 /\ ld.disturbed = FALSE
    BY <1>2 DEF LoadRecords
  <1>4. Loading(ld)
    <2>1. \A i \in DOMAIN config_ : 0 + i = i
      BY <1>2
    <2>2. Len(<<>>) # 3 /\ Len(<<>>) # 4
      OBVIOUS
    <2>3. config_ # <<>>
      BY <1>2, <2>2, Zenon
    <2>4. ld.nth + Len(ld.todo) <= Len(ld.config) /\ Len(ld.config) <= 4
      <3>1. 0 + 3 <= 3 /\ 0 + 4 <= 4 /\ 3 <= 4 /\ 4 <= 4
        OBVIOUS
      <3>2. 0 + Len(config_) <= Len(config_) /\ Len(config_) <= 4
        BY <1>2, <3>1, Zenon
      <3> QED
        BY <1>3, <3>2, Zenon
    <2>5. \A i \in DOMAIN ld.todo : ld.todo[i] = ld.config[ld.nth + i]
      BY <1>3, <2>1
    <2> QED
      BY <1>3, <2>3, <2>4, <2>5 DEF Loading
  <1>5. /\ loader' \in [Loaders -> LoadRecords] /\ loader'[l] = ld
        /\ \A x \in Loaders : x # l => loader'[x] = loader[x]
    BY <1>1, <1>3 DEF RoutesInv
  <1>6. \A i \in DOMAIN routes : routes[i].of # l
    BY <1>1 DEF RoutesInv, Before
  <1>7. Before(l)'
    BY <1>1, <1>3, <1>5, <1>6 DEF Before
  <1>8. \A x \in Loaders : x # l => Before(x)'
    BY <1>1, <1>5 DEF RoutesInv, Before
  <1> QED
    BY <1>1, <1>4, <1>5, <1>7, <1>8 DEF RoutesInv

(* The next rule of a load goes behind all others, or ends the load. *)
LEMMA RouteAdded ==
    ASSUME RoutesBounds, RoutesInv, NEW l \in Loaders, Routes!AddRule(l)
    PROVE  RoutesInv'
  <1> PICK old : old = loader[l]
    OBVIOUS
  <1> PICK t : t = Head(old.todo)
    OBVIOUS
  <1>1. /\ old \in LoadRecords /\ Loading(old) /\ Before(l) /\ old.todo # <<>>
        /\ UNCHANGED <<entries, geoip, removals>>
    BY DEF RoutesInv, Routes!AddRule
  <1> PICK m : m = Len(old.todo)
    OBVIOUS
  <1> PICK k : k = old.nth
    OBVIOUS
  <1>2. /\ old.todo \in Seq(Templates) /\ m \in Nat /\ m >= 1 /\ old.config \in Seq(Templates)
        /\ k \in 0 .. 4 /\ Len(old.config) \in Nat /\ DOMAIN old.todo = 1 .. m
    <2>1. old.todo \in Seq(Templates) /\ old.config \in Seq(Templates) /\ k \in 0 .. 4
      BY <1>1 DEF LoadRecords
    <2>2. m \in Nat /\ m # 0 /\ Len(old.config) \in Nat /\ DOMAIN old.todo = 1 .. m
      BY <1>1, <2>1
    <2> QED
      BY <2>1, <2>2
  <1>3. t \in Templates /\ t = old.todo[1] /\ t = old.config[k + 1] /\ k + 1 \in 1 .. 4
        /\ k + m <= Len(old.config) /\ k + 1 <= Len(old.config)
    <2>1. t \in Templates /\ t = old.todo[1] /\ 1 \in DOMAIN old.todo
      BY <1>1, <1>2
    <2>2. old.todo[1] = old.config[k + 1] /\ k + m <= Len(old.config) /\ Len(old.config) <= 4
      BY <1>1, <2>1 DEF Loading
    <2>3. \A a, b, c \in Nat : b >= 1 /\ a + b <= c /\ c <= 4 => a + 1 \in 1 .. 4 /\ a + 1 <= c
      OBVIOUS
    <2>4. k \in Nat
      BY <1>2
    <2>5. k + 1 \in 1 .. 4 /\ k + 1 <= Len(old.config)
      BY <1>2, <2>2, <2>3, <2>4
    <2> QED
      BY <2>1, <2>2, <2>5
  <1>4. ASSUME NEW x \in Loaders, x # l, loader'[x] = loader[x],
               \A i \in DOMAIN routes' : routes'[i].of = x => i \in DOMAIN routes /\ routes'[i] = routes[i],
               \A i \in DOMAIN routes : i \in DOMAIN routes' /\ routes'[i] = routes[i]
        PROVE  Before(x)'
    <2>1. Before(x)
      BY DEF RoutesInv
    <2>2. loader[x].config = <<>> => \A i \in DOMAIN routes' : routes'[i].of # x
      BY <1>4, <2>1 DEF Before
    <2>3. CASE loader[x].disturbed
      BY <1>4, <2>2, <2>3 DEF Before
    <2>4. CASE ~ loader[x].disturbed
      <3>1. /\ \A i \in DOMAIN routes : routes[i].of = x =>
                /\ routes[i].nth <= loader[x].nth
                /\ routes[i].type = loader[x].config[routes[i].nth].type
                /\ routes[i].pattern = loader[x].config[routes[i].nth].pattern
            /\ \A n \in 1 .. loader[x].nth :
                \E i \in DOMAIN routes : routes[i].of = x /\ routes[i].nth = n
            /\ \A i, j \in DOMAIN routes : routes[i].of = x /\ routes[j].of = x /\ i < j
                => routes[i].nth < routes[j].nth
        BY <2>1, <2>4 DEF Before
      <3>2. /\ \A i \in DOMAIN routes' : routes'[i].of = x =>
                /\ routes'[i].nth <= loader[x].nth
                /\ routes'[i].type = loader[x].config[routes'[i].nth].type
                /\ routes'[i].pattern = loader[x].config[routes'[i].nth].pattern
        BY <1>4, <3>1
      <3>3. \A n \in 1 .. loader[x].nth :
                \E i \in DOMAIN routes' : routes'[i].of = x /\ routes'[i].nth = n
        BY <1>4, <3>1
      <3>4. \A i, j \in DOMAIN routes' : routes'[i].of = x /\ routes'[j].of = x /\ i < j
                => routes'[i].nth < routes'[j].nth
        BY <1>4, <3>1
      <3> QED
        BY <1>4, <2>2, <3>2, <3>3, <3>4 DEF Before
    <2> QED
      BY <2>3, <2>4
  <1>5. CASE t = Routes!Broken
    <2> PICK ld : ld = [old EXCEPT !.todo = <<>>]
      OBVIOUS
    <2>1. loader' = [loader EXCEPT ![l] = ld] /\ UNCHANGED routes
      <3>1. Head(loader[l].todo) = Routes!Broken
        BY <1>5
      <3>2. loader' = [loader EXCEPT ![l].todo = <<>>] /\ UNCHANGED routes
        BY <3>1 DEF Routes!AddRule
      <3> QED
        BY <3>2 DEF RoutesInv
    <2>2. <<>> \in Seq(Templates) /\ Len(<<>>) = 0 /\ DOMAIN <<>> = {}
      OBVIOUS
    <2>3. /\ ld \in LoadRecords /\ ld.config = old.config /\ ld.nth = k /\ ld.todo = <<>>
          /\ ld.disturbed = old.disturbed
      BY <1>1, <2>2 DEF LoadRecords
    <2>4. Loading(ld)
      <3>1. Len(ld.config) <= 4 /\ ld.nth + Len(ld.todo) <= Len(ld.config)
        BY <1>1, <1>2, <1>3, <2>2, <2>3 DEF Loading
      <3>2. ld.config # <<>>
        BY <1>2, <1>3, <2>2, <2>3
      <3> QED
        BY <2>2, <2>3, <3>1, <3>2 DEF Loading
    <2>5. /\ loader' \in [Loaders -> LoadRecords] /\ loader'[l] = ld
          /\ \A x \in Loaders : x # l => loader'[x] = loader[x]
      BY <2>1, <2>3 DEF RoutesInv
    <2>6. Before(l)'
      BY <1>1, <2>1, <2>3, <2>5 DEF Before
    <2>7. \A x \in Loaders : x # l => Before(x)'
      BY <1>4, <2>1, <2>5
    <2> QED
      BY <1>1, <2>1, <2>4, <2>5, <2>6, <2>7 DEF RoutesInv
  <1>6. CASE t # Routes!Broken
    <2> PICK new : new = [type |-> t.type, pattern |-> t.pattern, action |-> t.action, of |-> l, nth |-> k + 1]
      OBVIOUS
    <2> PICK one : one = [old EXCEPT !.todo = Tail(old.todo)]
      OBVIOUS
    <2> PICK ld : ld = [one EXCEPT !.nth = k + 1]
      OBVIOUS
    <2>1. routes' = Append(routes, new) /\ loader' = [loader EXCEPT ![l] = ld]
      <3>1. Head(loader[l].todo) # Routes!Broken /\ loader[l].nth = k
        BY <1>6
      <3>2. /\ routes' = Append(routes, new)
            /\ loader' = [loader EXCEPT ![l].todo = Tail(@), ![l].nth = k + 1]
        BY <3>1 DEF Routes!AddRule
      <3> QED
        BY <3>2 DEF RoutesInv
    <2>2. /\ Tail(old.todo) \in Seq(Templates) /\ Len(Tail(old.todo)) = m - 1
          /\ \A i \in 1 .. m - 1 : Tail(old.todo)[i] = old.todo[i + 1]
      BY <1>1, <1>2, HeadTailProperties
    <2>3. /\ ld \in LoadRecords /\ ld.config = old.config /\ ld.nth = k + 1 /\ ld.todo = Tail(old.todo)
          /\ ld.disturbed = old.disturbed
      <3>1. /\ one \in LoadRecords /\ one.config = old.config /\ one.todo = Tail(old.todo)
            /\ one.disturbed = old.disturbed
        BY <1>1, <2>2 DEF LoadRecords
      <3>2. k + 1 \in 0 .. 4
        BY <1>3
      <3> QED
        BY <3>1, <3>2 DEF LoadRecords
    <2>4. Loading(ld)
      <3>1. Len(ld.config) <= 4
        BY <1>1, <2>3 DEF Loading
      <3>2. ld.nth + Len(ld.todo) <= Len(ld.config)
        <4>1. \A a, b, c \in Nat : b >= 1 /\ a + b <= c => (a + 1) + (b - 1) <= c
          OBVIOUS
        <4>2. k \in Nat
          BY <1>2
        <4>3. (k + 1) + (m - 1) <= Len(old.config)
          BY <1>2, <1>3, <4>1, <4>2
        <4> QED
          BY <2>2, <2>3, <4>3
      <3>3. \A i \in 1 .. m - 1 : i + 1 \in DOMAIN old.todo /\ k + (i + 1) = (k + 1) + i
        BY <1>2
      <3>4. \A i \in DOMAIN old.todo : old.todo[i] = old.config[k + i]
        BY <1>1 DEF Loading
      <3>5. \A i \in 1 .. m - 1 : ld.todo[i] = ld.config[(k + 1) + i]
        BY <2>2, <2>3, <3>3, <3>4
      <3>6. DOMAIN ld.todo = 1 .. m - 1
        BY <2>2, <2>3
      <3>7. Len(<<>>) = 0
        OBVIOUS
      <3>8. ld.config # <<>>
        BY <1>2, <1>3, <2>3, <3>7
      <3> QED
        BY <2>3, <3>1, <3>2, <3>5, <3>6, <3>8 DEF Loading
    <2>5. new \in Placed
      BY <1>3, TemplateTypes DEF Placed
    <2> PICK n : n = Len(routes)
      OBVIOUS
    <2>6. routes \in Seq(Placed) /\ n \in Nat /\ DOMAIN routes = 1 .. n
      BY DEF RoutesInv
    <2>7. /\ routes' \in Seq(Placed) /\ DOMAIN routes' = 1 .. n + 1 /\ routes'[n + 1] = new
          /\ \A i \in 1 .. n : routes'[i] = routes[i]
      BY <2>1, <2>5, <2>6
    <2>8. /\ loader' \in [Loaders -> LoadRecords] /\ loader'[l] = ld
          /\ \A x \in Loaders : x # l => loader'[x] = loader[x]
      BY <2>1, <2>3 DEF RoutesInv
    <2>9. /\ \A i \in DOMAIN routes' : i = n + 1 \/ (i \in DOMAIN routes /\ routes'[i] = routes[i] /\ i < n + 1)
          /\ \A i \in DOMAIN routes : i \in DOMAIN routes' /\ routes'[i] = routes[i]
          /\ n + 1 \in DOMAIN routes'
      BY <2>6, <2>7
    <2>10. \A x \in Loaders : x # l => Before(x)'
      <3>1. \A x \in Loaders, i \in DOMAIN routes' :
              x # l /\ routes'[i].of = x => i \in DOMAIN routes /\ routes'[i] = routes[i]
        BY <2>7, <2>9
      <3> QED
        BY <1>4, <2>8, <2>9, <3>1
    <2>11. Before(l)'
      <3>1. ld.config # <<>>
        <4>1. ld.nth + Len(ld.todo) > 0
          BY <1>2, <1>3, <2>2, <2>3
        <4> QED
          BY <2>4, <4>1 DEF Loading
      <3>2. CASE old.disturbed
        BY <2>3, <2>8, <3>1, <3>2 DEF Before
      <3>3. CASE ~ old.disturbed
        <4>1. /\ \A i \in DOMAIN routes : routes[i].of = l =>
                /\ routes[i].nth <= k
                /\ routes[i].type = old.config[routes[i].nth].type
                /\ routes[i].pattern = old.config[routes[i].nth].pattern
              /\ \A x \in 1 .. k :
                \E i \in DOMAIN routes : routes[i].of = l /\ routes[i].nth = x
              /\ \A i, j \in DOMAIN routes : routes[i].of = l /\ routes[j].of = l /\ i < j
                => routes[i].nth < routes[j].nth
          BY <1>1, <3>3 DEF Before
        <4>2. \A i \in DOMAIN routes : routes[i].nth \in Nat
          <5>1. \A i \in DOMAIN routes : routes[i] \in Placed
            BY <2>6
          <5>2. \A i \in DOMAIN routes : routes[i].nth \in 1 .. 4
            BY <5>1 DEF Placed
          <5> QED
            BY <5>2
        <4>0. k \in Nat /\ k + 1 \in Nat
          BY <1>2
        <4>3. \A i \in DOMAIN routes' : routes'[i].of = l =>
                /\ routes'[i].nth <= k + 1
                /\ routes'[i].type = old.config[routes'[i].nth].type
                /\ routes'[i].pattern = old.config[routes'[i].nth].pattern
          <5> SUFFICES ASSUME NEW i \in DOMAIN routes', routes'[i].of = l
                       PROVE  /\ routes'[i].nth <= k + 1
                              /\ routes'[i].type = old.config[routes'[i].nth].type
                              /\ routes'[i].pattern = old.config[routes'[i].nth].pattern
            OBVIOUS
          <5>1. CASE i = n + 1
            <6>1. routes'[i].nth = k + 1 /\ routes'[i].type = t.type /\ routes'[i].pattern = t.pattern
              BY <2>7, <5>1
            <6>2. k + 1 <= k + 1
              BY <4>0
            <6> QED
              BY <1>3, <6>1, <6>2
          <5>2. CASE i \in DOMAIN routes /\ routes'[i] = routes[i]
            <6>1. routes[i].nth <= k => routes[i].nth <= k + 1
              BY <4>0, <4>2, <5>2
            <6> QED
              BY <4>1, <5>2, <6>1
          <5> QED
            BY <2>9, <5>1, <5>2
        <4>4. \A x \in 1 .. k + 1 : \E i \in DOMAIN routes' : routes'[i].of = l /\ routes'[i].nth = x
          <5> SUFFICES ASSUME NEW x \in 1 .. k + 1
                       PROVE  \E i \in DOMAIN routes' : routes'[i].of = l /\ routes'[i].nth = x
            OBVIOUS
          <5>1. x = k + 1 \/ x \in 1 .. k
            BY <1>2
          <5> QED
            BY <2>7, <2>9, <4>1, <5>1
        <4>5. \A i, j \in DOMAIN routes' : routes'[i].of = l /\ routes'[j].of = l /\ i < j
                => routes'[i].nth < routes'[j].nth
          <5> SUFFICES ASSUME NEW i \in DOMAIN routes', NEW j \in DOMAIN routes',
                              routes'[i].of = l, routes'[j].of = l, i < j
                       PROVE  routes'[i].nth < routes'[j].nth
            OBVIOUS
          <5>1. i \in DOMAIN routes /\ routes'[i] = routes[i]
            BY <2>6, <2>7, <2>9
          <5>2. CASE j = n + 1
            <6>1. routes'[j].nth = k + 1
              BY <2>7, <5>2
            <6>2. routes'[i].nth \in Nat /\ routes'[i].nth <= k
              BY <4>1, <4>2, <5>1
            <6> QED
              BY <4>0, <6>1, <6>2
          <5>3. CASE j \in DOMAIN routes /\ routes'[j] = routes[j]
            BY <4>1, <5>1, <5>3
          <5> QED
            BY <2>9, <5>2, <5>3
        <4> QED
          BY <2>3, <2>8, <3>1, <4>3, <4>4, <4>5 DEF Before
      <3> QED
        BY <3>2, <3>3
    <2> QED
      BY <1>1, <2>4, <2>7, <2>8, <2>10, <2>11 DEF RoutesInv
  <1> QED
    BY <1>5, <1>6

(* Rules that go leave the loads alone that none of them was of. *)
LEMMA RoutesGo ==
    ASSUME RoutesBounds, RoutesInv, NEW gone, loader' = Routes!Disturbed(gone),
           removals' \in 0 .. MaxRemovals, UNCHANGED <<entries, geoip>>,
           routes' \in Seq(Placed),
           \A i \in DOMAIN routes' : i \in Nat /\ \E a \in DOMAIN routes : routes'[i] = routes[a],
           \A i, j \in DOMAIN routes' : i < j =>
              \E a, b \in DOMAIN routes : a < b /\ routes'[i] = routes[a] /\ routes'[j] = routes[b],
           \A a \in DOMAIN routes : routes[a].of \notin gone => \E i \in DOMAIN routes' : routes'[i] = routes[a]
    PROVE  RoutesInv'
  <1>1. ASSUME NEW l \in Loaders
        PROVE  /\ loader'[l] \in LoadRecords /\ Loading(loader'[l])
               /\ loader'[l].config = loader[l].config /\ loader'[l].nth = loader[l].nth
               /\ l \in gone => loader'[l].disturbed
               /\ l \notin gone => loader'[l] = loader[l]
    <2> PICK old, ld : old = loader[l] /\ ld = [old EXCEPT !.disturbed = TRUE]
      OBVIOUS
    <2>1. old \in LoadRecords /\ Loading(old)
      BY DEF RoutesInv
    <2>2. /\ ld \in LoadRecords /\ ld.config = old.config /\ ld.nth = old.nth /\ ld.todo = old.todo
          /\ ld.disturbed
      BY <2>1 DEF LoadRecords
    <2>3. Loading(ld)
      BY <2>1, <2>2 DEF Loading
    <2>4. loader'[l] = IF l \in gone THEN ld ELSE old
      BY DEF Routes!Disturbed
    <2> QED
      BY <2>1, <2>2, <2>3, <2>4
  <1>2. loader' \in [Loaders -> LoadRecords]
    <2>1. loader' = [l \in Loaders |-> loader'[l]]
      BY DEF Routes!Disturbed
    <2> QED
      BY <1>1, <2>1
  <1>3. ASSUME NEW l \in Loaders PROVE Before(l)'
    <2>1. Before(l)
      BY DEF RoutesInv
    <2>2. loader'[l].config = <<>> => \A i \in DOMAIN routes' : routes'[i].of # l
      BY <1>1, <2>1 DEF Before
    <2>3. CASE loader'[l].disturbed
      BY <2>2, <2>3 DEF Before
    <2>4. CASE ~ loader'[l].disturbed
      <3>0. l \notin gone /\ loader'[l] = loader[l] /\ ~ loader[l].disturbed
        BY <1>1, <2>4
      <3>1. /\ \A i \in DOMAIN routes : routes[i].of = l =>
                /\ routes[i].nth <= loader[l].nth
                /\ routes[i].type = loader[l].config[routes[i].nth].type
                /\ routes[i].pattern = loader[l].config[routes[i].nth].pattern
            /\ \A n \in 1 .. loader[l].nth :
                \E i \in DOMAIN routes : routes[i].of = l /\ routes[i].nth = n
            /\ \A i, j \in DOMAIN routes : routes[i].of = l /\ routes[j].of = l /\ i < j
                => routes[i].nth < routes[j].nth
        BY <2>1, <3>0 DEF Before
      <3>2. \A i \in DOMAIN routes' : routes'[i].of = l =>
                /\ routes'[i].nth <= loader[l].nth
                /\ routes'[i].type = loader[l].config[routes'[i].nth].type
                /\ routes'[i].pattern = loader[l].config[routes'[i].nth].pattern
        BY <3>1
      <3>3. \A n \in 1 .. loader[l].nth :
                \E i \in DOMAIN routes' : routes'[i].of = l /\ routes'[i].nth = n
        BY <3>0, <3>1
      <3>4. \A i, j \in DOMAIN routes' : routes'[i].of = l /\ routes'[j].of = l /\ i < j
                => routes'[i].nth < routes'[j].nth
        BY <3>1
      <3> QED
        BY <2>2, <3>0, <3>2, <3>3, <3>4 DEF Before
    <2> QED
      BY <2>3, <2>4
  <1>4. \A l \in Loaders : Loading(loader[l])'
    BY <1>1 DEF Loading
  <1> QED
    BY <1>2, <1>3, <1>4 DEF RoutesInv

LEMMA RemoveRouteKeeps ==
    ASSUME RoutesBounds, RoutesInv, NEW k \in DOMAIN routes, Routes!RemoveRule(k) PROVE RoutesInv'
  <1>1. /\ removals < MaxRemovals /\ removals' = removals + 1 /\ routes' = Without(routes, k)
        /\ loader' = Routes!Disturbed({routes[k].of}) /\ UNCHANGED <<entries, geoip>>
    BY DEF Routes!RemoveRule, Without
  <1>2. routes \in Seq(Placed) /\ removals \in 0 .. MaxRemovals
    BY DEF RoutesInv
  <1>3. /\ routes' \in Seq(Placed)
        /\ \A i \in DOMAIN routes' :
                /\ i < k => i \in DOMAIN routes /\ routes'[i] = routes[i]
                /\ i >= k => i + 1 \in DOMAIN routes /\ routes'[i] = routes[i + 1]
                /\ i \in Nat
        /\ \A i \in DOMAIN routes : i # k => \E j \in DOMAIN routes' : routes'[j] = routes[i]
    BY <1>1, <1>2, Removed
  <1>4. k \in Nat
    BY <1>2
  <1>5. ASSUME NEW i \in DOMAIN routes'
        PROVE  \E a \in DOMAIN routes : routes'[i] = routes[a] /\ a = IF i < k THEN i ELSE i + 1
    <2>1. i \in Nat /\ (i < k \/ i >= k)
      BY <1>3, <1>4
    <2>2. CASE i < k
      BY <1>3, <2>2
    <2>3. CASE i >= k
      <3>1. ~ (i < k)
        BY <1>4, <2>1, <2>3
      <3> QED
        BY <1>3, <2>3, <3>1
    <2> QED
      BY <2>1, <2>2, <2>3
  <1>6. ASSUME NEW i \in DOMAIN routes', NEW j \in DOMAIN routes', i < j
        PROVE  \E a, b \in DOMAIN routes : a < b /\ routes'[i] = routes[a] /\ routes'[j] = routes[b]
    <2>1. PICK a \in DOMAIN routes : routes'[i] = routes[a] /\ a = IF i < k THEN i ELSE i + 1
      BY <1>5
    <2>2. PICK b \in DOMAIN routes : routes'[j] = routes[b] /\ b = IF j < k THEN j ELSE j + 1
      BY <1>5
    <2>3. a < b
      BY <1>3, <1>4, <1>6, <2>1, <2>2
    <2> QED
      BY <2>1, <2>2, <2>3
  <1>7. removals' \in 0 .. MaxRemovals
    BY <1>1, <1>2 DEF RoutesBounds
  <1>8. \A a \in DOMAIN routes : routes[a].of \notin {routes[k].of} => \E i \in DOMAIN routes' : routes'[i] = routes[a]
    BY <1>3
  <1>9. \A i \in DOMAIN routes' : i \in Nat /\ \E a \in DOMAIN routes : routes'[i] = routes[a]
    BY <1>3, <1>5
  <1> QED
    BY <1>1, <1>3, <1>6, <1>7, <1>8, <1>9, RoutesGo

LEMMA ClearRulesKeeps == ASSUME RoutesBounds, RoutesInv, Routes!ClearRules PROVE RoutesInv'
  <1> PICK gone : gone = {routes[i].of : i \in DOMAIN routes}
    OBVIOUS
  <1>1. /\ removals < MaxRemovals /\ removals' = removals + 1 /\ routes' = <<>>
        /\ loader' = Routes!Disturbed(gone) /\ UNCHANGED <<entries, geoip>>
    BY DEF Routes!ClearRules
  <1>2. removals \in 0 .. MaxRemovals
    BY DEF RoutesInv
  <1>3. routes' \in Seq(Placed) /\ DOMAIN routes' = {}
    BY <1>1
  <1>4. removals' \in 0 .. MaxRemovals
    BY <1>1, <1>2 DEF RoutesBounds
  <1> QED
    BY <1>1, <1>3, <1>4, RoutesGo

LEMMA RoutesInvariant == ASSUME RoutesBounds, RoutesInv, [Routes!Next]_(Routes!vars) PROVE RoutesInv'
  <1>1. ASSUME NEW e \in Entry, Routes!AddEntry(e) PROVE RoutesInv'
    <2>1. /\ Len(entries) < MaxEntries /\ entries' = Append(entries, e)
          /\ UNCHANGED <<routes, geoip, loader, removals>>
      BY <1>1 DEF Routes!AddEntry
    <2>2. entries \in Seq(Entry) /\ Len(entries) \in Nat /\ geoip \in BOOLEAN
      BY DEF RoutesInv
    <2>3. entries' \in Seq(Entry) /\ Len(entries') = Len(entries) + 1
      BY <2>1, <2>2
    <2>4. Len(entries') <= MaxEntries
      BY <2>1, <2>2, <2>3 DEF RoutesBounds
    <2> QED
      BY <2>1, <2>2, <2>3, <2>4, EntriesKeep
  <1>2. ASSUME Routes!SetGeoIP PROVE RoutesInv'
    <2>1. geoip' \in BOOLEAN /\ UNCHANGED <<routes, entries, loader, removals>>
      BY <1>2 DEF Routes!SetGeoIP
    <2>2. entries \in Seq(Entry) /\ Len(entries) <= MaxEntries
      BY DEF RoutesInv
    <2> QED
      BY <2>1, <2>2, EntriesKeep
  <1>3. ASSUME UNCHANGED Routes!vars PROVE RoutesInv'
    <2>1. UNCHANGED <<routes, entries, geoip, loader, removals>>
      BY <1>3 DEF Routes!vars
    <2>2. entries \in Seq(Entry) /\ Len(entries) <= MaxEntries /\ geoip \in BOOLEAN
      BY DEF RoutesInv
    <2> QED
      BY <2>1, <2>2, EntriesKeep
  <1> QED
    BY <1>1, <1>2, <1>3, BeginLoadKeeps, RouteAdded, RemoveRouteKeeps, ClearRulesKeeps DEF Routes!Next

LEMMA PriorityFollows == ASSUME RoutesInv PROVE Routes!PriorityKept
  <1> SUFFICES ASSUME NEW flow \in Routes!Flow, Routes!Matching(flow) # {},
                      NEW r, r = routes[Routes!Decider(Routes!Matching(flow))], ~ loader[r.of].disturbed,
                      NEW n \in 1 .. r.nth - 1,
                      Routes!matchRule(loader[r.of].config[n], flow)
               PROVE  FALSE
    BY DEF Routes!PriorityKept
  <1> PICK M : M = Routes!Matching(flow)
    OBVIOUS
  <1>1. M \subseteq DOMAIN routes /\ routes \in Seq(Placed)
    BY DEF Routes!Matching, RoutesInv
  <1>2. M \in SUBSET Nat
    BY <1>1
  <1>3. \E m \in M : \A x \in M : m <= x
    BY <1>2, LeastElement
  <1> PICK m : m = Routes!Decider(M)
    OBVIOUS
  <1>4. m \in M /\ \A x \in M : m <= x
    BY <1>3 DEF Routes!Decider, Routes!Min
  <1>5. m \in DOMAIN routes /\ r = routes[m] /\ r \in Placed
    BY <1>1, <1>4
  <1> PICK l : l = r.of
    OBVIOUS
  <1>6. l \in Loaders /\ r.nth \in 1 .. 4
    BY <1>5 DEF Placed
  <1>7. /\ \A i \in DOMAIN routes : routes[i].of = l =>
                /\ routes[i].nth <= loader[l].nth
                /\ routes[i].type = loader[l].config[routes[i].nth].type
                /\ routes[i].pattern = loader[l].config[routes[i].nth].pattern
        /\ \A x \in 1 .. loader[l].nth :
                \E i \in DOMAIN routes : routes[i].of = l /\ routes[i].nth = x
        /\ \A i, j \in DOMAIN routes : routes[i].of = l /\ routes[j].of = l /\ i < j
                => routes[i].nth < routes[j].nth
    BY <1>6 DEF RoutesInv, Before
  <1>8. loader[l].nth \in Nat
    <2>1. loader[l] \in LoadRecords
      BY <1>6 DEF RoutesInv
    <2>2. loader[l].nth \in 0 .. 4
      BY <2>1 DEF LoadRecords
    <2> QED
      BY <2>2
  <1>9. n \in 1 .. loader[l].nth /\ n < r.nth
    BY <1>5, <1>6, <1>7, <1>8
  <1>10. PICK i \in DOMAIN routes : routes[i].of = l /\ routes[i].nth = n
    BY <1>7, <1>9
  <1>11. Routes!matchRule(routes[i], flow)
    <2>1. routes[i].type = loader[l].config[n].type /\ routes[i].pattern = loader[l].config[n].pattern
      BY <1>7, <1>10
    <2> QED
      BY <2>1 DEF Routes!matchRule
  <1>12. i \in M
    BY <1>11 DEF Routes!Matching
  <1>13. m <= i /\ m \in Nat /\ i \in Nat /\ n \in Nat /\ r.nth \in Nat
    BY <1>2, <1>4, <1>6, <1>12
  <1>14. CASE m = i
    BY <1>5, <1>9, <1>10, <1>13, <1>14
  <1>15. CASE m < i
    <2>1. r.nth < n
      BY <1>5, <1>7, <1>10, <1>15
    <2> QED
      BY <1>9, <1>13, <2>1
  <1> QED
    BY <1>13, <1>14, <1>15

LEMMA LookupFollows == ASSUME RoutesBounds, RoutesInv PROVE Routes!LookupIsFirstRange
  <1> SUFFICES ASSUME NEW ip \in 0 .. MaxIp,
                      ~ (/\ Routes!IsV4(ip)
                         /\ \E i \in DOMAIN entries :
                              \/ ~ Routes!IsV4(entries[i].end) /\ (ip = V4[1] \/ entries[i].start <= ip)
                              \/ Routes!IsV4(entries[i].end) /\ ip <= entries[i].end /\ entries[i].start > V4[2])
               PROVE  {i \in DOMAIN entries : Routes!Holds(entries[i], ip)}
                        = {i \in DOMAIN entries : entries[i].start <= ip /\ ip <= entries[i].end}
    BY DEF Routes!LookupIsFirstRange, Routes!Lookup
  <1>1. ASSUME NEW i \in DOMAIN entries
        PROVE  Routes!Holds(entries[i], ip) <=> entries[i].start <= ip /\ ip <= entries[i].end
    <2> PICK e : e = entries[i]
      OBVIOUS
    <2>1. e \in Entry
      BY DEF RoutesInv
    <2>2. e.start \in Nat /\ e.end \in Nat /\ ip \in Nat /\ V4[1] \in Nat /\ V4[2] \in Nat
      BY <2>1 DEF RoutesBounds
    <2>3. CASE ~ Routes!IsV4(ip)
      BY <2>3 DEF Routes!Holds
    <2>4. CASE Routes!IsV4(ip)
      <3>1. /\ ~ Routes!IsV4(e.end) => ip # V4[1] /\ ~ (e.start <= ip)
            /\ Routes!IsV4(e.end) => ~ (ip <= e.end) \/ ~ (e.start > V4[2])
        BY <2>4
      <3>2. V4[1] <= ip /\ ip <= V4[2]
        BY <2>2, <2>4 DEF Routes!IsV4
      <3>3. Routes!Holds(e, ip) <=> Routes!Field(e.start) <= ip - V4[1] /\ ip - V4[1] <= Routes!Field(e.end)
        BY <2>4 DEF Routes!Holds, Routes!Uint32
      <3>4. CASE ~ Routes!IsV4(e.end)
        <4>1. Routes!Field(e.end) = 0
          BY <3>4 DEF Routes!Field
        <4>2. ~ (ip - V4[1] <= 0)
          BY <2>2, <3>1, <3>2, <3>4
        <4> QED
          BY <3>1, <3>3, <3>4, <4>1, <4>2
      <3>5. CASE Routes!IsV4(e.end)
        <4>1. Routes!Field(e.end) = e.end - V4[1] /\ V4[1] <= e.end /\ e.end <= V4[2]
          BY <2>2, <3>5 DEF Routes!Field, Routes!Uint32, Routes!IsV4
        <4>2. ip - V4[1] <= e.end - V4[1] <=> ip <= e.end
          BY <2>2
        <4>3. CASE Routes!IsV4(e.start)
          <5>1. Routes!Field(e.start) = e.start - V4[1]
            BY <4>3 DEF Routes!Field, Routes!Uint32
          <5>2. e.start - V4[1] <= ip - V4[1] <=> e.start <= ip
            BY <2>2
          <5> QED
            BY <3>3, <4>1, <4>2, <5>1, <5>2
        <4>4. CASE ~ Routes!IsV4(e.start)
          <5>1. Routes!Field(e.start) = 0 /\ 0 <= ip - V4[1]
            BY <2>2, <3>2, <4>4 DEF Routes!Field
          <5>2. e.start < V4[1] \/ e.start > V4[2]
            BY <2>2, <4>4 DEF Routes!IsV4
          <5>3. e.start < V4[1] => e.start <= ip
            BY <2>2, <3>2
          <5>4. e.start > V4[2] => ~ (ip <= e.end)
            BY <3>1, <3>5
          <5> QED
            BY <3>3, <4>1, <4>2, <5>1, <5>2, <5>3, <5>4
        <4> QED
          BY <4>3, <4>4
      <3> QED
        BY <3>4, <3>5
    <2> QED
      BY <2>3, <2>4
  <1> QED
    BY <1>1

LEMMA RoutesImply ==
    ASSUME RoutesBounds, RoutesInv
    PROVE  Routes!TypeOK /\ Routes!PriorityKept /\ Routes!LookupIsFirstRange
  <1>1. \A i \in DOMAIN routes : routes[i] \in Placed
    BY DEF RoutesInv
  <1>2. \A l \in Loaders : loader[l] \in LoadRecords
    BY DEF RoutesInv
  <1>3. \A l \in Loaders : loader[l].disturbed \in BOOLEAN /\ loader[l].nth \in 0 .. 4
    BY <1>2 DEF LoadRecords
  <1>4. \A i \in DOMAIN routes :
         routes[i].type \in {"ip-cidr", "domain-keyword", "domain-suffix", "geoip"}
           /\ routes[i].action \in {"direct", "block", "proxy"} /\ routes[i].of \in Loaders
           /\ routes[i].nth \in 1 .. 4
    BY <1>1 DEF Placed, RouteTypes, RouteActions
  <1>5. Routes!TypeOK
    BY <1>3, <1>4 DEF RoutesInv, Routes!TypeOK
  <1> QED
    BY <1>5, PriorityFollows, LookupFollows

(* No rule of a configuration decides what an earlier one of it matches, while loads and
   removals interleave, and an address is of the country of its first range, but for the
   cases named (routing/router.go, routing/geoip.go). *)
THEOREM RoutesKeepPriority == ASSUME RoutesBounds PROVE
    Routes!Spec => [](Routes!PriorityKept /\ Routes!LookupIsFirstRange)
  <1>1. Routes!Init => RoutesInv
    BY RoutesStart
  <1>2. RoutesInv /\ [Routes!Next]_(Routes!vars) => RoutesInv'
    BY RoutesInvariant
  <1>3. RoutesInv => Routes!PriorityKept /\ Routes!LookupIsFirstRange
    BY RoutesImply
  <1> QED
    BY <1>1, <1>2, <1>3, PTL DEF Routes!Spec

-----------------------------------------------------------------------------
(* Bridges: the grants of one client, by the hour they were made in. *)

BridgesBounds ==
    /\ maxRequestsPerIP \in Nat /\ bridgeTimeout \in Nat /\ Hour \in Nat \ {0} /\ MaxBridgeTime \in Nat

\* when the count was last forgotten
LastCleanup == cleanupAt - Hour

(* n times, the last q of them counted: what is not counted was granted by the last
   cleanup, what lies a whole count further back by the one before it; and two grants
   that are two counts apart are an hour apart. *)
Spaced(times, q) ==
    LET n == Len(times) max == maxRequestsPerIP IN
    /\ q <= max /\ q <= n
    /\ \A i \in 1 .. n : times[i] <= bridgeNow
    /\ \A i, j \in 1 .. n : i <= j => times[i] <= times[j]
    /\ \A i \in 1 .. n : i <= n - q => times[i] <= LastCleanup
    /\ \A i \in 1 .. n : i <= (n - q) - max => times[i] + Hour <= LastCleanup
    /\ \A i, j \in 1 .. n : j = i + 2 * max => times[i] + Hour <= times[j]

Clock == /\ bridgeNow \in 0 .. MaxBridgeTime /\ cleanupAt \in Nat
         /\ LastCleanup \in Nat /\ LastCleanup <= bridgeNow /\ bridgeNow <= cleanupAt

Heard == \A b \in DOMAIN bridges : /\ b \in BridgeIds /\ bridges[b] \in 0 .. MaxBridgeTime
                                   /\ bridges[b] <= bridgeNow
                                   /\ LastCleanup <= bridges[b] + bridgeTimeout

Counted == /\ requests \in [Clients -> Nat] /\ granted \in [Clients -> Seq(0 .. MaxBridgeTime)]
           /\ \A c \in Clients : Spaced(granted[c], requests[c])

Sent == /\ DOMAIN secrets \subseteq Clients /\ \A c \in DOMAIN secrets : secrets[c] \in Nat
        /\ challenges \subseteq Clients \X Nat /\ IsFiniteSet(challenges)
        /\ \A ch \in challenges : ch[1] \in DOMAIN secrets /\ secrets[ch[1]] = ch[2]

BridgesInv == Clock /\ Heard /\ Counted /\ Sent

LEMMA BridgesStart == ASSUME BridgesBounds, Bridges!Init PROVE BridgesInv
  <1>1. /\ bridgeNow = 0 /\ cleanupAt = Hour /\ DOMAIN bridges = {} /\ DOMAIN secrets = {}
        /\ challenges = {} /\ requests = [c \in Clients |-> 0] /\ granted = [c \in Clients |-> <<>>]
    BY DEF Bridges!Init
  <1>2. Clock
    BY <1>1 DEF Clock, LastCleanup, BridgesBounds
  <1>3. Heard
    BY <1>1 DEF Heard
  <1>4. Sent
    BY <1>1, FS_EmptySet DEF Sent
  <1>5. ASSUME NEW c \in Clients PROVE Spaced(granted[c], requests[c])
    <2>1. granted[c] = <<>> /\ requests[c] = 0 /\ Len(<<>>) = 0 /\ 1 .. 0 = {} /\ maxRequestsPerIP \in Nat
      BY <1>1 DEF BridgesBounds
    <2> QED
      BY <2>1 DEF Spaced
  <1>6. requests \in [Clients -> Nat] /\ granted \in [Clients -> Seq(0 .. MaxBridgeTime)]
    BY <1>1
  <1> QED
    BY <1>2, <1>3, <1>4, <1>5, <1>6 DEF BridgesInv, Counted

LEMMA CountOf ==
    ASSUME Counted, NEW c \in Clients
    PROVE  /\ requests[c] \in Nat /\ granted[c] \in Seq(0 .. MaxBridgeTime) /\ Len(granted[c]) \in Nat
           /\ \A i \in 1 .. Len(granted[c]) : granted[c][i] \in Nat
  <1>1. requests[c] \in Nat /\ granted[c] \in Seq(0 .. MaxBridgeTime)
    BY DEF Counted
  <1>2. \A S, s : s \in Seq(S) => Len(s) \in Nat /\ \A i \in 1 .. Len(s) : s[i] \in S
    OBVIOUS
  <1>3. \A t \in 0 .. MaxBridgeTime : t \in Nat
    OBVIOUS
  <1> QED
    BY <1>1, <1>2, <1>3

\* a count goes on as the clock does
LEMMA SpacedLater ==
    ASSUME BridgesBounds, Clock, Counted, bridgeNow' \in Nat, bridgeNow <= bridgeNow',
           UNCHANGED <<cleanupAt, requests, granted>>
    PROVE  Counted'
  <1>1. LastCleanup' = LastCleanup /\ requests' = requests /\ granted' = granted
    BY DEF LastCleanup
  <1>2. ASSUME NEW c \in Clients PROVE Spaced(granted[c], requests[c])'
    <2>1. \A t, a, b \in Nat : t <= a /\ a <= b => t <= b
      OBVIOUS
    <2>2. \A i \in 1 .. Len(granted[c]) : granted[c][i] \in Nat /\ granted[c][i] <= bridgeNow
      BY CountOf DEF Counted, Spaced
    <2>3. \A i \in 1 .. Len(granted[c]) : granted[c][i] <= bridgeNow'
      BY <2>1, <2>2 DEF Clock
    <2> QED
      BY <1>1, <2>3 DEF Counted, Spaced
  <1> QED
    BY <1>1, <1>2 DEF Counted

LEMMA HeardKeeps ==
    ASSUME BridgesBounds, BridgesInv, NEW b \in BridgeIds, Bridges!RegisterBridge(b)
    PROVE  BridgesInv'
  <1>1. /\ bridges' = Bridges!Seen(b)
        /\ UNCHANGED <<bridgeNow, cleanupAt, requests, granted, secrets, challenges>>
        /\ LastCleanup' = LastCleanup
    BY DEF Bridges!RegisterBridge, LastCleanup
  <1>2. bridgeNow \in Nat /\ LastCleanup \in Nat /\ bridgeTimeout \in Nat
    BY DEF BridgesInv, Clock, BridgesBounds
  <1>3. LastCleanup <= bridgeNow + bridgeTimeout /\ bridgeNow <= bridgeNow
    BY <1>2 DEF BridgesInv, Clock
  <1>4. DOMAIN bridges' = DOMAIN bridges \cup {b}
        /\ \A x \in DOMAIN bridges' : bridges'[x] = IF x = b THEN bridgeNow ELSE bridges[x]
    BY <1>1 DEF Bridges!Seen
  <1>5. Heard'
    BY <1>1, <1>3, <1>4 DEF BridgesInv, Clock, Heard
  <1>6. Clock' /\ Sent'
    BY <1>1 DEF BridgesInv, Clock, Sent
  <1>7. Counted'
    BY <1>1, <1>2, SpacedLater DEF BridgesInv
  <1> QED
    BY <1>5, <1>6, <1>7 DEF BridgesInv

LEMMA RemovedKeeps ==
    ASSUME BridgesBounds, BridgesInv, NEW b, Bridges!RemoveBridge(b)
    PROVE  BridgesInv'
  <1>1. /\ bridges' = Bridges!Restrict(bridges, DOMAIN bridges \ {b})
        /\ UNCHANGED <<bridgeNow, cleanupAt, requests, granted, secrets, challenges>>
        /\ LastCleanup' = LastCleanup
    BY DEF Bridges!RemoveBridge, LastCleanup
  <1>2. bridgeNow \in Nat /\ bridgeNow <= bridgeNow
    BY DEF BridgesInv, Clock
  <1>3. DOMAIN bridges' \subseteq DOMAIN bridges /\ \A x \in DOMAIN bridges' : bridges'[x] = bridges[x]
    BY <1>1 DEF Bridges!Restrict
  <1>4. Heard'
    BY <1>1, <1>3 DEF BridgesInv, Heard
  <1>5. Clock' /\ Sent'
    BY <1>1 DEF BridgesInv, Clock, Sent
  <1>6. Counted'
    BY <1>1, <1>2, SpacedLater DEF BridgesInv
  <1> QED
    BY <1>4, <1>5, <1>6 DEF BridgesInv

LEMMA TickKeeps == ASSUME BridgesBounds, BridgesInv, Bridges!Tick PROVE BridgesInv'
  <1>1. /\ bridgeNow < MaxBridgeTime /\ bridgeNow < cleanupAt /\ bridgeNow' = bridgeNow + 1
        /\ UNCHANGED <<cleanupAt, bridges, requests, granted, secrets, challenges>>
        /\ LastCleanup' = LastCleanup
    BY DEF Bridges!Tick, LastCleanup
  <1>2. bridgeNow \in Nat /\ LastCleanup \in Nat /\ cleanupAt \in Nat /\ MaxBridgeTime \in Nat
        /\ LastCleanup <= bridgeNow
    BY DEF BridgesInv, Clock, BridgesBounds
  <1>3. Clock'
    BY <1>1, <1>2 DEF Clock
  <1>4. \A t \in 0 .. MaxBridgeTime : t <= bridgeNow => t <= bridgeNow + 1
    BY <1>2
  <1>5. Heard'
    BY <1>1, <1>4 DEF BridgesInv, Heard
  <1>6. Sent'
    BY <1>1 DEF BridgesInv, Sent
  <1>7. bridgeNow' \in Nat /\ bridgeNow <= bridgeNow'
    BY <1>1, <1>2
  <1>8. Counted'
    BY <1>1, <1>7, SpacedLater DEF BridgesInv
  <1> QED
    BY <1>3, <1>5, <1>6, <1>8 DEF BridgesInv

LEMMA CleanupKeeps == ASSUME BridgesBounds, BridgesInv, Bridges!cleanup PROVE BridgesInv'
  <1>1. /\ bridgeNow = cleanupAt /\ cleanupAt' = cleanupAt + Hour
        /\ bridges' = Bridges!Restrict(bridges, Bridges!Kept) /\ requests' = [c \in Clients |-> 0]
        /\ UNCHANGED <<bridgeNow, granted, secrets, challenges>>
    BY DEF Bridges!cleanup
  <1>2. /\ bridgeNow \in Nat /\ LastCleanup \in Nat /\ cleanupAt \in Nat /\ Hour \in Nat \ {0}
        /\ bridgeTimeout \in Nat /\ maxRequestsPerIP \in Nat /\ LastCleanup = cleanupAt - Hour
    BY DEF BridgesInv, Clock, BridgesBounds, LastCleanup
  <1>3. LastCleanup' = bridgeNow /\ bridgeNow = LastCleanup + Hour /\ bridgeNow <= cleanupAt'
    BY <1>1, <1>2 DEF LastCleanup
  <1>4. Clock'
    BY <1>1, <1>2, <1>3 DEF BridgesInv, Clock
  <1>5. DOMAIN bridges' \subseteq Bridges!Kept /\ \A x \in DOMAIN bridges' : bridges'[x] = bridges[x]
    BY <1>1 DEF Bridges!Restrict, Bridges!Kept
  <1>6. ASSUME NEW b \in DOMAIN bridges' PROVE bridgeNow <= bridges[b] + bridgeTimeout /\ b \in DOMAIN bridges
    <2>1. b \in DOMAIN bridges /\ bridgeNow - bridges[b] <= bridgeTimeout
      BY <1>5 DEF Bridges!Kept, Bridges!Online
    <2>2. bridges[b] \in Nat
      BY <2>1 DEF BridgesInv, Heard
    <2> QED
      BY <1>2, <2>1, <2>2
  <1>7. Heard'
    BY <1>1, <1>3, <1>5, <1>6 DEF BridgesInv, Heard
  <1>8. Sent'
    BY <1>1 DEF BridgesInv, Sent
  <1>9. ASSUME NEW c \in Clients PROVE Spaced(granted[c], requests[c])'
    <2> PICK n \in Nat : n = Len(granted[c])
      BY CountOf DEF BridgesInv
    <2> PICK q \in Nat : q = requests[c]
      BY CountOf DEF BridgesInv
    <2>1. /\ q <= maxRequestsPerIP /\ q <= n
          /\ \A i \in 1 .. n : granted[c][i] \in Nat /\ granted[c][i] <= bridgeNow
          /\ \A i \in 1 .. n : i <= n - q => granted[c][i] <= LastCleanup
          /\ \A i, j \in 1 .. n : i <= j => granted[c][i] <= granted[c][j]
          /\ \A i, j \in 1 .. n : j = i + 2 * maxRequestsPerIP => granted[c][i] + Hour <= granted[c][j]
      BY CountOf DEF BridgesInv, Counted, Spaced
    <2>2. \A i \in 1 .. n : i <= (n - 0) - maxRequestsPerIP => i <= n - q
      BY <1>2, <2>1
    <2>3. \A t \in Nat : t <= LastCleanup => t + Hour <= bridgeNow
      BY <1>2, <1>3
    <2>4. \A i \in 1 .. n : i <= (n - 0) - maxRequestsPerIP => granted[c][i] + Hour <= bridgeNow
      BY <2>1, <2>2, <2>3
    <2>5. requests'[c] = 0 /\ 0 <= maxRequestsPerIP /\ 0 <= n
      BY <1>1, <1>2
    <2> QED
      BY <1>1, <1>3, <2>1, <2>4, <2>5 DEF Spaced
  <1>10. requests' \in [Clients -> Nat] /\ granted' = granted
    BY <1>1
  <1> QED
    BY <1>4, <1>7, <1>8, <1>9, <1>10 DEF BridgesInv, Counted

(* A grant: the times are an hour after the grant two counts before it. *)
LEMMA GrantSpaced ==
    ASSUME BridgesBounds, Clock, NEW times \in Seq(0 .. MaxBridgeTime), NEW q \in Nat,
           Spaced(times, q), q < maxRequestsPerIP
    PROVE  Spaced(Append(times, bridgeNow), q + 1)
  <1> PICK max \in Nat : max = maxRequestsPerIP
    BY DEF BridgesBounds
  <1> PICK n \in Nat : n = Len(times)
    OBVIOUS
  <1> PICK last \in Nat : last = LastCleanup
    BY DEF Clock
  <1> PICK more : more = Append(times, bridgeNow)
    OBVIOUS
  <1>0. bridgeNow \in Nat /\ Hour \in Nat /\ last <= bridgeNow /\ q < max
    BY DEF Clock, BridgesBounds
  <1>1. Len(more) = n + 1 /\ more[n + 1] = bridgeNow /\ \A i \in 1 .. n : more[i] = times[i]
    OBVIOUS
  <1>2. \A i \in 1 .. n : times[i] \in Nat
    <2>1. \A S, s : s \in Seq(S) => \A i \in 1 .. Len(s) : s[i] \in S
      OBVIOUS
    <2>2. \A i \in 1 .. n : times[i] \in 0 .. MaxBridgeTime
      BY <2>1
    <2> QED
      BY <2>2
  <1>3. /\ q <= n /\ \A i \in 1 .. n : times[i] <= bridgeNow
        /\ \A i, j \in 1 .. n : i <= j => times[i] <= times[j]
        /\ \A i \in 1 .. n : i <= n - q => times[i] <= last
        /\ \A i \in 1 .. n : i <= (n - q) - max => times[i] + Hour <= last
        /\ \A i, j \in 1 .. n : j = i + 2 * max => times[i] + Hour <= times[j]
    BY DEF Spaced
  <1>4. \A i \in 1 .. n + 1 : i \in 1 .. n \/ i = n + 1
    OBVIOUS
  <1>5. \A i \in 1 .. n + 1 : more[i] \in Nat /\ more[i] <= bridgeNow
    BY <1>0, <1>1, <1>2, <1>3, <1>4
  <1>6. ASSUME NEW i \in 1 .. n + 1, NEW j \in 1 .. n + 1, i <= j PROVE more[i] <= more[j]
    <2>1. CASE j = n + 1
      BY <1>1, <1>5, <2>1
    <2>2. CASE j \in 1 .. n
      <3>1. i \in 1 .. n
        BY <1>6, <2>2
      <3> QED
        BY <1>1, <1>3, <1>6, <2>2, <3>1
    <2> QED
      BY <1>4, <2>1, <2>2
  <1>7. ASSUME NEW i \in 1 .. n + 1, i <= (n + 1) - (q + 1) PROVE more[i] <= last
    <2>1. i \in 1 .. n /\ i <= n - q
      BY <1>7
    <2> QED
      BY <1>1, <1>3, <2>1
  <1>8. ASSUME NEW i \in 1 .. n + 1, i <= ((n + 1) - (q + 1)) - max PROVE more[i] + Hour <= last
    <2>1. i \in 1 .. n /\ i <= (n - q) - max
      BY <1>8
    <2> QED
      BY <1>1, <1>3, <2>1
  <1>9. ASSUME NEW i \in 1 .. n + 1, NEW j \in 1 .. n + 1, j = i + 2 * max PROVE more[i] + Hour <= more[j]
    <2>1. CASE j \in 1 .. n
      <3>1. i \in 1 .. n
        BY <1>9, <2>1
      <3> QED
        BY <1>1, <1>3, <1>9, <2>1, <3>1
    <2>2. CASE j = n + 1
      <3>1. i \in 1 .. n /\ i <= (n - q) - max
        BY <1>0, <1>9, <2>2
      <3>2. times[i] + Hour <= last /\ times[i] \in Nat /\ more[i] = times[i] /\ more[j] = bridgeNow
        BY <1>1, <1>2, <1>3, <2>2, <3>1
      <3>3. \A t, h, a, b \in Nat : t + h <= a /\ a <= b => t + h <= b
        OBVIOUS
      <3> QED
        BY <1>0, <3>2, <3>3
    <2> QED
      BY <1>4, <2>1, <2>2
  <1>10. q + 1 <= max /\ q + 1 <= n + 1
    BY <1>0, <1>3
  <1> QED
    BY <1>1, <1>5, <1>6, <1>7, <1>8, <1>9, <1>10 DEF Spaced

LEMMA LimitKeeps ==
    ASSUME BridgesBounds, Clock, Counted, NEW c \in Clients, Bridges!checkRateLimit(c),
           UNCHANGED <<bridgeNow, cleanupAt>>
    PROVE  Counted'
  <1> PICK q \in Nat : q = requests[c]
    BY CountOf
  <1> PICK times \in Seq(0 .. MaxBridgeTime) : times = granted[c]
    BY CountOf
  <1>1. /\ q < maxRequestsPerIP /\ requests' = [requests EXCEPT ![c] = q + 1]
        /\ granted' = [granted EXCEPT ![c] = Append(times, bridgeNow)]
    BY DEF Bridges!checkRateLimit, Bridges!Within
  <1>2. Spaced(Append(times, bridgeNow), q + 1)
    BY <1>1, GrantSpaced DEF Counted
  <1>3. bridgeNow \in 0 .. MaxBridgeTime
    BY DEF Clock
  <1>4. /\ requests' \in [Clients -> Nat] /\ granted' \in [Clients -> Seq(0 .. MaxBridgeTime)]
        /\ requests'[c] = q + 1 /\ granted'[c] = Append(times, bridgeNow)
        /\ \A d \in Clients : d # c => requests'[d] = requests[d] /\ granted'[d] = granted[d]
    BY <1>1, <1>3 DEF Counted
  <1>5. ASSUME NEW d \in Clients PROVE Spaced(granted[d], requests[d])'
    <2>1. Spaced(granted'[d], requests'[d])
      BY <1>2, <1>4 DEF Counted
    <2> QED
      BY <2>1 DEF Spaced, LastCleanup
  <1> QED
    BY <1>4, <1>5 DEF Counted

LEMMA AskedKeeps ==
    ASSUME BridgesBounds, BridgesInv, NEW c \in Clients, Bridges!GetBridges(c)
    PROVE  BridgesInv'
  <1>1. /\ Bridges!checkRateLimit(c) /\ UNCHANGED <<bridgeNow, cleanupAt, bridges, secrets, challenges>>
        /\ LastCleanup' = LastCleanup
    BY DEF Bridges!GetBridges, LastCleanup
  <1>2. Counted'
    BY <1>1, LimitKeeps DEF BridgesInv
  <1> QED
    BY <1>1, <1>2 DEF BridgesInv, Clock, Heard, Sent

LEMMA SecretKeeps ==
    ASSUME BridgesBounds, BridgesInv, NEW c \in Clients, Bridges!getOrCreateSecret(c)
    PROVE  BridgesInv'
  <1> PICK secret : secret = Bridges!Fresh
    OBVIOUS
  <1>1. /\ UNCHANGED <<bridgeNow, cleanupAt, bridges, requests, granted, challenges>>
        /\ LastCleanup' = LastCleanup /\ c \notin DOMAIN secrets
        /\ secrets' = [x \in DOMAIN secrets \cup {c} |-> IF x = c THEN secret ELSE secrets[x]]
    BY DEF Bridges!getOrCreateSecret, LastCleanup
  <1>2. secret \in Nat
    <2>1. Bridges!Cardinality(challenges) = Cardinality(challenges)
      BY DEF Bridges!Cardinality, Cardinality
    <2>2. Cardinality(challenges) \in Nat
      BY FS_CardinalityType DEF BridgesInv, Sent
    <2> QED
      BY <2>1, <2>2 DEF Bridges!Fresh
  <1>3. Counted'
    <2>1. bridgeNow' \in Nat /\ bridgeNow <= bridgeNow'
      BY <1>1 DEF BridgesInv, Clock
    <2> QED
      BY <1>1, <2>1, SpacedLater DEF BridgesInv
  <1>4. DOMAIN secrets' = DOMAIN secrets \cup {c} /\ secrets'[c] = secret
        /\ \A x \in DOMAIN secrets : secrets'[x] = secrets[x]
    BY <1>1
  <1>5. /\ DOMAIN secrets' \subseteq Clients /\ \A d \in DOMAIN secrets' : secrets'[d] \in Nat
        /\ \A ch \in challenges : ch[1] \in DOMAIN secrets' /\ secrets'[ch[1]] = ch[2]
    BY <1>2, <1>4 DEF BridgesInv, Sent
  <1>6. Sent' /\ Clock' /\ Heard'
    BY <1>1, <1>5 DEF BridgesInv, Sent, Clock, Heard
  <1> QED
    BY <1>3, <1>6 DEF BridgesInv

LEMMA MailedKeeps ==
    ASSUME BridgesBounds, BridgesInv, NEW c \in Clients, Bridges!GetBridgesByEmail(c)
    PROVE  BridgesInv'
  <1> PICK secret : secret = secrets[c]
    OBVIOUS
  <1>1. /\ UNCHANGED <<bridgeNow, cleanupAt, bridges, secrets>> /\ LastCleanup' = LastCleanup
        /\ c \in DOMAIN secrets /\ Bridges!checkRateLimit(c)
        /\ challenges' = challenges \cup {<<c, secret>>}
    BY DEF Bridges!GetBridgesByEmail, LastCleanup
  <1>2. Counted'
    BY <1>1, LimitKeeps DEF BridgesInv
  <1>3. IsFiniteSet(challenges')
    BY <1>1, FS_AddElement DEF BridgesInv, Sent
  <1>4. /\ challenges' \subseteq Clients \X Nat
        /\ \A ch \in challenges' : ch[1] \in DOMAIN secrets /\ secrets[ch[1]] = ch[2]
    BY <1>1 DEF BridgesInv, Sent
  <1>5. Sent' /\ Clock' /\ Heard'
    BY <1>1, <1>3, <1>4 DEF BridgesInv, Sent, Clock, Heard
  <1> QED
    BY <1>2, <1>5 DEF BridgesInv

LEMMA BridgesInvariant ==
    ASSUME BridgesBounds, BridgesInv, [Bridges!Next]_(Bridges!vars) PROVE BridgesInv'
  <1>1. CASE UNCHANGED Bridges!vars
    <2>1. UNCHANGED <<bridgeNow, cleanupAt, bridges, requests, granted, secrets, challenges>>
          /\ LastCleanup' = LastCleanup
      BY <1>1 DEF Bridges!vars, LastCleanup
    <2>2. Counted'
      BY <2>1, SpacedLater DEF BridgesInv, Clock
    <2> QED
      BY <2>1, <2>2 DEF BridgesInv, Clock, Heard, Sent
  <1>2. ASSUME NEW b \in BridgeIds, Bridges!RegisterBridge(b) \/ Bridges!UpdateBridge(b) \/ Bridges!RemoveBridge(b)
        PROVE  BridgesInv'
    BY <1>2, HeardKeeps, RemovedKeeps DEF Bridges!UpdateBridge
  <1>3. ASSUME NEW c \in Clients,
               \/ Bridges!GetBridges(c) \/ Bridges!getOrCreateSecret(c) \/ Bridges!GetBridgesByEmail(c)
        PROVE  BridgesInv'
    BY <1>3, AskedKeeps, SecretKeeps, MailedKeeps
  <1> QED
    BY <1>1, <1>2, <1>3, CleanupKeeps, TickKeeps DEF Bridges!Next

(* The grants of a window are at most two counts: the earliest and what comes two counts
   after it do not fall in one hour. *)
LEMMA BurstsBounded == ASSUME BridgesBounds, BridgesInv PROVE Bridges!BurstBounded
  <1> SUFFICES ASSUME NEW c \in Clients, NEW t \in 0 .. MaxBridgeTime
               PROVE  Cardinality({i \in DOMAIN granted[c] : t <= granted[c][i] /\ granted[c][i] < t + Hour})
                        <= 2 * maxRequestsPerIP
    <2>1. \A S : Bridges!Cardinality(S) = Cardinality(S)
      BY DEF Bridges!Cardinality, Cardinality
    <2> QED
      BY <2>1 DEF Bridges!BurstBounded
  <1> PICK W : W = {i \in DOMAIN granted[c] : t <= granted[c][i] /\ granted[c][i] < t + Hour}
    OBVIOUS
  <1> PICK n \in Nat : n = Len(granted[c])
    BY CountOf DEF BridgesInv
  <1> PICK two \in Nat : two = 2 * maxRequestsPerIP
    BY DEF BridgesBounds
  <1>1. DOMAIN granted[c] = 1 .. n /\ \A i \in 1 .. n : granted[c][i] \in Nat
    BY CountOf DEF BridgesInv
  <1>2. /\ \A i, j \in 1 .. n : i <= j => granted[c][i] <= granted[c][j]
        /\ \A i, j \in 1 .. n : j = i + two => granted[c][i] + Hour <= granted[c][j]
    BY DEF BridgesInv, Counted, Spaced
  <1>3. W \subseteq 1 .. n /\ t \in Nat /\ Hour \in Nat
    BY <1>1 DEF BridgesBounds
  <1>4. CASE W = {}
    <2>1. Cardinality({}) = 0
      BY FS_EmptySet
    <2>2. Cardinality(W) = 0
      BY <1>4, <2>1, Zenon
    <2>3. 0 <= two
      OBVIOUS
    <2>4. Cardinality(W) <= two
      BY <2>2, <2>3
    <2> QED
      BY <2>4
  <1>5. CASE W # {}
    <2>1. W \in SUBSET Nat
      BY <1>3
    <2>2. PICK first \in W : \A i \in W : first <= i
      BY <1>5, <2>1, LeastElement
    <2>3. ASSUME NEW i \in W PROVE i \in first .. first + two - 1
      <3>1. i \in 1 .. n /\ first \in 1 .. n /\ first <= i
        BY <1>3, <2>2
      <3>2. CASE i < first + two
        BY <3>1, <3>2
      <3>3. CASE ~ (i < first + two)
        <4>1. first + two \in 1 .. n /\ first + two <= i
          BY <3>1, <3>3
        <4>2. granted[c][first] + Hour <= granted[c][first + two] /\ granted[c][first + two] <= granted[c][i]
          BY <1>2, <3>1, <4>1
        <4>3. t <= granted[c][first] /\ granted[c][i] < t + Hour
          BY <2>2, <2>3
        <4>4. \A a, b, d \in Nat : ~ (t <= a /\ a + Hour <= b /\ b <= d /\ d < t + Hour)
          BY <1>3
        <4> QED
          BY <1>1, <3>1, <4>1, <4>2, <4>3, <4>4
      <3> QED
        BY <3>2, <3>3
    <2>4. first \in Nat /\ first \in Int /\ first + two - 1 \in Int
          /\ (IF first > first + two - 1 THEN 0 ELSE (first + two - 1) - first + 1) = two
      BY <1>3, <2>2
    <2>5. IsFiniteSet(first .. first + two - 1) /\ Cardinality(first .. first + two - 1) = two
      BY <2>4, FS_Interval
    <2>6. W \subseteq first .. first + two - 1
      BY <2>3
    <2> QED
      BY <2>5, <2>6, FS_Subset
  <1> QED
    BY <1>4, <1>5

LEMMA BridgesImply ==
    ASSUME BridgesBounds, BridgesInv
    PROVE  Bridges!TypeOK /\ Bridges!BurstBounded /\ Bridges!SilentBridgesGo /\ Bridges!ChallengesVerify
  <1>1. Bridges!ChallengesVerify
    BY DEF BridgesInv, Sent, Bridges!ChallengesVerify
  <1>2. Bridges!SilentBridgesGo
    <2> SUFFICES ASSUME NEW b \in DOMAIN bridges PROVE bridgeNow - bridges[b] <= bridgeTimeout + Hour
      BY DEF Bridges!SilentBridgesGo
    <2>1. bridges[b] \in Nat /\ LastCleanup <= bridges[b] + bridgeTimeout
      BY DEF BridgesInv, Heard
    <2>2. /\ bridgeNow \in Nat /\ LastCleanup \in Nat /\ bridgeNow <= cleanupAt /\ cleanupAt \in Nat
          /\ LastCleanup = cleanupAt - Hour /\ Hour \in Nat /\ bridgeTimeout \in Nat
      BY DEF BridgesInv, Clock, LastCleanup, BridgesBounds
    <2> QED
      BY <2>1, <2>2
  <1>3. requests \in [Clients -> 0 .. maxRequestsPerIP]
    <2>1. \A c \in Clients : requests[c] \in Nat /\ requests[c] <= maxRequestsPerIP
      BY DEF BridgesInv, Counted, Spaced
    <2>2. \A c \in Clients : requests[c] \in 0 .. maxRequestsPerIP
      BY <2>1 DEF BridgesBounds
    <2> QED
      BY <2>2 DEF BridgesInv, Counted
  <1>4. Bridges!Range(bridges) \subseteq 0 .. MaxBridgeTime /\ DOMAIN bridges \subseteq BridgeIds
    BY DEF BridgesInv, Heard, Bridges!Range
  <1>5. Bridges!Range(secrets) \subseteq Nat
    BY DEF BridgesInv, Sent, Bridges!Range
  <1>6. Bridges!TypeOK
    BY <1>3, <1>4, <1>5 DEF BridgesInv, Clock, Counted, Sent, Bridges!TypeOK
  <1> QED
    BY <1>1, <1>2, <1>6, BurstsBounded

(* No client gets more than two counts' worth of bridges in an hour, whenever the ticker
   fires; a silent bridge leaves within an hour of its timeout; and a challenge stays
   verifiable (checkRateLimit, cleanup and GetBridgesByEmail of discovery.go). *)
THEOREM BurstsStayBounded == ASSUME BridgesBounds PROVE
    Bridges!Spec => [](Bridges!BurstBounded /\ Bridges!SilentBridgesGo /\ Bridges!ChallengesVerify)
  <1>1. Bridges!Init => BridgesInv
    BY BridgesStart
  <1>2. BridgesInv /\ [Bridges!Next]_(Bridges!vars) => BridgesInv'
    BY BridgesInvariant
  <1>3. BridgesInv => Bridges!BurstBounded /\ Bridges!SilentBridgesGo /\ Bridges!ChallengesVerify
    BY BridgesImply
  <1> QED
    BY <1>1, <1>2, <1>3, PTL DEF Bridges!Spec

-----------------------------------------------------------------------------
(* The Noise handshake: what the states of both ends are lists of, so that equal keys come
   of equal exchanges. *)

HandshakeBounds ==
    /\ MaxAttempts \in Nat /\ MaxReplies \in Nat
    /\ KeepAlives \subseteq Nat /\ SuiteLists \subseteq Seq(Handshake!Suites)

Listed(s) == \E T : s \in Seq(T)

LEMMA EmptyListed == Listed(<<>>) /\ Len(<<>>) = 0
  <1>1. <<>> \in Seq({}) /\ Len(<<>>) = 0
    OBVIOUS
  <1> QED
    BY <1>1 DEF Listed

LEMMA ListedElements ==
    ASSUME NEW s, Listed(s) PROVE Len(s) \in Nat /\ DOMAIN s = 1 .. Len(s)
  BY DEF Listed

LEMMA AppendListed ==
    ASSUME NEW s, NEW x, Listed(s)
    PROVE  /\ Listed(Append(s, x)) /\ Len(Append(s, x)) = Len(s) + 1 /\ Append(s, x)[Len(s) + 1] = x
           /\ DOMAIN Append(s, x) = 1 .. Len(s) + 1
           /\ \A i \in 1 .. Len(s) : Append(s, x)[i] = s[i]
  <1> PICK T : s \in Seq(T)
    BY DEF Listed
  <1> PICK U : U = T \cup {x}
    OBVIOUS
  <1>1. s \in Seq(U) /\ x \in U
    OBVIOUS
  <1>2. Append(s, x) \in Seq(U) /\ Len(Append(s, x)) = Len(s) + 1 /\ Append(s, x)[Len(s) + 1] = x
        /\ \A i \in 1 .. Len(s) : Append(s, x)[i] = s[i]
    BY <1>1
  <1> QED
    BY <1>2 DEF Listed

LEMMA ListedEqual ==
    ASSUME NEW s, NEW t, Listed(s), Listed(t), Len(s) = Len(t), \A i \in 1 .. Len(s) : s[i] = t[i]
    PROVE  s = t
  <1>1. PICK T : s \in Seq(T)
    BY DEF Listed
  <1>2. PICK U : t \in Seq(U)
    BY DEF Listed
  <1>3. s \in Seq(T \cup U) /\ t \in Seq(T \cup U)
    BY <1>1, <1>2
  <1> QED
    BY <1>3, SeqEqual

LEMMA AppendSameLength ==
    ASSUME NEW s, NEW t, NEW x, NEW y, Listed(s), Listed(t), Append(s, x) = Append(t, y)
    PROVE  Len(s) = Len(t)
  <1>1. Len(Append(s, x)) = Len(s) + 1
    BY AppendListed
  <1>2. Len(Append(t, y)) = Len(t) + 1
    BY AppendListed
  <1> QED
    BY <1>1, <1>2, ListedElements

LEMMA AppendApart ==
    ASSUME NEW s, NEW t, NEW x, NEW y, Listed(s), Listed(t), Append(s, x) = Append(t, y)
    PROVE  s = t /\ x = y
  <1>1. Len(s) = Len(t)
    BY AppendSameLength
  <1>2. x = y
    BY <1>1, AppendListed
  <1>3. s = t
    <2>1. \A i \in 1 .. Len(s) : s[i] = t[i]
      BY <1>1, AppendListed
    <2> QED
      BY <1>1, <2>1, ListedEqual
  <1> QED
    BY <1>2, <1>3

LEMMA ExceptListed ==
    ASSUME NEW s, Listed(s), NEW k \in 1 .. Len(s), NEW x
    PROVE  /\ Listed([s EXCEPT ![k] = x]) /\ Len([s EXCEPT ![k] = x]) = Len(s)
           /\ DOMAIN [s EXCEPT ![k] = x] = 1 .. Len(s)
           /\ [s EXCEPT ![k] = x][k] = x
           /\ \A i \in 1 .. Len(s) : i # k => [s EXCEPT ![k] = x][i] = s[i]
  <1> PICK T : s \in Seq(T)
    BY DEF Listed
  <1> PICK U : U = T \cup {x}
    OBVIOUS
  <1>1. s \in Seq(U) /\ x \in U
    OBVIOUS
  <1>2. [s EXCEPT ![k] = x] \in Seq(U) /\ Len([s EXCEPT ![k] = x]) = Len(s)
    BY <1>1
  <1> QED
    BY <1>2 DEF Listed

-----------------------------------------------------------------------------
\* a symmetric state by its two lists
State(chain, hash) == [chain |-> chain, hash |-> hash]

LEMMA MixedHash ==
    ASSUME NEW c, NEW h, NEW x PROVE Handshake!MixHash(State(c, h), x) = State(c, Append(h, x))
  <1>1. Handshake!MixHash(State(c, h), x) = [State(c, h) EXCEPT !.hash = Append(State(c, h).hash, x)]
    BY DEF Handshake!MixHash
  <1>2. State(c, h).hash = h /\ \A y : [State(c, h) EXCEPT !.hash = y] = State(c, y)
    BY DEF State
  <1> QED
    BY <1>1, <1>2

LEMMA MixedKey ==
    ASSUME NEW c, NEW h, NEW x PROVE Handshake!MixKey(State(c, h), x) = State(Append(c, x), h)
  <1>1. Handshake!MixKey(State(c, h), x) = [State(c, h) EXCEPT !.chain = Append(State(c, h).chain, x)]
    BY DEF Handshake!MixKey
  <1>2. State(c, h).chain = c /\ \A y : [State(c, h) EXCEPT !.chain = y] = State(y, h)
    BY DEF State
  <1> QED
    BY <1>1, <1>2

LEMMA MixedBoth ==
    ASSUME NEW c, NEW h, NEW x
    PROVE  Handshake!MixKeyAndHash(State(c, h), x) = State(Append(c, x), Append(h, x))
  BY MixedHash, MixedKey DEF Handshake!MixKeyAndHash

LEMMA StateInjective ==
    ASSUME NEW c, NEW h, NEW d, NEW g, State(c, h) = State(d, g) PROVE c = d /\ h = g
  <1>1. State(c, h).chain = c /\ State(c, h).hash = h /\ State(d, g).chain = d /\ State(d, g).hash = g
    BY DEF State
  <1> QED
    BY <1>1

\* the hash before the static key is sealed, and before the parameters are
Hash1(r, e, psk) == Append(Append(Append(<<>>, r), e), psk)
Chain1(r, e, psk) == Append(Append(<<>>, Handshake!DH(e, r)), psk)

LEMMA FirstState ==
    ASSUME NEW r, NEW e, NEW psk
    PROVE  /\ Handshake!BeforeStatic(r, e, psk) = State(Chain1(r, e, psk), Hash1(r, e, psk))
           /\ Listed(Chain1(r, e, psk)) /\ Listed(Hash1(r, e, psk))
  <1>5. Handshake!BeforeStatic(r, e, psk) = State(Chain1(r, e, psk), Hash1(r, e, psk))
    <2>0. PICK nil : nil = <<>>
      OBVIOUS
    <2>1. PICK hs0 : hs0 = Handshake!Symmetric
      OBVIOUS
    <2>2. PICK hs1 : hs1 = Handshake!MixHash(hs0, r)
      OBVIOUS
    <2>3. PICK hs2 : hs2 = Handshake!MixHash(hs1, e)
      OBVIOUS
    <2>4. PICK hs3 : hs3 = Handshake!MixKey(hs2, Handshake!DH(e, r))
      OBVIOUS
    <2>5. hs0 = State(nil, nil)
      BY <2>0, <2>1 DEF Handshake!Symmetric, State
    <2>6. hs1 = State(nil, Append(nil, r))
      <3>1. Handshake!MixHash(State(nil, nil), r) = State(nil, Append(nil, r))
        BY MixedHash, MixedKey, MixedBoth
      <3> QED
        BY <2>2, <2>5, <3>1
    <2>7. hs2 = State(nil, Append(Append(nil, r), e))
      <3>1. Handshake!MixHash(State(nil, Append(nil, r)), e) = State(nil, Append(Append(nil, r), e))
        BY MixedHash, MixedKey, MixedBoth
      <3> QED
        BY <2>3, <2>6, <3>1
    <2>8. hs3 = State(Append(nil, Handshake!DH(e, r)), Append(Append(nil, r), e))
      <3>1. Handshake!MixKey(State(nil, Append(Append(nil, r), e)), Handshake!DH(e, r)) = State(Append(nil, Handshake!DH(e, r)), Append(Append(nil, r), e))
        BY MixedHash, MixedKey, MixedBoth
      <3> QED
        BY <2>4, <2>7, <3>1
    <2>9. Handshake!BeforeStatic(r, e, psk) = Handshake!MixKeyAndHash(hs3, psk)
      BY <2>1, <2>2, <2>3, <2>4 DEF Handshake!BeforeStatic
    <2>10. Handshake!BeforeStatic(r, e, psk)
             = State(Append(Append(nil, Handshake!DH(e, r)), psk), Append(Append(Append(nil, r), e), psk))
      <3>1. Handshake!MixKeyAndHash(State(Append(nil, Handshake!DH(e, r)), Append(Append(nil, r), e)), psk)
              = State(Append(Append(nil, Handshake!DH(e, r)), psk), Append(Append(Append(nil, r), e), psk))
        BY MixedHash, MixedKey, MixedBoth
      <3> QED
        BY <2>8, <2>9, <3>1
    <2> QED
      BY <2>0, <2>10 DEF Chain1, Hash1
  <1>6. Listed(Append(<<>>, r)) /\ Listed(Append(<<>>, Handshake!DH(e, r)))
    BY EmptyListed, AppendListed
  <1>7. Listed(Append(Append(<<>>, r), e))
    BY <1>6, AppendListed
  <1> QED
    BY <1>5, <1>6, <1>7, AppendListed DEF Chain1, Hash1

(* The client's static key opens only under the responder's key and the PSK that it was
   sealed for. *)
LEMMA OpensForCause ==
    ASSUME NEW r, NEW e, NEW psk, NEW r2, NEW e2, NEW psk2,
           Handshake!BeforeStatic(r, e, psk) = Handshake!BeforeStatic(r2, e2, psk2)
    PROVE  r = r2 /\ e = e2 /\ psk = psk2
  <1>1. Hash1(r, e, psk) = Hash1(r2, e2, psk2)
    BY FirstState, StateInjective
  <1>2. Listed(<<>>) /\ Listed(Append(<<>>, r)) /\ Listed(Append(<<>>, r2))
    BY EmptyListed, AppendListed
  <1>3. Listed(Append(Append(<<>>, r), e)) /\ Listed(Append(Append(<<>>, r2), e2))
    BY <1>2, AppendListed
  <1>4. Append(Append(<<>>, r), e) = Append(Append(<<>>, r2), e2) /\ psk = psk2
    BY <1>1, <1>3, AppendApart DEF Hash1
  <1>5. Append(<<>>, r) = Append(<<>>, r2) /\ e = e2
    BY <1>2, <1>4, AppendApart
  <1> QED
    BY <1>2, <1>4, <1>5, AppendApart

-----------------------------------------------------------------------------
\* the exchange of the client's attempt k with the server's answer n, as the server sees it
Client(k) == Handshake!Ephemeral("client", k)
Server(n) == Handshake!Ephemeral("server", n)
Ended(k) == Handshake!AfterMessage1(Handshake!Static("server"), Client(k), Handshake!ServerPsk,
                                   Handshake!Static("client"))
Sealed(k, n) == Handshake!BeforeParams(Ended(k), Client(k), Handshake!Static("client"), Server(n),
                                       Handshake!ServerPsk)
Answer == [keepAlive |-> Handshake!Params.keepAlive % Handshake!Range16]

\* c and h are what Sealed(k, n) is made of; d is the chain before the static key
SealedIn(k, n, c, h, d) ==
    /\ Handshake!BeforeStatic(Handshake!Static("server"), Client(k), Handshake!ServerPsk) = State(d, h)
    /\ Listed(c) /\ Listed(h)
    /\ Sealed(k, n)
         = State(c, Append(Append(Append(h, Handshake!Encrypt(State(d, h), Handshake!Static("client"))),
                                  Server(n)), Handshake!ServerPsk))

LEMMA SealedStates == ASSUME NEW k, NEW n PROVE \E c, h, d : SealedIn(k, n, c, h, d)
  <1> PICK d, h : /\ Handshake!BeforeStatic(Handshake!Static("server"), Client(k), Handshake!ServerPsk)
                       = State(d, h)
                  /\ Listed(d) /\ Listed(h)
    BY FirstState
  <1> PICK x : x = Handshake!Encrypt(State(d, h), Handshake!Static("client"))
    OBVIOUS
  <1> PICK d2 : d2 = Append(d, Handshake!DH(Handshake!Static("client"), Handshake!Static("server")))
    OBVIOUS
  <1>1. Ended(k) = State(d2, Append(h, x)) /\ Listed(d2)
    <2>1. Handshake!MixHash(State(d, h), x) = State(d, Append(h, x))
      BY MixedHash, MixedKey
    <2>2. Handshake!MixKey(State(d, Append(h, x)), Handshake!DH(Handshake!Static("client"), Handshake!Static("server")))
            = State(d2, Append(h, x))
      BY MixedHash, MixedKey
    <2> QED
      BY <2>1, <2>2, AppendListed DEF Ended, Handshake!AfterMessage1
  <1> PICK a, b : a = Handshake!DH(Client(k), Server(n)) /\ b = Handshake!DH(Handshake!Static("client"), Server(n))
    OBVIOUS
  <1> PICK c1 : c1 = Append(d2, a)
    OBVIOUS
  <1> PICK c2 : c2 = Append(c1, b)
    OBVIOUS
  <1> PICK c : c = Append(c2, Handshake!ServerPsk)
    OBVIOUS
  <1>2. Listed(c1)
    BY <1>1, AppendListed
  <1>3. Listed(c2)
    BY <1>2, AppendListed
  <1>4. Listed(c)
    BY <1>3, AppendListed
  <1> PICK h2 : h2 = Append(Append(h, x), Server(n))
    OBVIOUS
  <1>5. Handshake!MixHash(Ended(k), Server(n)) = State(d2, h2)
    BY <1>1, MixedHash, MixedKey
  <1>6. Handshake!MixKey(Handshake!MixHash(Ended(k), Server(n)), a) = State(c1, h2)
    BY <1>5, MixedHash, MixedKey
  <1>7. Handshake!MixKey(Handshake!MixKey(Handshake!MixHash(Ended(k), Server(n)), a), b) = State(c2, h2)
    BY <1>6, MixedHash, MixedKey
  <1>8. Sealed(k, n) = State(c, Append(h2, Handshake!ServerPsk))
    BY <1>7, MixedHash, MixedKey, MixedBoth DEF Sealed, Handshake!BeforeParams
  <1> QED
    BY <1>4, <1>8 DEF SealedIn

(* Parameters that were sealed in one exchange open in no other. *)
LEMMA SealedInjective ==
    ASSUME NEW k \in Nat, NEW n \in Nat, NEW k2 \in Nat, NEW n2 \in Nat, Sealed(k, n) = Sealed(k2, n2)
    PROVE  k = k2 /\ n = n2
  <1> PICK c, h, d : SealedIn(k, n, c, h, d)
    BY SealedStates
  <1> PICK c2, h2, d2 : SealedIn(k2, n2, c2, h2, d2)
    BY SealedStates
  <1> PICK x, x2 : /\ x = Handshake!Encrypt(State(d, h), Handshake!Static("client"))
                   /\ x2 = Handshake!Encrypt(State(d2, h2), Handshake!Static("client"))
    OBVIOUS
  <1> PICK psk : psk = Handshake!ServerPsk
    OBVIOUS
  <1>0. /\ Listed(h) /\ Listed(h2)
        /\ Handshake!BeforeStatic(Handshake!Static("server"), Client(k), psk) = State(d, h)
        /\ Handshake!BeforeStatic(Handshake!Static("server"), Client(k2), psk) = State(d2, h2)
    BY DEF SealedIn
  <1>1. Append(Append(Append(h, x), Server(n)), psk) = Append(Append(Append(h2, x2), Server(n2)), psk)
    <2>1. PICK l : l = Append(Append(Append(h, x), Server(n)), psk)
      OBVIOUS
    <2>2. PICK l2 : l2 = Append(Append(Append(h2, x2), Server(n2)), psk)
      OBVIOUS
    <2>3. Sealed(k, n) = State(c, l) /\ Sealed(k2, n2) = State(c2, l2)
      BY <2>1, <2>2 DEF SealedIn
    <2>4. l = l2
      BY <2>3, StateInjective, Zenon
    <2> QED
      BY <2>1, <2>2, <2>4
  <1>2. Listed(Append(h, x)) /\ Listed(Append(h2, x2))
    BY <1>0, AppendListed
  <1>3. Listed(Append(Append(h, x), Server(n))) /\ Listed(Append(Append(h2, x2), Server(n2)))
    BY <1>2, AppendListed
  <1>4. Append(Append(h, x), Server(n)) = Append(Append(h2, x2), Server(n2))
    BY <1>1, <1>3, AppendApart
  <1>5. Append(h, x) = Append(h2, x2) /\ Server(n) = Server(n2)
    BY <1>2, <1>4, AppendApart
  <1>6. x = x2
    BY <1>0, <1>5, AppendApart
  <1>7. x.under = State(d, h) /\ x2.under = State(d2, h2)
    BY DEF Handshake!Encrypt
  <1>8. Client(k) = Client(k2)
    BY <1>0, <1>6, <1>7, OpensForCause
  <1>9. \A i, j : Client(i) = <<"client", i>> /\ Server(j) = <<"server", j>>
    BY DEF Client, Server, Handshake!Ephemeral
  <1> QED
    BY <1>5, <1>8, <1>9

-----------------------------------------------------------------------------
(* The first messages and the answers on the network, and the two ends' results. *)
Initiation(k) ==
    [type |-> "initiation", minVersion |-> options.minVersion, session |-> k,
     suites |-> options.suites, e |-> Client(k),
     static |-> Handshake!Encrypt(Handshake!BeforeStatic(Handshake!RemoteStatic, Client(k), Handshake!ClientPsk),
                                  Handshake!Static("client"))]

TheSuite == Handshake!FirstMatch(options.suites, options.supported)

Response(k, n) ==
    [type |-> "response", to |-> k, version |-> 2, suite |-> TheSuite, e |-> Server(n),
     params |-> Handshake!Encrypt(Sealed(k, n), Answer)]

Served(k, n) ==
    [session |-> k, peer |-> Handshake!Static("client"), suite |-> TheSuite, version |-> 2,
     keepAlive |-> Handshake!Params.keepAlive,
     keys |-> Handshake!SplitKeys(Handshake!AfterMessage2(Sealed(k, n), Answer), "server")]

Done(k, n) ==
    [n |-> k, phase |-> "done",
     result |-> [suite |-> TheSuite, version |-> 2, peer |-> Handshake!Static("server"),
                 keepAlive |-> Answer.keepAlive,
                 keys |-> Handshake!SplitKeys(Handshake!AfterMessage2(Sealed(k, n), Answer), "client")]]

\* what a server that answered knows of the options
Matched == options.knowsServer /\ options.samePsk /\ options.minVersion <= 2

OptionsTyped ==
    options \in [samePsk : BOOLEAN, knowsServer : BOOLEAN, minVersion : Handshake!Versions,
                 suites : SuiteLists, supported : SuiteLists,
                 keepAlive : KeepAlives, maxPadding : Paddings]

OnNetwork(m) ==
    \/ \E k \in Nat : m = Initiation(k)
    \/ \E k, n \in Nat : n \in 1 .. Len(server) /\ m = Response(k, n) /\ server[n] = Served(k, n)

Tried(k, a) ==
    /\ a.phase \in {"waiting", "failed", "crashed", "done"}
    /\ a.phase = "waiting" => a = Handshake!Attempt(k)
    /\ a.phase = "failed" => k \in tolerated
    /\ a.phase = "done" =>
          \E n \in Nat : n \in 1 .. Len(server) /\ a = Done(k, n) /\ server[n] = Served(k, n)

HandshakeInv ==
    /\ OptionsTyped
    /\ Listed(client) /\ Len(client) <= MaxAttempts
    /\ Listed(server) /\ Len(server) <= MaxReplies
    /\ tolerated \subseteq 1 .. Len(client)
    /\ \A m \in network : OnNetwork(m)
    /\ \A n \in 1 .. Len(server) : Matched /\ \E k \in Nat : server[n] = Served(k, n)
    /\ \A k \in 1 .. Len(client) : Tried(k, client[k])

LEMMA HandshakeStarts == ASSUME HandshakeBounds, Handshake!Init PROVE HandshakeInv
  <1>1. /\ OptionsTyped /\ network = {} /\ client = <<>> /\ server = <<>> /\ tolerated = {}
    BY DEF Handshake!Init, OptionsTyped
  <1>2. Listed(client) /\ Listed(server) /\ Len(client) = 0 /\ Len(server) = 0 /\ 1 .. 0 = {}
    BY <1>1, EmptyListed
  <1>3. 0 <= MaxAttempts /\ 0 <= MaxReplies
    BY DEF HandshakeBounds
  <1> QED
    BY <1>1, <1>2, <1>3 DEF HandshakeInv

\* the options never change, nor does what is made of them
LEMMA OptionsStay ==
    ASSUME UNCHANGED options
    PROVE  /\ \A k : Initiation(k)' = Initiation(k)
           /\ \A k, n : Response(k, n)' = Response(k, n)
           /\ \A k, n : Served(k, n)' = Served(k, n)
           /\ \A k, n : Done(k, n)' = Done(k, n)
           /\ Matched' = Matched /\ OptionsTyped' = OptionsTyped
  <1>1. /\ Handshake!RemoteStatic' = Handshake!RemoteStatic /\ Handshake!ClientPsk' = Handshake!ClientPsk
        /\ Handshake!ServerPsk' = Handshake!ServerPsk /\ Handshake!Params' = Handshake!Params
        /\ TheSuite' = TheSuite
    BY DEF Handshake!RemoteStatic, Handshake!ClientPsk, Handshake!ServerPsk, Handshake!Params, TheSuite
  <1>2. Answer' = Answer /\ \A k, n : Sealed(k, n)' = Sealed(k, n)
    BY <1>1 DEF Answer, Sealed, Ended
  <1>3. \A k : Initiation(k)' = Initiation(k)
    BY <1>1 DEF Initiation
  <1>4. \A k, n : Response(k, n)' = Response(k, n)
    BY <1>1, <1>2 DEF Response
  <1>5. \A k, n : Served(k, n)' = Served(k, n)
    BY <1>1, <1>2 DEF Served
  <1>6. \A k, n : Done(k, n)' = Done(k, n)
    BY <1>1, <1>2 DEF Done
  <1>7. Matched' = Matched /\ OptionsTyped' = OptionsTyped
    BY DEF Matched, OptionsTyped
  <1> QED
    BY <1>3, <1>4, <1>5, <1>6, <1>7

(* The suite that the client takes is the one the server chose: it is in the client's
   list, or it is the one that both fall back to. *)
LEMMA SameSuite ==
    ASSUME HandshakeBounds, OptionsTyped
    PROVE  /\ TheSuite \in Handshake!Suites
           /\ Handshake!FirstMatch(<<TheSuite>>, options.suites) = TheSuite
  <1> PICK list, others : list = options.suites /\ others = options.supported
    OBVIOUS
  <1>1. list \in Seq(Handshake!Suites) /\ others \in Seq(Handshake!Suites)
    BY DEF OptionsTyped, HandshakeBounds
  <1>2. PICK common : common = {i \in DOMAIN list : \E j \in DOMAIN others : others[j] = list[i]}
    OBVIOUS
  <1>3. TheSuite = IF common = {} THEN "chacha20" ELSE list[CHOOSE i \in common : \A j \in common : i <= j]
    BY <1>2 DEF TheSuite, Handshake!FirstMatch
  <1>4. CASE common = {}
    <2>1. TheSuite = "chacha20"
      BY <1>3, <1>4
    <2>2. PICK again : again = {i \in DOMAIN <<"chacha20">> : \E j \in DOMAIN list : list[j] = <<"chacha20">>[i]}
      OBVIOUS
    <2>3. Handshake!FirstMatch(<<"chacha20">>, list)
            = IF again = {} THEN "chacha20" ELSE <<"chacha20">>[CHOOSE i \in again : \A j \in again : i <= j]
      BY <2>2 DEF Handshake!FirstMatch
    <2>4. again = {} \/ again = {1}
      BY <2>2
    <2>5. (CHOOSE i \in {1} : \A j \in {1} : i <= j) = 1
      OBVIOUS
    <2>6. Handshake!FirstMatch(<<"chacha20">>, list) = "chacha20"
      BY <2>3, <2>4, <2>5
    <2> QED
      BY <2>1, <2>6 DEF Handshake!Suites
  <1>5. CASE common # {}
    <2>1. common \in SUBSET Nat
      BY <1>1, <1>2
    <2>2. PICK k : k = CHOOSE i \in common : \A j \in common : i <= j
      OBVIOUS
    <2>3. k \in common
      BY <1>5, <2>1, <2>2, LeastElement
    <2>4. TheSuite = list[k] /\ k \in DOMAIN list
      BY <1>2, <1>3, <1>5, <2>2, <2>3
    <2>5. TheSuite \in Handshake!Suites
      BY <1>1, <2>4
    <2>6. PICK s : s = TheSuite
      OBVIOUS
    <2>7. PICK again : again = {i \in DOMAIN <<s>> : \E j \in DOMAIN list : list[j] = <<s>>[i]}
      OBVIOUS
    <2>8. again = {1}
      BY <2>4, <2>6, <2>7
    <2>9. Handshake!FirstMatch(<<s>>, list)
            = IF again = {} THEN "chacha20" ELSE <<s>>[CHOOSE i \in again : \A j \in again : i <= j]
      BY <2>7 DEF Handshake!FirstMatch
    <2>10. (CHOOSE i \in {1} : \A j \in {1} : i <= j) = 1
      OBVIOUS
    <2>11. Handshake!FirstMatch(<<s>>, list) = s
      BY <2>8, <2>9, <2>10
    <2> QED
      BY <2>5, <2>6, <2>11
  <1> QED
    BY <1>4, <1>5

\* what is on the network, or was tried, stays so as answers are added
LEMMA ServerGrows ==
    ASSUME UNCHANGED options, Listed(server), Listed(server'), Len(server) <= Len(server'),
           \A n \in 1 .. Len(server) : server'[n] = server[n]
    PROVE  /\ \A m : OnNetwork(m) => OnNetwork(m)'
           /\ \A k, a : Tried(k, a) /\ (k \in tolerated' \/ a.phase # "failed") => Tried(k, a)'
  <1>1. \A n \in 1 .. Len(server) : n \in 1 .. Len(server') /\ server'[n] = server[n]
    BY ListedElements
  <1>2. ASSUME NEW m, OnNetwork(m) PROVE OnNetwork(m)'
    <2>1. CASE \E k \in Nat : m = Initiation(k)
      BY <2>1, OptionsStay DEF OnNetwork
    <2>2. CASE \E k, n \in Nat : n \in 1 .. Len(server) /\ m = Response(k, n) /\ server[n] = Served(k, n)
      <3> PICK k \in Nat, n \in Nat : n \in 1 .. Len(server) /\ m = Response(k, n) /\ server[n] = Served(k, n)
        BY <2>2
      <3>1. n \in 1 .. Len(server') /\ m = Response(k, n)' /\ server'[n] = Served(k, n)'
        BY <1>1, OptionsStay
      <3> QED
        BY <3>1 DEF OnNetwork
    <2> QED
      BY <1>2, <2>1, <2>2 DEF OnNetwork
  <1>3. ASSUME NEW k, NEW a, Tried(k, a), k \in tolerated' \/ a.phase # "failed" PROVE Tried(k, a)'
    <2>1. CASE a.phase = "done"
      <3> PICK n \in Nat : n \in 1 .. Len(server) /\ a = Done(k, n) /\ server[n] = Served(k, n)
        BY <1>3, <2>1 DEF Tried
      <3>1. n \in 1 .. Len(server') /\ a = Done(k, n)' /\ server'[n] = Served(k, n)'
        BY <1>1, OptionsStay
      <3> QED
        BY <1>3, <2>1, <3>1 DEF Tried
    <2>2. CASE a.phase # "done"
      BY <1>3, <2>2 DEF Tried
    <2> QED
      BY <2>1, <2>2
  <1> QED
    BY <1>2, <1>3

LEMMA InitiateKeeps == ASSUME HandshakeBounds, HandshakeInv, Handshake!Initiate PROVE HandshakeInv'
  <1> PICK k : k = Len(client) + 1
    OBVIOUS
  <1> PICK new : new = IF Handshake!Divides(options.maxPadding) THEN Handshake!Attempt(k)
                       ELSE [Handshake!Attempt(k) EXCEPT !.phase = "crashed"]
    OBVIOUS
  <1>1. /\ k <= MaxAttempts /\ client' = Append(client, new)
        /\ network' \subseteq network \cup {Initiation(k)}
        /\ UNCHANGED <<options, server, tolerated>>
    BY DEF Handshake!Initiate, Initiation, Client
  <1>2. Listed(client) /\ Len(client) \in Nat /\ k \in Nat
    BY ListedElements DEF HandshakeInv
  <1>3. /\ Listed(client') /\ Len(client') = k /\ client'[k] = new
        /\ \A i \in 1 .. Len(client) : client'[i] = client[i]
    BY <1>1, <1>2, AppendListed
  <1>4. \A i \in 1 .. Len(client') : i \in 1 .. Len(client) \/ i = k
    BY <1>2, <1>3
  <1>5. Listed(server) /\ Len(server) \in Nat /\ Len(server) <= Len(server')
    BY <1>1, ListedElements DEF HandshakeInv
  <1>6. /\ \A m : OnNetwork(m) => OnNetwork(m)'
        /\ \A i, a : Tried(i, a) /\ (i \in tolerated' \/ a.phase # "failed") => Tried(i, a)'
    BY <1>1, <1>5, ServerGrows
  <1>7. OnNetwork(Initiation(k))
    BY <1>2 DEF OnNetwork
  <1>8. \A m \in network' : OnNetwork(m)'
    BY <1>1, <1>6, <1>7 DEF HandshakeInv
  <1>9. Tried(k, new) /\ new.phase # "failed"
    <2>1. new.phase \in {"waiting", "crashed"} /\ (new.phase = "waiting" => new = Handshake!Attempt(k))
      BY DEF Handshake!Attempt
    <2> QED
      BY <2>1 DEF Tried
  <1>10. \A i \in 1 .. Len(client) : Tried(i, client[i])'
    <2>1. \A i \in 1 .. Len(client) : Tried(i, client[i]) /\ (i \in tolerated' \/ client[i].phase # "failed")
      BY <1>1 DEF HandshakeInv, Tried
    <2>2. \A i \in 1 .. Len(client) : client'[i] = client[i]
      BY <1>3
    <2>3. ASSUME NEW i \in 1 .. Len(client) PROVE Tried(i, client[i])'
      <3>1. PICK a : a = client[i]
        OBVIOUS
      <3>2. Tried(i, a)' /\ client'[i] = a
        BY <1>6, <2>1, <2>2, <3>1
      <3> QED
        BY <3>2 DEF Tried
    <2> QED
      BY <2>3
  <1>11. \A i \in 1 .. Len(client') : Tried(i, client[i])'
    <2>1. Tried(k, new)'
      BY <1>6, <1>9
    <2>2. Tried(k, client[k])'
      BY <1>3, <2>1 DEF Tried
    <2> QED
      BY <1>4, <1>10, <2>2
  <1>12. /\ OptionsTyped' /\ Listed(server)' /\ (Len(server) <= MaxReplies)'
         /\ \A n \in 1 .. Len(server') : Matched' /\ \E j \in Nat : (server[n] = Served(j, n))'
    BY <1>1, OptionsStay DEF HandshakeInv
  <1>13. Len(client') <= MaxAttempts /\ tolerated' \subseteq 1 .. Len(client')
    BY <1>1, <1>2, <1>3 DEF HandshakeInv
  <1> QED
    BY <1>3, <1>8, <1>11, <1>12, <1>13 DEF HandshakeInv

\* one attempt of the client's comes to an end
LEMMA AttemptEnds ==
    ASSUME HandshakeBounds, HandshakeInv, UNCHANGED <<options, network, server>>,
           NEW k \in 1 .. Len(client), NEW new, client' = [client EXCEPT ![k] = new],
           tolerated \subseteq tolerated', tolerated' \subseteq tolerated \cup {k}, Tried(k, new)'
    PROVE  HandshakeInv'
  <1>1. Listed(client) /\ Len(client) \in Nat
    BY ListedElements DEF HandshakeInv
  <1>2. /\ Listed(client') /\ Len(client') = Len(client) /\ client'[k] = new
        /\ \A i \in 1 .. Len(client) : i # k => client'[i] = client[i]
    BY <1>1, ExceptListed
  <1>3. Listed(server) /\ Len(server) \in Nat /\ Len(server) <= Len(server')
    BY ListedElements DEF HandshakeInv
  <1>4. /\ \A m : OnNetwork(m) => OnNetwork(m)'
        /\ \A i, a : Tried(i, a) /\ (i \in tolerated' \/ a.phase # "failed") => Tried(i, a)'
    BY <1>3, ServerGrows
  <1>5. \A m \in network' : OnNetwork(m)'
    BY <1>4 DEF HandshakeInv
  <1>6. ASSUME NEW i \in 1 .. Len(client') PROVE Tried(i, client[i])'
    <2>1. CASE i = k
      BY <1>2, <2>1 DEF Tried
    <2>2. CASE i # k
      <3>1. i \in 1 .. Len(client) /\ Tried(i, client[i]) /\ (client[i].phase = "failed" => i \in tolerated)
        BY <1>2 DEF HandshakeInv, Tried
      <3>2. PICK a : a = client[i]
        OBVIOUS
      <3>3. Tried(i, a)' /\ client'[i] = a
        BY <1>2, <1>4, <2>2, <3>1, <3>2
      <3> QED
        BY <3>3 DEF Tried
    <2> QED
      BY <2>1, <2>2
  <1>7. /\ OptionsTyped' /\ Listed(server)' /\ (Len(server) <= MaxReplies)'
        /\ \A n \in 1 .. Len(server') : Matched' /\ \E j \in Nat : (server[n] = Served(j, n))'
    BY OptionsStay DEF HandshakeInv
  <1>8. Len(client') <= MaxAttempts /\ tolerated' \subseteq 1 .. Len(client')
    BY <1>2 DEF HandshakeInv
  <1> QED
    BY <1>2, <1>5, <1>6, <1>7, <1>8 DEF HandshakeInv

LEMMA ReadFailsKeeps == ASSUME HandshakeBounds, HandshakeInv, Handshake!ReadFails PROVE HandshakeInv'
  <1> PICK k : k = Len(client)
    OBVIOUS
  <1> PICK new : new = [client[k] EXCEPT !.phase = "failed"]
    OBVIOUS
  <1>1. /\ client # <<>> /\ client[k].phase = "waiting" /\ client' = [client EXCEPT ![k] = new]
        /\ tolerated' = tolerated \cup {k} /\ UNCHANGED <<options, network, server>>
    BY DEF Handshake!ReadFails
  <1>2. k \in 1 .. Len(client)
    <2>1. PICK T : client \in Seq(T)
      BY DEF HandshakeInv, Listed
    <2> QED
      BY <1>1, <2>1
  <1>3. client[k] = Handshake!Attempt(k)
    BY <1>1, <1>2 DEF HandshakeInv, Tried
  <1>4. new.phase = "failed" /\ k \in tolerated'
    BY <1>1, <1>3 DEF Handshake!Attempt
  <1>5. Tried(k, new)'
    BY <1>4 DEF Tried
  <1> QED
    BY <1>1, <1>2, <1>5, AttemptEnds

\* messages of one type
LEMMA Kinds ==
    ASSUME NEW m, OnNetwork(m)
    PROVE  /\ m.type = "initiation" => \E k \in Nat : m = Initiation(k)
           /\ m.type = "response" =>
                 \E k, n \in Nat : n \in 1 .. Len(server) /\ m = Response(k, n) /\ server[n] = Served(k, n)
  <1>1. \A k, n : Initiation(k).type = "initiation" /\ Response(k, n).type = "response"
    BY DEF Initiation, Response
  <1> QED
    BY <1>1 DEF OnNetwork

(* A first message that the server can read was made for it, and under its PSK. *)
LEMMA ReadableForCause ==
    ASSUME HandshakeBounds, OptionsTyped, NEW k, Handshake!Readable(Initiation(k))
    PROVE  Matched /\ Handshake!RemoteStatic = Handshake!Static("server") /\ Handshake!ClientPsk = Handshake!ServerPsk
  <1> PICK m : m = Initiation(k)
    OBVIOUS
  <1>1. /\ m.minVersion <= 2
        /\ Handshake!Decrypts(Handshake!BeforeStatic(Handshake!Static("server"), m.e, Handshake!ServerPsk), m.static)
    BY DEF Handshake!Readable, Handshake!noiseVersion
  <1>2. /\ m.minVersion = options.minVersion /\ m.e = Client(k)
        /\ m.static.under = Handshake!BeforeStatic(Handshake!RemoteStatic, Client(k), Handshake!ClientPsk)
    BY DEF Initiation, Handshake!Encrypt
  <1>3. Handshake!BeforeStatic(Handshake!RemoteStatic, Client(k), Handshake!ClientPsk)
          = Handshake!BeforeStatic(Handshake!Static("server"), Client(k), Handshake!ServerPsk)
    BY <1>1, <1>2 DEF Handshake!Decrypts
  <1>4. Handshake!RemoteStatic = Handshake!Static("server") /\ Handshake!ClientPsk = Handshake!ServerPsk
    BY <1>3, OpensForCause
  <1>5. options.knowsServer \in BOOLEAN /\ options.samePsk \in BOOLEAN
    BY DEF OptionsTyped
  <1>6. options.knowsServer
    BY <1>4, <1>5 DEF Handshake!RemoteStatic, Handshake!Static
  <1>7. options.samePsk
    BY <1>4, <1>5 DEF Handshake!ClientPsk, Handshake!ServerPsk
  <1> QED
    BY <1>1, <1>2, <1>4, <1>6, <1>7 DEF Matched

LEMMA MatchedKeys ==
    ASSUME Matched
    PROVE  Handshake!RemoteStatic = Handshake!Static("server") /\ Handshake!ClientPsk = Handshake!ServerPsk
  BY DEF Matched, Handshake!RemoteStatic, Handshake!ClientPsk, Handshake!ServerPsk

LEMMA RespondKeeps ==
    ASSUME HandshakeBounds, HandshakeInv, NEW m \in network, Handshake!Respond(m)
    PROVE  HandshakeInv'
  <1> PICK n : n = Len(server) + 1
    OBVIOUS
  <1>1. m.type = "initiation" /\ n <= MaxReplies /\ Handshake!Readable(m)
    BY DEF Handshake!Respond
  <1>2. PICK k \in Nat : m = Initiation(k)
    BY <1>1, Kinds DEF HandshakeInv
  <1>3. Matched
    BY <1>1, <1>2, ReadableForCause DEF HandshakeInv
  <1>4. /\ m.e = Client(k) /\ m.static.plaintext = Handshake!Static("client") /\ m.session = k
        /\ m.suites = options.suites
    BY <1>2 DEF Initiation, Handshake!Encrypt
  <1> PICK hs : hs = Handshake!BeforeParams(
                       Handshake!AfterMessage1(Handshake!Static("server"), m.e, Handshake!ServerPsk, m.static.plaintext),
                       m.e, m.static.plaintext, Server(n), Handshake!ServerPsk)
    OBVIOUS
  <1>5. hs = Sealed(k, n)
    BY <1>4 DEF Sealed, Ended
  <1>6. Handshake!FirstMatch(m.suites, options.supported) = TheSuite
    BY <1>4 DEF TheSuite
  <1>7. /\ network' = network \cup
             {[type |-> "response", to |-> m.session, version |-> 2,
               suite |-> Handshake!FirstMatch(m.suites, options.supported), e |-> Server(n),
               params |-> Handshake!Encrypt(hs, Answer)]}
        /\ server' = Append(server,
             [session |-> m.session, peer |-> m.static.plaintext,
              suite |-> Handshake!FirstMatch(m.suites, options.supported),
              version |-> 2, keepAlive |-> Handshake!Params.keepAlive,
              keys |-> Handshake!SplitKeys(Handshake!AfterMessage2(hs, Answer), "server")])
        /\ UNCHANGED <<options, client, tolerated>>
    BY DEF Handshake!Respond, Handshake!noiseVersion, Answer, Server
  <1>8. network' = network \cup {Response(k, n)} /\ server' = Append(server, Served(k, n))
    BY <1>4, <1>5, <1>6, <1>7 DEF Response, Served
  <1>9. Listed(server) /\ Len(server) \in Nat /\ n \in Nat
    BY ListedElements DEF HandshakeInv
  <1>10. /\ Listed(server') /\ Len(server') = n /\ server'[n] = Served(k, n)
         /\ \A i \in 1 .. Len(server) : server'[i] = server[i]
    BY <1>8, <1>9, AppendListed
  <1>11. Len(server) <= Len(server')
    BY <1>9, <1>10
  <1>12. /\ \A x : OnNetwork(x) => OnNetwork(x)'
         /\ \A i, a : Tried(i, a) /\ (i \in tolerated' \/ a.phase # "failed") => Tried(i, a)'
    BY <1>7, <1>9, <1>10, <1>11, ServerGrows
  <1>14. \A x \in network' : OnNetwork(x)'
    <2>1. ASSUME NEW x, x = Response(k, n) PROVE OnNetwork(x)'
      <3>1. n \in 1 .. Len(server') /\ x = Response(k, n)' /\ server'[n] = Served(k, n)'
        BY <1>7, <1>9, <1>10, <2>1, OptionsStay
      <3> QED
        BY <3>1 DEF OnNetwork
    <2> QED
      BY <1>8, <1>12, <2>1 DEF HandshakeInv
  <1>15. ASSUME NEW i \in 1 .. Len(client') PROVE Tried(i, client[i])'
    <2>1. i \in 1 .. Len(client) /\ Tried(i, client[i]) /\ (client[i].phase = "failed" => i \in tolerated')
      BY <1>7 DEF HandshakeInv, Tried
    <2>2. PICK a : a = client[i]
      OBVIOUS
    <2>3. Tried(i, a)' /\ client'[i] = a
      BY <1>7, <1>12, <2>1, <2>2
    <2> QED
      BY <2>3 DEF Tried
  <1>16. ASSUME NEW i \in 1 .. Len(server') PROVE Matched' /\ \E j \in Nat : (server[i] = Served(j, i))'
    <2>1. Matched' /\ \A a, b : Served(a, b)' = Served(a, b)
      BY <1>3, <1>7, OptionsStay
    <2>2. i \in 1 .. Len(server) \/ i = n
      BY <1>9, <1>10
    <2>3. \E j \in Nat : server'[i] = Served(j, i)
      BY <1>10, <2>2 DEF HandshakeInv
    <2> QED
      BY <2>1, <2>3
  <1>17. OptionsTyped' /\ Listed(client') /\ Len(client') <= MaxAttempts /\ tolerated' \subseteq 1 .. Len(client')
    BY <1>7, OptionsStay DEF HandshakeInv
  <1> QED
    BY <1>1, <1>10, <1>14, <1>15, <1>16, <1>17 DEF HandshakeInv

LEMMA FinishKeeps ==
    ASSUME HandshakeBounds, HandshakeInv, NEW m \in network, Handshake!Finish(m)
    PROVE  HandshakeInv'
  <1> PICK k : k = Len(client)
    OBVIOUS
  <1>1. m.type = "response" /\ k > 0 /\ client[k].phase = "waiting"
    BY DEF Handshake!Finish
  <1>2. PICK j \in Nat, n \in Nat : n \in 1 .. Len(server) /\ m = Response(j, n) /\ server[n] = Served(j, n)
    BY <1>1, Kinds DEF HandshakeInv
  <1>3. Matched /\ options.minVersion <= 2
    BY <1>2 DEF HandshakeInv, Matched
  <1>4. k \in Nat /\ k \in 1 .. Len(client)
    BY <1>1, ListedElements DEF HandshakeInv
  <1>5. /\ m.to = j /\ m.version = 2 /\ m.suite = TheSuite /\ m.e = Server(n)
        /\ m.params.under = Sealed(j, n) /\ m.params.plaintext = Answer
    BY <1>2 DEF Response, Handshake!Encrypt
  <1> PICK hs : hs = Handshake!BeforeParams(
                       Handshake!AfterMessage1(Handshake!RemoteStatic, Client(k), Handshake!ClientPsk, Handshake!Static("client")),
                       Client(k), Handshake!Static("client"), m.e, Handshake!ClientPsk)
    OBVIOUS
  <1>6. hs = Sealed(k, n)
    BY <1>3, <1>5, MatchedKeys DEF Sealed, Ended
  <1> PICK done : done = [n |-> k, phase |-> "done",
                   result |-> [suite |-> Handshake!FirstMatch(<<m.suite>>, options.suites),
                               version |-> m.version, peer |-> Handshake!RemoteStatic,
                               keepAlive |-> m.params.plaintext.keepAlive,
                               keys |-> Handshake!SplitKeys(Handshake!AfterMessage2(hs, m.params.plaintext), "client")]]
    OBVIOUS
  <1> PICK new : new = IF m.version >= options.minVersion /\ Handshake!Decrypts(hs, m.params)
                       THEN done ELSE [client[k] EXCEPT !.phase = "failed"]
    OBVIOUS
  <1>7. /\ tolerated' = (IF m.to = k THEN tolerated ELSE tolerated \cup {k})
        /\ client' = [client EXCEPT ![k] = new] /\ UNCHANGED <<options, network, server>>
    BY DEF Handshake!Finish, Client
  <1>8. Handshake!Decrypts(hs, m.params) <=> j = k
    BY <1>2, <1>4, <1>5, <1>6, SealedInjective DEF Handshake!Decrypts
  <1>9. m.version >= options.minVersion
    <2>1. options.minVersion \in Handshake!Versions /\ Handshake!Versions \subseteq Nat
      BY DEF HandshakeInv, OptionsTyped, Handshake!Versions, Handshake!noiseVersion
    <2>2. options.minVersion \in Nat
      BY <2>1
    <2> QED
      BY <1>3, <1>5, <2>2
  <1>10. Tried(k, new)'
    <2>1. CASE j = k
      <3>1. Handshake!FirstMatch(<<TheSuite>>, options.suites) = TheSuite
        BY SameSuite DEF HandshakeInv
      <3>2. Handshake!RemoteStatic = Handshake!Static("server")
        BY <1>3, MatchedKeys
      <3>3. done = Done(k, n)
        BY <1>5, <1>6, <3>1, <3>2 DEF Done
      <3>4. new = Done(k, n)
        BY <1>8, <1>9, <2>1, <3>3
      <3>5. new = Done(k, n)' /\ server'[n] = Served(k, n)' /\ n \in 1 .. Len(server')
        BY <1>2, <1>7, <2>1, <3>4, OptionsStay
      <3>6. new.phase = "done"
        BY <3>4 DEF Done
      <3> QED
        BY <3>5, <3>6 DEF Tried
    <2>2. CASE j # k
      <3>1. client[k] = Handshake!Attempt(k)
        BY <1>1, <1>4 DEF HandshakeInv, Tried
      <3>2. new = [Handshake!Attempt(k) EXCEPT !.phase = "failed"]
        BY <1>8, <2>2, <3>1
      <3>3. new.phase = "failed" /\ k \in tolerated'
        BY <1>5, <1>7, <2>2, <3>2 DEF Handshake!Attempt
      <3> QED
        BY <3>3 DEF Tried
    <2> QED
      BY <2>1, <2>2
  <1>11. tolerated \subseteq tolerated' /\ tolerated' \subseteq tolerated \cup {k}
    BY <1>7
  <1> QED
    BY <1>4, <1>7, <1>10, <1>11, AttemptEnds

LEMMA HandshakeInvariant ==
    ASSUME HandshakeBounds, HandshakeInv, [Handshake!Next]_(Handshake!vars) PROVE HandshakeInv'
  <1>1. CASE UNCHANGED Handshake!vars
    <2>1. UNCHANGED <<options, network, client, server, tolerated>>
      BY <1>1 DEF Handshake!vars
    <2>2. /\ OptionsTyped' /\ Matched' = Matched /\ \A k, n : Served(k, n)' = Served(k, n)
      BY <2>1, OptionsStay DEF HandshakeInv
    <2>3. Listed(server) /\ Len(server) \in Nat /\ Len(server) <= Len(server')
      BY <2>1, ListedElements DEF HandshakeInv
    <2>4. /\ \A x : OnNetwork(x) => OnNetwork(x)'
          /\ \A i, a : Tried(i, a) /\ (i \in tolerated' \/ a.phase # "failed") => Tried(i, a)'
      BY <2>1, <2>3, ServerGrows
    <2>5. ASSUME NEW i \in 1 .. Len(client') PROVE Tried(i, client[i])'
      <3>1. i \in 1 .. Len(client) /\ Tried(i, client[i]) /\ (client[i].phase = "failed" => i \in tolerated')
        BY <2>1 DEF HandshakeInv, Tried
      <3>2. PICK a : a = client[i]
        OBVIOUS
      <3>3. Tried(i, a)' /\ client'[i] = a
        BY <2>1, <2>4, <3>1, <3>2
      <3> QED
        BY <3>3 DEF Tried
    <2> QED
      BY <2>1, <2>2, <2>4, <2>5 DEF HandshakeInv
  <1>2. ASSUME NEW m \in network, Handshake!Respond(m) \/ Handshake!Finish(m) PROVE HandshakeInv'
    BY <1>2, RespondKeeps, FinishKeeps
  <1> QED
    BY <1>1, <1>2, InitiateKeeps, ReadFailsKeeps DEF Handshake!Next

\* the keys of one exchange are those of no other
LEMMA KeysApart ==
    ASSUME NEW k \in Nat, NEW n \in Nat, NEW k2 \in Nat, NEW n2 \in Nat,
           Handshake!AfterMessage2(Sealed(k, n), Answer) = Handshake!AfterMessage2(Sealed(k2, n2), Answer)
    PROVE  k = k2 /\ n = n2
  <1>1. ASSUME NEW i \in Nat, NEW j \in Nat
        PROVE  \E c, l : /\ Listed(l) /\ Sealed(i, j) = State(c, l)
                         /\ Handshake!AfterMessage2(Sealed(i, j), Answer)
                              = State(c, Append(l, Handshake!Encrypt(Sealed(i, j), Answer)))
    <2> PICK c, h, d : SealedIn(i, j, c, h, d)
      BY SealedStates
    <2> PICK h1 : h1 = Append(h, Handshake!Encrypt(State(d, h), Handshake!Static("client")))
      OBVIOUS
    <2> PICK h2 : h2 = Append(h1, Server(j))
      OBVIOUS
    <2> PICK l : l = Append(h2, Handshake!ServerPsk)
      OBVIOUS
    <2>1. Listed(h1)
      BY AppendListed DEF SealedIn
    <2>2. Listed(h2)
      BY <2>1, AppendListed
    <2>3. Listed(l)
      BY <2>2, AppendListed
    <2>4. Sealed(i, j) = State(c, l)
      BY DEF SealedIn
    <2>5. Handshake!AfterMessage2(Sealed(i, j), Answer)
            = State(c, Append(l, Handshake!Encrypt(Sealed(i, j), Answer)))
      BY <2>4, MixedHash DEF Handshake!AfterMessage2
    <2> QED
      BY <2>3, <2>4, <2>5
  <1>2. PICK x, x2 : x = Handshake!Encrypt(Sealed(k, n), Answer) /\ x2 = Handshake!Encrypt(Sealed(k2, n2), Answer)
    OBVIOUS
  <1>3. PICK c, l : Listed(l) /\ Handshake!AfterMessage2(Sealed(k, n), Answer) = State(c, Append(l, x))
    BY <1>1, <1>2
  <1>4. PICK c2, l2 : Listed(l2) /\ Handshake!AfterMessage2(Sealed(k2, n2), Answer) = State(c2, Append(l2, x2))
    BY <1>1, <1>2
  <1>5. Append(l, x) = Append(l2, x2)
    BY <1>3, <1>4, StateInjective
  <1>6. x = x2
    BY <1>3, <1>4, <1>5, AppendApart
  <1>7. Sealed(k, n) = Sealed(k2, n2)
    BY <1>2, <1>6 DEF Handshake!Encrypt
  <1> QED
    BY <1>7, SealedInjective

LEMMA HandshakeImplies ==
    ASSUME HandshakeBounds, HandshakeInv
    PROVE  Handshake!TypeOK /\ Handshake!KeysShared /\ Handshake!FailsForCause
  <1>0. DOMAIN client = 1 .. Len(client) /\ DOMAIN server = 1 .. Len(server)
    BY ListedElements DEF HandshakeInv
  <1>1. Handshake!FailsForCause
    BY <1>0 DEF HandshakeInv, Tried, Handshake!FailsForCause
  <1>2. Answer.keepAlive \in 0 .. Handshake!Range16 - 1
    <2>1. options.keepAlive \in Nat
      BY DEF HandshakeInv, OptionsTyped, HandshakeBounds
    <2>2. PICK p \in Nat : p = Handshake!Params.keepAlive
      BY <2>1 DEF Handshake!Params
    <2>3. ASSUME NEW x \in Nat, NEW h \in Nat \ {0} PROVE x % h \in 0 .. h - 1
      OBVIOUS
    <2>4. Handshake!Range16 \in Nat \ {0}
      BY DEF Handshake!Range16
    <2>5. p % Handshake!Range16 \in 0 .. Handshake!Range16 - 1
      BY <2>3, <2>4
    <2> QED
      BY <2>2, <2>5 DEF Answer
  <1>3. TheSuite \in Handshake!Suites
    BY SameSuite DEF HandshakeInv
  <1>4. Handshake!TypeOK
    <2>1. \A k \in DOMAIN client : /\ client[k].phase \in {"waiting", "failed", "crashed", "done"}
                                   /\ client[k].phase = "done" => \E n \in Nat : client[k] = Done(k, n)
      BY <1>0 DEF HandshakeInv, Tried
    <2>2. \A k, n : Done(k, n).result.suite = TheSuite /\ Done(k, n).result.keepAlive = Answer.keepAlive
      BY DEF Done
    <2>3. \A n \in DOMAIN server : server[n].suite = TheSuite
      BY <1>0 DEF HandshakeInv, Served
    <2>4. \A k \in DOMAIN client :
            /\ client[k].phase \in {"waiting", "failed", "crashed", "done"}
            /\ client[k].phase = "done" => /\ client[k].result.suite \in Handshake!Suites
                                           /\ client[k].result.keepAlive \in 0 .. Handshake!Range16 - 1
      <3>1. ASSUME NEW k \in DOMAIN client, client[k].phase = "done"
            PROVE  client[k].result.suite \in Handshake!Suites /\ client[k].result.keepAlive \in 0 .. Handshake!Range16 - 1
        <4> PICK n \in Nat : client[k] = Done(k, n)
          BY <2>1, <3>1
        <4>1. client[k].result.suite = TheSuite /\ client[k].result.keepAlive = Answer.keepAlive
          BY <2>2
        <4> QED
          BY <1>2, <1>3, <4>1
      <3> QED
        BY <2>1, <3>1
    <2>5. \A n \in DOMAIN server : server[n].suite \in Handshake!Suites
      BY <1>3, <2>3
    <2>6. OptionsTyped /\ Len(client) <= MaxAttempts /\ Len(server) <= MaxReplies /\ tolerated \subseteq DOMAIN client
      BY <1>0 DEF HandshakeInv
    <2> QED
      BY <1>0, <2>4, <2>5, <2>6 DEF OptionsTyped, Handshake!TypeOK
  <1>5. ASSUME NEW k \in DOMAIN client, client[k].phase = "done"
        PROVE  LET mine == client[k].result
                   peers == {n \in DOMAIN server : /\ server[n].keys.send = mine.keys.receive
                                                   /\ server[n].keys.receive = mine.keys.send}
               IN  /\ mine.peer = Handshake!Static("server")
                   /\ \E n \in peers : /\ peers = {n} /\ server[n].session = k
                                       /\ server[n].peer = Handshake!Static("client")
                                       /\ server[n].suite = mine.suite
                                       /\ server[n].version = mine.version
    <2>1. PICK n \in Nat : n \in 1 .. Len(server) /\ client[k] = Done(k, n) /\ server[n] = Served(k, n)
      BY <1>0, <1>5 DEF HandshakeInv, Tried
    <2>2. k \in Nat
      BY <1>0, <1>5
    <2> PICK mine : mine = client[k].result
      OBVIOUS
    <2>3. /\ mine.peer = Handshake!Static("server") /\ mine.suite = TheSuite /\ mine.version = 2
          /\ mine.keys = Handshake!SplitKeys(Handshake!AfterMessage2(Sealed(k, n), Answer), "client")
      BY <2>1 DEF Done
    <2>4. /\ server[n].session = k /\ server[n].peer = Handshake!Static("client")
          /\ server[n].suite = TheSuite /\ server[n].version = 2
          /\ server[n].keys = Handshake!SplitKeys(Handshake!AfterMessage2(Sealed(k, n), Answer), "server")
      BY <2>1 DEF Served
    <2> PICK peers : peers = {i \in DOMAIN server : /\ server[i].keys.send = mine.keys.receive
                                                    /\ server[i].keys.receive = mine.keys.send}
      OBVIOUS
    <2>5. \A hs : /\ Handshake!SplitKeys(hs, "client").send = <<hs, 1>>
                  /\ Handshake!SplitKeys(hs, "client").receive = <<hs, 2>>
                  /\ Handshake!SplitKeys(hs, "server").send = <<hs, 2>>
                  /\ Handshake!SplitKeys(hs, "server").receive = <<hs, 1>>
      BY DEF Handshake!SplitKeys
    <2>6. n \in peers
      BY <1>0, <2>1, <2>3, <2>4, <2>5, Zenon
    <2>7. ASSUME NEW i \in peers PROVE i = n
      <3>1. i \in 1 .. Len(server) /\ i \in Nat
        BY <1>0
      <3>2. PICK j \in Nat : server[i] = Served(j, i)
        BY <3>1 DEF HandshakeInv
      <3>3. server[i].keys = Handshake!SplitKeys(Handshake!AfterMessage2(Sealed(j, i), Answer), "server")
        BY <3>2 DEF Served
      <3>4. <<Handshake!AfterMessage2(Sealed(j, i), Answer), 2>> = <<Handshake!AfterMessage2(Sealed(k, n), Answer), 2>>
        BY <2>3, <2>5, <3>3
      <3>5. Handshake!AfterMessage2(Sealed(j, i), Answer) = Handshake!AfterMessage2(Sealed(k, n), Answer)
        BY <3>4
      <3> QED
        BY <2>2, <3>1, <3>5, KeysApart
    <2>8. peers = {n}
      BY <2>6, <2>7
    <2>9. /\ mine.peer = Handshake!Static("server")
          /\ \E i \in peers : /\ peers = {i} /\ server[i].session = k
                              /\ server[i].peer = Handshake!Static("client")
                              /\ server[i].suite = mine.suite
                              /\ server[i].version = mine.version
      BY <2>3, <2>4, <2>6, <2>8
    <2> QED
      BY <2>9
  <1>6. Handshake!KeysShared
    BY <1>5 DEF Handshake!KeysShared
  <1> QED
    BY <1>1, <1>4, <1>6

(* A client that is done shares its keys with exactly one of the server's handshakes, the
   one that answered this attempt; and it fails only on another's answer or a read that
   failed (ClientHandshake and ServerHandshake of noise.go). *)
THEOREM KeysStayShared == ASSUME HandshakeBounds PROVE
    Handshake!Spec => [](Handshake!KeysShared /\ Handshake!FailsForCause)
  <1>1. Handshake!Init => HandshakeInv
    BY HandshakeStarts
  <1>2. HandshakeInv /\ [Handshake!Next]_(Handshake!vars) => HandshakeInv'
    BY HandshakeInvariant
  <1>3. HandshakeInv => Handshake!KeysShared /\ Handshake!FailsForCause
    BY HandshakeImplies
  <1> QED
    BY <1>1, <1>2, <1>3, PTL DEF Handshake!Spec

-----------------------------------------------------------------------------
(* A behaviour is one of one component: the others' variables do not move, and its own
   begin and move as its module says. *)

Is(c) == component = c

\* the parts of the assumption that are about sets of other things than numbers
ListsAreOfSuites == SuiteLists \subseteq Seq(Handshake!Suites)
EntriesAreRanges == \A e \in Entry : e.start \in Nat /\ e.end \in Nat

LEMMA BoundsHold ==
    /\ FilterBounds /\ UsersBounds /\ LogBounds /\ TicketsBounds /\ SecrecyBounds /\ OfferBounds
    /\ GrantedBounds /\ RulesBounds /\ RoutesBounds /\ BridgesBounds /\ HandshakeBounds
  <1>1. ListsAreOfSuites
    BY TrustAssumption DEF TrustAssumption, ListsAreOfSuites, Handshake!Suites
  <1>2. EntriesAreRanges
    BY TrustAssumption DEF TrustAssumption, EntriesAreRanges
  <1>3. {WindowSize, MaxAge, MaxClockSkew, MaxPasses, MaxTickets, TicketLifetime, UsedKept,
         MaxTicketUsage, MaxTicketsPerPeer, MaxNonce, MaxData, MaxAttempts, MaxReplies,
         MaxCalls, MaxGuesses, MaxTokens, tokenDuration, MaxTokenTime, MaxPermission,
         MaxRules, MaxIp, MaxEntries, MaxRemovals, maxRequestsPerIP, bridgeTimeout,
         MaxBridgeTime, MaxEvents, MaxStarts, MaxLogTime} \subseteq Nat
    BY Zenon, TrustAssumption DEF TrustAssumption
  <1>4. {Modulus, MaxTime, RetryWindow, MaxTicketTime, maxRetries, MaxRecords,
         MaxVersion, Hour, bufferSize} \subseteq Nat \ {0}
    BY Zenon, TrustAssumption DEF TrustAssumption
  <1>5. Width \in Nat \ {0, 1, 2} /\ IsFiniteSet(Logins) /\ KeepAlives \subseteq Nat
    BY Zenon, TrustAssumption DEF TrustAssumption
  <1>6. V4[1] \in Nat /\ V4[2] \in Nat
    BY Zenon, TrustAssumption DEF TrustAssumption
  <1>7. FilterBounds /\ UsersBounds /\ LogBounds /\ TicketsBounds
    BY <1>3, <1>4, <1>5 DEF FilterBounds, UsersBounds, LogBounds, TicketsBounds
  <1>8. SecrecyBounds /\ OfferBounds /\ GrantedBounds /\ RulesBounds /\ BridgesBounds
    BY <1>3, <1>4 DEF SecrecyBounds, OfferBounds, GrantedBounds, RulesBounds, BridgesBounds
  <1>9. RoutesBounds /\ HandshakeBounds
    BY <1>1, <1>2, <1>3, <1>5, <1>6 DEF RoutesBounds, HandshakeBounds, ListsAreOfSuites, EntriesAreRanges
  <1> QED
    BY <1>7, <1>8, <1>9

LEMMA PartsBegin ==
    ASSUME Init
    PROVE  /\ component = "Filter" => Filter!Init
           /\ component = "Tickets" => Tickets!Init
           /\ component = "Secrecy" => Secrecy!Init
           /\ component = "Handshake" => Handshake!Init
           /\ component = "Offer" => Offer!Init
           /\ component = "Users" => Users!Init
           /\ component = "Granted" => Granted!Init
           /\ component = "Rules" => Rules!Init
           /\ component = "Routes" => Routes!Init
           /\ component = "Bridges" => Bridges!Init
           /\ component = "Log" => Log!Init
  BY DEF Init

LEMMA PartsMove ==
    ASSUME [Next]_vars
    PROVE  /\ component' = component
           /\ component = "Filter" => [Filter!Next]_(Filter!vars)
           /\ component = "Tickets" => [Tickets!Next]_(Tickets!vars)
           /\ component = "Secrecy" => [Secrecy!Next]_(Secrecy!vars)
           /\ component = "Handshake" => [Handshake!Next]_(Handshake!vars)
           /\ component = "Offer" => [Offer!Next]_(Offer!vars)
           /\ component = "Users" => [Users!Next]_(Users!vars)
           /\ component = "Granted" => [Granted!Next]_(Granted!vars)
           /\ component = "Rules" => [Rules!Next]_(Rules!vars)
           /\ component = "Routes" => [Routes!Next]_(Routes!vars)
           /\ component = "Bridges" => [Bridges!Next]_(Bridges!vars)
           /\ component = "Log" => [Log!Next]_(Log!vars)
  <1>1. CASE Next
    BY <1>1 DEF Next
  <1>2. CASE UNCHANGED vars
    <2>1. UNCHANGED <<component, filterVars, ticketsVars, secrecyVars, handshakeVars,
                      offerVars, usersVars, grantedVars, rulesVars,
                      routesVars, bridgesVars, logVars>>
      BY <1>2 DEF vars
    <2> QED
      BY <2>1 DEF filterVars, Filter!vars, ticketsVars, Tickets!vars, secrecyVars, Secrecy!vars,
         handshakeVars, Handshake!vars, offerVars, Offer!vars, usersVars, Users!vars,
         grantedVars, Granted!vars, rulesVars, Rules!vars, routesVars, Routes!vars,
         bridgesVars, Bridges!vars, logVars, Log!vars
  <1> QED
    BY <1>1, <1>2

LEMMA FilterHolds ==
    Spec => [](Is("Filter") => (Filter!TypeOK /\ Filter!ReplaysForCause /\ Filter!CombinedNeverReplays /\ Filter!FreshPasses))
  <1>1. Init /\ Is("Filter") => Filter!Init
    BY PartsBegin DEF Is
  <1>2. [Next]_vars /\ Is("Filter") => [Filter!Next]_(Filter!vars) /\ Is("Filter")'
    BY PartsMove DEF Is
  <1>3. [Next]_vars /\ ~ Is("Filter") => ~ Is("Filter")'
    BY PartsMove DEF Is
  <1>4. Filter!Spec => [](Filter!TypeOK /\ Filter!ReplaysForCause /\ Filter!CombinedNeverReplays /\ Filter!FreshPasses)
    <2>1. FilterBounds
      BY BoundsHold
    <2>2. Filter!Spec => []Filter!TypeOK
      BY <2>1, FilterTypeCorrect
    <2>3. Filter!Spec => []Filter!ReplaysForCause
      BY <2>1, ReplaysHaveCause
    <2>4. Filter!Spec => []Filter!CombinedNeverReplays
      BY <2>1, CombinationNeverReplays
    <2>5. Filter!Spec => []Filter!FreshPasses
      BY <2>1, NewNumbersPass
    <2> QED
      BY <2>2, <2>3, <2>4, <2>5, PTL
  <1> QED
    BY <1>1, <1>2, <1>3, <1>4, PTL DEF Spec, Filter!Spec

LEMMA UsersHolds ==
    Spec => [](Is("Users") => UsersInv)
  <1>1. Init /\ Is("Users") => Users!Init
    BY PartsBegin DEF Is
  <1>2. [Next]_vars /\ Is("Users") => [Users!Next]_(Users!vars) /\ Is("Users")'
    BY PartsMove DEF Is
  <1>3. [Next]_vars /\ ~ Is("Users") => ~ Is("Users")'
    BY PartsMove DEF Is
  <1>4. Users!Spec => []UsersInv
    BY BoundsHold, UsersInvariant
  <1> QED
    BY <1>1, <1>2, <1>3, <1>4, PTL DEF Spec, Users!Spec

LEMMA TicketsHolds ==
    Spec => [](Is("Tickets") => TicketsInv)
  <1>1. Init => (Is("Tickets") => TicketsInv)
    BY BoundsHold, PartsBegin, TicketsStart DEF Is
  <1>2. (Is("Tickets") => TicketsInv) /\ [Next]_vars => (Is("Tickets") => TicketsInv)'
    BY BoundsHold, PartsMove, TicketsInvariant DEF Is
  <1> QED
    BY <1>1, <1>2, PTL DEF Spec

LEMMA SecrecyHolds ==
    Spec => [](Is("Secrecy") => SecrecyInv)
  <1>1. Init => (Is("Secrecy") => SecrecyInv)
    BY BoundsHold, PartsBegin, SecrecyStarts DEF Is
  <1>2. (Is("Secrecy") => SecrecyInv) /\ [Next]_vars => (Is("Secrecy") => SecrecyInv)'
    BY BoundsHold, PartsMove, SecrecyInvariant DEF Is
  <1> QED
    BY <1>1, <1>2, PTL DEF Spec

LEMMA HandshakeHolds ==
    Spec => [](Is("Handshake") => HandshakeInv)
  <1>1. Init => (Is("Handshake") => HandshakeInv)
    BY BoundsHold, PartsBegin, HandshakeStarts DEF Is
  <1>2. (Is("Handshake") => HandshakeInv) /\ [Next]_vars => (Is("Handshake") => HandshakeInv)'
    BY BoundsHold, PartsMove, HandshakeInvariant DEF Is
  <1> QED
    BY <1>1, <1>2, PTL DEF Spec

LEMMA OfferHolds ==
    Spec => [](Is("Offer") => OfferInv)
  <1>1. Init => (Is("Offer") => OfferInv)
    BY BoundsHold, PartsBegin, OfferStarts DEF Is
  <1>2. (Is("Offer") => OfferInv) /\ [Next]_vars => (Is("Offer") => OfferInv)'
    BY BoundsHold, PartsMove, OfferInvariant DEF Is
  <1> QED
    BY <1>1, <1>2, PTL DEF Spec

LEMMA GrantedHolds ==
    Spec => [](Is("Granted") => GrantedInv)
  <1>1. Init => (Is("Granted") => GrantedInv)
    BY BoundsHold, PartsBegin, GrantedStarts DEF Is
  <1>2. (Is("Granted") => GrantedInv) /\ [Next]_vars => (Is("Granted") => GrantedInv)'
    BY BoundsHold, PartsMove, GrantedInvariant DEF Is
  <1> QED
    BY <1>1, <1>2, PTL DEF Spec

LEMMA RulesHolds ==
    Spec => [](Is("Rules") => RulesInv)
  <1>1. Init => (Is("Rules") => RulesInv)
    BY BoundsHold, PartsBegin, RulesStart DEF Is
  <1>2. (Is("Rules") => RulesInv) /\ [Next]_vars => (Is("Rules") => RulesInv)'
    BY BoundsHold, PartsMove, RulesInvariant DEF Is
  <1> QED
    BY <1>1, <1>2, PTL DEF Spec

LEMMA RoutesHolds ==
    Spec => [](Is("Routes") => RoutesInv)
  <1>1. Init => (Is("Routes") => RoutesInv)
    BY BoundsHold, PartsBegin, RoutesStart DEF Is
  <1>2. (Is("Routes") => RoutesInv) /\ [Next]_vars => (Is("Routes") => RoutesInv)'
    BY BoundsHold, PartsMove, RoutesInvariant DEF Is
  <1> QED
    BY <1>1, <1>2, PTL DEF Spec

LEMMA BridgesHolds ==
    Spec => [](Is("Bridges") => BridgesInv)
  <1>1. Init => (Is("Bridges") => BridgesInv)
    BY BoundsHold, PartsBegin, BridgesStart DEF Is
  <1>2. (Is("Bridges") => BridgesInv) /\ [Next]_vars => (Is("Bridges") => BridgesInv)'
    BY BoundsHold, PartsMove, BridgesInvariant DEF Is
  <1> QED
    BY <1>1, <1>2, PTL DEF Spec

LEMMA LogHolds ==
    Spec => [](Is("Log") => LogInv)
  <1>1. Init => (Is("Log") => LogInv)
    BY BoundsHold, PartsBegin, LogStarts DEF Is
  <1>2. (Is("Log") => LogInv) /\ [Next]_vars => (Is("Log") => LogInv)'
    BY BoundsHold, PartsMove, LogInvariant DEF Is
  <1> QED
    BY <1>1, <1>2, PTL DEF Spec

(* Each component is well typed, whatever the constants. *)
THEOREM TrustTypeCorrect == Spec => []TypeOK
  <1>1. /\ Is("Filter") => Filter!TypeOK /\ Filter!ReplaysForCause /\ Filter!CombinedNeverReplays /\ Filter!FreshPasses
        /\ Is("Tickets") => TicketsInv
        /\ Is("Secrecy") => SecrecyInv
        /\ Is("Handshake") => HandshakeInv
        /\ Is("Offer") => OfferInv
        /\ Is("Users") => UsersInv
        /\ Is("Granted") => GrantedInv
        /\ Is("Rules") => RulesInv
        /\ Is("Routes") => RoutesInv
        /\ Is("Bridges") => BridgesInv
        /\ Is("Log") => LogInv
        => TypeOK
    BY BoundsHold, TicketsImply, SecrecyImplies, HandshakeImplies, OfferImplies, GrantedImplies, RulesImply, RoutesImply, BridgesImply, LogImplies
       DEF TypeOK, Is, UsersInv
  <1> QED
    BY <1>1, FilterHolds, TicketsHolds, SecrecyHolds, HandshakeHolds, OfferHolds, UsersHolds, GrantedHolds, RulesHolds, RoutesHolds, BridgesHolds, LogHolds, PTL

(* What was let through once is let through again only by a race of two receivers, at the
   edge of a window, or for a ticket used again within the retry window; what is new and
   alive is let through (antireplay.go, ValidateTicket of zero_rtt.go). *)
THEOREM NothingReplayed == Spec => []NoReplay
  <1>1. /\ Is("Filter") => Filter!TypeOK /\ Filter!ReplaysForCause /\ Filter!CombinedNeverReplays /\ Filter!FreshPasses
        /\ Is("Tickets") => TicketsInv
        => NoReplay
    BY BoundsHold, TicketsImply
       DEF NoReplay, Is
  <1> QED
    BY <1>1, FilterHolds, TicketsHolds, PTL

(* Two ends that are done agree on keys, parameters, outcome and secrets, and fail or
   refuse only for the reasons named (noise.go, negotiation.go, pfs.go). *)
THEOREM TwoEndsAgree == Spec => []EndsAgree
  <1>1. /\ Is("Secrecy") => SecrecyInv
        /\ Is("Handshake") => HandshakeInv
        /\ Is("Offer") => OfferInv
        => EndsAgree
    BY BoundsHold, SecrecyImplies, HandshakeImplies, OfferImplies
       DEF EndsAgree, Is
  <1> QED
    BY <1>1, SecrecyHolds, HandshakeHolds, OfferHolds, PTL

(* Passwords are guessed, tokens issued and bridges handed out only within the bounds, and
   the first rule in force decides (password.go, auth.go, acl.go, router.go, discovery.go). *)
THEOREM AccessHasCause == Spec => []AccessForCause
  <1>1. /\ Is("Users") => UsersInv
        /\ Is("Granted") => GrantedInv
        /\ Is("Rules") => RulesInv
        /\ Is("Routes") => RoutesInv
        /\ Is("Bridges") => BridgesInv
        => AccessForCause
    BY BoundsHold, UsersImply, GrantedImplies, RulesImply, RoutesImply, BridgesImply
       DEF AccessForCause, Is
  <1> QED
    BY <1>1, UsersHolds, GrantedHolds, RulesHolds, RoutesHolds, BridgesHolds, PTL

(* What was saved or logged is in a file, through crashes, failed writes, unlocked changes
   of a password and rotations, but for the cases named (password.go, database.go,
   audit.go). *)
THEOREM RecordsStayKept == Spec => []RecordsKept
  <1>1. /\ Is("Users") => UsersInv
        /\ Is("Log") => LogInv
        => RecordsKept
    BY BoundsHold, LogImplies
       DEF RecordsKept, Is, UsersInv
  <1> QED
    BY <1>1, UsersHolds, LogHolds, PTL
=============================================================================
