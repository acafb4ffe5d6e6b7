---------------------------- MODULE NetworkProofs ---------------------------
(***************************************************************************)
(* Proofs about module Network, for any addresses, connections, streams,   *)
(* peers and sizes and any bounds.                                         *)
(*                                                                         *)
(* Five components have their inductive invariants here; those of the UDP  *)
(* listener and of the multiplexer are proved about their own modules, in  *)
(* UDPListenerProofs and MuxProofs, and hold of the instances in Network,  *)
(* which take the same steps.  At the end the parts are put together: a    *)
(* behaviour of Network is one of one component.                           *)
(***************************************************************************)
EXTENDS Network, FiniteSetTheorems, SequenceTheorems, WellFoundedInduction, TLAPS

UdpP == INSTANCE UDPListenerProofs
MuxP == INSTANCE MuxProofs WITH
    AcceptCapacity <- Backlog, Buffer <- MuxBuffer, table <- streams,
    accept <- acceptCh, loop <- muxLoop

(* What reading the first element of a sequence leaves. *)
LEMMA TailElements ==
    ASSUME NEW T, NEW s \in Seq(T), s # <<>>
    PROVE  /\ Tail(s) \in Seq(T) /\ Len(Tail(s)) = Len(s) - 1
           /\ \A j \in 1 .. Len(Tail(s)) : Tail(s)[j] = s[j + 1]
           /\ Head(s) = s[1] /\ 1 \in 1 .. Len(s) /\ Head(s) \in T
  BY HeadTailProperties

-----------------------------------------------------------------------------
(* A queue without doubles that holds exactly the members of S. *)
Holds(q, S) ==
    /\ \A i \in 1 .. Len(q) : q[i] \in S
    /\ \A i, j \in 1 .. Len(q) : q[i] = q[j] => i = j
    /\ \A c \in S : \E i \in 1 .. Len(q) : q[i] = c

LEMMA HoldsAppend ==
    ASSUME NEW T, NEW q \in Seq(T), NEW S, Holds(q, S), NEW c \in T, c \notin S
    PROVE  Holds(Append(q, c), S \cup {c})
  <1>1. /\ Append(q, c) \in Seq(T) /\ Len(Append(q, c)) = Len(q) + 1
        /\ \A i \in 1 .. Len(q) : Append(q, c)[i] = q[i]
        /\ Append(q, c)[Len(q) + 1] = c /\ Len(q) \in Nat
    BY AppendProperties
  <1>2. \A i \in 1 .. Len(q) + 1 : i \in 1 .. Len(q) \/ i = Len(q) + 1
    BY <1>1
  <1>3. \A i \in 1 .. Len(q) : i \in 1 .. Len(q) + 1
    BY <1>1
  <1>4. Len(q) + 1 \in 1 .. Len(q) + 1
    BY <1>1
  <1> QED
    BY <1>1, <1>2, <1>3, <1>4 DEF Holds

LEMMA HoldsTail ==
    ASSUME NEW T, NEW q \in Seq(T), NEW S, Holds(q, S), q # <<>>
    PROVE  Holds(Tail(q), S \ {Head(q)}) /\ Head(q) \in S /\ Head(q) \in T
  <1>1. /\ Len(Tail(q)) = Len(q) - 1 /\ Len(q) \in Nat
        /\ \A j \in 1 .. Len(q) - 1 : Tail(q)[j] = q[j + 1] /\ j + 1 \in 1 .. Len(q) /\ j + 1 # 1
        /\ Head(q) = q[1] /\ 1 \in 1 .. Len(q) /\ Head(q) \in T
    BY TailElements
  <1>2. \A i \in 1 .. Len(q) : i = 1 \/ (i - 1 \in 1 .. Len(q) - 1 /\ Tail(q)[i - 1] = q[i])
    <2> SUFFICES ASSUME NEW i \in 1 .. Len(q), i # 1
                 PROVE  i - 1 \in 1 .. Len(q) - 1 /\ Tail(q)[i - 1] = q[i]
      OBVIOUS
    <2>1. i - 1 \in 1 .. Len(q) - 1 /\ (i - 1) + 1 = i
      BY <1>1
    <2> QED
      BY <1>1, <2>1
  <1>3. \A i \in 1 .. Len(q) - 1 : Tail(q)[i] \in S \ {Head(q)}
    BY <1>1 DEF Holds
  <1>4. ASSUME NEW i \in 1 .. Len(q) - 1, NEW j \in 1 .. Len(q) - 1, Tail(q)[i] = Tail(q)[j]
        PROVE  i = j
    <2>1. q[i + 1] = q[j + 1] /\ i + 1 \in 1 .. Len(q) /\ j + 1 \in 1 .. Len(q)
      BY <1>1, <1>4
    <2>2. i + 1 = j + 1
      BY <2>1 DEF Holds
    <2> QED
      BY <2>2
  <1>5. \A c \in S \ {Head(q)} : \E i \in 1 .. Len(q) - 1 : Tail(q)[i] = c
    BY <1>1, <1>2 DEF Holds
  <1> QED
    BY <1>1, <1>3, <1>4, <1>5 DEF Holds

(* How often such a queue holds c. *)
LEMMA HoldsOnce ==
    ASSUME NEW T, NEW q \in Seq(T), NEW S, Holds(q, S), NEW c
    PROVE  Cardinality({i \in DOMAIN q : q[i] = c}) = IF c \in S THEN 1 ELSE 0
  <1>0. DOMAIN q = 1 .. Len(q)
    OBVIOUS
  <1>1. CASE c \in S
    <2>1. PICK i \in 1 .. Len(q) : q[i] = c
      BY <1>1 DEF Holds
    <2>2. {k \in DOMAIN q : q[k] = c} = {i}
      BY <1>0, <2>1 DEF Holds
    <2> QED
      BY <1>1, <2>2, FS_Singleton
  <1>2. CASE c \notin S
    <2>1. {k \in DOMAIN q : q[k] = c} = {}
      BY <1>0, <1>2 DEF Holds
    <2> QED
      BY <1>2, <2>1, FS_EmptySet
  <1> QED
    BY <1>1, <1>2

-----------------------------------------------------------------------------
(* The fallback listener *)

ProbeBounds == IsFiniteSet(Conns) /\ Capacity \in Nat

Counted == {"valid", "fallback"}

(* Connections whose detection is over, and those of them that are still about. *)
Detected == {c \in Conns : phase[c] \notin {"none", "backlog", "detecting"}}
Kept == {c \in Conns : phase[c] \in {"queued", "users", "valid", "requesting"}}

ProbeTyped ==
    /\ mode \in {"none", "builtin", "proxy", "trojan"}
    /\ probing \in {"open", "closing", "closed"}
    /\ phase \in [Conns -> Probe!Phases] /\ bytes \in [Conns -> 0 .. 2]
    /\ ours \in [Conns -> BOOLEAN] /\ hung \in [Conns -> BOOLEAN]
    /\ validConns \in Seq(Conns) /\ Len(validConns) <= Capacity
    /\ counts \in [Counted -> Nat]
    /\ raced \subseteq Conns /\ crashed \in BOOLEAN

CountsFit ==
    /\ Cardinality(Kept) <= counts["valid"] + counts["fallback"]
    /\ counts["valid"] + counts["fallback"] <= Cardinality(Detected)

ProbeInv ==
    /\ ProbeTyped
    /\ Holds(validConns, Probe!In("queued"))
    /\ \A c \in Conns : phase[c] \in {"valid", "queued", "users"} => ours[c]
    /\ CountsFit
    /\ probing # "open" => Probe!In("detecting") \cup Probe!In("valid") \subseteq raced
    /\ crashed => probing # "open" /\ Probe!In("valid") # {}

(* Cardinality is the same whichever component uses it. *)
LEMMA ProbeCardinality == \A S : Probe!Cardinality(S) = Cardinality(S)
  BY DEF Probe!Cardinality, Cardinality

(* What one connection's move does to the sets that are counted. *)
LEMMA DetectedMoves ==
    ASSUME ProbeBounds, ProbeInv, NEW c \in Conns, NEW p \in Probe!Phases, Probe!Goes(c, p),
           p \notin {"none", "backlog", "detecting"} \/ c \notin Detected
    PROVE  /\ Cardinality(Detected) <= Cardinality(Detected')
           /\ p \notin {"queued", "users", "valid", "requesting"} \/ c \in Kept =>
                Cardinality(Kept') <= Cardinality(Kept)
           /\ Cardinality(Kept') <= Cardinality(Kept) + 1
           /\ c \notin Detected /\ p \notin {"none", "backlog", "detecting"} =>
                Cardinality(Detected') = Cardinality(Detected) + 1
           /\ Cardinality(Kept') \in Nat /\ Cardinality(Kept) \in Nat
           /\ Cardinality(Detected') \in Nat /\ Cardinality(Detected) \in Nat
  <1>1. \A d \in Conns : phase'[d] = IF d = c THEN p ELSE phase[d]
    BY DEF Probe!Goes, ProbeInv, ProbeTyped
  <1>2. /\ IsFiniteSet(Detected) /\ IsFiniteSet(Kept)
        /\ IsFiniteSet(Detected') /\ IsFiniteSet(Kept')
    BY FS_Subset DEF ProbeBounds, Detected, Kept
  <1>3. /\ Cardinality(Kept') \in Nat /\ Cardinality(Kept) \in Nat
        /\ Cardinality(Detected') \in Nat /\ Cardinality(Detected) \in Nat
    BY <1>2, FS_CardinalityType
  <1>4. Detected \subseteq Detected'
    BY <1>1 DEF Detected
  <1>5. Cardinality(Detected) <= Cardinality(Detected')
    BY <1>2, <1>4, FS_Subset
  <1>6. ASSUME p \notin {"queued", "users", "valid", "requesting"} \/ c \in Kept
        PROVE  Cardinality(Kept') <= Cardinality(Kept)
    <2>1. Kept' \subseteq Kept
      BY <1>1, <1>6 DEF Kept
    <2> QED
      BY <1>2, <2>1, FS_Subset
  <1>7. Cardinality(Kept') <= Cardinality(Kept) + 1
    <2>1. Kept' \subseteq Kept \cup {c}
      BY <1>1 DEF Kept
    <2>2. IsFiniteSet(Kept \cup {c}) /\ Cardinality(Kept \cup {c}) <= Cardinality(Kept) + 1
      <3>1. Cardinality(Kept \cup {c}) = Cardinality(Kept) \/ Cardinality(Kept \cup {c}) = Cardinality(Kept) + 1
        BY <1>2, FS_AddElement, Zenon
      <3>2. IsFiniteSet(Kept \cup {c})
        BY <1>2, FS_AddElement
      <3> QED
        BY <1>3, <3>1, <3>2
    <2>3. Cardinality(Kept') <= Cardinality(Kept \cup {c}) /\ Cardinality(Kept \cup {c}) \in Nat
      BY <2>1, <2>2, FS_Subset, FS_CardinalityType
    <2> QED
      BY <1>3, <2>2, <2>3
  <1>8. ASSUME c \notin Detected, p \notin {"none", "backlog", "detecting"}
        PROVE  Cardinality(Detected') = Cardinality(Detected) + 1
    <2>1. Detected' = Detected \cup {c}
      BY <1>1, <1>8 DEF Detected
    <2> QED
      BY <1>2, <1>8, <2>1, FS_AddElement
  <1> QED
    BY <1>3, <1>5, <1>6, <1>7, <1>8

(* Steps that move no connection. *)
LEMMA ProbeRests ==
    ASSUME ProbeBounds, ProbeInv, UNCHANGED <<mode, phase, ours, validConns, counts, crashed>>,
           ProbeTyped', probing' # "open" => \/ probing # "open" /\ raced' = raced
                                             \/ raced' = Probe!In("detecting") \cup Probe!In("valid"),
           probing # "open" => probing' # "open"
    PROVE  ProbeInv'
  <1>1. Detected' = Detected /\ Kept' = Kept
    BY DEF Detected, Kept
  <1>2. \A p : Probe!In(p)' = Probe!In(p)
    BY DEF Probe!In
  <1>3. Holds(validConns, Probe!In("queued"))'
    BY <1>2 DEF ProbeInv, Holds
  <1>4. probing' # "open" => (Probe!In("detecting") \cup Probe!In("valid") \subseteq raced)'
    BY <1>2 DEF ProbeInv
  <1> QED
    BY <1>1, <1>2, <1>3, <1>4 DEF ProbeInv, CountsFit

(* Steps of one connection that leave the queue and the counts alone. *)
LEMMA ProbeMoves ==
    ASSUME ProbeBounds, ProbeInv, NEW c \in Conns, NEW p \in Probe!Phases, Probe!Goes(c, p),
           UNCHANGED <<ours, validConns, counts, probing, crashed>>, ProbeTyped',
           ~ crashed, phase[c] # "queued", p \notin {"queued", "users", "valid", "requesting"},
           p \notin {"none", "backlog", "detecting"} \/ c \notin Detected,
           \/ p # "detecting" /\ raced' = raced
           \/ raced' = IF probing # "open" THEN raced \cup {c} ELSE raced
    PROVE  ProbeInv'
  <1>1. \A d \in Conns : phase'[d] = IF d = c THEN p ELSE phase[d]
    BY DEF Probe!Goes, ProbeInv, ProbeTyped
  <1>2. Probe!In("queued")' = Probe!In("queued")
    BY <1>1 DEF Probe!In
  <1>3. Holds(validConns, Probe!In("queued"))'
    BY <1>2 DEF ProbeInv, Holds
  <1>4. CountsFit'
    BY DetectedMoves DEF CountsFit, ProbeInv, ProbeTyped, Counted
  <1>5. (\A d \in Conns : phase[d] \in {"valid", "queued", "users"} => ours[d])'
    BY <1>1 DEF ProbeInv
  <1>6. (probing # "open" => Probe!In("detecting") \cup Probe!In("valid") \subseteq raced)'
    BY <1>1 DEF ProbeInv, Probe!In
  <1> QED
    BY <1>3, <1>4, <1>5, <1>6 DEF ProbeInv

LEMMA ProbePhases ==
    {"none", "backlog", "queued", "users", "closed", "detecting", "valid", "requesting",
     "relaying"} = Probe!Phases
  BY DEF Probe!Phases, Probe!Handling

LEMMA ProbeClientKeeps ==
    ASSUME ProbeBounds, ProbeInv, ~ crashed, NEW c \in Conns,
           Probe!Connect(c) \/ Probe!SendMore(c) \/ Probe!HangUp(c)
    PROVE  ProbeInv'
  <1>1. CASE Probe!Connect(c)
    <2>1. "backlog" \in Probe!Phases /\ Probe!Goes(c, "backlog")
      BY <1>1, ProbePhases DEF Probe!Connect
    <2>2. ProbeTyped'
      BY <1>1, <2>1 DEF Probe!Connect, Probe!Goes, Probe!client, ProbeInv, ProbeTyped
    <2> QED
      BY <1>1, <2>1, <2>2, ProbeMoves DEF Probe!Connect, Probe!client, Detected
  <1>2. CASE Probe!SendMore(c) \/ Probe!HangUp(c)
    <2>1. bytes' \in [Conns -> 0 .. 2]
      <3>1. CASE Probe!SendMore(c)
        <4>1. bytes[c] \in 0 .. 2 /\ bytes[c] < 2
          BY <3>1 DEF Probe!SendMore, ProbeInv, ProbeTyped
        <4>2. bytes[c] + 1 \in 0 .. 2
          BY <4>1
        <4> QED
          BY <3>1, <4>2 DEF Probe!SendMore, ProbeInv, ProbeTyped
      <3> QED
        BY <1>2, <3>1 DEF Probe!HangUp, ProbeInv, ProbeTyped
    <2>2. hung' \in [Conns -> BOOLEAN]
      BY <1>2 DEF Probe!SendMore, Probe!HangUp, ProbeInv, ProbeTyped
    <2>3. ProbeTyped'
      BY <1>2, <2>1, <2>2 DEF Probe!SendMore, Probe!HangUp, ProbeInv, ProbeTyped
    <2> QED
      BY <1>2, <2>3, ProbeRests DEF Probe!SendMore, Probe!HangUp
  <1> QED
    BY <1>1, <1>2

LEMMA ProbeHandlerMoves ==
    ASSUME ProbeBounds, ProbeInv, ~ crashed, NEW c \in Conns,
           \/ Probe!AcceptRoutine(c) \/ Probe!DetectionTimesOut(c) \/ Probe!RelayEnds(c)
           \/ \E relays \in BOOLEAN : Probe!HandleFallback(c, relays)
    PROVE  ProbeInv'
  <1>1. PICK p \in Probe!Phases :
          /\ Probe!Goes(c, p) /\ phase[c] # "queued"
          /\ p \in {"detecting", "relaying", "closed"}
          /\ p = "detecting" => phase[c] = "backlog"
    BY ProbePhases DEF Probe!AcceptRoutine, Probe!DetectionTimesOut, Probe!RelayEnds,
       Probe!HandleFallback
  <1>2. /\ UNCHANGED <<mode, bytes, hung, ours, validConns, counts, probing, crashed>>
        /\ \/ p # "detecting" /\ raced' = raced
           \/ raced' = IF probing # "open" THEN raced \cup {c} ELSE raced
    BY <1>1 DEF Probe!AcceptRoutine, Probe!DetectionTimesOut, Probe!RelayEnds,
       Probe!HandleFallback, Probe!client, ProbeInv, ProbeTyped, Probe!Goes
  <1>3. ProbeTyped'
    BY <1>1, <1>2 DEF ProbeInv, ProbeTyped, Probe!Goes
  <1> QED
    BY <1>1, <1>2, <1>3, ProbeMoves DEF Detected

LEMMA DetectKeeps ==
    ASSUME ProbeBounds, ProbeInv, ~ crashed, NEW c \in Conns, NEW long \in BOOLEAN,
           Probe!Detect(c, long)
    PROVE  ProbeInv'
  <1>1. phase[c] = "detecting" /\ c \notin Detected /\ c \notin Kept
    BY DEF Probe!Detect, Detected, Kept
  <1>2. CASE bytes[c] = 0 /\ Probe!Goes(c, "closed") /\ UNCHANGED counts
    <2>1. "closed" \in Probe!Phases
      BY ProbePhases
    <2>2. ProbeTyped'
      BY <1>2, <2>1 DEF Probe!Detect, Probe!client, ProbeInv, ProbeTyped, Probe!Goes
    <2> QED
      BY <1>1, <1>2, <2>1, <2>2, ProbeMoves DEF Probe!Detect, Probe!client
  <1>3. ASSUME NEW p \in {"valid", "closed", "requesting"}, NEW k \in Counted, Probe!Goes(c, p),
               counts' = [counts EXCEPT ![k] = @ + 1], p = "valid" => ours[c]
        PROVE  ProbeInv'
    <2>1. p \in Probe!Phases
      BY ProbePhases
    <2>2. UNCHANGED <<mode, probing, bytes, ours, hung, validConns, raced, crashed>>
      BY DEF Probe!Detect, Probe!client
    <2>3. ProbeTyped'
      BY <1>3, <2>1, <2>2 DEF ProbeInv, ProbeTyped, Probe!Goes
    <2>4. \A d \in Conns : phase'[d] = IF d = c THEN p ELSE phase[d]
      BY <1>3 DEF Probe!Goes, ProbeInv, ProbeTyped
    <2>5. Probe!In("queued")' = Probe!In("queued")
      BY <1>1, <2>4 DEF Probe!In
    <2>6. Holds(validConns, Probe!In("queued"))'
      BY <2>2, <2>5 DEF ProbeInv, Holds
    <2>7. /\ counts'["valid"] + counts'["fallback"] = counts["valid"] + counts["fallback"] + 1
          /\ counts["valid"] + counts["fallback"] \in Nat
      BY <1>3 DEF ProbeInv, ProbeTyped, Counted
    <2>8. /\ Cardinality(Kept') <= Cardinality(Kept) + 1
          /\ Cardinality(Detected') = Cardinality(Detected) + 1
          /\ Cardinality(Kept') \in Nat /\ Cardinality(Kept) \in Nat
          /\ Cardinality(Detected') \in Nat /\ Cardinality(Detected) \in Nat
      BY <1>1, <1>3, <2>1, DetectedMoves
    <2>9. CountsFit'
      BY <2>7, <2>8 DEF CountsFit, ProbeInv
    <2>10. (probing # "open" => Probe!In("detecting") \cup Probe!In("valid") \subseteq raced)'
      BY <1>1, <2>2, <2>4 DEF ProbeInv, Probe!In
    <2>11. (\A d \in Conns : phase[d] \in {"valid", "queued", "users"} => ours[d])'
      BY <1>3, <2>2, <2>4 DEF ProbeInv
    <2> QED
      BY <2>2, <2>3, <2>6, <2>9, <2>10, <2>11 DEF ProbeInv
  <1> QED
    BY <1>2, <1>3 DEF Probe!Detect, Probe!IsValid, Counted

LEMMA EnqueueKeeps ==
    ASSUME ProbeBounds, ProbeInv, ~ crashed, NEW c \in Conns, Probe!Enqueue(c)
    PROVE  ProbeInv'
  <1>1. phase[c] = "valid" /\ c \in Kept /\ c \in Detected /\ ours[c]
    BY DEF Probe!Enqueue, Detected, Kept, ProbeInv
  <1>2. UNCHANGED <<mode, probing, bytes, ours, hung, counts, raced>>
    BY DEF Probe!Enqueue, Probe!client
  <1>3. CASE probing # "open"
    <2>1. crashed' = TRUE /\ UNCHANGED <<phase, validConns>>
      BY <1>3 DEF Probe!Enqueue
    <2>2. ProbeTyped'
      BY <1>2, <2>1 DEF ProbeInv, ProbeTyped
    <2>3. Probe!In("valid") # {} /\ \A p : Probe!In(p)' = Probe!In(p)
      BY <1>1, <2>1 DEF Probe!In
    <2>4. Detected' = Detected /\ Kept' = Kept
      BY <2>1 DEF Detected, Kept
    <2>5. Holds(validConns, Probe!In("queued"))'
      BY <2>1, <2>3 DEF ProbeInv, Holds
    <2> QED
      BY <1>2, <1>3, <2>1, <2>2, <2>3, <2>4, <2>5 DEF ProbeInv, CountsFit
  <1>4. CASE probing = "open" /\ Len(validConns) >= Capacity
    <2>1. "closed" \in Probe!Phases /\ Probe!Goes(c, "closed") /\ UNCHANGED <<validConns, crashed>>
      BY <1>4, ProbePhases DEF Probe!Enqueue, ProbeInv, ProbeTyped, ProbeBounds
    <2>2. ProbeTyped'
      BY <1>2, <2>1 DEF ProbeInv, ProbeTyped, Probe!Goes
    <2> QED
      BY <1>1, <1>2, <2>1, <2>2, ProbeMoves
  <1>5. CASE probing = "open" /\ Len(validConns) < Capacity
    <2>1. /\ "queued" \in Probe!Phases /\ Probe!Goes(c, "queued") /\ UNCHANGED crashed
          /\ validConns' = Append(validConns, c)
      BY <1>5, ProbePhases DEF Probe!Enqueue
    <2>2. validConns' \in Seq(Conns) /\ Len(validConns') <= Capacity
      BY <1>5, <2>1, AppendProperties DEF ProbeInv, ProbeTyped, ProbeBounds
    <2>3. ProbeTyped'
      BY <1>2, <2>1, <2>2 DEF ProbeInv, ProbeTyped, Probe!Goes
    <2>4. \A d \in Conns : phase'[d] = IF d = c THEN "queued" ELSE phase[d]
      BY <2>1 DEF Probe!Goes, ProbeInv, ProbeTyped
    <2>5. Probe!In("queued")' = Probe!In("queued") \cup {c} /\ c \notin Probe!In("queued")
      BY <1>1, <2>4 DEF Probe!In
    <2>6. Holds(validConns, Probe!In("queued"))'
      <3>1. Holds(validConns', Probe!In("queued") \cup {c})
        BY <2>1, <2>5, HoldsAppend DEF ProbeInv, ProbeTyped
      <3> QED
        BY <2>5, <3>1 DEF Holds
    <2>7. CountsFit'
      BY <1>1, <1>2, <2>1, DetectedMoves DEF CountsFit, ProbeInv, ProbeTyped, Counted
    <2> QED
      BY <1>1, <1>2, <1>5, <2>1, <2>3, <2>4, <2>6, <2>7 DEF ProbeInv
  <1>6. Len(validConns) \in Nat /\ Capacity \in Nat
    BY DEF ProbeInv, ProbeTyped, ProbeBounds
  <1> QED
    BY <1>3, <1>4, <1>5, <1>6

LEMMA ProbeAcceptKeeps ==
    ASSUME ProbeBounds, ProbeInv, ~ crashed, Probe!Accept
    PROVE  ProbeInv'
  <1> DEFINE c == Head(validConns)
  <1>1. /\ validConns # <<>> /\ validConns' = Tail(validConns) /\ Probe!Goes(c, "users")
        /\ UNCHANGED <<mode, probing, bytes, ours, hung, counts, raced, crashed>>
    BY DEF Probe!Accept, Probe!client
  <1>2. /\ Holds(Tail(validConns), Probe!In("queued") \ {c}) /\ c \in Conns /\ phase[c] = "queued"
        /\ validConns' \in Seq(Conns) /\ Len(validConns') = Len(validConns) - 1
    <2>1. validConns \in Seq(Conns) /\ Holds(validConns, Probe!In("queued"))
      BY DEF ProbeInv, ProbeTyped
    <2>2. Holds(Tail(validConns), Probe!In("queued") \ {c}) /\ c \in Probe!In("queued")
      BY <1>1, <2>1, HoldsTail
    <2>3. validConns' \in Seq(Conns) /\ Len(validConns') = Len(validConns) - 1
      BY <1>1, <2>1, TailElements
    <2> QED
      BY <2>2, <2>3 DEF Probe!In
  <1> HIDE DEF c
  <1>3. \A d \in Conns : phase'[d] = IF d = c THEN "users" ELSE phase[d]
    BY <1>1, <1>2 DEF Probe!Goes, ProbeInv, ProbeTyped
  <1>4. "users" \in Probe!Phases
    BY ProbePhases
  <1>5. ProbeTyped'
    BY <1>1, <1>2, <1>4 DEF ProbeInv, ProbeTyped, Probe!Goes, ProbeBounds
  <1>6. Probe!In("queued")' = Probe!In("queued") \ {c}
    BY <1>2, <1>3 DEF Probe!In
  <1>7. Holds(validConns, Probe!In("queued"))'
    BY <1>1, <1>2, <1>6 DEF Holds
  <1>8. CountsFit'
    <2>1. c \in Kept /\ c \in Detected
      BY <1>2 DEF Kept, Detected
    <2> QED
      <3>1. /\ Cardinality(Kept') <= Cardinality(Kept) /\ Cardinality(Detected) <= Cardinality(Detected')
            /\ Cardinality(Kept') \in Nat /\ Cardinality(Kept) \in Nat
            /\ Cardinality(Detected') \in Nat /\ Cardinality(Detected) \in Nat
        BY <1>1, <1>2, <1>4, <2>1, DetectedMoves
      <3> QED
        BY <1>1, <3>1 DEF CountsFit, ProbeInv, ProbeTyped, Counted
  <1>9. ours[c]
    BY <1>2 DEF ProbeInv
  <1>10. (probing # "open" => Probe!In("detecting") \cup Probe!In("valid") \subseteq raced)'
    BY <1>1, <1>3 DEF ProbeInv, Probe!In
  <1> QED
    BY <1>1, <1>3, <1>5, <1>7, <1>8, <1>9, <1>10 DEF ProbeInv

LEMMA ProbeClosingKeeps ==
    ASSUME ProbeBounds, ProbeInv, ~ crashed, Probe!CloseQueue \/ Probe!CloseListener
    PROVE  ProbeInv'
  <1>1. CASE Probe!CloseQueue
    <2>1. ProbeTyped'
      BY <1>1 DEF Probe!CloseQueue, Probe!client, Probe!In, ProbeInv, ProbeTyped
    <2> QED
      BY <1>1, <2>1, ProbeRests DEF Probe!CloseQueue, Probe!client
  <1>2. CASE Probe!CloseListener
    <2>1. /\ probing = "closing" /\ probing' = "closed"
          /\ UNCHANGED <<mode, bytes, ours, hung, validConns, counts, raced, crashed>>
          /\ \A d \in Conns : phase'[d] = IF phase[d] = "backlog" THEN "closed" ELSE phase[d]
          /\ phase' \in [Conns -> Probe!Phases]
      BY <1>2, ProbePhases DEF Probe!CloseListener, Probe!client, ProbeInv, ProbeTyped
    <2>2. ProbeTyped'
      BY <2>1 DEF ProbeInv, ProbeTyped
    <2>3. /\ Probe!In("queued")' = Probe!In("queued") /\ Probe!In("valid")' = Probe!In("valid")
          /\ Probe!In("detecting")' = Probe!In("detecting") /\ Kept' = Kept
          /\ Detected \subseteq Detected'
      BY <2>1 DEF Probe!In, Kept, Detected
    <2>4. Holds(validConns, Probe!In("queued"))'
      BY <2>1, <2>3 DEF ProbeInv, Holds
    <2>5. Cardinality(Detected) <= Cardinality(Detected')
      BY <2>3, FS_Subset DEF Detected, ProbeBounds
    <2>6. Cardinality(Detected) \in Nat /\ Cardinality(Detected') \in Nat
      BY FS_Subset, FS_CardinalityType DEF Detected, ProbeBounds
    <2>7. CountsFit'
      BY <2>1, <2>3, <2>5, <2>6 DEF CountsFit, ProbeInv, ProbeTyped, Counted
    <2> QED
      BY <2>1, <2>2, <2>3, <2>4, <2>7 DEF ProbeInv
  <1> QED
    BY <1>1, <1>2

LEMMA ProbeStarts == ASSUME ProbeBounds, Probe!Init PROVE ProbeInv
  <1>1. ProbeTyped
    <2>1. phase \in [Conns -> Probe!Phases] /\ bytes \in [Conns -> 0 .. 2] /\ hung \in [Conns -> BOOLEAN]
      BY ProbePhases DEF Probe!Init
    <2>2. counts \in [Counted -> Nat] /\ validConns \in Seq(Conns) /\ Len(validConns) <= Capacity
      BY DEF Probe!Init, Counted, ProbeBounds
    <2> QED
      BY <2>1, <2>2 DEF Probe!Init, ProbeTyped
  <1>2. Probe!In("queued") = {} /\ Probe!In("valid") = {} /\ Detected = {} /\ Kept = {}
    BY DEF Probe!Init, Probe!In, Detected, Kept
  <1>3. Holds(validConns, Probe!In("queued"))
    BY <1>2 DEF Probe!Init, Holds
  <1>4. CountsFit
    BY <1>2, FS_EmptySet DEF Probe!Init, CountsFit
  <1> QED
    BY <1>1, <1>2, <1>3, <1>4 DEF Probe!Init, ProbeInv

LEMMA ProbeGoesOn == ASSUME ProbeBounds, ProbeInv, [Probe!Next]_(Probe!vars) PROVE ProbeInv'
  <1>1. CASE Probe!Next
    <2>1. ~ crashed
      BY <1>1 DEF Probe!Next
    <2>2. CASE Probe!Accept \/ Probe!CloseQueue \/ Probe!CloseListener
      BY <2>1, <2>2, ProbeAcceptKeeps, ProbeClosingKeeps
    <2>3. ASSUME NEW c \in Conns, \/ Probe!Connect(c) \/ Probe!SendMore(c) \/ Probe!HangUp(c)
                                  \/ Probe!AcceptRoutine(c) \/ Probe!Handler(c) \/ Probe!RelayEnds(c)
          PROVE  ProbeInv'
      BY <2>1, <2>3, ProbeClientKeeps, ProbeHandlerMoves, DetectKeeps, EnqueueKeeps
         DEF Probe!Handler
    <2> QED
      BY <1>1, <2>2, <2>3 DEF Probe!Next
  <1>2. CASE UNCHANGED Probe!vars
    <2>1. ProbeTyped' /\ Detected' = Detected /\ Kept' = Kept /\ \A p : Probe!In(p)' = Probe!In(p)
      BY <1>2 DEF Probe!vars, ProbeInv, ProbeTyped, Detected, Kept, Probe!In
    <2>2. Holds(validConns, Probe!In("queued"))'
      BY <1>2, <2>1 DEF Probe!vars, ProbeInv, Holds
    <2> QED
      BY <1>2, <2>1, <2>2 DEF Probe!vars, ProbeInv, CountsFit
  <1> QED
    BY <1>1, <1>2

LEMMA ProbeInvariant == ASSUME ProbeBounds PROVE Probe!Spec => []ProbeInv
  <1>1. Probe!Init => ProbeInv
    BY ProbeStarts
  <1>2. ProbeInv /\ [Probe!Next]_(Probe!vars) => ProbeInv'
    BY ProbeGoesOn
  <1> QED
    BY <1>1, <1>2, PTL DEF Probe!Spec

LEMMA ProbeImplies ==
    ASSUME ProbeBounds, ProbeInv
    PROVE  Probe!TypeOK /\ Probe!PanicsOnlyIfOvertaken /\ Probe!QueueExact
  <1>1. \A S : Probe!Cardinality(S) = Cardinality(S)
    BY ProbeCardinality
  <1>2. Probe!TypeOK
    <2>1. Cardinality(Detected) \in Nat /\ Cardinality(Conns) \in Nat
          /\ Cardinality(Detected) <= Cardinality(Conns)
      BY FS_Subset, FS_CardinalityType DEF Detected, ProbeBounds
    <2>2. counts \in [Counted -> 0 .. Cardinality(Conns)]
      <3>1. ASSUME NEW k \in Counted PROVE counts[k] \in 0 .. Cardinality(Conns)
        <4>1. counts["valid"] \in Nat /\ counts["fallback"] \in Nat
          BY DEF ProbeInv, ProbeTyped, Counted
        <4> QED
          BY <2>1, <4>1 DEF ProbeInv, CountsFit, Counted
      <3> QED
        BY <3>1 DEF ProbeInv, ProbeTyped
    <2> QED
      BY <1>1, <2>2 DEF Probe!TypeOK, ProbeInv, ProbeTyped, Counted
  <1>3. Probe!PanicsOnlyIfOvertaken
    BY DEF ProbeInv, Probe!PanicsOnlyIfOvertaken
  <1>4. Probe!QueueExact
    <2>1. ASSUME NEW c \in Conns
          PROVE  Cardinality({i \in DOMAIN validConns : validConns[i] = c}) =
                    IF phase[c] = "queued" THEN 1 ELSE 0
      <3>1. Cardinality({i \in DOMAIN validConns : validConns[i] = c}) =
               IF c \in Probe!In("queued") THEN 1 ELSE 0
        BY HoldsOnce DEF ProbeInv, ProbeTyped
      <3> QED
        BY <3>1 DEF Probe!In
    <2>2. \A c \in Probe!In("queued") \cup Probe!In("users") : ours[c]
      BY DEF ProbeInv, Probe!In
    <2>3. Probe!In("queued") \cup Probe!In("users") \cup Probe!In("valid")
             \cup Probe!In("requesting") = Kept
      BY DEF Probe!In, Kept
    <2>4. counts["valid"] + counts["fallback"] >= Cardinality(Kept)
      <3>1. Cardinality(Kept) \in Nat
        BY FS_Subset, FS_CardinalityType DEF Kept, ProbeBounds
      <3> QED
        BY <3>1 DEF ProbeInv, CountsFit, ProbeTyped, Counted
    <2> QED
      BY <1>1, <2>1, <2>2, <2>3, <2>4 DEF Probe!QueueExact
  <1> QED
    BY <1>2, <1>3, <1>4

(* A valid connection is in the queue once or not at all, and only connections that
   sent the protocol's own header get there; the counters cover them (handleConnection
   and Accept of fallback.go). *)
THEOREM QueueStaysExact == ASSUME ProbeBounds PROVE Probe!Spec => []Probe!QueueExact
  BY ProbeInvariant, ProbeImplies, PTL

(* A handler sends to the closed queue only for a connection that Close overtook
   between its detection and its hand-over (Close of fallback.go). *)
THEOREM ListenerPanicsOnlyIfOvertaken ==
    ASSUME ProbeBounds PROVE Probe!Spec => []Probe!PanicsOnlyIfOvertaken
  BY ProbeInvariant, ProbeImplies, PTL

-----------------------------------------------------------------------------
(* The WebSocket listener *)

Queued == {c \in Conns : conn[c] = "queued"}

CdnListenerInv ==
    /\ CdnListener!TypeOK
    /\ Holds(queue, Queued)
    /\ (\E c \in Conns : conn[c] = "leaked") => cdnClosed
    /\ scheme = "wss" => serving # "serves"
    /\ CdnListener!WssServesNobody

LEMMA CdnPhases ==
    {"none", "backlog", "request", "upgraded", "queued", "accepted", "closed", "leaked"}
    = CdnListener!Phases
  BY DEF CdnListener!Phases

(* Steps that neither move a connection into the queue nor out of it. *)
LEMMA CdnMoves ==
    ASSUME CdnListenerInv, conn' \in [Conns -> CdnListener!Phases], UNCHANGED <<scheme, queue>>,
           serving' \in {"begin", "serves", "ended"}, listening' \in BOOLEAN, cdnClosed' \in BOOLEAN,
           \A c \in Conns : conn'[c] = "queued" <=> conn[c] = "queued",
           (\E c \in Conns : conn'[c] = "leaked") => cdnClosed',
           scheme = "wss" => serving' # "serves",
           CdnListener!WssServesNobody'
    PROVE  CdnListenerInv'
  <1>1. Queued' = Queued
    BY DEF Queued
  <1>2. Holds(queue, Queued)'
    BY <1>1 DEF CdnListenerInv, Holds
  <1>3. CdnListener!TypeOK'
    BY DEF CdnListenerInv, CdnListener!TypeOK
  <1> QED
    BY <1>2, <1>3 DEF CdnListenerInv

LEMMA CdnServerKeeps ==
    ASSUME CdnListenerInv, CdnListener!Serve \/ CdnListener!ServeEnds \/ CdnListener!CloseQueue
    PROVE  CdnListenerInv'
  <1>1. UNCHANGED <<scheme, conn, queue>> /\ cdnClosed' \in {cdnClosed, TRUE}
        /\ listening' = listening
    BY DEF CdnListener!Serve, CdnListener!ServeEnds, CdnListener!CloseQueue,
       CdnListener!CloseChannel
  <1>2. serving' \in {"begin", "serves", "ended"} /\ (scheme = "wss" => serving' # "serves")
    BY DEF CdnListener!Serve, CdnListener!ServeEnds, CdnListener!CloseQueue,
       CdnListener!CloseChannel, CdnListenerInv, CdnListener!TypeOK
  <1> QED
    BY <1>1, <1>2, CdnMoves DEF CdnListenerInv, CdnListener!TypeOK, CdnListener!WssServesNobody

LEMMA CdnClientKeeps ==
    ASSUME CdnListenerInv, NEW c \in Conns,
           CdnListener!Connect(c) \/ CdnListener!Request(c) \/ CdnListener!Upgrade(c)
    PROVE  CdnListenerInv'
  <1>1. UNCHANGED <<scheme, serving, listening, cdnClosed, queue>>
    BY DEF CdnListener!Connect, CdnListener!Request, CdnListener!Upgrade
  <1>2. PICK p \in {"backlog", "request", "upgraded", "closed"} :
          /\ conn' = [conn EXCEPT ![c] = p] /\ conn[c] # "queued"
          /\ scheme = "wss" => p \in {"backlog", "closed"}
    BY DEF CdnListener!Connect, CdnListener!Request, CdnListener!Upgrade, CdnListener!Becomes,
       CdnListenerInv, CdnListener!WssServesNobody
  <1>3. /\ conn' \in [Conns -> CdnListener!Phases]
        /\ \A d \in Conns : conn'[d] = IF d = c THEN p ELSE conn[d]
    BY <1>2, CdnPhases DEF CdnListenerInv, CdnListener!TypeOK
  <1> QED
    BY <1>1, <1>2, <1>3, CdnMoves DEF CdnListenerInv, CdnListener!TypeOK,
       CdnListener!WssServesNobody

LEMMA CdnCloseListenerKeeps ==
    ASSUME CdnListenerInv, CdnListener!CloseListener PROVE CdnListenerInv'
  <1>1. /\ UNCHANGED <<scheme, serving, cdnClosed, queue>> /\ listening' = FALSE
        /\ \A d \in Conns : conn'[d] = IF conn[d] = "backlog" THEN "closed" ELSE conn[d]
        /\ conn' \in [Conns -> CdnListener!Phases]
    BY CdnPhases DEF CdnListener!CloseListener, CdnListenerInv, CdnListener!TypeOK
  <1> QED
    BY <1>1, CdnMoves DEF CdnListenerInv, CdnListener!TypeOK, CdnListener!WssServesNobody

LEMMA CdnHandOverKeeps ==
    ASSUME Capacity \in Nat, CdnListenerInv, NEW c \in Conns, CdnListener!HandOver(c)
    PROVE  CdnListenerInv'
  <1>1. /\ UNCHANGED <<scheme, serving, listening, cdnClosed>> /\ conn[c] = "upgraded"
        /\ scheme # "wss"
    BY DEF CdnListener!HandOver, CdnListenerInv, CdnListener!WssServesNobody
  <1>5. /\ Len(queue) \in Nat /\ Len(queue) <= Capacity /\ cdnClosed \in BOOLEAN
        /\ conn' = [conn EXCEPT ![c] = IF cdnClosed THEN "leaked"
                                       ELSE IF Len(queue) = Capacity THEN "closed" ELSE "queued"]
        /\ queue' = IF ~ cdnClosed /\ Len(queue) < Capacity THEN Append(queue, c) ELSE queue
    BY DEF CdnListener!HandOver, CdnListener!Becomes, CdnListenerInv, CdnListener!TypeOK
  <1>2. CASE cdnClosed \/ Len(queue) >= Capacity
    <2>1. PICK p \in {"leaked", "closed"} :
            conn' = [conn EXCEPT ![c] = p] /\ queue' = queue /\ (p = "leaked" => cdnClosed)
      <3>1. CASE cdnClosed
        BY <1>5, <3>1
      <3>2. CASE ~ cdnClosed
        <4>1. Len(queue) = Capacity /\ ~ (Len(queue) < Capacity)
          BY <1>2, <1>5, <3>2
        <4> QED
          BY <1>5, <3>2, <4>1
      <3> QED
        BY <3>1, <3>2
    <2>2. /\ conn' \in [Conns -> CdnListener!Phases]
          /\ \A d \in Conns : conn'[d] = IF d = c THEN p ELSE conn[d]
      BY <2>1, CdnPhases DEF CdnListenerInv, CdnListener!TypeOK
    <2> QED
      BY <1>1, <2>1, <2>2, CdnMoves DEF CdnListenerInv, CdnListener!TypeOK,
         CdnListener!WssServesNobody
  <1>3. CASE ~ cdnClosed /\ Len(queue) < Capacity
    <2>1. conn' = [conn EXCEPT ![c] = "queued"] /\ queue' = Append(queue, c)
      <3>1. Len(queue) # Capacity
        BY <1>3, <1>5
      <3> QED
        BY <1>3, <1>5, <3>1
    <2>2. /\ conn' \in [Conns -> CdnListener!Phases]
          /\ \A d \in Conns : conn'[d] = IF d = c THEN "queued" ELSE conn[d]
      BY <2>1, CdnPhases DEF CdnListenerInv, CdnListener!TypeOK
    <2>3. queue' \in Seq(Conns) /\ Len(queue') <= Capacity
      BY <1>3, <2>1, AppendProperties DEF CdnListenerInv, CdnListener!TypeOK
    <2>4. CdnListener!TypeOK'
      BY <1>1, <2>2, <2>3 DEF CdnListenerInv, CdnListener!TypeOK
    <2>5. Queued' = Queued \cup {c} /\ c \notin Queued
      BY <1>1, <2>2 DEF Queued
    <2>6. Holds(queue, Queued)'
      <3>1. Holds(queue', Queued \cup {c})
        BY <2>1, <2>5, HoldsAppend DEF CdnListenerInv, CdnListener!TypeOK
      <3> QED
        BY <2>5, <3>1 DEF Holds
    <2> QED
      BY <1>1, <2>2, <2>4, <2>6 DEF CdnListenerInv, CdnListener!WssServesNobody
  <1>4. Len(queue) \in Nat
    BY DEF CdnListenerInv, CdnListener!TypeOK
  <1> QED
    BY <1>2, <1>3, <1>4

LEMMA CdnAcceptKeeps ==
    ASSUME Capacity \in Nat, CdnListenerInv, CdnListener!Accept PROVE CdnListenerInv'
  <1>1. /\ queue # <<>> /\ queue' = Tail(queue) /\ UNCHANGED <<scheme, serving, listening, cdnClosed>>
        /\ conn' = [conn EXCEPT ![Head(queue)] = "accepted"] /\ queue \in Seq(Conns)
    BY DEF CdnListener!Accept, CdnListener!Becomes, CdnListenerInv, CdnListener!TypeOK
  <1>2. /\ Holds(Tail(queue), Queued \ {Head(queue)}) /\ Head(queue) \in Queued
        /\ queue' \in Seq(Conns) /\ Len(queue') = Len(queue) - 1
    BY <1>1, HoldsTail, TailElements DEF CdnListenerInv
  <1>3. PICK c \in Conns : c = Head(queue)
    BY <1>1, <1>2 DEF Queued
  <1>4. /\ conn' \in [Conns -> CdnListener!Phases] /\ conn[c] = "queued"
        /\ \A d \in Conns : conn'[d] = IF d = c THEN "accepted" ELSE conn[d]
    BY <1>1, <1>2, <1>3, CdnPhases DEF CdnListenerInv, CdnListener!TypeOK, Queued
  <1>5. Queued' = Queued \ {c}
    BY <1>4 DEF Queued
  <1>6. Holds(queue, Queued)'
    BY <1>1, <1>2, <1>3, <1>5 DEF Holds
  <1>7. CdnListener!TypeOK'
    BY <1>1, <1>2, <1>4 DEF CdnListenerInv, CdnListener!TypeOK
  <1>8. scheme # "wss"
    BY <1>4 DEF CdnListenerInv, CdnListener!WssServesNobody
  <1> QED
    BY <1>1, <1>4, <1>6, <1>7, <1>8 DEF CdnListenerInv, CdnListener!WssServesNobody

LEMMA CdnListenerStarts ==
    ASSUME Capacity \in Nat, CdnListener!Init PROVE CdnListenerInv
  <1>3. "none" \in CdnListener!Phases
    BY DEF CdnListener!Phases
  <1>4. queue \in Seq(Conns) /\ Len(queue) = 0 /\ Len(queue) <= Capacity
    BY DEF CdnListener!Init
  <1>5. conn = [c \in Conns |-> "none"]
    BY DEF CdnListener!Init
  <1>6. conn \in [Conns -> CdnListener!Phases]
    BY <1>3, <1>5
  <1>1. CdnListener!TypeOK /\ Queued = {}
    BY <1>4, <1>5, <1>6 DEF CdnListener!Init, CdnListener!TypeOK, Queued
  <1>2. Holds(queue, Queued)
    BY <1>1 DEF CdnListener!Init, Holds
  <1> QED
    BY <1>1, <1>2 DEF CdnListener!Init, CdnListenerInv, CdnListener!WssServesNobody

LEMMA CdnListenerGoesOn ==
    ASSUME Capacity \in Nat, CdnListenerInv, [CdnListener!Next]_(CdnListener!vars)
    PROVE  CdnListenerInv'
  <1>1. CASE CdnListener!Next
    BY <1>1, CdnServerKeeps, CdnAcceptKeeps, CdnCloseListenerKeeps, CdnClientKeeps,
       CdnHandOverKeeps DEF CdnListener!Next
  <1>2. CASE UNCHANGED CdnListener!vars
    BY <1>2, CdnMoves DEF CdnListener!vars, CdnListenerInv, CdnListener!TypeOK,
       CdnListener!WssServesNobody
  <1> QED
    BY <1>1, <1>2

LEMMA CdnListenerInvariant ==
    ASSUME Capacity \in Nat PROVE CdnListener!Spec => []CdnListenerInv
  <1>1. CdnListener!Init => CdnListenerInv
    BY CdnListenerStarts
  <1>2. CdnListenerInv /\ [CdnListener!Next]_(CdnListener!vars) => CdnListenerInv'
    BY CdnListenerGoesOn
  <1> QED
    BY <1>1, <1>2, PTL DEF CdnListener!Spec

LEMMA CdnOwnership == ASSUME CdnListenerInv PROVE CdnListener!ConnectionsOwned
  <1>1. \A S : CdnListener!Cardinality(S) = Cardinality(S)
    BY DEF CdnListener!Cardinality, Cardinality
  <1>2. ASSUME NEW c \in Conns
        PROVE  Cardinality({i \in DOMAIN queue : queue[i] = c}) =
                  IF conn[c] = "queued" THEN 1 ELSE 0
    <2>1. Cardinality({i \in DOMAIN queue : queue[i] = c}) = IF c \in Queued THEN 1 ELSE 0
      BY HoldsOnce DEF CdnListenerInv, CdnListener!TypeOK
    <2> QED
      BY <2>1 DEF Queued
  <1> QED
    BY <1>1, <1>2 DEF CdnListenerInv, CdnListener!ConnectionsOwned

(* A connection the server has upgraded is in the channel once, with the caller of
   Accept, or closed; it is lost open only once Close has closed the channel
   (handleWebSocket and Close of cdn_friendly.go). *)
THEOREM ConnectionsStayOwned ==
    ASSUME Capacity \in Nat PROVE CdnListener!Spec => []CdnListener!ConnectionsOwned
  BY CdnListenerInvariant, CdnOwnership, PTL

-----------------------------------------------------------------------------
(* The dataplanes *)

PlaneBounds ==
    /\ MaxChannels \in Nat /\ MaxFrames \in Nat /\ OutboundCapacity \in Nat
    /\ Buffer \in Nat

Flow ==
    /\ kind \in {"loopback", "udp", "tun"} /\ planeClosed \in BOOLEAN /\ deviceClosed \in BOOLEAN
    /\ planeLoop \in {"none", "read", "send", "ended", "panicked"}
    /\ frames \in 0 .. MaxFrames /\ taken \in 0 .. frames
    /\ outbound \in Seq(0 .. frames) /\ Len(outbound) <= OutboundCapacity

ChannelType == [held : 0 .. Buffer, closed : BOOLEAN]
Given == 1 .. Len(channel)     \* the channels Subscribe returned
Registered(c) ==
    \E p \in DOMAIN subscribers : \E i \in 1 .. Len(subscribers[p]) : subscribers[p][i] = c

Fanout ==
    /\ channel \in Seq(ChannelType) /\ Len(channel) <= MaxChannels
    /\ DOMAIN subscribers \subseteq PlanePeers
    /\ subscribers \in [DOMAIN subscribers -> Seq(Given)]
    /\ \/ deliver = Plane!Idle
       \/ deliver.pc \in {"fan", "panicked"} /\ deliver.left \in Seq(Given) /\ deliver.left # <<>>
          /\ deliver = [pc |-> deliver.pc, left |-> deliver.left]
    /\ \A c \in Given : Registered(c)
    /\ \A c \in Given : channel[c].closed = planeClosed
    /\ kind = "loopback" \/ channel = <<>>

PlaneInv == Flow /\ Fanout

(* A sequence over a set is one over any larger set. *)
LEMMA SeqGrows ==
    ASSUME NEW S, NEW T, S \subseteq T, NEW q \in Seq(S) PROVE q \in Seq(T)
  <1>1. \A i \in 1 .. Len(q) : q[i] \in T
    OBVIOUS
  <1>2. q \in [1 .. Len(q) -> T] /\ Len(q) \in Nat
    BY <1>1
  <1> QED
    BY <1>2, SeqDef

LEMMA OfferTyped ==
    ASSUME PlaneBounds, Flow, NEW n \in 0 .. MaxFrames, frames <= n
    PROVE  /\ Plane!Offer(n) \in Seq(0 .. n) /\ Len(Plane!Offer(n)) <= OutboundCapacity
  <1>1. outbound \in Seq(0 .. n) /\ n \in 0 .. n /\ Len(outbound) \in Nat
    <2>1. 0 .. frames \subseteq 0 .. n
      BY DEF Flow
    <2>2. outbound \in Seq(0 .. n)
      BY <2>1, SeqGrows DEF Flow
    <2> QED
      BY <2>2 DEF Flow
  <1>2. CASE Len(outbound) < OutboundCapacity
    <2>1. Append(outbound, n) \in Seq(0 .. n) /\ Len(Append(outbound, n)) = Len(outbound) + 1
      BY <1>1, AppendProperties
    <2> QED
      BY <1>1, <1>2, <2>1 DEF Plane!Offer, PlaneBounds
  <1>3. CASE ~ (Len(outbound) < OutboundCapacity)
    BY <1>1, <1>3 DEF Plane!Offer, Flow
  <1> QED
    BY <1>2, <1>3

(* Frames come and go while nobody subscribes or delivers. *)
LEMMA FramesMove ==
    ASSUME PlaneBounds, Fanout, Flow', UNCHANGED <<kind, planeClosed, subscribers, channel, deliver>>
    PROVE  PlaneInv'
  BY DEF PlaneInv, Fanout, Given, Registered

LEMMA InjectKeeps == ASSUME PlaneBounds, PlaneInv, Plane!Inject PROVE PlaneInv'
  <1>1. /\ UNCHANGED <<kind, planeClosed, deviceClosed, taken, subscribers, channel, deliver, planeLoop>>
        /\ frames' = frames + 1 /\ frames < MaxFrames /\ outbound' = Plane!Offer(frames')
    BY DEF Plane!Inject
  <1>2. /\ frames' \in 0 .. MaxFrames /\ frames <= frames' /\ taken \in 0 .. frames'
    BY <1>1 DEF PlaneBounds, PlaneInv, Flow
  <1>3. outbound' \in Seq(0 .. frames') /\ Len(outbound') <= OutboundCapacity
    BY <1>1, <1>2, OfferTyped DEF PlaneInv
  <1> QED
    BY <1>1, <1>2, <1>3, FramesMove DEF PlaneInv, Flow

LEMMA BridgeReadsKeeps ==
    ASSUME PlaneBounds, PlaneInv, Plane!UDPReads \/ Plane!TUNReads PROVE PlaneInv'
  <1>1. /\ UNCHANGED <<kind, planeClosed, deviceClosed, taken, subscribers, channel, deliver, outbound>>
        /\ frames' = frames + 1 /\ frames < MaxFrames /\ planeLoop' = "send"
    BY DEF Plane!UDPReads, Plane!TUNReads
  <1>2. /\ frames' \in 0 .. MaxFrames /\ frames <= frames' /\ taken \in 0 .. frames'
    BY <1>1 DEF PlaneBounds, PlaneInv, Flow
  <1>3. outbound \in Seq(0 .. frames')
    <2>1. outbound \in Seq(0 .. frames) /\ 0 .. frames \subseteq 0 .. frames'
      BY <1>1 DEF PlaneInv, Flow, PlaneBounds
    <2> QED
      BY <2>1, SeqGrows
  <1> QED
    BY <1>1, <1>2, <1>3, FramesMove DEF PlaneInv, Flow

LEMMA LoopKeeps ==
    ASSUME PlaneBounds, PlaneInv, Plane!LoopSends \/ Plane!LoopEnds PROVE PlaneInv'
  <1>1. /\ UNCHANGED <<kind, planeClosed, deviceClosed, taken, subscribers, channel, deliver, frames>>
        /\ planeLoop' \in {"panicked", "read", "ended"}
        /\ outbound' \in {outbound, Plane!Offer(frames)}
    BY DEF Plane!LoopSends, Plane!LoopEnds
  <1>2. frames \in 0 .. MaxFrames /\ frames <= frames
    BY DEF PlaneInv, Flow, PlaneBounds
  <1>3. outbound' \in Seq(0 .. frames) /\ Len(outbound') <= OutboundCapacity
    BY <1>1, <1>2, OfferTyped DEF PlaneInv, Flow
  <1> QED
    BY <1>1, <1>3, FramesMove DEF PlaneInv, Flow

LEMMA PumpKeeps == ASSUME PlaneBounds, PlaneInv, Plane!Pump PROVE PlaneInv'
  <1>1. /\ UNCHANGED <<kind, planeClosed, deviceClosed, frames, subscribers, channel, deliver, planeLoop>>
        /\ outbound # <<>> /\ outbound' = Tail(outbound) /\ taken' = Head(outbound)
    BY DEF Plane!Pump
  <1>2. /\ outbound' \in Seq(0 .. frames) /\ Len(outbound') = Len(outbound) - 1
        /\ taken' \in 0 .. frames /\ Len(outbound) \in Nat
    BY <1>1, TailElements DEF PlaneInv, Flow
  <1>3. Len(outbound') <= OutboundCapacity
    BY <1>2 DEF PlaneInv, Flow, PlaneBounds
  <1> QED
    BY <1>1, <1>2, <1>3, FramesMove DEF PlaneInv, Flow

LEMMA DeviceClosesKeeps == ASSUME PlaneBounds, PlaneInv, Plane!CloseDevice PROVE PlaneInv'
  BY FramesMove DEF PlaneInv, Flow, Plane!CloseDevice

(* Channels belong to a loopback: a bridge has none to close. *)
LEMMA EnsureKeepsFanout ==
    ASSUME PlaneBounds, PlaneInv, NEW p \in PlanePeers, Plane!EnsurePeer(p) PROVE PlaneInv'
  <1>1. /\ UNCHANGED <<kind, planeClosed, deviceClosed, outbound, frames, taken, channel, deliver, planeLoop>>
        /\ subscribers' = [q \in DOMAIN subscribers \cup {p} |->
                             IF q \in DOMAIN subscribers THEN subscribers[q] ELSE <<>>]
    BY DEF Plane!EnsurePeer, Plane!Ensure, Plane!Known
  <1>2. /\ DOMAIN subscribers' = DOMAIN subscribers \cup {p}
        /\ \A q \in DOMAIN subscribers : subscribers'[q] = subscribers[q]
        /\ \A q \in DOMAIN subscribers' : subscribers'[q] \in Seq(Given)
    <2>1. <<>> \in Seq(Given)
      OBVIOUS
    <2>2. \A q \in DOMAIN subscribers : subscribers[q] \in Seq(Given)
      BY DEF PlaneInv, Fanout
    <2> QED
      BY <1>1, <2>1, <2>2
  <1>3. subscribers' \in [DOMAIN subscribers' -> Seq(Given)] /\ DOMAIN subscribers' \subseteq PlanePeers
    BY <1>1, <1>2 DEF PlaneInv, Fanout
  <1>4. \A c \in Given : Registered(c)'
    <2> SUFFICES ASSUME NEW c \in Given PROVE Registered(c)'
      OBVIOUS
    <2>1. PICK q \in DOMAIN subscribers : \E i \in 1 .. Len(subscribers[q]) : subscribers[q][i] = c
      BY DEF PlaneInv, Fanout, Registered
    <2>2. q \in DOMAIN subscribers' /\ subscribers'[q] = subscribers[q]
      BY <1>2
    <2> QED
      BY <2>1, <2>2 DEF Registered
  <1>5. Flow' /\ Given' = Given
    BY <1>1 DEF PlaneInv, Flow, Given
  <1> QED
    BY <1>1, <1>3, <1>4, <1>5 DEF PlaneInv, Fanout

LEMMA SubscribeKeeps ==
    ASSUME PlaneBounds, PlaneInv, NEW p \in PlanePeers, Plane!Subscribe(p) PROVE PlaneInv'
  <1> DEFINE n == Len(channel) + 1
             new == [held |-> 0, closed |-> FALSE]
  <1>1. /\ UNCHANGED <<kind, planeClosed, deviceClosed, outbound, frames, taken, deliver, planeLoop>>
        /\ kind = "loopback" /\ ~ planeClosed /\ n <= MaxChannels /\ channel' = Append(channel, new)
        /\ subscribers' = [q \in DOMAIN subscribers \cup {p} |->
               IF q \notin DOMAIN subscribers THEN <<n>>
               ELSE IF q = p THEN Append(subscribers[q], n) ELSE subscribers[q]]
    BY DEF Plane!Subscribe, Plane!Known
  <1>2. new \in ChannelType /\ channel \in Seq(ChannelType) /\ Len(channel) \in Nat
    BY DEF ChannelType, PlaneBounds, PlaneInv, Fanout
  <1> HIDE DEF new
  <1>3. /\ channel' \in Seq(ChannelType) /\ Len(channel') = n
        /\ \A c \in Given : channel'[c] = channel[c]
        /\ channel'[n] = new
    BY <1>1, <1>2, AppendProperties DEF Given
  <1>4. Given' = Given \cup {n} /\ Given \subseteq Given' /\ n \in Given'
    BY <1>2, <1>3 DEF Given
  <1>5. \A q \in DOMAIN subscribers : subscribers[q] \in Seq(Given) /\ subscribers[q] \in Seq(Given')
    BY <1>4, SeqGrows DEF PlaneInv, Fanout
  <1>6. ASSUME NEW q \in DOMAIN subscribers'
        PROVE  /\ subscribers'[q] \in Seq(Given')
               /\ q = p => \E i \in 1 .. Len(subscribers'[q]) : subscribers'[q][i] = n
               /\ q \in DOMAIN subscribers =>
                    /\ \A i \in 1 .. Len(subscribers[q]) :
                         /\ i \in 1 .. Len(subscribers'[q])
                         /\ subscribers'[q][i] = subscribers[q][i]
    <2>1. q \in DOMAIN subscribers \cup {p}
      BY <1>1
    <2>2. CASE q \notin DOMAIN subscribers
      <3>1. subscribers'[q] = <<n>>
        BY <1>1, <2>1, <2>2
      <3>2. <<n>> \in Seq(Given') /\ Len(<<n>>) = 1 /\ 1 \in 1 .. 1 /\ <<n>>[1] = n
        BY <1>4
      <3> QED
        BY <2>2, <3>1, <3>2
    <2>3. CASE q \in DOMAIN subscribers /\ q = p
      <3>1. subscribers'[q] = Append(subscribers[q], n)
        BY <1>1, <2>3
      <3>2. subscribers[q] \in Seq(Given')
        BY <1>5, <2>3
      <3>3. /\ Append(subscribers[q], n) \in Seq(Given')
            /\ Len(Append(subscribers[q], n)) = Len(subscribers[q]) + 1
            /\ \A i \in 1 .. Len(subscribers[q]) : Append(subscribers[q], n)[i] = subscribers[q][i]
            /\ Append(subscribers[q], n)[Len(subscribers[q]) + 1] = n
            /\ Len(subscribers[q]) \in Nat
        BY <1>4, <3>2, AppendProperties
      <3>4. /\ Len(subscribers[q]) + 1 \in 1 .. Len(subscribers[q]) + 1
            /\ \A i \in 1 .. Len(subscribers[q]) : i \in 1 .. Len(subscribers[q]) + 1
        BY <3>3
      <3> QED
        BY <3>1, <3>3, <3>4
    <2>4. CASE q \in DOMAIN subscribers /\ q # p
      <3>1. subscribers'[q] = subscribers[q]
        BY <1>1, <2>4
      <3> QED
        BY <1>5, <2>4, <3>1
    <2> QED
      BY <2>1, <2>2, <2>3, <2>4
  <1>7. DOMAIN subscribers' = DOMAIN subscribers \cup {p}
    BY <1>1
  <1>8. subscribers' \in [DOMAIN subscribers' -> Seq(Given')] /\ DOMAIN subscribers' \subseteq PlanePeers
    BY <1>1, <1>6, <1>7 DEF PlaneInv, Fanout
  <1>9. ASSUME NEW c \in Given' PROVE Registered(c)' /\ channel'[c].closed = planeClosed'
    <2>1. CASE c \in Given
      <3>1. PICK q \in DOMAIN subscribers : \E i \in 1 .. Len(subscribers[q]) : subscribers[q][i] = c
        BY <2>1 DEF PlaneInv, Fanout, Registered
      <3>2. q \in DOMAIN subscribers'
        BY <1>7
      <3>3. \E i \in 1 .. Len(subscribers'[q]) : subscribers'[q][i] = c
        BY <1>6, <3>1, <3>2
      <3> QED
        BY <1>1, <1>3, <2>1, <3>2, <3>3 DEF Registered, PlaneInv, Fanout
    <2>2. CASE c = n
      <3>1. p \in DOMAIN subscribers' /\ \E i \in 1 .. Len(subscribers'[p]) : subscribers'[p][i] = n
        BY <1>6, <1>7
      <3>2. Registered(c)'
        BY <2>2, <3>1 DEF Registered
      <3>3. channel'[c].closed = FALSE /\ planeClosed = FALSE
        BY <1>1, <1>3, <2>2 DEF new, PlaneInv, Flow
      <3> QED
        BY <1>1, <3>2, <3>3
    <2> QED
      BY <1>4, <2>1, <2>2
  <1>10. \/ deliver = Plane!Idle
         \/ deliver.pc \in {"fan", "panicked"} /\ deliver.left \in Seq(Given') /\ deliver.left # <<>>
            /\ deliver = [pc |-> deliver.pc, left |-> deliver.left]
    BY <1>4, SeqGrows DEF PlaneInv, Fanout
  <1>11. Flow'
    BY <1>1 DEF PlaneInv, Flow
  <1> QED
    BY <1>1, <1>3, <1>8, <1>9, <1>10, <1>11 DEF PlaneInv, Fanout

LEMMA PlaneDeliverKeeps ==
    ASSUME PlaneBounds, PlaneInv, NEW p, Plane!Deliver(p) PROVE PlaneInv'
  <1>1. /\ UNCHANGED <<kind, planeClosed, deviceClosed, outbound, frames, taken, subscribers, channel,
                       planeLoop>>
        /\ p \in DOMAIN subscribers /\ subscribers[p] # <<>>
        /\ deliver' = [pc |-> "fan", left |-> subscribers[p]]
    BY DEF Plane!Deliver, Plane!Known
  <1>2. subscribers[p] \in Seq(Given)
    BY <1>1 DEF PlaneInv, Fanout
  <1>3. Given' = Given /\ Flow' /\ \A c \in Given : Registered(c)'
    BY <1>1 DEF PlaneInv, Flow, Given, Fanout, Registered
  <1> QED
    BY <1>1, <1>2, <1>3 DEF PlaneInv, Fanout

(* The channels hold more or less, and none opens or closes. *)
LEMMA ChannelsKeep ==
    ASSUME PlaneInv, NEW c \in Given, NEW h \in 0 .. Buffer,
           channel' = [channel EXCEPT ![c].held = h],
           UNCHANGED <<kind, planeClosed, deviceClosed, outbound, frames, taken, subscribers, planeLoop>>,
           \/ deliver' = Plane!Idle
           \/ deliver'.pc \in {"fan", "panicked"} /\ deliver'.left \in Seq(Given) /\ deliver'.left # <<>>
              /\ deliver' = [pc |-> deliver'.pc, left |-> deliver'.left]
    PROVE  PlaneInv'
  <1>1. channel \in Seq(ChannelType) /\ DOMAIN channel = Given /\ Len(channel) \in Nat
    BY DEF PlaneInv, Fanout, Given
  <1>2. \A d \in Given : channel[d] \in ChannelType
    BY <1>1 DEF Given
  <1>3. /\ DOMAIN channel' = Given
        /\ \A d \in Given : channel'[d] = IF d = c THEN [channel[c] EXCEPT !.held = h] ELSE channel[d]
    BY <1>1
  <1>4. \A d \in Given : channel'[d] \in ChannelType /\ channel'[d].closed = channel[d].closed
    BY <1>2, <1>3 DEF ChannelType
  <1>5. channel' \in Seq(ChannelType) /\ Len(channel') = Len(channel)
    <2>1. channel' = [d \in Given |-> channel'[d]]
      BY <1>1, <1>3
    <2>2. channel' \in [1 .. Len(channel) -> ChannelType]
      BY <1>4, <2>1 DEF Given
    <2>3. channel' \in Seq(ChannelType)
      BY <1>1, <2>2, SeqDef
    <2> QED
      BY <1>1, <1>3, <2>3 DEF Given
  <1>6. Given' = Given /\ Flow' /\ \A d \in Given : Registered(d)'
    BY <1>5 DEF PlaneInv, Flow, Given, Fanout, Registered
  <1>7. kind = "loopback"
    BY <1>1 DEF PlaneInv, Fanout, Given
  <1> QED
    BY <1>4, <1>5, <1>6, <1>7 DEF PlaneInv, Fanout

LEMMA DeliverNextKeeps == ASSUME PlaneBounds, PlaneInv, Plane!DeliverNext PROVE PlaneInv'
  <1> DEFINE c == Head(deliver.left)
  <1>1. /\ UNCHANGED <<kind, planeClosed, deviceClosed, outbound, frames, taken, subscribers, planeLoop>>
        /\ deliver.pc = "fan"
        /\ \/ deliver' = [deliver EXCEPT !.pc = "panicked"] /\ channel' = channel
           \/ /\ deliver' = IF Len(deliver.left) = 1 THEN Plane!Idle
                            ELSE [deliver EXCEPT !.left = Tail(@)]
              /\ channel' = [channel EXCEPT ![c].held = IF @ < Buffer THEN @ + 1 ELSE @]
    BY DEF Plane!DeliverNext
  <1>2. /\ deliver.left \in Seq(Given) /\ deliver.left # <<>>
        /\ deliver = [pc |-> deliver.pc, left |-> deliver.left]
    BY <1>1 DEF PlaneInv, Fanout, Plane!Idle
  <1>3. /\ c \in Given /\ Tail(deliver.left) \in Seq(Given)
        /\ Len(Tail(deliver.left)) = Len(deliver.left) - 1 /\ Len(deliver.left) \in Nat
    BY <1>2, TailElements
  <1> HIDE DEF c
  <1>4. CASE deliver' = [deliver EXCEPT !.pc = "panicked"] /\ channel' = channel
    <2>1. deliver' = [pc |-> "panicked", left |-> deliver.left]
      BY <1>2, <1>4
    <2>2. Given' = Given /\ Flow' /\ \A d \in Given : Registered(d)'
      BY <1>1, <1>4 DEF PlaneInv, Flow, Given, Fanout, Registered
    <2> QED
      BY <1>1, <1>2, <1>4, <2>1, <2>2 DEF PlaneInv, Fanout
  <1>5. CASE /\ deliver' = IF Len(deliver.left) = 1 THEN Plane!Idle
                           ELSE [deliver EXCEPT !.left = Tail(@)]
             /\ channel' = [channel EXCEPT ![c].held = IF @ < Buffer THEN @ + 1 ELSE @]
    <2>1. channel[c] \in ChannelType
      BY <1>3 DEF PlaneInv, Fanout, Given
    <2> DEFINE h == IF channel[c].held < Buffer THEN channel[c].held + 1 ELSE channel[c].held
    <2>2. h \in 0 .. Buffer
      BY <2>1 DEF ChannelType, PlaneBounds
    <2>3. channel' = [channel EXCEPT ![c].held = h]
      BY <1>5
    <2>4. CASE Len(deliver.left) = 1
      BY <1>1, <1>3, <1>5, <2>2, <2>3, <2>4, ChannelsKeep
    <2>5. CASE Len(deliver.left) # 1
      <3>1. deliver' = [pc |-> "fan", left |-> Tail(deliver.left)]
        BY <1>1, <1>2, <1>5, <2>5
      <3>2. Tail(deliver.left) # <<>>
        <4>1. Len(deliver.left) # 0
          BY <1>2
        <4>2. Len(Tail(deliver.left)) # 0
          BY <1>3, <2>5, <4>1
        <4>3. Len(<<>>) = 0
          OBVIOUS
        <4> QED
          BY <4>2, <4>3
      <3> QED
        BY <1>1, <1>3, <2>2, <2>3, <3>1, <3>2, ChannelsKeep
    <2> QED
      BY <2>4, <2>5
  <1> QED
    BY <1>1, <1>4, <1>5

LEMMA ConsumeKeeps ==
    ASSUME PlaneBounds, PlaneInv, NEW c \in DOMAIN channel, Plane!Consume(c) PROVE PlaneInv'
  <1>1. /\ UNCHANGED <<kind, planeClosed, deviceClosed, outbound, frames, taken, subscribers, deliver,
                       planeLoop>>
        /\ channel[c].held > 0 /\ channel' = [channel EXCEPT ![c].held = channel[c].held - 1]
    BY DEF Plane!Consume
  <1>2. c \in Given /\ channel[c] \in ChannelType
    BY DEF PlaneInv, Fanout, Given
  <1>3. channel[c].held - 1 \in 0 .. Buffer
    BY <1>1, <1>2 DEF ChannelType, PlaneBounds
  <1> QED
    BY <1>1, <1>2, <1>3, ChannelsKeep DEF PlaneInv, Fanout

LEMMA PlaneClosesKeeps ==
    ASSUME PlaneBounds, PlaneInv, Plane!CloseLoopback PROVE PlaneInv'
  <1> DEFINE Closes(c) == \E p \in Plane!Known : c \in Plane!Range(subscribers[p])
  <1>1. /\ UNCHANGED <<kind, deviceClosed, outbound, frames, taken, subscribers, deliver, planeLoop>>
        /\ planeClosed' = TRUE /\ kind = "loopback"
        /\ channel' = [c \in DOMAIN channel |-> [channel[c] EXCEPT !.closed = Closes(c)]]
    BY DEF Plane!CloseLoopback, Plane!Channels
  <1>2. channel \in Seq(ChannelType) /\ DOMAIN channel = Given /\ Len(channel) \in Nat
    BY DEF PlaneInv, Fanout, Given
  <1>3. ASSUME NEW c \in Given PROVE Closes(c)
    <2>1. PICK p \in DOMAIN subscribers : \E i \in 1 .. Len(subscribers[p]) : subscribers[p][i] = c
      BY DEF PlaneInv, Fanout, Registered
    <2>2. subscribers[p] \in Seq(Given)
      BY DEF PlaneInv, Fanout
    <2>3. c \in Plane!Range(subscribers[p])
      BY <2>1, <2>2 DEF Plane!Range
    <2> QED
      BY <2>3 DEF Plane!Known
  <1>4. \A c \in Given : channel'[c] = [channel[c] EXCEPT !.closed = TRUE]
    BY <1>1, <1>2, <1>3
  <1>5. \A c \in Given : channel'[c] \in ChannelType /\ channel'[c].closed = TRUE
    <2> SUFFICES ASSUME NEW c \in Given
                 PROVE  channel'[c] \in ChannelType /\ channel'[c].closed = TRUE
      OBVIOUS
    <2>1. channel[c] \in ChannelType
      BY <1>2 DEF Given
    <2>2. [channel[c] EXCEPT !.closed = TRUE] \in ChannelType
          /\ [channel[c] EXCEPT !.closed = TRUE].closed = TRUE
      BY <2>1 DEF ChannelType
    <2> QED
      BY <1>4, <2>2
  <1>6. channel' \in Seq(ChannelType) /\ Len(channel') = Len(channel)
    <2>1. DOMAIN channel' = Given /\ channel' = [c \in Given |-> channel'[c]]
      BY <1>1, <1>2
    <2>2. channel' \in [1 .. Len(channel) -> ChannelType]
      BY <1>5, <2>1 DEF Given
    <2>3. channel' \in Seq(ChannelType)
      BY <1>2, <2>2, SeqDef
    <2> QED
      BY <1>2, <2>1, <2>3 DEF Given
  <1>7. Given' = Given /\ Flow' /\ \A d \in Given : Registered(d)'
    BY <1>1, <1>6 DEF PlaneInv, Flow, Given, Fanout, Registered
  <1> QED
    BY <1>1, <1>5, <1>6, <1>7 DEF PlaneInv, Fanout

LEMMA BridgeClosesKeeps == ASSUME PlaneBounds, PlaneInv, Plane!CloseBridge PROVE PlaneInv'
  <1>1. /\ UNCHANGED <<kind, deviceClosed, outbound, frames, taken, subscribers, channel, deliver,
                       planeLoop>>
        /\ planeClosed' = TRUE /\ kind # "loopback"
    BY DEF Plane!CloseBridge
  <1>2. Given = {} /\ Given' = Given
    BY <1>1 DEF PlaneInv, Fanout, Given
  <1> QED
    BY <1>1, <1>2 DEF PlaneInv, Fanout, Flow

LEMMA PlaneStarts == ASSUME PlaneBounds, Plane!Init PROVE PlaneInv
  <1>1. Flow
    <2>1. outbound \in Seq(0 .. frames) /\ Len(outbound) = 0
      BY DEF Plane!Init
    <2> QED
      <3>1. /\ frames = 0 /\ taken = 0 /\ planeClosed = FALSE /\ deviceClosed = FALSE
            /\ kind \in {"loopback", "udp", "tun"}
            /\ planeLoop = IF kind = "loopback" THEN "none" ELSE "read"
        BY DEF Plane!Init
      <3>2. frames \in 0 .. MaxFrames /\ taken \in 0 .. frames /\ Len(outbound) <= OutboundCapacity
        BY <2>1, <3>1 DEF PlaneBounds
      <3> QED
        BY <2>1, <3>1, <3>2 DEF Flow
  <1>2. Given = {} /\ channel \in Seq(ChannelType) /\ Len(channel) = 0
    BY DEF Plane!Init, Given
  <1>3. subscribers \in [DOMAIN subscribers -> Seq(Given)] /\ DOMAIN subscribers \subseteq PlanePeers
    <2>1. <<>> \in Seq(Given)
      OBVIOUS
    <2> QED
      BY <2>1 DEF Plane!Init
  <1> QED
    BY <1>1, <1>2, <1>3 DEF Plane!Init, PlaneInv, Fanout, PlaneBounds

LEMMA PlaneGoesOn == ASSUME PlaneBounds, PlaneInv, [Plane!Next]_(Plane!vars) PROVE PlaneInv'
  <1>1. CASE Plane!Next
    BY <1>1, EnsureKeepsFanout, SubscribeKeeps, PlaneDeliverKeeps, InjectKeeps, DeliverNextKeeps,
       PlaneClosesKeeps, BridgeClosesKeeps, DeviceClosesKeeps, LoopKeeps, BridgeReadsKeeps,
       PumpKeeps, ConsumeKeeps DEF Plane!Next, Plane!Closes, Plane!Channels
  <1>2. CASE UNCHANGED Plane!vars
    <2>1. UNCHANGED <<kind, planeClosed, deviceClosed, outbound, frames, taken, subscribers, channel,
                      deliver, planeLoop>>
      BY <1>2 DEF Plane!vars
    <2> QED
      BY <2>1, FramesMove DEF PlaneInv, Flow
  <1> QED
    BY <1>1, <1>2

LEMMA PlaneInvariant == ASSUME PlaneBounds PROVE Plane!Spec => []PlaneInv
  <1>1. Plane!Init => PlaneInv
    BY PlaneStarts
  <1>2. PlaneInv /\ [Plane!Next]_(Plane!vars) => PlaneInv'
    BY PlaneGoesOn
  <1> QED
    BY <1>1, <1>2, PTL DEF Plane!Spec

LEMMA PlaneImplies == ASSUME PlaneInv PROVE Plane!TypeOK /\ Plane!ChannelsClosed
  <1>1. DOMAIN channel = Given /\ \A c \in Given : channel[c] \in ChannelType
    BY DEF PlaneInv, Fanout, Given
  <1>2. \A p \in DOMAIN subscribers : Plane!Range(subscribers[p]) \subseteq DOMAIN channel
    <2>1. \A p \in DOMAIN subscribers : subscribers[p] \in Seq(Given)
      BY DEF PlaneInv, Fanout
    <2> QED
      BY <1>1, <2>1 DEF Plane!Range
  <1> QED
    BY <1>1, <1>2 DEF PlaneInv, Flow, Fanout, ChannelType, Plane!TypeOK, Plane!ChannelsClosed,
       Plane!Known, Plane!Channels

(* Every channel Subscribe returned is closed when Close has returned, and none before
   (Subscribe and Close of loopback.go). *)
THEOREM ChannelsCloseTogether == ASSUME PlaneBounds PROVE Plane!Spec => []Plane!ChannelsClosed
  BY PlaneInvariant, PlaneImplies, PTL

-----------------------------------------------------------------------------
(* The client's WebSocket *)

(* Every set of natural numbers that is not empty has a least element. *)
LEMMA LeastElement ==
    ASSUME NEW S \in SUBSET Nat, S # {}
    PROVE  \E m \in S : \A n \in S : m <= n
  <1> DEFINE R == OpToRel(<, Nat)
  <1>0. IsWellFoundedOn(R, Nat)
    BY NatLessThanWellFounded
  <1>2. \A m, n \in Nat : n < m => <<n, m>> \in R
    BY DEF OpToRel
  <1> HIDE DEF R
  <1>1. PICK m \in S : \A n \in S : ~ (<<n, m>> \in R)
    BY <1>0, WFMin
  <1>3. ASSUME NEW n \in S PROVE m <= n
    <2>1. m \in Nat /\ n \in Nat /\ ~ (<<n, m>> \in R)
      BY <1>1
    <2>2. ~ (n < m)
      BY <1>2, <2>1
    <2> QED
      BY <2>1, <2>2
  <1> QED
    BY <1>3

SizesAreBytes == Sizes \subseteq Nat
SocketBounds == SizesAreBytes /\ MaxMessages \in Nat /\ MaxAnswers \in Nat /\ MaxPings \in Nat

\* running totals of the bytes of a sequence of frames
Totals(q, t) ==
    /\ t \in [0 .. Len(q) -> Nat] /\ t[0] = 0
    /\ \A i \in 1 .. Len(q) : t[i] = t[i - 1] + WebSocket!Size(q[i])

(* The bytes of a sequence are the last of its running totals. *)
LEMMA TotalsAreBytes ==
    ASSUME NEW q, Len(q) \in Nat, NEW t, Totals(q, t)
    PROVE  WebSocket!Bytes(q) = t[Len(q)]
  <1> DEFINE Sums(f) == f = [n \in 0 .. Len(q) |->
                             IF n = 0 THEN 0 ELSE f[n - 1] + WebSocket!Size(q[n])]
             sum == CHOOSE f : Sums(f)
  <1>1. WebSocket!Bytes(q) = sum[Len(q)]
    BY DEF WebSocket!Bytes
  <1>2. Sums(t)
    <2>1. t = [n \in 0 .. Len(q) |-> t[n]]
      BY DEF Totals
    <2>2. ASSUME NEW n \in 0 .. Len(q)
          PROVE  t[n] = IF n = 0 THEN 0 ELSE t[n - 1] + WebSocket!Size(q[n])
      <3>1. n = 0 \/ n \in 1 .. Len(q)
        OBVIOUS
      <3> QED
        BY <3>1 DEF Totals
    <2> QED
      BY <2>1, <2>2
  <1>3. Sums(sum)
    BY <1>2
  <1> HIDE DEF sum
  <1>4. ASSUME NEW n \in 0 .. Len(q), sum[n] # t[n] PROVE FALSE
    <2> DEFINE Bad == {k \in 0 .. Len(q) : sum[k] # t[k]}
    <2>0. Bad \subseteq Nat /\ Bad # {}
      BY <1>4
    <2> HIDE DEF Bad
    <2>4. PICK m \in Bad : \A k \in Bad : m <= k
      BY <2>0, LeastElement
    <2> USE DEF Bad
    <2>1. m \in 0 .. Len(q) /\ sum[m] # t[m] /\ \A k \in 0 .. Len(q) : sum[k] # t[k] => m <= k
      BY <2>4
    <2>2. CASE m = 0
      BY <1>3, <2>1, <2>2 DEF Totals
    <2>3. CASE m # 0
      <3>1. /\ m - 1 \in 0 .. Len(q) /\ m \in 0 .. Len(q) /\ m \in 1 .. Len(q)
            /\ ~ (m <= m - 1)
        BY <2>1, <2>3
      <3>2. sum[m - 1] = t[m - 1]
        BY <2>1, <3>1
      <3>3. sum[m] = sum[m - 1] + WebSocket!Size(q[m])
        BY <1>3, <2>3, <3>1
      <3>4. t[m] = sum[m]
        BY <3>1, <3>2, <3>3 DEF Totals
      <3> QED
        BY <2>1, <3>4
    <2> QED
      BY <2>2, <2>3
  <1>5. Len(q) \in 0 .. Len(q)
    OBVIOUS
  <1> QED
    BY <1>1, <1>4, <1>5

(* Frames have running totals; a frame more adds its bytes to the last of them, and a
   frame less takes its own off. *)
LEMMA NoBytes == Totals(<<>>, [n \in 0 .. 0 |-> 0]) /\ WebSocket!Bytes(<<>>) = 0
  <1>1. Totals(<<>>, [n \in 0 .. 0 |-> 0])
    BY DEF Totals
  <1> QED
    BY <1>1, TotalsAreBytes

LEMMA SizesOfFrames ==
    ASSUME SizesAreBytes
    PROVE  /\ WebSocket!Frames = Sizes \cup {-2, -3}
           /\ \A f \in WebSocket!Frames : WebSocket!Size(f) \in Nat
           /\ \A f \in Sizes : WebSocket!Size(f) = f
           /\ WebSocket!Size(-2) = 0 /\ WebSocket!Size(-3) = 0
  BY DEF SizesAreBytes, WebSocket!Frames, WebSocket!Size, WebSocket!Ping, WebSocket!CloseFrame

LEMMA BytesAppend ==
    ASSUME NEW T, NEW q \in Seq(T), NEW x \in T, \A f \in T : WebSocket!Size(f) \in Nat,
           \E t : Totals(q, t)
    PROVE  /\ \E t : Totals(Append(q, x), t)
           /\ WebSocket!Bytes(Append(q, x)) = WebSocket!Bytes(q) + WebSocket!Size(x)
  <1>1. PICK t : Totals(q, t)
    OBVIOUS
  <1>2. /\ Append(q, x) \in Seq(T) /\ Len(Append(q, x)) = Len(q) + 1 /\ Len(q) \in Nat
        /\ \A i \in 1 .. Len(q) : Append(q, x)[i] = q[i]
        /\ Append(q, x)[Len(q) + 1] = x
    BY AppendProperties
  <1> DEFINE u == [n \in 0 .. Len(q) + 1 |->
                     IF n = Len(q) + 1 THEN t[Len(q)] + WebSocket!Size(x) ELSE t[n]]
  <1>3. /\ \A n \in 0 .. Len(q) + 1 : n = Len(q) + 1 \/ n \in 0 .. Len(q)
        /\ Len(q) + 1 \notin 0 .. Len(q) /\ Len(q) \in 0 .. Len(q)
        /\ Len(q) + 1 \in 0 .. Len(q) + 1 /\ 0 \in 0 .. Len(q)
        /\ \A n \in 0 .. Len(q) : n \in 0 .. Len(q) + 1 /\ n # Len(q) + 1
    BY <1>2
  <1>4. t \in [0 .. Len(q) -> Nat]
    BY <1>1 DEF Totals
  <1>5. u \in [0 .. Len(q) + 1 -> Nat]
    <2>1. ASSUME NEW n \in 0 .. Len(q) + 1
          PROVE  (IF n = Len(q) + 1 THEN t[Len(q)] + WebSocket!Size(x) ELSE t[n]) \in Nat
      <3>1. t[Len(q)] + WebSocket!Size(x) \in Nat
        BY <1>3, <1>4
      <3>2. n # Len(q) + 1 => t[n] \in Nat
        BY <1>3, <1>4
      <3> QED
        BY <3>1, <3>2
    <2> QED
      BY <2>1
  <1>6. /\ u[Len(q) + 1] = t[Len(q)] + WebSocket!Size(x)
        /\ \A n \in 0 .. Len(q) : u[n] = t[n]
    BY <1>3
  <1> HIDE DEF u
  <1>7. ASSUME NEW i \in 1 .. Len(q) + 1
        PROVE  u[i] = u[i - 1] + WebSocket!Size(Append(q, x)[i])
    <2>1. CASE i = Len(q) + 1
      <3>1. i - 1 = Len(q) /\ Append(q, x)[i] = x /\ u[i - 1] = t[Len(q)]
        BY <1>2, <1>3, <1>6, <2>1
      <3> QED
        BY <1>6, <2>1, <3>1
    <2>2. CASE i # Len(q) + 1
      <3>1. i \in 1 .. Len(q) /\ i - 1 \in 0 .. Len(q) /\ i \in 0 .. Len(q)
        BY <1>2, <2>2
      <3>2. t[i] = t[i - 1] + WebSocket!Size(q[i])
        BY <1>1, <3>1 DEF Totals
      <3> QED
        BY <1>2, <1>6, <3>1, <3>2
    <2> QED
      BY <2>1, <2>2
  <1>8. u[0] = 0
    BY <1>1, <1>3, <1>6 DEF Totals
  <1>9. Totals(Append(q, x), u)
    BY <1>2, <1>5, <1>7, <1>8 DEF Totals
  <1>10. WebSocket!Bytes(q) = t[Len(q)]
    BY <1>1, <1>2, TotalsAreBytes
  <1>11. WebSocket!Bytes(Append(q, x)) = u[Len(q) + 1]
    <2>1. Len(Append(q, x)) \in Nat
      BY <1>2
    <2> QED
      BY <1>2, <1>9, <2>1, TotalsAreBytes
  <1> QED
    BY <1>6, <1>9, <1>10, <1>11

LEMMA BytesTail ==
    ASSUME NEW T, NEW q \in Seq(T), q # <<>>, \A f \in T : WebSocket!Size(f) \in Nat,
           \E t : Totals(q, t)
    PROVE  /\ \E t : Totals(Tail(q), t)
           /\ WebSocket!Bytes(q) = WebSocket!Bytes(Tail(q)) + WebSocket!Size(Head(q))
           /\ WebSocket!Bytes(Tail(q)) \in Nat
  <1>1. PICK t : Totals(q, t)
    OBVIOUS
  <1>2. /\ Tail(q) \in Seq(T) /\ Len(Tail(q)) = Len(q) - 1 /\ Len(q) \in Nat
        /\ \A j \in 1 .. Len(q) - 1 : Tail(q)[j] = q[j + 1]
        /\ Head(q) = q[1] /\ 1 \in 1 .. Len(q) /\ Head(q) \in T
    BY TailElements
  <1>3. /\ Len(q) - 1 \in Nat /\ (Len(q) - 1) + 1 = Len(q)
        /\ \A n \in 0 .. Len(q) - 1 : n + 1 \in 1 .. Len(q) /\ n + 1 \in 0 .. Len(q)
        /\ 1 \in 0 .. Len(q)
        /\ 0 \in 0 .. Len(q) - 1 /\ Len(q) - 1 \in 0 .. Len(q) - 1
    BY <1>2
  <1> DEFINE s == WebSocket!Size(Head(q))
             u == [n \in 0 .. Len(q) - 1 |-> t[n + 1] - s]
  <1>4. s \in Nat /\ t \in [0 .. Len(q) -> Nat] /\ t[1] = s
    BY <1>1, <1>2 DEF Totals
  <1>5. \A n \in 0 .. Len(q) - 1 : t[n + 1] >= s
    <2> SUFFICES ASSUME NEW n \in 0 .. Len(q) - 1, ~ (t[n + 1] >= s) PROVE FALSE
      OBVIOUS
    <2> DEFINE Bad == {k \in 0 .. Len(q) - 1 : ~ (t[k + 1] >= s)}
    <2>0. n \in Bad
      OBVIOUS
    <2>1. \A k \in Bad : k \in 0 .. Len(q) - 1
      OBVIOUS
    <2>10. \A k \in 0 .. Len(q) - 1 : k \in Nat
      OBVIOUS
    <2> HIDE DEF Bad, s
    <2>11. Bad \subseteq Nat /\ Bad # {}
      BY <2>0, <2>1, <2>10
    <2>2. PICK m \in Bad : \A k \in Bad : m <= k
      BY <2>11, LeastElement
    <2>3. m \in 0 .. Len(q) - 1 /\ ~ (t[m + 1] >= s)
      BY <2>2 DEF Bad
    <2>4. m # 0
      BY <1>4, <2>3
    <2>5. /\ m - 1 \in 0 .. Len(q) - 1 /\ (m - 1) + 1 = m /\ ~ (m <= m - 1)
          /\ m + 1 \in 1 .. Len(q) /\ (m + 1) - 1 = m /\ m \in 0 .. Len(q) /\ m + 1 \in 0 .. Len(q)
      BY <1>2, <2>3, <2>4
    <2>6. t[m] >= s
      BY <2>2, <2>5 DEF Bad
    <2>7. t[m + 1] = t[m] + WebSocket!Size(q[m + 1])
      BY <1>1, <2>5 DEF Totals
    <2>8. WebSocket!Size(q[m + 1]) \in Nat
      BY <2>5
    <2>9. t[m] \in Nat
      BY <1>4, <2>5
    <2> QED
      BY <1>4, <2>3, <2>6, <2>7, <2>8, <2>9
  <1>6. \A n \in 0 .. Len(q) - 1 : u[n] = t[n + 1] - s /\ u[n] \in Nat
    <2>1. \A n \in 0 .. Len(q) - 1 : t[n + 1] \in Nat
      BY <1>3, <1>4
    <2> QED
      BY <1>4, <1>5, <2>1
  <1>7. u \in [0 .. Len(q) - 1 -> Nat]
    BY <1>6
  <1> HIDE DEF u, s
  <1>8. u[0] = 0
    BY <1>3, <1>4, <1>6
  <1>9. ASSUME NEW i \in 1 .. Len(q) - 1 PROVE u[i] = u[i - 1] + WebSocket!Size(Tail(q)[i])
    <2>1. /\ i \in 0 .. Len(q) - 1 /\ i - 1 \in 0 .. Len(q) - 1 /\ (i - 1) + 1 = i
          /\ i + 1 \in 1 .. Len(q) /\ (i + 1) - 1 = i /\ i \in 0 .. Len(q) /\ Tail(q)[i] = q[i + 1]
      BY <1>2
    <2>2. t[i + 1] = t[i] + WebSocket!Size(q[i + 1])
      BY <1>1, <2>1 DEF Totals
    <2>3. u[i] = t[i + 1] - s /\ u[i - 1] = t[i] - s
      BY <1>6, <2>1
    <2>4. t[i] \in Nat /\ WebSocket!Size(q[i + 1]) \in Nat
      BY <1>4, <2>1
    <2> QED
      BY <1>4, <2>1, <2>2, <2>3, <2>4
  <1>10. Totals(Tail(q), u)
    BY <1>2, <1>7, <1>8, <1>9 DEF Totals
  <1>11. WebSocket!Bytes(q) = t[Len(q)]
    BY <1>1, <1>2, TotalsAreBytes
  <1>12. WebSocket!Bytes(Tail(q)) = u[Len(q) - 1]
    BY <1>2, <1>3, <1>10, TotalsAreBytes
  <1>13. t[Len(q)] \in Nat /\ u[Len(q) - 1] = t[Len(q)] - s
    <2>1. Len(q) \in 0 .. Len(q)
      BY <1>2
    <2> QED
      BY <1>3, <1>4, <1>6, <2>1
  <1> QED
    BY <1>3, <1>4, <1>6, <1>10, <1>11, <1>12, <1>13 DEF s

-----------------------------------------------------------------------------
Causes ==
    /\ \A w \in writing : /\ w.by = "app" => w.frame \in Sizes
                          /\ w.by = "ping" => pings > 0 /\ w.frame = -2
                          /\ w.by = "close" => wsClosed /\ w.frame = -3
    /\ overlapped => pings > 0 \/ wsClosed
    /\ wsCrashed => overlapped
    /\ (\E w \in writing : w.frame = 0) => count.empty > 0
    /\ (\E i \in 1 .. Len(toServer) : toServer[i] = 0) => count.empty > 0
    /\ eof => count.empty > 0
BytesKept ==
    /\ (\E t : Totals(toServer, t)) /\ (\E t : Totals(toClient, t))
    /\ WebSocket!Bytes(toServer) \in Nat /\ WebSocket!Bytes(toClient) \in Nat
    /\ WebSocket!BytesExact
SocketInv == WebSocket!TypeOK /\ Causes /\ BytesKept

CountType == [written : 0 .. MaxMessages, bytesSent : Nat, serverRead : Nat,
              answered : 0 .. MaxAnswers, serverSent : Nat, bytesReceived : Nat,
              cut : Nat, empty : Nat]

(* What TypeOK says of the parts that the steps change. *)
LEMMA SocketTypes ==
    ASSUME SocketBounds, WebSocket!TypeOK
    PROVE  /\ toServer \in Seq(WebSocket!Frames) /\ toClient \in Seq(Sizes)
           /\ count \in CountType /\ rest \in Nat \cup {-1}
           /\ \A f \in Sizes : WebSocket!Size(f) \in Nat /\ f \in Nat
  BY SizesOfFrames DEF WebSocket!TypeOK, CountType, WebSocket!None, SocketBounds, SizesAreBytes

(* The end of a write takes one writer off; if the frame got out, it is the last one
   under way, and the writer was alone or some write was overlapped. *)
LEMMA WriteEnds ==
    ASSUME SocketBounds, SocketInv, NEW w \in writing, WebSocket!Sent(w) \/ WebSocket!NotSent(w)
    PROVE  /\ writing' = writing \ {w} /\ wsCrashed' \in BOOLEAN
           /\ wsCrashed' => wsCrashed \/ overlapped
           /\ toServer' \in Seq(WebSocket!Frames)
           /\ \A i \in 1 .. Len(toServer') : \/ i \in 1 .. Len(toServer) /\ toServer'[i] = toServer[i]
                                            \/ toServer'[i] = w.frame
           /\ \E t : Totals(toServer', t)
           /\ WebSocket!Bytes(toServer') =
                WebSocket!Bytes(toServer) + (IF WebSocket!Sent(w) THEN WebSocket!Size(w.frame) ELSE 0)
  <1>1. w.frame \in WebSocket!Frames
    BY DEF SocketInv, WebSocket!TypeOK
  <1>2. /\ toServer \in Seq(WebSocket!Frames)
        /\ \A f \in WebSocket!Frames : WebSocket!Size(f) \in Nat
        /\ wsCrashed \in BOOLEAN /\ overlapped \in BOOLEAN
        /\ (\E t : Totals(toServer, t)) /\ WebSocket!Bytes(toServer) \in Nat
    BY SizesOfFrames DEF SocketInv, WebSocket!TypeOK, SocketBounds, BytesKept
  <1>3. CASE WebSocket!Sent(w)
    <2>1. writing' = writing \ {w} /\ wsCrashed' = wsCrashed /\ toServer' = Append(toServer, w.frame)
      BY <1>3 DEF WebSocket!Sent
    <2>2. /\ \E t : Totals(Append(toServer, w.frame), t)
          /\ WebSocket!Bytes(Append(toServer, w.frame)) =
                WebSocket!Bytes(toServer) + WebSocket!Size(w.frame)
      BY <1>1, <1>2, BytesAppend
    <2>3. /\ Append(toServer, w.frame) \in Seq(WebSocket!Frames)
          /\ \A i \in 1 .. Len(Append(toServer, w.frame)) :
                \/ i \in 1 .. Len(toServer) /\ Append(toServer, w.frame)[i] = toServer[i]
                \/ Append(toServer, w.frame)[i] = w.frame
      BY <1>1, <1>2, AppendProperties
    <2> QED
      BY <1>2, <1>3, <2>1, <2>2, <2>3
  <1>4. CASE ~ WebSocket!Sent(w)
    <2>1. /\ writing' = writing \ {w} /\ toServer' = toServer
          /\ wsCrashed' = FALSE \/ wsCrashed' = overlapped
      BY <1>4 DEF WebSocket!NotSent
    <2>2. WebSocket!Bytes(toServer') = WebSocket!Bytes(toServer) + 0
      BY <1>2, <2>1
    <2>4. \E t : Totals(toServer', t)
      BY <1>2, <2>1
    <2>3. CASE wsCrashed' = FALSE
      BY <1>2, <1>4, <2>1, <2>2, <2>4, <2>3
    <2>5. CASE wsCrashed' = overlapped
      BY <1>2, <1>4, <2>1, <2>2, <2>4, <2>5
    <2> QED
      BY <2>1, <2>3, <2>5
  <1> QED
    BY <1>3, <1>4

LEMMA PingSentKeeps ==
    ASSUME SocketBounds, SocketInv, WebSocket!PingSent PROVE SocketInv'
  <1>0. UNCHANGED <<pinger, pings, wsClosed, open, overlapped, toClient, rest, eof, count>>
    BY DEF WebSocket!PingSent
  <1>1. PICK w \in writing : w.by = "ping" /\ (WebSocket!Sent(w) \/ WebSocket!NotSent(w))
    BY DEF WebSocket!PingSent
  <1>2. WebSocket!Size(w.frame) = 0 /\ w.frame = -2
    BY <1>1, SizesOfFrames DEF SocketInv, SocketBounds, Causes
  <1>3. WebSocket!TypeOK'
    BY <1>0, <1>1, WriteEnds DEF SocketInv, WebSocket!TypeOK
  <1>4. Causes'
    BY <1>0, <1>1, <1>2, WriteEnds DEF SocketInv, Causes
  <1>5. BytesKept'
    BY <1>0, <1>1, <1>2, WriteEnds DEF SocketInv, BytesKept, WebSocket!BytesExact
  <1> QED
    BY <1>3, <1>4, <1>5 DEF SocketInv

LEMMA ClosedKeeps ==
    ASSUME SocketBounds, SocketInv, WebSocket!Closed PROVE SocketInv'
  <1>0. UNCHANGED <<pinger, pings, wsClosed, overlapped, toClient, rest, eof, count>> /\ open' = FALSE
    BY DEF WebSocket!Closed
  <1>1. PICK w \in writing : w.by = "close" /\ (WebSocket!Sent(w) \/ WebSocket!NotSent(w))
    BY DEF WebSocket!Closed
  <1>2. WebSocket!Size(w.frame) = 0 /\ w.frame = -3
    BY <1>1, SizesOfFrames DEF SocketInv, SocketBounds, Causes
  <1>3. WebSocket!TypeOK'
    BY <1>0, <1>1, WriteEnds DEF SocketInv, WebSocket!TypeOK
  <1>4. Causes'
    BY <1>0, <1>1, <1>2, WriteEnds DEF SocketInv, Causes
  <1>5. BytesKept'
    BY <1>0, <1>1, <1>2, WriteEnds DEF SocketInv, BytesKept, WebSocket!BytesExact
  <1> QED
    BY <1>3, <1>4, <1>5 DEF SocketInv

LEMMA WrittenKeeps ==
    ASSUME SocketBounds, SocketInv, WebSocket!Written PROVE SocketInv'
  <1>0. UNCHANGED <<pinger, pings, wsClosed, open, overlapped, toClient, rest, eof>>
    BY DEF WebSocket!Written
  <1>1. PICK w \in writing : /\ w.by = "app"
                            /\ \/ WebSocket!Sent(w) /\ WebSocket!Counts("bytesSent", w.frame)
                               \/ WebSocket!NotSent(w) /\ UNCHANGED count
    BY DEF WebSocket!Written
  <1>2. /\ w.frame \in Sizes /\ WebSocket!Size(w.frame) = w.frame /\ w.frame \in Nat
        /\ count \in CountType
    BY <1>1, SizesOfFrames, SocketTypes DEF SocketInv, SocketBounds, Causes, SizesAreBytes
  <1>6. /\ count' \in CountType /\ count'.empty = count.empty /\ count'.serverRead = count.serverRead
        /\ count'.serverSent = count.serverSent /\ count'.bytesReceived = count.bytesReceived
        /\ count'.cut = count.cut
        /\ count'.bytesSent = count.bytesSent \/ count'.bytesSent = count.bytesSent + w.frame
    BY <1>1, <1>2 DEF WebSocket!Counts, CountType
  <1>3. WebSocket!TypeOK'
    BY <1>0, <1>1, <1>6, WriteEnds DEF SocketInv, WebSocket!TypeOK, CountType
  <1>4. Causes'
    <2>1. w.frame = 0 => count'.empty > 0
      BY <1>6 DEF SocketInv, Causes
    <2> QED
      BY <1>0, <1>1, <1>6, <2>1, WriteEnds DEF SocketInv, Causes
  <1>5. BytesKept'
    <2>1. WebSocket!Bytes(toServer') \in Nat
      BY <1>1, <1>2, WriteEnds DEF SocketInv, BytesKept
    <2>2. overlapped \/ count'.bytesSent = count'.serverRead + WebSocket!Bytes(toServer')
                          + (IF rest = -1 THEN 0 ELSE rest)
      <3> SUFFICES ASSUME ~ overlapped
                   PROVE  count'.bytesSent = count'.serverRead + WebSocket!Bytes(toServer')
                            + (IF rest = -1 THEN 0 ELSE rest)
        OBVIOUS
      <3> DEFINE r == IF rest = -1 THEN 0 ELSE rest
      <3>1. /\ count.bytesSent = count.serverRead + WebSocket!Bytes(toServer) + r
            /\ r \in Nat /\ WebSocket!Bytes(toServer) \in Nat
            /\ count.bytesSent \in Nat /\ count.serverRead \in Nat
        BY <1>2, SocketTypes DEF SocketInv, BytesKept, WebSocket!BytesExact, WebSocket!None, CountType
      <3> HIDE DEF r
      <3>2. CASE WebSocket!Sent(w)
        <4>1. count'.bytesSent = count.bytesSent + w.frame
          <5>1. open \/ ~ WebSocket!NotSent(w) \/ toServer' = toServer
            BY DEF WebSocket!NotSent
          <5>2. toServer' # toServer
            <6>1. /\ toServer' = Append(toServer, w.frame) /\ Len(toServer') = Len(toServer) + 1
                  /\ Len(toServer) \in Nat
              BY <1>2, <3>2, SocketTypes, AppendProperties DEF WebSocket!Sent, SocketInv, WebSocket!Frames
            <6> QED
              BY <6>1
          <5>3. ~ WebSocket!NotSent(w)
            BY <5>2 DEF WebSocket!NotSent
          <5> QED
            BY <1>1, <1>2, <5>3 DEF WebSocket!Counts, CountType
        <4>2. WebSocket!Bytes(toServer') = WebSocket!Bytes(toServer) + w.frame
          BY <1>1, <1>2, <3>2, WriteEnds
        <4> QED
          BY <1>2, <1>6, <3>1, <4>1, <4>2 DEF r
      <3>3. CASE ~ WebSocket!Sent(w)
        <4>1. count' = count
          BY <1>1, <3>3
        <4>2. WebSocket!Bytes(toServer') = WebSocket!Bytes(toServer)
          BY <1>1, <3>1, <3>3, WriteEnds
        <4> QED
          BY <3>1, <4>1, <4>2 DEF r
      <3> QED
        BY <3>2, <3>3
    <2>3. (\E t : Totals(toServer', t)) /\ (\E t : Totals(toClient', t)) /\ toClient' = toClient
      BY <1>0, <1>1, WriteEnds DEF SocketInv, BytesKept
    <2> QED
      BY <1>0, <1>6, <2>1, <2>2, <2>3 DEF SocketInv, BytesKept, WebSocket!BytesExact, WebSocket!None
  <1> QED
    BY <1>3, <1>4, <1>5 DEF SocketInv

LEMMA WriteKeeps ==
    ASSUME SocketBounds, SocketInv, NEW size \in Sizes, WebSocket!Write(size) PROVE SocketInv'
  <1>1. /\ UNCHANGED <<pinger, pings, wsClosed, open, wsCrashed, toServer, toClient, rest, eof>>
        /\ count.written < MaxMessages
        /\ count' = [count EXCEPT !.written = @ + 1, !.empty = IF size = 0 THEN @ + 1 ELSE @]
    BY DEF WebSocket!Write
  <1>2. /\ \A w \in writing : w.by \notin {"app", "close"}
        /\ writing' = writing \cup {[by |-> "app", frame |-> size]}
        /\ overlapped' = (overlapped \/ writing # {})
    BY DEF WebSocket!Write, WebSocket!Begins
  <1>3. size \in Nat /\ count \in CountType /\ MaxMessages \in Nat
    BY SocketTypes DEF SocketInv, SocketBounds
  <1>4. /\ count' \in CountType /\ count'.serverRead = count.serverRead
        /\ count'.bytesSent = count.bytesSent
        /\ count'.serverSent = count.serverSent /\ count'.bytesReceived = count.bytesReceived
        /\ count'.cut = count.cut /\ count'.empty >= count.empty
        /\ size = 0 => count'.empty > 0
    <2>1. count.written + 1 \in 0 .. MaxMessages
      BY <1>1, <1>3 DEF CountType
    <2>2. (IF size = 0 THEN count.empty + 1 ELSE count.empty) \in Nat
      BY <1>3 DEF CountType
    <2>3. count' \in CountType
      BY <1>1, <1>3, <2>1, <2>2 DEF CountType
    <2>4. count'.empty = IF size = 0 THEN count.empty + 1 ELSE count.empty
      BY <1>1, <1>3 DEF CountType
    <2>5. count.empty \in Nat
      BY <1>3 DEF CountType
    <2> QED
      BY <1>1, <1>3, <2>3, <2>4, <2>5 DEF CountType
  <1>5. WebSocket!TypeOK'
    <2>1. [by |-> "app", frame |-> size] \in [by : WebSocket!Writers, frame : WebSocket!Frames]
      BY DEF WebSocket!Writers, WebSocket!Frames
    <2>2. writing' \subseteq [by : WebSocket!Writers, frame : WebSocket!Frames]
      BY <1>2, <2>1 DEF SocketInv, WebSocket!TypeOK
    <2>3. \A a, b \in writing' : a.by = b.by => a = b
      BY <1>2 DEF SocketInv, WebSocket!TypeOK
    <2>4. overlapped' \in BOOLEAN
      BY <1>2 DEF SocketInv, WebSocket!TypeOK
    <2> QED
      BY <1>1, <1>4, <2>2, <2>3, <2>4 DEF SocketInv, WebSocket!TypeOK, CountType
  <1>6. Causes'
    <2>1. writing # {} => pings > 0
      BY <1>2 DEF SocketInv, Causes, WebSocket!TypeOK, WebSocket!Writers
    <2>2. count.empty > 0 => count'.empty > 0
      BY <1>3, <1>4 DEF CountType
    <2>3. \A w \in writing' : w \in writing \/ (w.by = "app" /\ w.frame = size)
      BY <1>2
    <2> QED
      BY <1>1, <1>2, <1>4, <2>1, <2>2, <2>3 DEF SocketInv, Causes
  <1>7. BytesKept'
    BY <1>1, <1>2, <1>4 DEF SocketInv, BytesKept, WebSocket!BytesExact
  <1> QED
    BY <1>5, <1>6, <1>7 DEF SocketInv

LEMMA ServerWriteKeeps ==
    ASSUME SocketBounds, SocketInv, NEW size \in Sizes, WebSocket!ServerWrite(size)
    PROVE  SocketInv'
  <1>1. /\ UNCHANGED <<pinger, pings, wsClosed, open, writing, overlapped, wsCrashed, toServer,
                       rest, eof>>
        /\ count.answered < MaxAnswers /\ toClient' = Append(toClient, size)
        /\ count' = [count EXCEPT !.answered = @ + 1, !.serverSent = @ + size]
    BY DEF WebSocket!ServerWrite
  <1>2. /\ size \in Nat /\ count \in CountType /\ toClient \in Seq(Sizes) /\ MaxAnswers \in Nat
        /\ WebSocket!Size(size) = size /\ \A f \in Sizes : WebSocket!Size(f) \in Nat
    BY SocketTypes, SizesOfFrames DEF SocketInv, SocketBounds
  <1>3. /\ count' \in CountType /\ count'.serverRead = count.serverRead
        /\ count'.bytesSent = count.bytesSent
        /\ count'.serverSent = count.serverSent + size
        /\ count'.bytesReceived = count.bytesReceived
        /\ count'.cut = count.cut /\ count'.empty = count.empty
    <2>1. count.answered + 1 \in 0 .. MaxAnswers /\ count.serverSent + size \in Nat
      BY <1>1, <1>2 DEF CountType
    <2> QED
      BY <1>1, <1>2, <2>1 DEF CountType
  <1>4. toClient' \in Seq(Sizes)
    BY <1>1, <1>2, AppendProperties
  <1>5. /\ \E t : Totals(toClient', t)
        /\ WebSocket!Bytes(toClient') = WebSocket!Bytes(toClient) + size
    BY <1>1, <1>2, BytesAppend DEF SocketInv, BytesKept
  <1>6. WebSocket!TypeOK'
    BY <1>1, <1>3, <1>4 DEF SocketInv, WebSocket!TypeOK, CountType
  <1>7. Causes'
    BY <1>1, <1>3 DEF SocketInv, Causes
  <1>8. BytesKept'
    <2>1. /\ count.serverSent = count.bytesReceived + count.cut + WebSocket!Bytes(toClient)
          /\ WebSocket!Bytes(toClient) \in Nat /\ count.serverSent \in Nat
          /\ count.bytesReceived \in Nat /\ count.cut \in Nat
      BY <1>2 DEF SocketInv, BytesKept, WebSocket!BytesExact, CountType
    <2>2. /\ count'.serverSent = count'.bytesReceived + count'.cut + WebSocket!Bytes(toClient')
          /\ WebSocket!Bytes(toClient') \in Nat
      BY <1>2, <1>3, <1>5, <2>1
    <2> QED
      BY <1>1, <1>3, <1>5, <2>2 DEF SocketInv, BytesKept, WebSocket!BytesExact
  <1> QED
    BY <1>6, <1>7, <1>8 DEF SocketInv

LEMMA ReadKeeps == ASSUME SocketBounds, SocketInv, WebSocket!Read PROVE SocketInv'
  <1> DEFINE n == WebSocket!Least(WebSocket!ReadSize, Head(toClient))
             m == Head(toClient)
  <1>1. /\ UNCHANGED <<pinger, pings, wsClosed, open, writing, overlapped, wsCrashed, toServer,
                       rest, eof>>
        /\ toClient # <<>> /\ toClient' = Tail(toClient)
        /\ count' = [count EXCEPT !.bytesReceived = @ + n, !.cut = @ + m - n]
    BY DEF WebSocket!Read
  <1>2. /\ count \in CountType /\ toClient \in Seq(Sizes)
        /\ m \in Sizes /\ toClient' \in Seq(Sizes) /\ \A f \in Sizes : WebSocket!Size(f) \in Nat
    BY <1>1, SocketTypes, TailElements DEF SocketInv
  <1>3. m \in Nat /\ WebSocket!Size(m) = m /\ n \in Nat /\ n <= m /\ (n < m => m > 1)
    BY <1>2, SocketTypes, SizesOfFrames DEF SocketInv, SocketBounds, WebSocket!Least,
       WebSocket!ReadSize
  <1>4. /\ \E t : Totals(toClient', t)
        /\ WebSocket!Bytes(toClient) = WebSocket!Bytes(toClient') + m
        /\ WebSocket!Bytes(toClient') \in Nat
    BY <1>1, <1>2, <1>3, BytesTail DEF SocketInv, BytesKept
  <1> HIDE DEF n, m
  <1>5. /\ count' \in CountType /\ count'.serverRead = count.serverRead
        /\ count'.bytesSent = count.bytesSent /\ count'.serverSent = count.serverSent
        /\ count'.bytesReceived = count.bytesReceived + n
        /\ count'.cut = count.cut + m - n /\ count'.empty = count.empty
    <2>1. count.bytesReceived + n \in Nat /\ count.cut + m - n \in Nat
      BY <1>2, <1>3 DEF CountType
    <2> QED
      BY <1>1, <1>2, <2>1 DEF CountType
  <1>6. WebSocket!TypeOK'
    BY <1>1, <1>2, <1>5 DEF SocketInv, WebSocket!TypeOK, CountType
  <1>7. Causes'
    BY <1>1, <1>5 DEF SocketInv, Causes
  <1>8. BytesKept'
    <2>1. /\ count.serverSent = count.bytesReceived + count.cut + WebSocket!Bytes(toClient)
          /\ count.serverSent \in Nat /\ count.bytesReceived \in Nat /\ count.cut \in Nat
      BY <1>2 DEF SocketInv, BytesKept, WebSocket!BytesExact, CountType
    <2>2. count'.serverSent = count'.bytesReceived + count'.cut + WebSocket!Bytes(toClient')
      BY <1>3, <1>4, <1>5, <2>1
    <2>3. count'.cut > 0 => \E s \in Sizes : s > WebSocket!ReadSize
      <3>1. CASE n < m
        BY <1>2, <1>3, <3>1 DEF WebSocket!ReadSize
      <3>2. CASE n = m
        <4>1. count'.cut = count.cut
          BY <1>3, <1>5, <2>1, <3>2
        <4> QED
          BY <4>1 DEF SocketInv, BytesKept, WebSocket!BytesExact
      <3> QED
        BY <1>3, <3>1, <3>2
    <2> QED
      BY <1>1, <1>4, <1>5, <2>2, <2>3 DEF SocketInv, BytesKept, WebSocket!BytesExact
  <1> QED
    BY <1>6, <1>7, <1>8 DEF SocketInv

LEMMA ServerReadsKeeps == ASSUME SocketBounds, SocketInv, WebSocket!ServerReads PROVE SocketInv'
  <1> DEFINE n == WebSocket!Least(WebSocket!ReadSize, rest)
  <1>1. /\ UNCHANGED <<pinger, pings, wsClosed, open, writing, overlapped, wsCrashed, toServer,
                       toClient, eof>>
        /\ rest # -1 /\ rest' = IF rest = 0 THEN -1 ELSE rest - n
        /\ count' = [count EXCEPT !["serverRead"] = @ + n]
    BY DEF WebSocket!ServerReads, WebSocket!Counts, WebSocket!None
  <1>2. count \in CountType /\ rest \in Nat
    BY <1>1, SocketTypes DEF SocketInv
  <1>3. n \in Nat /\ n <= rest
    BY <1>2 DEF WebSocket!Least, WebSocket!ReadSize
  <1> HIDE DEF n
  <1>5. /\ count' \in CountType /\ count'.serverRead = count.serverRead + n
        /\ count'.bytesSent = count.bytesSent /\ count'.serverSent = count.serverSent
        /\ count'.bytesReceived = count.bytesReceived
        /\ count'.cut = count.cut /\ count'.empty = count.empty
    <2>1. count.serverRead + n \in Nat
      BY <1>2, <1>3 DEF CountType
    <2> QED
      BY <1>1, <1>2, <2>1 DEF CountType
  <1>6. WebSocket!TypeOK'
    <2>1. rest' \in Nat \cup {-1}
      BY <1>1, <1>2, <1>3
    <2> QED
      BY <1>1, <1>5, <2>1 DEF SocketInv, WebSocket!TypeOK, CountType, WebSocket!None
  <1>7. Causes'
    BY <1>1, <1>5 DEF SocketInv, Causes
  <1>8. BytesKept'
    <2>1. overlapped \/ /\ count.bytesSent = count.serverRead + WebSocket!Bytes(toServer) + rest
                        /\ WebSocket!Bytes(toServer) \in Nat
                        /\ count.bytesSent \in Nat /\ count.serverRead \in Nat
      BY <1>1, <1>2 DEF SocketInv, BytesKept, WebSocket!BytesExact, CountType, WebSocket!None
    <2> DEFINE r == IF rest' = -1 THEN 0 ELSE rest'
    <2>2. r = rest - n
      BY <1>1, <1>2, <1>3
    <2> HIDE DEF r
    <2>4. overlapped \/ count'.bytesSent = count'.serverRead + WebSocket!Bytes(toServer) + r
      BY <1>2, <1>3, <1>5, <2>1, <2>2
    <2>3. overlapped \/ count'.bytesSent = count'.serverRead + WebSocket!Bytes(toServer)
                          + (IF rest' = -1 THEN 0 ELSE rest')
      BY <2>4 DEF r
    <2> QED
      BY <1>1, <1>5, <2>3 DEF SocketInv, BytesKept, WebSocket!BytesExact, WebSocket!None
  <1> QED
    BY <1>6, <1>7, <1>8 DEF SocketInv

(* What the server takes off the frames under way. *)
LEMMA FrameTaken ==
    ASSUME SocketBounds, SocketInv, toServer # <<>>, toServer' = Tail(toServer)
    PROVE  /\ toServer' \in Seq(WebSocket!Frames) /\ Head(toServer) = toServer[1]
           /\ 1 \in 1 .. Len(toServer)
           /\ \A i \in 1 .. Len(toServer') : i + 1 \in 1 .. Len(toServer)
                                           /\ toServer'[i] = toServer[i + 1]
           /\ \E t : Totals(toServer', t)
           /\ WebSocket!Bytes(toServer) = WebSocket!Bytes(toServer') + WebSocket!Size(Head(toServer))
           /\ WebSocket!Bytes(toServer') \in Nat
  <1>1. /\ toServer \in Seq(WebSocket!Frames)
        /\ \A f \in WebSocket!Frames : WebSocket!Size(f) \in Nat
    BY SocketTypes, SizesOfFrames DEF SocketInv, SocketBounds
  <1>2. /\ \E t : Totals(toServer', t)
        /\ WebSocket!Bytes(toServer) = WebSocket!Bytes(toServer') + WebSocket!Size(Head(toServer))
        /\ WebSocket!Bytes(toServer') \in Nat
    BY <1>1, BytesTail DEF SocketInv, BytesKept
  <1>3. /\ toServer' \in Seq(WebSocket!Frames) /\ Head(toServer) = toServer[1]
        /\ 1 \in 1 .. Len(toServer) /\ Len(toServer') = Len(toServer) - 1 /\ Len(toServer) \in Nat
        /\ \A i \in 1 .. Len(toServer') : toServer'[i] = toServer[i + 1]
    BY <1>1, TailElements
  <1>4. \A i \in 1 .. Len(toServer') : i + 1 \in 1 .. Len(toServer)
    BY <1>3
  <1> QED
    BY <1>2, <1>3, <1>4

LEMMA SkipsPingKeeps ==
    ASSUME SocketBounds, SocketInv, WebSocket!ServerSkipsPing PROVE SocketInv'
  <1>1. /\ UNCHANGED <<pinger, pings, wsClosed, open, writing, overlapped, wsCrashed, toClient,
                       rest, eof, count>>
        /\ toServer # <<>> /\ Head(toServer) = -2 /\ toServer' = Tail(toServer)
    BY DEF WebSocket!ServerSkipsPing, WebSocket!Skipped, WebSocket!Ping
  <1>2. WebSocket!Size(Head(toServer)) = 0
    BY <1>1, SizesOfFrames DEF SocketBounds
  <1>3. WebSocket!TypeOK'
    BY <1>1, FrameTaken DEF SocketInv, WebSocket!TypeOK
  <1>4. Causes'
    BY <1>1, FrameTaken DEF SocketInv, Causes
  <1>5. BytesKept'
    <2>1. WebSocket!Bytes(toServer') = WebSocket!Bytes(toServer)
      BY <1>1, <1>2, FrameTaken
    <2>2. /\ \E t : Totals(toServer', t)
          /\ WebSocket!Bytes(toServer') \in Nat
      BY <1>1, FrameTaken
    <2> QED
      BY <1>1, <2>1, <2>2 DEF SocketInv, BytesKept, WebSocket!BytesExact
  <1> QED
    BY <1>3, <1>4, <1>5 DEF SocketInv

LEMMA ReadsNewKeeps ==
    ASSUME SocketBounds, SocketInv, WebSocket!ServerReadsNew PROVE SocketInv'
  <1> DEFINE m == Head(toServer)
             n == WebSocket!Least(WebSocket!ReadSize, m)
  <1>1. /\ UNCHANGED <<pinger, pings, wsClosed, open, writing, overlapped, wsCrashed, toClient>>
        /\ rest = -1 /\ toServer # <<>> /\ toServer' = Tail(toServer) /\ m \in Sizes
        /\ rest' = m - n /\ eof' = (eof \/ m = 0)
        /\ count' = [count EXCEPT !["serverRead"] = @ + n]
    BY DEF WebSocket!ServerReadsNew, WebSocket!Counts, WebSocket!Remainder, WebSocket!None
  <1>2. /\ toServer' \in Seq(WebSocket!Frames) /\ m = toServer[1] /\ 1 \in 1 .. Len(toServer)
        /\ WebSocket!Bytes(toServer) = WebSocket!Bytes(toServer') + WebSocket!Size(m)
        /\ \E t : Totals(toServer', t)
        /\ WebSocket!Bytes(toServer') \in Nat
        /\ \A i \in 1 .. Len(toServer') : i + 1 \in 1 .. Len(toServer)
                                        /\ toServer'[i] = toServer[i + 1]
    BY <1>1, FrameTaken
  <1>3. m \in Nat /\ WebSocket!Size(m) = m /\ count \in CountType /\ eof \in BOOLEAN
    BY <1>1, SocketTypes, SizesOfFrames DEF SocketInv, SocketBounds, WebSocket!TypeOK
  <1>4. n \in Nat /\ n <= m
    BY <1>3 DEF WebSocket!Least, WebSocket!ReadSize
  <1> HIDE DEF n, m
  <1>5. /\ count' \in CountType /\ count'.serverRead = count.serverRead + n
        /\ count'.bytesSent = count.bytesSent /\ count'.serverSent = count.serverSent
        /\ count'.bytesReceived = count.bytesReceived
        /\ count'.cut = count.cut /\ count'.empty = count.empty
    <2>1. count.serverRead + n \in Nat
      BY <1>3, <1>4 DEF CountType
    <2> QED
      BY <1>1, <1>3, <2>1 DEF CountType
  <1>9. rest' \in Nat
    BY <1>1, <1>3, <1>4
  <1>6. WebSocket!TypeOK'
    BY <1>1, <1>2, <1>3, <1>5, <1>9 DEF SocketInv, WebSocket!TypeOK, CountType, WebSocket!None
  <1>7. Causes'
    <2>1. m = 0 => count.empty > 0
      BY <1>2 DEF SocketInv, Causes
    <2> QED
      BY <1>1, <1>2, <1>5, <2>1 DEF SocketInv, Causes
  <1>8. BytesKept'
    <2>1. overlapped \/ /\ count.bytesSent = count.serverRead + WebSocket!Bytes(toServer)
                        /\ count.bytesSent \in Nat /\ count.serverRead \in Nat
      BY <1>1, <1>3 DEF SocketInv, BytesKept, WebSocket!BytesExact, CountType, WebSocket!None
    <2>3. overlapped \/ count'.bytesSent = count'.serverRead + WebSocket!Bytes(toServer') + (m - n)
      BY <1>2, <1>3, <1>4, <1>5, <2>1
    <2>4. (IF rest' = -1 THEN 0 ELSE rest') = rest'
      BY <1>9
    <2>2. overlapped \/ count'.bytesSent = count'.serverRead + WebSocket!Bytes(toServer')
                          + (IF rest' = -1 THEN 0 ELSE rest')
      BY <1>1, <2>3, <2>4
    <2> QED
      BY <1>1, <1>2, <1>5, <2>2 DEF SocketInv, BytesKept, WebSocket!BytesExact, WebSocket!None
  <1> QED
    BY <1>6, <1>7, <1>8 DEF SocketInv

(* The beginning of a write that carries no bytes. *)
LEMMA SendPingKeeps == ASSUME SocketBounds, SocketInv, WebSocket!SendPing PROVE SocketInv'
  <1>1. /\ UNCHANGED <<pinger, wsClosed, open, wsCrashed, toServer, toClient, rest, eof, count>>
        /\ pings < MaxPings /\ pings' = pings + 1
        /\ \A w \in writing : w.by \notin {"ping", "close"}
        /\ writing' = writing \cup {[by |-> "ping", frame |-> -2]}
        /\ overlapped' = (overlapped \/ writing # {})
    BY DEF WebSocket!SendPing, WebSocket!Begins, WebSocket!Ping
  <1>2. pings \in Nat /\ MaxPings \in Nat /\ pings' \in 0 .. MaxPings /\ pings' > 0
    BY <1>1 DEF SocketInv, SocketBounds, WebSocket!TypeOK
  <1>3. WebSocket!TypeOK'
    BY <1>1, <1>2 DEF SocketInv, WebSocket!TypeOK, WebSocket!Writers, WebSocket!Frames,
       WebSocket!Ping
  <1>4. Causes'
    <2>1. \A w \in writing' : w \in writing \/ (w.by = "ping" /\ w.frame = -2)
      BY <1>1
    <2>2. (\E w \in writing' : w.frame = 0) => count.empty > 0
      BY <2>1 DEF SocketInv, Causes
    <2> QED
      BY <1>1, <1>2, <2>1, <2>2 DEF SocketInv, Causes
  <1>5. BytesKept'
    BY <1>1 DEF SocketInv, BytesKept, WebSocket!BytesExact
  <1> QED
    BY <1>3, <1>4, <1>5 DEF SocketInv

LEMMA CloseKeeps == ASSUME SocketBounds, SocketInv, WebSocket!Close PROVE SocketInv'
  <1>1. /\ UNCHANGED <<pinger, pings, open, wsCrashed, toServer, toClient, rest, eof, count>>
        /\ wsClosed' = TRUE
        /\ \A w \in writing : w.by # "close"
        /\ writing' = writing \cup {[by |-> "close", frame |-> -3]}
        /\ overlapped' = (overlapped \/ writing # {})
    BY DEF WebSocket!Close, WebSocket!Begins, WebSocket!CloseFrame
  <1>3. WebSocket!TypeOK'
    BY <1>1 DEF SocketInv, WebSocket!TypeOK, WebSocket!Writers, WebSocket!Frames,
       WebSocket!CloseFrame
  <1>4. Causes'
    <2>1. \A w \in writing' : w \in writing \/ (w.by = "close" /\ w.frame = -3)
      BY <1>1
    <2>2. (\E w \in writing' : w.frame = 0) => count.empty > 0
      BY <2>1 DEF SocketInv, Causes
    <2> QED
      BY <1>1, <2>1, <2>2 DEF SocketInv, Causes
  <1>5. BytesKept'
    BY <1>1 DEF SocketInv, BytesKept, WebSocket!BytesExact
  <1> QED
    BY <1>3, <1>4, <1>5 DEF SocketInv

LEMMA SocketRests ==
    ASSUME SocketInv, UNCHANGED <<pings, wsClosed, open, writing, overlapped, wsCrashed, toServer,
                                  toClient, rest, eof, count>>,
           pinger' \in {pinger, "ended"}
    PROVE  SocketInv'
  BY DEF SocketInv, WebSocket!TypeOK, Causes, BytesKept, WebSocket!BytesExact

LEMMA SocketStarts == ASSUME SocketBounds, WebSocket!Init PROVE SocketInv
  <1>1. /\ toServer \in Seq(WebSocket!Frames) /\ toClient \in Seq(Sizes) /\ Len(toServer) = 0
        /\ \E t : Totals(toServer, t)
        /\ \E t : Totals(toClient, t)
        /\ WebSocket!Bytes(toServer) = 0 /\ WebSocket!Bytes(toClient) = 0
    BY NoBytes DEF WebSocket!Init
  <1>2. count = [written |-> 0, bytesSent |-> 0, serverRead |-> 0, answered |-> 0,
                 serverSent |-> 0, bytesReceived |-> 0, cut |-> 0, empty |-> 0]
    BY DEF WebSocket!Init
  <1>3. count \in CountType
    BY <1>2 DEF SocketBounds, CountType
  <1>4. WebSocket!TypeOK
    <2>1. pings \in 0 .. MaxPings /\ rest \in Nat \cup {WebSocket!None}
      BY DEF WebSocket!Init, SocketBounds
    <2>2. writing = {}
      BY DEF WebSocket!Init
    <2> QED
      BY <1>1, <1>3, <2>1, <2>2 DEF WebSocket!Init, WebSocket!TypeOK, CountType
  <1>5. Causes
    BY <1>1 DEF WebSocket!Init, Causes
  <1>6. BytesKept
    BY <1>1, <1>2 DEF WebSocket!Init, BytesKept, WebSocket!BytesExact
  <1> QED
    BY <1>4, <1>5, <1>6 DEF SocketInv

LEMMA SocketGoesOn ==
    ASSUME SocketBounds, SocketInv, [WebSocket!Next]_(WebSocket!vars) PROVE SocketInv'
  <1>1. CASE WebSocket!Next
    <2>1. CASE WebSocket!PingEnds
      BY <2>1, SocketRests DEF WebSocket!PingEnds
    <2> QED
      BY <1>1, <2>1, WriteKeeps, ServerWriteKeeps, WrittenKeeps, SendPingKeeps, PingSentKeeps,
         CloseKeeps, ClosedKeeps, ReadKeeps, ServerReadsKeeps, SkipsPingKeeps, ReadsNewKeeps
         DEF WebSocket!Next
  <1>2. CASE UNCHANGED WebSocket!vars
    BY <1>2, SocketRests DEF WebSocket!vars
  <1> QED
    BY <1>1, <1>2

LEMMA SocketInvariant == ASSUME SocketBounds PROVE WebSocket!Spec => []SocketInv
  <1>1. WebSocket!Init => SocketInv
    BY SocketStarts
  <1>2. SocketInv /\ [WebSocket!Next]_(WebSocket!vars) => SocketInv'
    BY SocketGoesOn
  <1> QED
    BY <1>1, <1>2, PTL DEF WebSocket!Spec

LEMMA SocketImplies ==
    ASSUME SocketInv
    PROVE  WebSocket!TypeOK /\ WebSocket!FaultsForCause /\ WebSocket!BytesExact
  BY DEF SocketInv, Causes, BytesKept, WebSocket!FaultsForCause

(* What the client counts as sent reaches the server's reads or is still under way,
   unless a ping or the close message was written during a write (writeWebSocket,
   sendPing and Close of cdn_friendly.go, Read of websocketConn). *)
THEOREM BytesStayExact == ASSUME SocketBounds PROVE WebSocket!Spec => []WebSocket!BytesExact
  BY SocketInvariant, SocketImplies, PTL

-----------------------------------------------------------------------------
(* The peers and routes of a device *)

NamesAreNames == {"", "wild"} \cap Names = {}
ConfigsAreLists == Configs \subseteq Seq([name : Names, allowed : Seq(Destinations)])
PeerBounds == NamesAreNames /\ ConfigsAreLists /\ MaxUpdates \in Nat

(* Flattening sequences over T gives a sequence over T. *)
LEMMA FlattenTyped ==
    ASSUME NEW T, NEW ss \in Seq(Seq(T)) PROVE PeerTable!FlattenSeq(ss) \in Seq(T)
  <1> DEFINE Step(f, i) == IF i = 1 THEN ss[i] ELSE f[i - 1] \o ss[i]
             Flattens(f, m) == f = [i \in 1 .. m |-> Step(f, i)]
  <1>0. Len(ss) \in Nat /\ \A i \in 1 .. Len(ss) : ss[i] \in Seq(T)
    OBVIOUS
  <1>1. ASSUME NEW f, NEW m \in 0 .. Len(ss), Flattens(f, m), NEW i \in 1 .. m, f[i] \notin Seq(T)
        PROVE  FALSE
    <2> DEFINE Bad == {k \in 1 .. m : f[k] \notin Seq(T)}
    <2>1. i \in Bad /\ \A k \in Bad : k \in 1 .. m /\ f[k] \notin Seq(T)
      BY <1>1
    <2>2. \A k \in 1 .. m : f[k] \notin Seq(T) => k \in Bad
      OBVIOUS
    <2> HIDE DEF Bad
    <2>3. \A k \in 1 .. m : f[k] = Step(f, k) /\ k \in Nat
      <3>1. f = [k \in 1 .. m |-> Step(f, k)]
        BY <1>1
      <3>2. \A k \in 1 .. m : k \in Nat
        BY <1>0
      <3>3. \A k \in 1 .. m : f[k] = Step(f, k)
        <4> HIDE DEF Step
        <4> QED
          BY ONLY <3>1
      <3> QED
        BY <3>2, <3>3
    <2>4. Bad \subseteq Nat /\ Bad # {}
      BY <2>1, <2>3
    <2>5. PICK k \in Bad : \A l \in Bad : k <= l
      BY <2>4, LeastElement
    <2>6. k \in 1 .. m /\ k \in 1 .. Len(ss)
      BY <2>1, <2>5
    <2>7. k # 1
      BY <1>0, <2>1, <2>3, <2>5, <2>6
    <2>8. k - 1 \in 1 .. m /\ ~ (k <= k - 1)
      BY <2>6, <2>7
    <2>9. f[k - 1] \in Seq(T)
      BY <2>2, <2>5, <2>8
    <2>10. f[k - 1] \o ss[k] \in Seq(T)
      BY <1>0, <2>6, <2>9
    <2> QED
      BY <2>1, <2>3, <2>5, <2>6, <2>7, <2>10
  <1>2. ASSUME NEW m \in 0 .. Len(ss), ~ \E f : Flattens(f, m) PROVE FALSE
    <2> DEFINE Bad == {k \in 0 .. Len(ss) : ~ \E f : Flattens(f, k)}
    <2>1. m \in Bad /\ \A k \in Bad : k \in 0 .. Len(ss) /\ ~ \E f : Flattens(f, k)
      BY <1>2
    <2>2. \A k \in 0 .. Len(ss) : k \notin Bad => \E f : Flattens(f, k)
      OBVIOUS
    <2> HIDE DEF Bad, Flattens
    <2>3. Bad \subseteq Nat /\ Bad # {}
      BY <2>1
    <2>4. PICK k \in Bad : \A l \in Bad : k <= l
      BY <2>3, LeastElement
    <2>5. k # 0
      <3>1. Flattens([i \in 1 .. 0 |-> 0], 0)
        BY DEF Flattens
      <3> QED
        BY <2>1, <2>4, <3>1
    <2>6. k \in 1 .. Len(ss) /\ k - 1 \in 0 .. Len(ss) /\ ~ (k <= k - 1)
      BY <2>1, <2>4, <2>5
    <2>7. PICK f : Flattens(f, k - 1)
      BY <2>2, <2>4, <2>6
    <2> DEFINE g == [i \in 1 .. k |-> IF i = k THEN Step(f, k) ELSE f[i]]
    <2>8. ASSUME NEW i \in 1 .. k PROVE g[i] = Step(g, i)
      <3>1. CASE i = 1 /\ k = 1
        BY <3>1
      <3>2. CASE i = 1 /\ k # 1
        <4>1. i \in 1 .. k - 1 /\ i # k
          BY <2>6, <3>2
        <4>2. f[i] = Step(f, i)
          BY <2>7, <4>1 DEF Flattens
        <4> QED
          BY <3>2, <4>1, <4>2
      <3>3. CASE i # 1
        <4>1. i - 1 \in 1 .. k /\ i - 1 # k
          BY <2>6, <3>3
        <4>2. g[i - 1] = f[i - 1]
          BY <4>1
        <4>3. CASE i = k
          BY <3>3, <4>2, <4>3
        <4>4. CASE i # k
          <5>1. i \in 1 .. k - 1
            BY <2>6, <4>4
          <5>2. f[i] = Step(f, i)
            BY <2>7, <5>1 DEF Flattens
          <5>3. g[i] = f[i]
            BY <4>4
          <5> QED
            BY <3>3, <4>2, <5>2, <5>3
        <4> QED
          BY <4>3, <4>4
      <3> QED
        BY <3>1, <3>2, <3>3
    <2>9. DOMAIN g = 1 .. k /\ g = [i \in 1 .. k |-> g[i]]
      OBVIOUS
    <2> HIDE DEF g
    <2>10. Flattens(g, k)
      BY <2>8, <2>9 DEF Flattens
    <2> QED
      BY <2>1, <2>4, <2>10
  <1>3. CASE Len(ss) = 0
    <2>1. ss = <<>> /\ <<>> \in Seq(T)
      BY <1>3, EmptySeq
    <2> QED
      BY <1>3, <2>1 DEF PeerTable!FlattenSeq
  <1>4. CASE Len(ss) # 0
    <2> DEFINE fl == CHOOSE f : Flattens(f, Len(ss))
    <2>1. PeerTable!FlattenSeq(ss) = fl[Len(ss)]
      BY <1>4 DEF PeerTable!FlattenSeq
    <2>2. Len(ss) \in 0 .. Len(ss) /\ Len(ss) \in 1 .. Len(ss)
      BY <1>0, <1>4
    <2> HIDE DEF Flattens
    <2>3. Flattens(fl, Len(ss))
      BY <1>2, <2>2
    <2> HIDE DEF fl
    <2>4. fl[Len(ss)] \in Seq(T)
      BY <1>1, <2>2, <2>3
    <2> QED
      BY <2>1, <2>4
  <1> QED
    BY <1>3, <1>4

Routes == [addr : Destinations, name : Names]
LengthChanged == \E i \in 2 .. Len(tables) : Len(tables[i]) # Len(tables[i - 1])
Known == PeerTable!Configured(config) \cup named

PeerInv ==
    /\ PeerTable!TypeOK
    /\ PeerTable!PeersForCause
    /\ {loop.name, pump.name} \cap Names \subseteq Known
    /\ planePeers \subseteq Known
    /\ updating => Len(tables) > 1
    /\ wild => LengthChanged
    /\ dropped # {} => plane = "udp"
    /\ Len(tables) = 1 => /\ PeerTable!Configured(config) \subseteq planePeers
                          /\ PeerTable!Configured(config) \cap dropped = {}

LEMMA ListTyped ==
    ASSUME PeerBounds, NEW cs \in Configs
    PROVE  PeerTable!Table(cs) \in Seq(Routes) /\ PeerTable!Configured(cs) \subseteq Names
  <1>1. cs \in Seq([name : Names, allowed : Seq(Destinations)])
    BY DEF PeerBounds, ConfigsAreLists
  <1>2. ASSUME NEW i \in 1 .. Len(cs)
        PROVE  /\ cs[i].name \in Names
               /\ [j \in DOMAIN cs[i].allowed |-> [addr |-> cs[i].allowed[j], name |-> cs[i].name]]
                    \in Seq(Routes)
    <2>1. cs[i] \in [name : Names, allowed : Seq(Destinations)]
      BY <1>1, ElementOfSeq
    <2>2. cs[i].name \in Names /\ cs[i].allowed \in Seq(Destinations)
      BY <2>1
    <2> DEFINE al == cs[i].allowed
               rs == [j \in DOMAIN al |-> [addr |-> al[j], name |-> cs[i].name]]
    <2> HIDE DEF al
    <2>3. DOMAIN al = 1 .. Len(al) /\ Len(al) \in Nat /\ \A j \in 1 .. Len(al) : al[j] \in Destinations
      BY <2>2 DEF al
    <2>4. rs \in [1 .. Len(al) -> Routes]
      BY <2>2, <2>3 DEF Routes
    <2>5. rs \in Seq(Routes)
      BY <2>3, <2>4, SeqDef
    <2> QED
      BY <2>2, <2>5 DEF al
  <1>3. DOMAIN cs = 1 .. Len(cs) /\ Len(cs) \in Nat
    BY <1>1
  <1> DEFINE ss == [i \in DOMAIN cs |->
               [j \in DOMAIN cs[i].allowed |-> [addr |-> cs[i].allowed[j], name |-> cs[i].name]]]
  <1>4. ss \in [1 .. Len(cs) -> Seq(Routes)]
    BY <1>2, <1>3
  <1>5. ss \in Seq(Seq(Routes))
    BY <1>3, <1>4, SeqDef
  <1>6. PeerTable!FlattenSeq(ss) \in Seq(Routes)
    BY <1>5, FlattenTyped
  <1> QED
    BY <1>2, <1>3, <1>6 DEF PeerTable!Table, PeerTable!Configured

(* A lookup finds the name of a route, or nothing, or looks behind its array, which takes
   a length that is not the array's. *)
LEMMA LookupFinds ==
    ASSUME PeerBounds, PeerInv, NEW addr, NEW name \in PeerTable!lookupPeerByIP(addr)
    PROVE  name \in Names \cup {"", "wild"} /\ (name = "wild" => LengthChanged)
  <1>1. /\ tables \in Seq(Seq(Routes)) /\ Len(tables) \in Nat /\ Len(tables) >= 1
        /\ updating => Len(tables) > 1
    BY DEF PeerInv, PeerTable!TypeOK, Routes, PeerBounds
  <1>2. PICK h \in PeerTable!Headers : name = PeerTable!Found(h[1], h[2], addr)
    BY DEF PeerTable!lookupPeerByIP
  <1> DEFINE L == Len(tables)
             seen == IF updating THEN {tables[L - 1], tables[L]} ELSE {tables[L]}
  <1>3. PICK a \in seen, b \in seen : h[1] = a /\ h[2] = Len(b)
    BY <1>2 DEF PeerTable!Headers, PeerTable!Last
  <1>4. /\ a \in Seq(Routes) /\ b \in Seq(Routes) /\ Len(a) \in Nat /\ Len(b) \in Nat
        /\ Len(b) > Len(a) => LengthChanged
    <2>1. CASE ~ updating
      BY <1>1, <1>3, <2>1
    <2>2. CASE updating
      <3>1. L \in 2 .. Len(tables) /\ L - 1 \in 1 .. L /\ L \in 1 .. L
        BY <1>1, <2>2
      <3>2. tables[L] \in Seq(Routes) /\ tables[L - 1] \in Seq(Routes)
        BY <1>1, <3>1
      <3>3. a \in {tables[L - 1], tables[L]} /\ b \in {tables[L - 1], tables[L]}
        BY <1>3, <2>2
      <3>4. a \in Seq(Routes) /\ b \in Seq(Routes) /\ Len(a) \in Nat /\ Len(b) \in Nat
        BY <3>2, <3>3
      <3>5. ASSUME Len(b) > Len(a) PROVE LengthChanged
        <4>1. a # b /\ Len(a) # Len(b)
          BY <3>4, <3>5
        <4>2. Len(tables[L]) # Len(tables[L - 1])
          BY <3>3, <4>1
        <4> QED
          BY <3>1, <4>2 DEF LengthChanged
      <3> QED
        BY <3>4, <3>5
    <2> QED
      BY <2>1, <2>2
  <1> DEFINE hits == {i \in 1 .. Len(a) : i <= Len(b) /\ a[i].addr = addr}
             least == CHOOSE i \in hits : \A j \in hits : i <= j
  <1>5. name = IF hits # {} THEN a[least].name ELSE IF Len(b) > Len(a) THEN "wild" ELSE ""
    <2>1. name = PeerTable!Found(a, Len(b), addr)
      BY <1>2, <1>3
    <2> QED
      BY <2>1 DEF PeerTable!Found
  <1>6. CASE hits # {}
    <2>1. hits \subseteq Nat
      BY <1>4
    <2>2. \A i \in hits : i \in 1 .. Len(a)
      OBVIOUS
    <2> HIDE DEF hits
    <2>3. \E i \in hits : \A j \in hits : i <= j
      BY <1>6, <2>1, LeastElement
    <2>4. least \in hits
      BY <2>3
    <2>5. a[least] \in Routes
      BY <1>4, <2>2, <2>4
    <2> HIDE DEF least
    <2>6. name \in Names
      BY <1>5, <1>6, <2>5 DEF Routes
    <2> QED
      BY <2>6 DEF PeerBounds, NamesAreNames
  <1>7. CASE hits = {}
    <2> HIDE DEF hits, least
    <2> QED
      BY <1>4, <1>5, <1>7
  <1> QED
    BY <1>6, <1>7

(* A route table more: the tables before it are what they were. *)
LEMMA LengthsStay ==
    ASSUME NEW T, NEW t \in T, tables \in Seq(T), tables' = Append(tables, t)
    PROVE  /\ tables' \in Seq(T) /\ Len(tables') = Len(tables) + 1 /\ Len(tables) \in Nat
           /\ LengthChanged => LengthChanged'
  <1>1. /\ tables' \in Seq(T) /\ Len(tables') = Len(tables) + 1 /\ Len(tables) \in Nat
        /\ \A i \in 1 .. Len(tables) : tables'[i] = tables[i]
    BY AppendProperties
  <1>2. ASSUME LengthChanged PROVE LengthChanged'
    <2>1. PICK i \in 2 .. Len(tables) : Len(tables[i]) # Len(tables[i - 1])
      BY <1>2 DEF LengthChanged
    <2>2. i \in 1 .. Len(tables) /\ i - 1 \in 1 .. Len(tables) /\ i \in 2 .. Len(tables')
      BY <1>1
    <2> QED
      BY <1>1, <2>1, <2>2 DEF LengthChanged
  <1> QED
    BY <1>1, <1>2

LEMMA PeerNames ==
    ASSUME PeerBounds, PeerInv
    PROVE  /\ PeerTable!Configured(config) \subseteq Names
           /\ peers \subseteq Names /\ named \subseteq Names /\ planePeers \subseteq Names
           /\ loop # PeerTable!Idle => loop.name \in Names
           /\ pump # PeerTable!Idle => pump.name \in Names
           /\ PeerTable!Idle.name \notin Names /\ PeerTable!Idle.pc = "idle"
  BY ListTyped DEF PeerInv, PeerTable!TypeOK, PeerTable!Idle, PeerBounds, NamesAreNames

(* The packet at hand changes: it names a peer of the configuration, one of those named,
   or none. *)
LEMMA PacketMoves ==
    ASSUME PeerBounds, PeerInv,
           UNCHANGED <<plane, config, tables, updating, dropped, peers, planePeers>>,
           wild' \in BOOLEAN, wild' => LengthChanged,
           named \subseteq named', named' \subseteq Names,
           loop' \in {PeerTable!Idle} \cup [pc : {"ensure", "deliver"}, name : Names],
           pump' \in {PeerTable!Idle} \cup [pc : {"send"}, name : Names],
           {loop'.name, pump'.name} \cap Names \subseteq PeerTable!Configured(config) \cup named'
    PROVE  PeerInv'
  <1>1. PeerTable!TypeOK'
    BY DEF PeerInv, PeerTable!TypeOK
  <1>2. LengthChanged' = LengthChanged
    BY DEF LengthChanged
  <1>3. PeerTable!Configured(config)' = PeerTable!Configured(config)
    BY DEF PeerTable!Configured
  <1> QED
    BY <1>1, <1>2, <1>3 DEF PeerInv, PeerTable!PeersForCause, Known

LEMMA HandleDataKeeps ==
    ASSUME PeerBounds, PeerInv, NEW name \in Names, PeerTable!HandleData(name) PROVE PeerInv'
  <1>1. /\ UNCHANGED <<plane, config, peers, planePeers, tables, updating, pump, wild, dropped>>
        /\ loop' = [pc |-> "ensure", name |-> name] /\ named' = named \cup {name}
    BY DEF PeerTable!HandleData, PeerTable!At
  <1>2. /\ wild \in BOOLEAN /\ (wild => LengthChanged) /\ named \subseteq Names
        /\ pump \in {PeerTable!Idle} \cup [pc : {"send"}, name : Names]
        /\ {loop.name, pump.name} \cap Names \subseteq PeerTable!Configured(config) \cup named
    BY DEF PeerInv, PeerTable!TypeOK, Known
  <1>3. /\ loop' \in {PeerTable!Idle} \cup [pc : {"ensure", "deliver"}, name : Names]
        /\ loop'.name = name
    BY <1>1
  <1> QED
    BY <1>1, <1>2, <1>3, PacketMoves

LEMMA HandleRoutedKeeps ==
    ASSUME PeerBounds, PeerInv, NEW addr, PeerTable!HandleRouted(addr) PROVE PeerInv'
  <1>0. UNCHANGED <<plane, config, peers, planePeers, tables, updating, pump, dropped>>
    BY DEF PeerTable!HandleRouted
  <1>1. PICK name \in PeerTable!lookupPeerByIP(addr) :
          /\ wild' = (wild \/ name = "wild")
          /\ loop' = IF name \in Names THEN [pc |-> "ensure", name |-> name] ELSE PeerTable!Idle
          /\ named' = named \cup ({name} \cap Names)
    BY DEF PeerTable!HandleRouted, PeerTable!HasRoute, PeerTable!At
  <1>2. /\ wild \in BOOLEAN /\ (wild => LengthChanged) /\ named \subseteq Names
        /\ pump \in {PeerTable!Idle} \cup [pc : {"send"}, name : Names]
        /\ {loop.name, pump.name} \cap Names \subseteq PeerTable!Configured(config) \cup named
    BY DEF PeerInv, PeerTable!TypeOK, Known
  <1>3. wild' \in BOOLEAN /\ (wild' => LengthChanged)
    BY <1>1, <1>2, LookupFinds
  <1>4. /\ loop' \in {PeerTable!Idle} \cup [pc : {"ensure", "deliver"}, name : Names]
        /\ {loop'.name} \cap Names \subseteq named'
    BY <1>1, PeerNames
  <1> QED
    BY <1>0, <1>1, <1>2, <1>3, <1>4, PacketMoves

LEMMA PumpTakesKeeps ==
    ASSUME PeerBounds, PeerInv, NEW addr, PeerTable!PumpTakes(addr) PROVE PeerInv'
  <1>0. UNCHANGED <<plane, config, peers, planePeers, tables, updating, loop, dropped>>
    BY DEF PeerTable!PumpTakes
  <1>2. /\ wild \in BOOLEAN /\ (wild => LengthChanged) /\ named \subseteq Names
        /\ loop \in {PeerTable!Idle} \cup [pc : {"ensure", "deliver"}, name : Names]
        /\ {loop.name, pump.name} \cap Names \subseteq PeerTable!Configured(config) \cup named
        /\ planePeers \subseteq PeerTable!Configured(config) \cup named
    BY DEF PeerInv, PeerTable!TypeOK, Known
  <1>1. \/ \E n \in Names : /\ pump' = [pc |-> "send", name |-> n] /\ named' = named \cup {n}
                           /\ wild' = wild
        \/ \E name \in PeerTable!lookupPeerByIP(addr) :
             /\ wild' = (wild \/ name = "wild")
             /\ pump' = IF name \in Names THEN [pc |-> "send", name |-> name] ELSE PeerTable!Idle
             /\ named' = named \cup ({name} \cap Names)
    BY PeerNames DEF PeerTable!PumpTakes, PeerTable!HasRoute, PeerTable!At
  <1>3. CASE \E n \in Names : /\ pump' = [pc |-> "send", name |-> n] /\ named' = named \cup {n}
                             /\ wild' = wild
    <2>1. PICK n \in Names : /\ pump' = [pc |-> "send", name |-> n] /\ named' = named \cup {n}
                            /\ wild' = wild
      BY <1>3
    <2>2. /\ pump' \in {PeerTable!Idle} \cup [pc : {"send"}, name : Names]
          /\ pump'.name = n
      BY <2>1, PeerNames
    <2> QED
      BY <1>0, <1>2, <2>1, <2>2, PacketMoves
  <1>4. CASE \E name \in PeerTable!lookupPeerByIP(addr) :
               /\ wild' = (wild \/ name = "wild")
               /\ pump' = IF name \in Names THEN [pc |-> "send", name |-> name] ELSE PeerTable!Idle
               /\ named' = named \cup ({name} \cap Names)
    <2>1. PICK name \in PeerTable!lookupPeerByIP(addr) :
            /\ wild' = (wild \/ name = "wild")
            /\ pump' = IF name \in Names THEN [pc |-> "send", name |-> name] ELSE PeerTable!Idle
            /\ named' = named \cup ({name} \cap Names)
      BY <1>4
    <2>2. wild' \in BOOLEAN /\ (wild' => LengthChanged)
      BY <1>2, <2>1, LookupFinds
    <2>3. /\ pump' \in {PeerTable!Idle} \cup [pc : {"send"}, name : Names]
          /\ {pump'.name} \cap Names \subseteq named'
      BY <2>1, PeerNames
    <2> QED
      BY <1>0, <1>2, <2>1, <2>2, <2>3, PacketMoves
  <1> QED
    BY <1>1, <1>3, <1>4

(* ensurePeer adds a peer that a packet named. *)
LEMMA EnsureKeeps ==
    ASSUME PeerBounds, PeerInv, NEW name \in Names \cap Known, PeerTable!EnsurePeer(name),
           UNCHANGED <<plane, config, tables, updating, named, wild, dropped>>,
           loop' \in {PeerTable!Idle} \cup [pc : {"ensure", "deliver"}, name : Names],
           pump' \in {PeerTable!Idle} \cup [pc : {"send"}, name : Names],
           {loop'.name, pump'.name} \cap Names \subseteq Known
    PROVE  PeerInv'
  <1>1. /\ peers' = peers \cup {name}
        /\ planePeers' \in {planePeers, planePeers \cup {name}}
    BY DEF PeerTable!EnsurePeer
  <1>2. PeerTable!TypeOK'
    BY <1>1 DEF PeerInv, PeerTable!TypeOK
  <1>3. LengthChanged' = LengthChanged
    BY DEF LengthChanged
  <1>4. PeerTable!Configured(config)' = PeerTable!Configured(config) /\ Known' = Known
    BY DEF PeerTable!Configured, Known
  <1> QED
    BY <1>1, <1>2, <1>3, <1>4 DEF PeerInv, PeerTable!PeersForCause, Known

LEMMA LoopEnsuresKeeps == ASSUME PeerBounds, PeerInv, PeerTable!LoopEnsures PROVE PeerInv'
  <1>1. /\ loop.pc = "ensure" /\ PeerTable!EnsurePeer(loop.name)
        /\ loop' = [pc |-> "deliver", name |-> loop.name]
        /\ UNCHANGED <<plane, config, tables, updating, pump, named, wild, dropped>>
    BY DEF PeerTable!LoopEnsures, PeerTable!At
  <1>2. loop.name \in Names
    BY <1>1, PeerNames
  <1>3. /\ {loop.name, pump.name} \cap Names \subseteq Known
        /\ pump \in {PeerTable!Idle} \cup [pc : {"send"}, name : Names]
    BY DEF PeerInv, PeerTable!TypeOK
  <1>4. /\ loop' \in {PeerTable!Idle} \cup [pc : {"ensure", "deliver"}, name : Names]
        /\ loop'.name = loop.name
    BY <1>1, <1>2
  <1>5. loop.name \in Names \cap Known
    BY <1>2, <1>3
  <1> QED
    BY <1>1, <1>3, <1>4, <1>5, EnsureKeeps

LEMMA PumpEnsuresKeeps == ASSUME PeerBounds, PeerInv, PeerTable!PumpEnsures PROVE PeerInv'
  <1>1. /\ pump # PeerTable!Idle /\ PeerTable!EnsurePeer(pump.name) /\ pump' = PeerTable!Idle
        /\ UNCHANGED <<plane, config, tables, updating, loop, named, wild, dropped>>
    BY DEF PeerTable!PumpEnsures
  <1>2. /\ {loop.name, pump.name} \cap Names \subseteq Known
        /\ loop \in {PeerTable!Idle} \cup [pc : {"ensure", "deliver"}, name : Names]
    BY DEF PeerInv, PeerTable!TypeOK
  <1>3. pump.name \in Names \cap Known
    BY <1>1, <1>2, PeerNames
  <1>4. {loop'.name, pump'.name} \cap Names \subseteq Known
    BY <1>1, <1>2, PeerNames
  <1> QED
    BY <1>1, <1>2, <1>3, <1>4, EnsureKeeps

LEMMA PeerDeliverKeeps == ASSUME PeerBounds, PeerInv, PeerTable!Deliver PROVE PeerInv'
  <1>1. /\ UNCHANGED <<plane, config, peers, planePeers, tables, updating, pump, named, wild>>
        /\ loop.pc = "deliver" /\ loop' = PeerTable!Idle
        /\ dropped' = IF plane = "udp" /\ loop.name \notin planePeers
                      THEN dropped \cup {loop.name} ELSE dropped
    BY DEF PeerTable!Deliver
  <1>2. loop.name \in Names
    BY <1>1, PeerNames
  <1>3. PeerTable!TypeOK'
    BY <1>1, <1>2 DEF PeerInv, PeerTable!TypeOK
  <1>4. LengthChanged' = LengthChanged /\ Known' = Known
        /\ PeerTable!Configured(config)' = PeerTable!Configured(config)
    BY <1>1 DEF LengthChanged, Known, PeerTable!Configured
  <1>5. {loop'.name, pump'.name} \cap Names \subseteq Known
    BY <1>1, PeerNames DEF PeerInv
  <1> QED
    BY <1>1, <1>3, <1>4, <1>5 DEF PeerInv, PeerTable!PeersForCause

LEMMA UpdateKeeps ==
    ASSUME PeerBounds, PeerInv, NEW cs \in Configs, PeerTable!UpdatePeers(cs) PROVE PeerInv'
  <1>1. /\ UNCHANGED <<plane, planePeers, loop, pump, wild, dropped>>
        /\ Len(tables) <= MaxUpdates /\ updating' = TRUE
        /\ config' = cs /\ tables' = Append(tables, PeerTable!Table(cs))
        /\ peers' = PeerTable!Configured(cs)
        /\ named' = ({loop.name, pump.name} \cup planePeers) \cap Names
    BY DEF PeerTable!UpdatePeers
  <1>2. PeerTable!Table(cs) \in Seq(Routes) /\ PeerTable!Configured(cs) \subseteq Names
    BY ListTyped
  <1>3. tables \in Seq(Seq(Routes)) /\ Len(tables) \in 1 .. MaxUpdates + 1 /\ MaxUpdates \in Nat
    BY DEF PeerInv, PeerTable!TypeOK, Routes, PeerBounds
  <1>4. /\ tables' \in Seq(Seq(Routes)) /\ Len(tables') = Len(tables) + 1 /\ Len(tables) \in Nat
        /\ LengthChanged => LengthChanged'
    BY <1>1, <1>2, <1>3, LengthsStay
  <1>5. Len(tables') \in 1 .. MaxUpdates + 1 /\ Len(tables') > 1 /\ Len(tables') # 1
    BY <1>1, <1>3, <1>4
  <1>6. PeerTable!Configured(config') = PeerTable!Configured(cs)
    BY <1>1
  <1>7. PeerTable!TypeOK'
    BY <1>1, <1>2, <1>4, <1>5 DEF PeerInv, PeerTable!TypeOK, Routes
  <1>8. planePeers' \subseteq Known' /\ {loop'.name, pump'.name} \cap Names \subseteq Known'
    BY <1>1, PeerNames DEF Known
  <1>9. PeerTable!PeersForCause'
    BY <1>1, <1>6 DEF PeerTable!PeersForCause
  <1>10. (wild' => LengthChanged') /\ (dropped' # {} => plane' = "udp")
    BY <1>1, <1>4 DEF PeerInv
  <1> QED
    BY <1>5, <1>7, <1>8, <1>9, <1>10 DEF PeerInv

LEMMA UpdatedKeeps == ASSUME PeerBounds, PeerInv, PeerTable!Updated PROVE PeerInv'
  <1>1. /\ UNCHANGED <<plane, config, peers, tables, loop, pump, named, wild, dropped>>
        /\ updating /\ updating' = FALSE
        /\ planePeers' \in {planePeers, planePeers \cup PeerTable!Configured(config)}
    BY DEF PeerTable!Updated
  <1>2. LengthChanged' = LengthChanged /\ Known' = Known
        /\ PeerTable!Configured(config)' = PeerTable!Configured(config)
    BY <1>1 DEF LengthChanged, Known, PeerTable!Configured
  <1>3. PeerTable!TypeOK'
    BY <1>1, PeerNames DEF PeerInv, PeerTable!TypeOK
  <1>4. planePeers' \subseteq Known
    BY <1>1 DEF PeerInv, Known
  <1>5. Len(tables) > 1 /\ Len(tables) \in Nat
    BY <1>1 DEF PeerInv, PeerTable!TypeOK, PeerBounds
  <1> QED
    BY <1>1, <1>2, <1>3, <1>4, <1>5 DEF PeerInv, PeerTable!PeersForCause, Known

LEMMA PeersStart == ASSUME PeerBounds, PeerTable!Init PROVE PeerInv
  <1>1. /\ plane \in {"loopback", "udp", "tun"} /\ config \in Configs
        /\ peers = PeerTable!Configured(config) /\ planePeers = peers
        /\ tables = <<PeerTable!Table(config)>> /\ updating = FALSE
        /\ loop = PeerTable!Idle /\ pump = PeerTable!Idle
        /\ named = {} /\ wild = FALSE /\ dropped = {}
    BY DEF PeerTable!Init
  <1>2. PeerTable!Table(config) \in Seq(Routes) /\ PeerTable!Configured(config) \subseteq Names
    BY <1>1, ListTyped
  <1>3. /\ tables \in Seq(Seq(Routes)) /\ Len(tables) = 1
        /\ 1 \in 1 .. MaxUpdates + 1
    BY <1>1, <1>2 DEF PeerBounds
  <1>4. PeerTable!TypeOK
    BY <1>1, <1>2, <1>3 DEF PeerTable!TypeOK, Routes
  <1>5. {loop.name, pump.name} \cap Names = {}
    BY <1>1 DEF PeerTable!Idle, PeerBounds, NamesAreNames
  <1> QED
    BY <1>1, <1>4, <1>5 DEF PeerInv, PeerTable!PeersForCause, Known

LEMMA PeersGoOn ==
    ASSUME PeerBounds, PeerInv, [PeerTable!Next]_(PeerTable!vars) PROVE PeerInv'
  <1>1. CASE PeerTable!Next
    BY <1>1, HandleDataKeeps, HandleRoutedKeeps, PumpTakesKeeps, LoopEnsuresKeeps,
       PeerDeliverKeeps, PumpEnsuresKeeps, UpdateKeeps, UpdatedKeeps DEF PeerTable!Next
  <1>2. CASE UNCHANGED PeerTable!vars
    <2>1. UNCHANGED <<plane, config, peers, planePeers, tables, updating, loop, pump, named, wild,
                      dropped>>
      BY <1>2 DEF PeerTable!vars
    <2>2. LengthChanged' = LengthChanged /\ Known' = Known
          /\ PeerTable!Configured(config)' = PeerTable!Configured(config)
      BY <2>1 DEF LengthChanged, Known, PeerTable!Configured
    <2>3. PeerTable!TypeOK'
      BY <2>1 DEF PeerInv, PeerTable!TypeOK
    <2> QED
      BY <2>1, <2>2, <2>3 DEF PeerInv, PeerTable!PeersForCause
  <1> QED
    BY <1>1, <1>2

LEMMA PeersInvariant == ASSUME PeerBounds PROVE PeerTable!Spec => []PeerInv
  <1>1. PeerTable!Init => PeerInv
    BY PeersStart
  <1>2. PeerInv /\ [PeerTable!Next]_(PeerTable!vars) => PeerInv'
    BY PeersGoOn
  <1> QED
    BY <1>1, <1>2, PTL DEF PeerTable!Spec

LEMMA PeersImply ==
    ASSUME PeerBounds, PeerInv
    PROVE  PeerTable!TypeOK /\ PeerTable!PeersForCause /\ PeerTable!LookupsForCause
  <1> DEFINE n == Len(tables)
  <1>1. n = 1 \/ n > 1
    <2>1. n \in 1 .. MaxUpdates + 1
      BY DEF PeerInv, PeerTable!TypeOK
    <2>2. MaxUpdates \in Nat
      BY DEF PeerBounds
    <2> HIDE DEF n
    <2> QED
      BY <2>1, <2>2
  <1> QED
    BY <1>1 DEF PeerInv, LengthChanged, PeerTable!LookupsForCause

(* A lookup without the mutex leaves its table only if a reload changes its length, and
   payload of a configured peer is dropped only by a UDP bridge after a reload
   (lookupPeerByIP and UpdatePeers of device.go). *)
THEOREM LookupsOnlyForCause == ASSUME PeerBounds PROVE PeerTable!Spec => []PeerTable!LookupsForCause
  BY PeersInvariant, PeersImply, PTL

-----------------------------------------------------------------------------
(* The listener and the multiplexer of Network take the steps of their own modules. *)

LEMMA UdpSame ==
    /\ Udp!Init = UdpP!Init /\ Udp!Next = UdpP!Next
    /\ UNCHANGED Udp!vars <=> UNCHANGED UdpP!vars
    /\ Udp!ReadsInOrder = UdpP!ReadsInOrder
    BY DEF Udp!Init, UdpP!Init, Udp!Sessions, UdpP!Sessions, Udp!Next,
       UdpP!Next, Udp!DemuxConnects, UdpP!DemuxConnects, Udp!NewSession,
       UdpP!NewSession, Udp!Refuse, UdpP!Refuse, Udp!DemuxPushes,
       UdpP!DemuxPushes, Udp!Closed, UdpP!Closed, Udp!DemuxGoes,
       UdpP!DemuxGoes, Udp!DemuxSends, UdpP!DemuxSends, Udp!DemuxEnds,
       UdpP!DemuxEnds, Udp!Accept, UdpP!Accept, Udp!CloseListener,
       UdpP!CloseListener, Udp!CloseMayLock, UdpP!CloseMayLock, Udp!LockFree,
       UdpP!LockFree, Udp!ListenerGoes, UdpP!ListenerGoes, Udp!CloseNext,
       UdpP!CloseNext, Udp!Close, UdpP!Close, Udp!CloseReturns,
       UdpP!CloseReturns, Udp!Created, UdpP!Created, Udp!Owner, UdpP!Owner,
       Udp!ReadPending, UdpP!ReadPending, Udp!Deliver, UdpP!Deliver,
       Udp!ReadWaits, UdpP!ReadWaits, Udp!ReadGets, UdpP!ReadGets, Udp!Pieces,
       UdpP!Pieces, Udp!ReadGetsNothing, UdpP!ReadGetsNothing, Udp!OwnerCloses,
       UdpP!OwnerCloses, Udp!OwnerCleansUp, UdpP!OwnerCleansUp, Udp!Forget,
       UdpP!Forget, Udp!vars, UdpP!vars, Udp!ReadsInOrder, UdpP!ReadsInOrder

LEMMA UdpFactsSame ==
    /\ Udp!TypeOK <=> UdpP!TypeOK
    /\ Udp!PanicsOnlyIfOwnerRaced <=> UdpP!PanicsOnlyIfOwnerRaced
    /\ Udp!TableExact <=> UdpP!TableExact
    BY DEF Udp!TypeOK, UdpP!TypeOK, Udp!Sessions, UdpP!Sessions, Udp!Created,
       UdpP!Created, Udp!Demux, UdpP!Demux, Udp!PanicsOnlyIfOwnerRaced,
       UdpP!PanicsOnlyIfOwnerRaced, Udp!TableExact, UdpP!TableExact,
       Udp!Closed, UdpP!Closed

LEMMA MuxSame == Multiplexer!Next = MuxP!Next
  <1>1. Multiplexer!FinishClose = MuxP!FinishClose
    BY DEF Multiplexer!FinishClose, MuxP!FinishClose, Multiplexer!Free,
           MuxP!Free, Multiplexer!CloseStreams, MuxP!CloseStreams,
           Multiplexer!Created, MuxP!Created, Multiplexer!InTable, MuxP!InTable
  <1>2. Multiplexer!UserCloses = MuxP!UserCloses
    BY DEF Multiplexer!UserCloses, MuxP!UserCloses, Multiplexer!BeginClose,
           MuxP!BeginClose
  <1>3. Multiplexer!Break = MuxP!Break
    BY DEF Multiplexer!Break, MuxP!Break
  <1>4. Multiplexer!LoopReads = MuxP!LoopReads
    BY DEF Multiplexer!LoopReads, MuxP!LoopReads, Multiplexer!Reading,
           MuxP!Reading
  <1>5. Multiplexer!LoopStops = MuxP!LoopStops
    BY DEF Multiplexer!LoopStops, MuxP!LoopStops, Multiplexer!Reading,
           MuxP!Reading
  <1>6. Multiplexer!LoopFails = MuxP!LoopFails
    BY DEF Multiplexer!LoopFails, MuxP!LoopFails, Multiplexer!Reading,
           MuxP!Reading, Multiplexer!BeginClose, MuxP!BeginClose
  <1>7. Multiplexer!HandleDataFrame = MuxP!HandleDataFrame
    BY DEF Multiplexer!HandleDataFrame, MuxP!HandleDataFrame,
           Multiplexer!Handles, MuxP!Handles, Multiplexer!Free, MuxP!Free,
           Multiplexer!Reading, MuxP!Reading
  <1>8. Multiplexer!Deliver = MuxP!Deliver
    BY DEF Multiplexer!Deliver, MuxP!Deliver, Multiplexer!Reading, MuxP!Reading
  <1>9. Multiplexer!HandleOpenFrame = MuxP!HandleOpenFrame
    BY DEF Multiplexer!HandleOpenFrame, MuxP!HandleOpenFrame,
           Multiplexer!Handles, MuxP!Handles, Multiplexer!Free, MuxP!Free,
           Multiplexer!AtLimit, Multiplexer!Cardinality, MuxP!Cardinality, MuxP!AtLimit, Multiplexer!NewStream,
           MuxP!NewStream, Multiplexer!Reading, MuxP!Reading
  <1>10. Multiplexer!HandleOpenFrameAtLimit = MuxP!HandleOpenFrameAtLimit
    BY DEF Multiplexer!HandleOpenFrameAtLimit, MuxP!HandleOpenFrameAtLimit,
           Multiplexer!Handles, MuxP!Handles, Multiplexer!Free, MuxP!Free,
           Multiplexer!AtLimit, Multiplexer!Cardinality, MuxP!Cardinality, MuxP!AtLimit, Multiplexer!Stuck, MuxP!Stuck
  <1>11. Multiplexer!HandleCloseFrame = MuxP!HandleCloseFrame
    BY DEF Multiplexer!HandleCloseFrame, MuxP!HandleCloseFrame,
           Multiplexer!Handles, MuxP!Handles, Multiplexer!Free, MuxP!Free,
           Multiplexer!Reading, MuxP!Reading, Multiplexer!CloseStreams,
           MuxP!CloseStreams, Multiplexer!Created, MuxP!Created
  <1>12. Multiplexer!AnswerPing = MuxP!AnswerPing
    BY DEF Multiplexer!AnswerPing, MuxP!AnswerPing, Multiplexer!Handles,
           MuxP!Handles, Multiplexer!Free, MuxP!Free
  <1>13. Multiplexer!PongWritten = MuxP!PongWritten
    BY DEF Multiplexer!PongWritten, MuxP!PongWritten, Multiplexer!Free,
           MuxP!Free, Multiplexer!Reading, MuxP!Reading
  <1>14. Multiplexer!Tick = MuxP!Tick
    BY DEF Multiplexer!Tick, MuxP!Tick, Multiplexer!Free, MuxP!Free
  <1>15. Multiplexer!PingWritten = MuxP!PingWritten
    BY DEF Multiplexer!PingWritten, MuxP!PingWritten, Multiplexer!Free,
           MuxP!Free, Multiplexer!BeginClose, MuxP!BeginClose
  <1>16. Multiplexer!PingEnds = MuxP!PingEnds
    BY DEF Multiplexer!PingEnds, MuxP!PingEnds
  <1>17. Multiplexer!AcceptStream = MuxP!AcceptStream
    BY DEF Multiplexer!AcceptStream, MuxP!AcceptStream
  <1>18. ASSUME NEW id PROVE Multiplexer!OpenStream(id) = MuxP!OpenStream(id)
    BY DEF Multiplexer!OpenStream, MuxP!OpenStream, Multiplexer!Free,
           MuxP!Free, Multiplexer!AtLimit, Multiplexer!Cardinality, MuxP!Cardinality, MuxP!AtLimit, Multiplexer!NewStream,
           MuxP!NewStream, Multiplexer!Stuck, MuxP!Stuck
  <1>19. ASSUME NEW k PROVE Multiplexer!Read(k) = MuxP!Read(k)
    BY DEF Multiplexer!Read, MuxP!Read
  <1>20. ASSUME NEW k PROVE Multiplexer!Write(k) = MuxP!Write(k)
    BY DEF Multiplexer!Write, MuxP!Write
  <1>21. ASSUME NEW k PROVE Multiplexer!CloseStream(k) = MuxP!CloseStream(k)
    BY DEF Multiplexer!CloseStream, MuxP!CloseStream, Multiplexer!CloseStreams,
           MuxP!CloseStreams, Multiplexer!Created, MuxP!Created
  <1>22. ASSUME NEW k PROVE Multiplexer!CloseLocks(k) = MuxP!CloseLocks(k)
    BY DEF Multiplexer!CloseLocks, MuxP!CloseLocks, Multiplexer!Free, MuxP!Free
  <1>23. ASSUME NEW k PROVE Multiplexer!CloseWritten(k) = MuxP!CloseWritten(k)
    BY DEF Multiplexer!CloseWritten, MuxP!CloseWritten, Multiplexer!Free,
           MuxP!Free
  <1>24. ASSUME NEW k PROVE Multiplexer!WriterTakes(k) = MuxP!WriterTakes(k)
    BY DEF Multiplexer!WriterTakes, MuxP!WriterTakes, Multiplexer!Free,
           MuxP!Free
  <1>25. ASSUME NEW k PROVE Multiplexer!WriterEnds(k) = MuxP!WriterEnds(k)
    BY DEF Multiplexer!WriterEnds, MuxP!WriterEnds, Multiplexer!ToldToEnd,
           MuxP!ToldToEnd
  <1>26. ASSUME NEW k PROVE Multiplexer!WriterWritten(k) = MuxP!WriterWritten(k)
    BY DEF Multiplexer!WriterWritten, MuxP!WriterWritten, Multiplexer!Free,
           MuxP!Free, Multiplexer!CloseStreams, MuxP!CloseStreams,
           Multiplexer!Created, MuxP!Created
  <1> QED
    BY <1>1, <1>2, <1>3, <1>4, <1>5, <1>6, <1>7, <1>8, <1>9, <1>10, <1>11,
       <1>12, <1>13, <1>14, <1>15, <1>16, <1>17, <1>18, <1>19, <1>20, <1>21,
       <1>22, <1>23, <1>24, <1>25, <1>26 DEF Multiplexer!Next, MuxP!Next,
       Multiplexer!Created, MuxP!Created, Multiplexer!LoopGoes, MuxP!LoopGoes,
       Multiplexer!WriterGoes, MuxP!WriterGoes

LEMMA MuxFactsSame ==
    /\ Multiplexer!Init = MuxP!Init
    /\ UNCHANGED Multiplexer!vars <=> UNCHANGED MuxP!vars
    /\ Multiplexer!StreamsInOrder = MuxP!StreamsInOrder
    /\ Multiplexer!TypeOK <=> MuxP!TypeOK
    /\ Multiplexer!LostOnlyIfReopened <=> MuxP!LostOnlyIfReopened
    BY DEF Multiplexer!Init, MuxP!Init, Multiplexer!Free, MuxP!Free,
       Multiplexer!Objects, MuxP!Objects, Multiplexer!Reading, MuxP!Reading,
       Multiplexer!vars, MuxP!vars, Multiplexer!StreamsInOrder,
       MuxP!StreamsInOrder, Multiplexer!Created, MuxP!Created,
       Multiplexer!TypeOK, MuxP!TypeOK, Multiplexer!Holders, MuxP!Holders,
       Multiplexer!Stuck, MuxP!Stuck, Multiplexer!LostOnlyIfReopened,
       MuxP!LostOnlyIfReopened

LEMMA BoundsHold ==
    /\ UdpP!Bounds /\ MuxP!Bounds /\ PlaneBounds /\ ProbeBounds
    /\ Capacity \in Nat /\ SocketBounds /\ PeerBounds
  <1>1. /\ {MaxSessions, MaxDatagrams, AcceptCapacity, MaxChannels, MaxFrames,
           OutboundCapacity, Buffer, MaxStreams, Backlog, MuxBuffer, MaxObjects,
           MaxEvents, Capacity, MaxMessages, MaxAnswers, MaxPings, MaxUpdates} \subseteq Nat
        /\ ReadCapacity \in Nat \ {0}
        /\ IsFiniteSet(Conns) /\ SizesAreBytes /\ NamesAreNames /\ ConfigsAreLists
    BY Zenon, NetworkAssumption DEF NetworkAssumption, SizesAreBytes, NamesAreNames,
       ConfigsAreLists
  <1> QED
    BY <1>1 DEF UdpP!Bounds, MuxP!Bounds, PlaneBounds, ProbeBounds, SocketBounds, PeerBounds

-----------------------------------------------------------------------------
(* A behaviour is one of one component: the others' variables do not move, and its own
   begin and move as its module says. *)

LEMMA PartsBegin ==
    ASSUME Init
    PROVE  /\ component = "Udp" => Udp!Init
           /\ component = "Plane" => Plane!Init
           /\ component = "Multiplexer" => Multiplexer!Init
           /\ component = "Probe" => Probe!Init
           /\ component = "CdnListener" => CdnListener!Init
           /\ component = "WebSocket" => WebSocket!Init
           /\ component = "PeerTable" => PeerTable!Init
  BY DEF Init

LEMMA PartsMove ==
    ASSUME [Next]_vars
    PROVE  /\ component' = component
           /\ component = "Udp" => [Udp!Next]_(Udp!vars)
           /\ component = "Plane" => [Plane!Next]_(Plane!vars)
           /\ component = "Multiplexer" => [Multiplexer!Next]_(Multiplexer!vars)
           /\ component = "Probe" => [Probe!Next]_(Probe!vars)
           /\ component = "CdnListener" => [CdnListener!Next]_(CdnListener!vars)
           /\ component = "WebSocket" => [WebSocket!Next]_(WebSocket!vars)
           /\ component = "PeerTable" => [PeerTable!Next]_(PeerTable!vars)
  <1>1. CASE Next
    BY <1>1 DEF Next
  <1>2. CASE UNCHANGED vars
    <2>1. /\ UNCHANGED <<component, udpVars, planeVars, multiplexerVars, probeVars,
                        cdnListenerVars, webSocketVars, peerTableVars>>
      BY <1>2 DEF vars
    <2> QED
      BY <2>1 DEF udpVars, Udp!vars, planeVars, Plane!vars, multiplexerVars,
         Multiplexer!vars, probeVars, Probe!vars, cdnListenerVars,
         CdnListener!vars, webSocketVars, WebSocket!vars, peerTableVars,
         PeerTable!vars
  <1> QED
    BY <1>1, <1>2

LEMMA UdpHolds ==
    Spec => [](Is("Udp") => (UdpP!TypeOK /\ UdpP!TableExact /\ UdpP!PanicsOnlyIfOwnerRaced))
  <1>1. Init /\ Is("Udp") => UdpP!Init
    BY PartsBegin, UdpSame DEF Is
  <1>2. [Next]_vars /\ Is("Udp") => [UdpP!Next]_(UdpP!vars) /\ Is("Udp")'
    BY PartsMove, UdpSame DEF Is
  <1>3. [Next]_vars /\ ~ Is("Udp") => ~ Is("Udp")'
    BY PartsMove DEF Is
  <1>4. UdpP!Spec => [](UdpP!TypeOK /\ UdpP!TableExact /\ UdpP!PanicsOnlyIfOwnerRaced)
    <2>1. UdpP!Spec => []UdpP!TypeOK
      BY BoundsHold, UdpP!ListenerTypeCorrect
    <2>2. UdpP!Spec => []UdpP!TableExact
      BY BoundsHold, UdpP!TableStaysExact
    <2>3. UdpP!Spec => []UdpP!PanicsOnlyIfOwnerRaced
      BY BoundsHold, UdpP!ListenerCannotPanicDemux
    <2> QED
      BY <2>1, <2>2, <2>3, PTL
  <1> QED
    BY <1>1, <1>2, <1>3, <1>4, PTL DEF Spec, UdpP!Spec

LEMMA MultiplexerHolds ==
    Spec => [](Is("Multiplexer") => (MuxP!TypeOK /\ MuxP!LostOnlyIfReopened))
  <1>1. Init /\ Is("Multiplexer") => MuxP!Init
    BY PartsBegin, MuxSame, MuxFactsSame DEF Is
  <1>2. [Next]_vars /\ Is("Multiplexer") => [MuxP!Next]_(MuxP!vars) /\ Is("Multiplexer")'
    BY PartsMove, MuxSame, MuxFactsSame DEF Is
  <1>3. [Next]_vars /\ ~ Is("Multiplexer") => ~ Is("Multiplexer")'
    BY PartsMove DEF Is
  <1>4. MuxP!Spec => [](MuxP!TypeOK /\ MuxP!LostOnlyIfReopened)
    <2>1. MuxP!Spec => []MuxP!TypeOK
      BY BoundsHold, MuxP!MuxTypeCorrect
    <2>2. MuxP!Spec => []MuxP!LostOnlyIfReopened
      BY BoundsHold, MuxP!StreamsStayNamed
    <2> QED
      BY <2>1, <2>2, PTL
  <1> QED
    BY <1>1, <1>2, <1>3, <1>4, PTL DEF Spec, MuxP!Spec

LEMMA PlaneHolds ==
    Spec => [](Is("Plane") => PlaneInv)
  <1>1. Init /\ Is("Plane") => Plane!Init
    BY PartsBegin DEF Is
  <1>2. [Next]_vars /\ Is("Plane") => [Plane!Next]_(Plane!vars) /\ Is("Plane")'
    BY PartsMove DEF Is
  <1>3. [Next]_vars /\ ~ Is("Plane") => ~ Is("Plane")'
    BY PartsMove DEF Is
  <1>4. Plane!Spec => []PlaneInv
    BY BoundsHold, PlaneInvariant
  <1> QED
    BY <1>1, <1>2, <1>3, <1>4, PTL DEF Spec, Plane!Spec

LEMMA ProbeHolds ==
    Spec => [](Is("Probe") => ProbeInv)
  <1>1. Init /\ Is("Probe") => Probe!Init
    BY PartsBegin DEF Is
  <1>2. [Next]_vars /\ Is("Probe") => [Probe!Next]_(Probe!vars) /\ Is("Probe")'
    BY PartsMove DEF Is
  <1>3. [Next]_vars /\ ~ Is("Probe") => ~ Is("Probe")'
    BY PartsMove DEF Is
  <1>4. Probe!Spec => []ProbeInv
    BY BoundsHold, ProbeInvariant
  <1> QED
    BY <1>1, <1>2, <1>3, <1>4, PTL DEF Spec, Probe!Spec

LEMMA CdnListenerHolds ==
    Spec => [](Is("CdnListener") => CdnListenerInv)
  <1>1. Init /\ Is("CdnListener") => CdnListener!Init
    BY PartsBegin DEF Is
  <1>2. [Next]_vars /\ Is("CdnListener") => [CdnListener!Next]_(CdnListener!vars) /\ Is("CdnListener")'
    BY PartsMove DEF Is
  <1>3. [Next]_vars /\ ~ Is("CdnListener") => ~ Is("CdnListener")'
    BY PartsMove DEF Is
  <1>4. CdnListener!Spec => []CdnListenerInv
    BY BoundsHold, CdnListenerInvariant
  <1> QED
    BY <1>1, <1>2, <1>3, <1>4, PTL DEF Spec, CdnListener!Spec

LEMMA WebSocketHolds ==
    Spec => [](Is("WebSocket") => SocketInv)
  <1>1. Init /\ Is("WebSocket") => WebSocket!Init
    BY PartsBegin DEF Is
  <1>2. [Next]_vars /\ Is("WebSocket") => [WebSocket!Next]_(WebSocket!vars) /\ Is("WebSocket")'
    BY PartsMove DEF Is
  <1>3. [Next]_vars /\ ~ Is("WebSocket") => ~ Is("WebSocket")'
    BY PartsMove DEF Is
  <1>4. WebSocket!Spec => []SocketInv
    BY BoundsHold, SocketInvariant
  <1> QED
    BY <1>1, <1>2, <1>3, <1>4, PTL DEF Spec, WebSocket!Spec

LEMMA PeerTableHolds ==
    Spec => [](Is("PeerTable") => PeerInv)
  <1>1. Init /\ Is("PeerTable") => PeerTable!Init
    BY PartsBegin DEF Is
  <1>2. [Next]_vars /\ Is("PeerTable") => [PeerTable!Next]_(PeerTable!vars) /\ Is("PeerTable")'
    BY PartsMove DEF Is
  <1>3. [Next]_vars /\ ~ Is("PeerTable") => ~ Is("PeerTable")'
    BY PartsMove DEF Is
  <1>4. PeerTable!Spec => []PeerInv
    BY BoundsHold, PeersInvariant
  <1> QED
    BY <1>1, <1>2, <1>3, <1>4, PTL DEF Spec, PeerTable!Spec

(* Each component is well typed, whatever the constants. *)
THEOREM NetworkTypeCorrect == Spec => []TypeOK
  <1>1. /\ Is("Udp") => UdpP!TypeOK /\ UdpP!TableExact /\ UdpP!PanicsOnlyIfOwnerRaced
        /\ Is("Multiplexer") => MuxP!TypeOK /\ MuxP!LostOnlyIfReopened
        /\ Is("Plane") => PlaneInv
        /\ Is("Probe") => ProbeInv
        /\ Is("CdnListener") => CdnListenerInv
        /\ Is("WebSocket") => SocketInv
        /\ Is("PeerTable") => PeerInv
        => TypeOK
    BY UdpFactsSame, MuxFactsSame, BoundsHold, PlaneImplies, ProbeImplies, SocketImplies, PeersImply
       DEF TypeOK, Is, CdnListenerInv
  <1> QED
    BY <1>1, UdpHolds, MultiplexerHolds, PlaneHolds, ProbeHolds, CdnListenerHolds, WebSocketHolds,
       PeerTableHolds, PTL

(* Demux panics, a chunk is lost, the fallback listener or the WebSocket library panics,
   and a lookup leaves its table only in the races that the components name
   (demux of udp_transport.go, handleFrame of multiplex.go, handleConnection of
   fallback.go, sendPing of cdn_friendly.go, lookupPeerByIP of device.go). *)
THEOREM FaultsOnlyForCause == Spec => []FaultsForCause
  <1>1. /\ Is("Udp") => UdpP!TypeOK /\ UdpP!TableExact /\ UdpP!PanicsOnlyIfOwnerRaced
        /\ Is("Multiplexer") => MuxP!TypeOK /\ MuxP!LostOnlyIfReopened
        /\ Is("Probe") => ProbeInv
        /\ Is("CdnListener") => CdnListenerInv
        /\ Is("WebSocket") => SocketInv
        /\ Is("PeerTable") => PeerInv
        => FaultsForCause
    BY UdpFactsSame, MuxFactsSame, BoundsHold, ProbeImplies, SocketImplies, PeersImply
       DEF FaultsForCause, Is, CdnListenerInv
  <1> QED
    BY <1>1, UdpHolds, MultiplexerHolds, ProbeHolds, CdnListenerHolds, WebSocketHolds,
       PeerTableHolds, PTL

(* The listener's table holds the sessions that are open, a closed loopback has closed
   every channel it gave out, the listeners' queues hold each waiting connection once, no
   byte on a WebSocket is counted and lost, and the device has the peers it was configured
   with. *)
THEOREM TablesStayExact == Spec => []TablesExact
  <1>1. /\ Is("Udp") => UdpP!TypeOK /\ UdpP!TableExact /\ UdpP!PanicsOnlyIfOwnerRaced
        /\ Is("Plane") => PlaneInv
        /\ Is("Probe") => ProbeInv
        /\ Is("CdnListener") => CdnListenerInv
        /\ Is("WebSocket") => SocketInv
        /\ Is("PeerTable") => PeerInv
        => TablesExact
    BY UdpFactsSame, BoundsHold, PlaneImplies, ProbeImplies, CdnOwnership, SocketImplies, PeersImply
       DEF TablesExact, Is
  <1> QED
    BY <1>1, UdpHolds, PlaneHolds, ProbeHolds, CdnListenerHolds, WebSocketHolds, PeerTableHolds, PTL

LEMMA OthersRest ==
    ASSUME [Next]_vars,
           \/ (component = "Udp" /\ UNCHANGED Udp!vars)
           \/ (component = "Multiplexer" /\ UNCHANGED Multiplexer!vars)
           \/ component \notin {"Udp", "Multiplexer"}
    PROVE  [ /\ component = "Udp" => Udp!ReadsInOrder
             /\ component = "Multiplexer" => Multiplexer!StreamsInOrder ]_vars
  BY DEF Next, vars, udpVars, multiplexerVars, Udp!vars, Multiplexer!vars

(* The owner of a session reads its datagrams in order and never half of one before the
   rest of another; a stream's chunks come and go in order (Read of udp_transport.go and
   of multiplex.go). *)
THEOREM NetworkInOrder == Spec => InOrder
  <1>1. UdpP!Spec => [][UdpP!ReadsInOrder]_(UdpP!vars)
    BY BoundsHold, UdpP!ReadsStayInOrder
  <1>2. MuxP!Spec => [][MuxP!StreamsInOrder]_(MuxP!vars)
    BY BoundsHold, MuxP!ChunksStayInOrder
  <1>3. Init => /\ Is("Udp") => UdpP!Init
                /\ Is("Multiplexer") => MuxP!Init
    BY PartsBegin, UdpSame, MuxFactsSame DEF Is
  <1>4. [Next]_vars => /\ Is("Udp") => [UdpP!Next]_(UdpP!vars) /\ Is("Udp")'
                       /\ Is("Multiplexer") => [MuxP!Next]_(MuxP!vars) /\ Is("Multiplexer")'
                       /\ ~ Is("Udp") => ~ Is("Udp")'
                       /\ ~ Is("Multiplexer") => ~ Is("Multiplexer")'
    BY PartsMove, UdpSame, MuxSame, MuxFactsSame DEF Is
  <1>5. /\ [Next]_vars
        /\ Is("Udp") => [UdpP!ReadsInOrder]_(UdpP!vars)
        /\ Is("Multiplexer") => [MuxP!StreamsInOrder]_(MuxP!vars)
        => [ /\ component = "Udp" => Udp!ReadsInOrder
             /\ component = "Multiplexer" => Multiplexer!StreamsInOrder ]_vars
    BY UdpSame, MuxFactsSame, OthersRest DEF Is
  <1> QED
    BY <1>1, <1>2, <1>3, <1>4, <1>5, PTL DEF Spec, InOrder, UdpP!Spec, MuxP!Spec
=============================================================================
