--------------------------- MODULE TransportProofs ---------------------------
(***************************************************************************)
(* What holds of Transport for any goroutines, any number of frames and    *)
(* keys and any network: its types, the uniqueness of every (key, counter) *)
(* pair, and that it implements OrderedChannel.  The argument orders       *)
(* frames by epoch, then counter: senders only ever seal a frame after all *)
(* the earlier ones, and the receiver only ever takes a frame after the    *)
(* last one it took.                                                       *)
(***************************************************************************)
EXTENDS Transport, SequenceTheorems, TLAPS

LOCAL INSTANCE SequencesExt

(* RemoveAt of SequencesExt. *)
Without(s, i) == SubSeq(s, 1, i - 1) \o SubSeq(s, i + 1, Len(s))

(* When an element is lost, the ones after it move up. *)
LEMMA WithoutElements ==
    ASSUME NEW T, NEW s \in Seq(T), NEW i \in 1 .. Len(s)
    PROVE  /\ Without(s, i) \in Seq(T) /\ Len(Without(s, i)) = Len(s) - 1
           /\ \A j \in 1 .. Len(Without(s, i)) :
                /\ j < i => Without(s, i)[j] = s[j] /\ j \in 1 .. Len(s)
                /\ j >= i => Without(s, i)[j] = s[j + 1] /\ j + 1 \in 1 .. Len(s)
  <1> DEFINE p == SubSeq(s, 1, i - 1)
             q == SubSeq(s, i + 1, Len(s))
             t == Without(s, i)
  <1>1. p \in Seq(T) /\ Len(p) = i - 1 /\ \A j \in 1 .. i - 1 : p[j] = s[j]
    BY SubSeqProperties
  <1>2. q \in Seq(T) /\ Len(q) = Len(s) - i /\ \A j \in 1 .. Len(s) - i : q[j] = s[i + j]
    BY SubSeqProperties
  <1>3. t = p \o q /\ Len(s) \in Nat
    BY DEF Without
  <1> HIDE DEF p, q, t
  <1>4. /\ t \in Seq(T) /\ Len(t) = Len(p) + Len(q)
        /\ \A j \in 1 .. Len(p) + Len(q) :
             t[j] = IF j <= Len(p) THEN p[j] ELSE q[j - Len(p)]
    <2>1. /\ p \o q \in Seq(T) /\ Len(p \o q) = Len(p) + Len(q)
          /\ \A j \in 1 .. Len(p) + Len(q) :
               (p \o q)[j] = IF j <= Len(p) THEN p[j] ELSE q[j - Len(p)]
      BY <1>1, <1>2, ConcatProperties, Zenon
    <2> QED
      BY <1>3, <2>1, Zenon
  <1>5. Len(t) = Len(s) - 1
    BY <1>1, <1>2, <1>3, <1>4
  <1>6. ASSUME NEW j \in 1 .. Len(t), j < i PROVE t[j] = s[j] /\ j \in 1 .. Len(s)
    BY <1>1, <1>3, <1>4, <1>5, <1>6
  <1>7. ASSUME NEW j \in 1 .. Len(t), j >= i PROVE t[j] = s[j + 1] /\ j + 1 \in 1 .. Len(s)
    <2>1. t[j] = q[j - (i - 1)] /\ j - (i - 1) \in 1 .. Len(s) - i
      <3>1. j \in Nat /\ i \in Nat /\ j <= Len(s) - 1 /\ i <= j /\ Len(p) = i - 1 /\ Len(s) \in Nat
        BY <1>1, <1>3, <1>5, <1>7
      <3>2. j \in 1 .. Len(p) + Len(q) /\ ~ (j <= Len(p)) /\ j - (i - 1) \in 1 .. Len(s) - i
        BY <1>2, <3>1
      <3> QED
        BY <1>4, <3>1, <3>2
    <2>2. q[j - (i - 1)] = s[i + (j - (i - 1))]
      BY <1>2, <2>1
    <2>3. i + (j - (i - 1)) = j + 1
      BY <1>3
    <2> QED
      BY <1>3, <1>5, <2>1, <2>2, <2>3
  <1>8. t \in Seq(T) /\ Len(t) = Len(s) - 1
    BY <1>4, <1>5, Zenon
  <1>9. \A j \in 1 .. Len(t) :
           /\ j < i => t[j] = s[j] /\ j \in 1 .. Len(s)
           /\ j >= i => t[j] = s[j + 1] /\ j + 1 \in 1 .. Len(s)
    BY <1>6, <1>7, Zenon
  <1>10. t = Without(s, i)
    BY DEF t
  <1> QED
    BY <1>8, <1>9, <1>10

(* A sequence with an element lost holds only elements it held before. *)
LEMMA WithoutPieces ==
    ASSUME NEW T, NEW s \in Seq(T), NEW i \in 1 .. Len(s)
    PROVE  /\ Without(s, i) \in Seq(T)
           /\ \A j \in 1 .. Len(Without(s, i)) : \E k \in 1 .. Len(s) : Without(s, i)[j] = s[k]
  BY WithoutElements

(* The order in which the code's counters and keys number the frames. *)
Before(f, g) == \/ f.epoch < g.epoch
                \/ f.epoch = g.epoch /\ f.counter < g.counter

(* Every frame comes before the one the session would seal next. *)
SealedBelow ==
    \A i \in 1 .. Len(sealed) :
        Before(sealed[i], [epoch |-> sendEpoch, counter |-> sendCounter])

SealedInOrder ==
    \A i, j \in 1 .. Len(sealed) : i < j => Before(sealed[i], sealed[j])

(* Only sealed frames are held or in flight. *)
OnlySealed ==
    /\ \A w \in Goroutines : pc[w] # "idle" => holding[w] \in 1 .. Len(sealed)
    /\ \A i \in 1 .. Len(wire) : wire[i].id \in 1 .. Len(sealed)

(* The frame taken last comes before any the receiver would take next. *)
LastBelow ==
    accepted # <<>> =>
        /\ accepted[Len(accepted)] \in 1 .. Len(sealed)
        /\ Before(sealed[accepted[Len(accepted)]],
                  [epoch |-> recvEpoch, counter |-> recvCounter])

IInv == TypeOK /\ SealedBelow /\ SealedInOrder /\ OnlySealed /\ LastBelow

-----------------------------------------------------------------------------

(* A wire with a piece lost or repeated holds only pieces it held before. *)
LEMMA DisturbedPieces ==
    ASSUME NEW s \in Seq(Piece), NEW i \in 1 .. Len(s), NEW t,
           t = RemoveAt(s, i) \/ t = Append(s, s[i])
    PROVE  /\ t \in Seq(Piece)
           /\ \A j \in 1 .. Len(t) : \E k \in 1 .. Len(s) : t[j] = s[k]
  <1>1. CASE t = RemoveAt(s, i)
    <2>1. t = Without(s, i)
      BY <1>1 DEF RemoveAt, Without
    <2> QED
      BY <2>1, WithoutPieces
  <1>2. CASE t = Append(s, s[i])
    <2>1. s[i] \in Piece
      OBVIOUS
    <2>2. t \in Seq(Piece) /\ Len(t) = Len(s) + 1
      BY <1>2, <2>1
    <2>3. ASSUME NEW j \in 1 .. Len(t)
          PROVE  \E k \in 1 .. Len(s) : t[j] = s[k]
      <3>1. CASE j \in 1 .. Len(s)
        BY <1>2, <3>1
      <3>2. CASE j = Len(s) + 1
        BY <1>2, <3>2
      <3> QED
        BY <2>2, <3>1, <3>2
    <2> QED
      BY <2>2, <2>3
  <1> QED
    BY <1>1, <1>2

(* Receive takes two pieces off the wire. *)
LEMMA TwoPiecesOff ==
    ASSUME NEW T, NEW s \in Seq(T), Len(s) >= 2
    PROVE  /\ Tail(Tail(s)) \in Seq(T)
           /\ Len(Tail(Tail(s))) = Len(s) - 2
           /\ \A j \in 1 .. Len(s) - 2 : Tail(Tail(s))[j] = s[j + 2]
  <1>1. s # <<>> /\ Len(s) \in Nat
    OBVIOUS
  <1>2. /\ Tail(s) \in Seq(T) /\ Len(Tail(s)) = Len(s) - 1
        /\ \A j \in 1 .. Len(Tail(s)) : Tail(s)[j] = s[j + 1]
    BY <1>1, HeadTailProperties, Zenon
  <1>3. Tail(s) # <<>>
    <2>1. Len(Tail(s)) # 0
      BY <1>1, <1>2
    <2>2. Len(<<>>) = 0
      OBVIOUS
    <2> QED
      BY <2>1, <2>2, Zenon
  <1>4. /\ Tail(Tail(s)) \in Seq(T) /\ Len(Tail(Tail(s))) = Len(Tail(s)) - 1
        /\ \A j \in 1 .. Len(Tail(Tail(s))) : Tail(Tail(s))[j] = Tail(s)[j + 1]
    BY <1>2, <1>3, HeadTailProperties, Zenon
  <1>5. ASSUME NEW j \in 1 .. Len(s) - 2 PROVE Tail(Tail(s))[j] = s[j + 2]
    <2>1. Tail(Tail(s))[j] = Tail(s)[j + 1]
      BY <1>1, <1>2, <1>4
    <2>2. Tail(s)[j + 1] = s[(j + 1) + 1]
      BY <1>1, <1>2
    <2> QED
      BY <2>1, <2>2
  <1> QED
    BY <1>1, <1>2, <1>4, <1>5

(* The inductive invariant's first part: every variable keeps its type. *)
LEMMA Typing == TypeOK /\ OnlySealed /\ [Next]_vars => TypeOK'
  <1> SUFFICES ASSUME TypeOK, OnlySealed, [Next]_vars PROVE TypeOK'
    OBVIOUS
  <1> USE DEF TypeOK
  <1>1. ASSUME NEW w \in writers, Seal(w) PROVE TypeOK'
    <2>1. [epoch |-> sendEpoch, counter |-> sendCounter] \in Frame
      BY DEF Frame
    <2> QED
      BY <1>1, <2>1 DEF Seal
  <1>2. ASSUME NEW w \in writers, Write(w) PROVE TypeOK'
    <2>1. [kind |-> pc[w], id |-> holding[w]] \in Piece
      BY <1>2 DEF Write, Piece
    <2> QED
      BY <1>2, <2>1 DEF Write
  <1>3. ASSUME NEW w \in writers, WriteFails(w) PROVE TypeOK'
    BY <1>3 DEF WriteFails
  <1>4. CASE UpdateSendKey
    BY <1>4 DEF UpdateSendKey
  <1>5. CASE UpdateRecvKey
    BY <1>5 DEF UpdateRecvKey
  <1>6. CASE Accept
    <2>1. wire[2].id \in 1 .. Len(sealed) /\ wire[2].id \in Nat
      BY <1>6 DEF Accept, OnlySealed
    <2>2. sealed[wire[2].id].counter \in Nat
      <3>1. sealed[wire[2].id] \in Frame
        BY <2>1
      <3> QED
        BY <3>1 DEF Frame
    <2>3. wire' \in Seq(Piece)
      BY <1>6, TwoPiecesOff DEF Accept
    <2>4. recvCounter' \in Nat /\ accepted' \in Seq(Nat)
      BY <1>6, <2>1, <2>2 DEF Accept
    <2> QED
      BY <1>6, <2>3, <2>4 DEF Accept
  <1>7. CASE Reject
    <2>1. wire' \in Seq(Piece)
      BY <1>7, TwoPiecesOff DEF Reject
    <2> QED
      BY <1>7, <2>1 DEF Reject
  <1>8. CASE Close
    BY <1>8 DEF Close
  <1>9. CASE ReadFails
    BY <1>9 DEF ReadFails
  <1>10. CASE Disturb
    <2>1. PICK i \in 1 .. Len(wire) :
            wire' = RemoveAt(wire, i) \/ wire' = Append(wire, wire[i])
      BY <1>10 DEF Disturb
    <2>2. wire' \in Seq(Piece)
      BY <2>1, DisturbedPieces
    <2> QED
      BY <1>10, <2>2 DEF Disturb
  <1>11. CASE UNCHANGED vars
    BY <1>11 DEF vars
  <1> QED
    BY <1>1, <1>2, <1>3, <1>4, <1>5, <1>6, <1>7, <1>8, <1>9, <1>10, <1>11 DEF Next

(* The sender's counters and keys only ever number a frame after all others. *)
LEMMA SenderOrder ==
    IInv /\ [Next]_vars => SealedBelow' /\ SealedInOrder'
  <1> SUFFICES ASSUME IInv, [Next]_vars PROVE SealedBelow' /\ SealedInOrder'
    OBVIOUS
  <1> USE DEF IInv, TypeOK
  <1>0. \A i \in 1 .. Len(sealed) :
          sealed[i].epoch \in Nat /\ sealed[i].counter \in Nat
    <2> TAKE i \in 1 .. Len(sealed)
    <2>1. sealed[i] \in Frame
      OBVIOUS
    <2> QED
      BY <2>1 DEF Frame
  <1>1. ASSUME NEW w \in writers, Seal(w)
        PROVE  SealedBelow' /\ SealedInOrder'
    <2> DEFINE f == [epoch |-> sendEpoch, counter |-> sendCounter]
    <2>1. /\ sealed' = Append(sealed, f) /\ Len(sealed') = Len(sealed) + 1
          /\ sealed'[Len(sealed) + 1] = f
          /\ \A i \in 1 .. Len(sealed) : sealed'[i] = sealed[i]
      BY <1>1 DEF Seal
    <2>2. sendEpoch' = sendEpoch /\ sendCounter' = sendCounter + 1
      BY <1>1 DEF Seal
    <2>3. SealedBelow'
      BY <1>0, <2>1, <2>2 DEF SealedBelow, Before
    <2>4. ASSUME NEW i \in 1 .. Len(sealed) + 1, NEW j \in 1 .. Len(sealed) + 1, i < j
          PROVE  Before(sealed'[i], sealed'[j])
      <3>1. CASE j <= Len(sealed)
        BY <2>1, <2>4, <3>1 DEF SealedInOrder
      <3>2. CASE j = Len(sealed) + 1
        <4>1. i \in 1 .. Len(sealed)
          BY <2>4, <3>2
        <4>2. Before(sealed[i], f)
          BY <4>1 DEF SealedBelow
        <4> QED
          BY <2>1, <3>2, <4>1, <4>2
      <3> QED
        BY <3>1, <3>2
    <2>5. SealedInOrder'
      BY <2>1, <2>4 DEF SealedInOrder
    <2> QED
      BY <2>3, <2>5
  <1>2. CASE UpdateSendKey
    BY <1>0, <1>2 DEF UpdateSendKey, SealedBelow, SealedInOrder, Before
  <1>3. CASE UNCHANGED <<sealed, sendEpoch, sendCounter>>
    BY <1>3 DEF SealedBelow, SealedInOrder
  <1> QED
    BY <1>1, <1>2, <1>3 DEF Next, vars, Write, WriteFails, UpdateRecvKey, Accept, Reject,
       Close, ReadFails, Disturb

(* What goroutines write and the network carries, repeats or loses are parts of
   frames that were sealed. *)
LEMMA PiecesAreSealed == IInv /\ [Next]_vars => OnlySealed'
  <1> SUFFICES ASSUME IInv, [Next]_vars PROVE OnlySealed'
    OBVIOUS
  <1> USE DEF IInv, TypeOK, OnlySealed
  <1>1. ASSUME NEW w \in writers, Seal(w) PROVE OnlySealed'
    BY <1>1 DEF Seal
  <1>2. ASSUME NEW w \in writers, Write(w) PROVE OnlySealed'
    <2> DEFINE p == [kind |-> pc[w], id |-> holding[w]]
    <2>1. /\ wire' = Append(wire, p) /\ Len(wire') = Len(wire) + 1
          /\ wire'[Len(wire) + 1] = p
          /\ \A i \in 1 .. Len(wire) : wire'[i] = wire[i]
      BY <1>2 DEF Write
    <2>2. p.id \in 1 .. Len(sealed)
      BY <1>2 DEF Write
    <2> QED
      BY <1>2, <2>1, <2>2 DEF Write
  <1>3. ASSUME NEW w \in writers, WriteFails(w) PROVE OnlySealed'
    BY <1>3 DEF WriteFails
  <1>4. CASE Accept \/ Reject
    <2>1. wire' = Tail(Tail(wire)) /\ Len(wire) >= 2
      BY <1>4 DEF Accept, Reject
    <2>2. /\ Len(wire') = Len(wire) - 2
          /\ \A j \in 1 .. Len(wire) - 2 : wire'[j] = wire[j + 2]
      BY <2>1, TwoPiecesOff
    <2>3. UNCHANGED <<sealed, pc, holding>>
      BY <1>4 DEF Accept, Reject
    <2> QED
      BY <2>1, <2>2, <2>3
  <1>5. CASE Disturb
    <2>1. UNCHANGED <<sealed, pc, holding>>
      BY <1>5 DEF Disturb
    <2>2. PICK i \in 1 .. Len(wire) :
            wire' = RemoveAt(wire, i) \/ wire' = Append(wire, wire[i])
      BY <1>5 DEF Disturb
    <2>3. wire \in Seq(Piece)
      OBVIOUS
    <2>4. \A j \in 1 .. Len(wire') : \E k \in 1 .. Len(wire) : wire'[j] = wire[k]
      <3> HIDE DEF IInv, TypeOK, OnlySealed
      <3> QED
        BY <2>2, <2>3, DisturbedPieces
    <2> QED
      BY <2>1, <2>4
  <1>6. CASE UNCHANGED <<sealed, pc, holding, wire>>
    BY <1>6
  <1> QED
    BY <1>1, <1>2, <1>3, <1>4, <1>5, <1>6
       DEF Next, vars, UpdateSendKey, UpdateRecvKey, Close, ReadFails

(* A frame the receiver can take next comes after one it took. *)
LEMMA NextIsAfter ==
    ASSUME NEW f \in Frame, NEW g \in Frame, NEW e \in Nat, NEW c \in Nat,
           Before(f, [epoch |-> e, counter |-> c]), g.epoch = e, g.counter >= c
    PROVE  Before(f, g) /\ ~ Before(g, f) /\ f # g
  BY DEF Before, Frame

(* The receiver only ever takes a frame that comes after the last one. *)
LEMMA TakenNext ==
    ASSUME IInv, Accept
    PROVE  /\ wire[2].id \in 1 .. Len(sealed)
           /\ sealed[wire[2].id].epoch = recvEpoch
           /\ sealed[wire[2].id].counter \in Nat
           /\ sealed[wire[2].id].counter >= recvCounter
           /\ accepted # <<>> => accepted[Len(accepted)] < wire[2].id
  <1> USE DEF IInv, TypeOK
  <1> DEFINE n == wire[2].id
             l == accepted[Len(accepted)]
  <1>1. n \in 1 .. Len(sealed)
    BY DEF Accept, OnlySealed
  <1>2. sealed[n].epoch = recvEpoch /\ sealed[n].counter >= recvCounter
    BY DEF Accept, Opens, Fresh
  <1>3. ASSUME NEW i \in 1 .. Len(sealed)
        PROVE  sealed[i].epoch \in Nat /\ sealed[i].counter \in Nat
    <2>1. sealed[i] \in Frame
      OBVIOUS
    <2> QED
      BY <2>1 DEF Frame
  <1>4. ASSUME accepted # <<>> PROVE l < n
    <2>1. l \in 1 .. Len(sealed)
      BY <1>4 DEF LastBelow
    <2>2. sealed[l] \in Frame /\ sealed[n] \in Frame
      BY <1>1, <2>1
    <2>3. ~ Before(sealed[n], sealed[l]) /\ n # l
      BY <1>2, <1>4, <2>2, NextIsAfter DEF LastBelow
    <2> QED
      BY <1>1, <2>1, <2>3 DEF SealedInOrder
  <1> QED
    BY <1>1, <1>2, <1>3, <1>4

LEMMA ReceiverOrder == IInv /\ [Next]_vars => LastBelow'
  <1> SUFFICES ASSUME IInv, [Next]_vars PROVE LastBelow'
    OBVIOUS
  <1> USE DEF IInv, TypeOK
  <1>0. \A i \in 1 .. Len(sealed) :
          sealed[i].epoch \in Nat /\ sealed[i].counter \in Nat
    <2> TAKE i \in 1 .. Len(sealed)
    <2>1. sealed[i] \in Frame
      OBVIOUS
    <2> QED
      BY <2>1 DEF Frame
  <1>1. ASSUME NEW w \in writers, Seal(w) PROVE LastBelow'
    <2>1. /\ Len(sealed') = Len(sealed) + 1
          /\ \A i \in 1 .. Len(sealed) : sealed'[i] = sealed[i]
      BY <1>1 DEF Seal
    <2>2. UNCHANGED <<accepted, recvEpoch, recvCounter>>
      BY <1>1 DEF Seal
    <2> QED
      BY <2>1, <2>2 DEF LastBelow
  <1>2. CASE UpdateRecvKey
    BY <1>0, <1>2 DEF UpdateRecvKey, LastBelow, Before
  <1>3. CASE Accept
    <2> DEFINE n == wire[2].id
    <2>1. n \in 1 .. Len(sealed) /\ sealed[n].epoch = recvEpoch
      BY <1>3, TakenNext
    <2>2. accepted' # <<>> /\ accepted'[Len(accepted')] = n
      BY <1>3, <2>1 DEF Accept
    <2>3. /\ recvEpoch' = recvEpoch /\ sealed' = sealed
          /\ recvCounter' = sealed[n].counter + 1
      BY <1>3 DEF Accept
    <2> QED
      BY <1>0, <2>1, <2>2, <2>3 DEF LastBelow, Before
  <1>4. CASE UNCHANGED <<sealed, accepted, recvEpoch, recvCounter>>
    BY <1>4 DEF LastBelow
  <1> QED
    BY <1>1, <1>2, <1>3, <1>4 DEF Next, vars, Write, WriteFails, UpdateSendKey, Reject,
       Close, ReadFails, Disturb

(* In every state the sealed frames are in order, only they are under way, and the
   receiver is not ahead of what it took (writeFrame, Receive, the key changes). *)
THEOREM Invariance == Spec => []IInv
  <1>1. Init => IInv
    BY DEF Init, IInv, TypeOK, SealedBelow, SealedInOrder, OnlySealed, LastBelow
  <1>2. IInv /\ [Next]_vars => IInv'
    BY Typing, SenderOrder, PiecesAreSealed, ReceiverOrder DEF IInv
  <1> QED
    BY <1>1, <1>2, PTL DEF Spec

(* Every variable keeps its type, for any goroutines, network and rekeying. *)
THEOREM TypeCorrect == Spec => []TypeOK
  <1>1. IInv => TypeOK
    BY DEF IInv
  <1> QED
    BY <1>1, Invariance, PTL

(* No two frames are ever sealed under the same key and counter: the nonce of
   writeFrame never repeats, however sends and rekeys interleave. *)
THEOREM NoncesUnique == Spec => []NonceUnique
  <1>1. IInv => NonceUnique
    <2> SUFFICES ASSUME IInv,
                        NEW i \in 1 .. Len(sealed), NEW j \in 1 .. Len(sealed),
                        sealed[i].epoch = sealed[j].epoch,
                        sealed[i].counter = sealed[j].counter,
                        i # j
                 PROVE  FALSE
      BY DEF NonceUnique
    <2>1. sealed[i] \in Frame /\ sealed[j] \in Frame
      BY DEF IInv, TypeOK
    <2>2. Before(sealed[i], sealed[j]) \/ Before(sealed[j], sealed[i])
      BY DEF IInv, TypeOK, SealedInOrder
    <2> QED
      BY <2>1, <2>2 DEF Before, Frame
  <1> QED
    BY <1>1, Invariance, PTL

(* The transport implements the ordered channel: sealed frames are taken in
   order, none twice, under any loss, repetition, reordering and rekeying. *)
THEOREM TransportIsOrderedChannel == Spec => ImplementsChannel
  <1>1. Init => Channel!Init
    BY DEF Init, Channel!Init
  <1>2. IInv /\ [Next]_vars => [Channel!Next]_(Channel!vars)
    <2> SUFFICES ASSUME IInv, [Next]_vars PROVE [Channel!Next]_(Channel!vars)
      OBVIOUS
    <2> USE DEF IInv, TypeOK
    <2>1. ASSUME NEW w \in writers, Seal(w) PROVE Channel!Send
      BY <2>1 DEF Seal, Channel!Send
    <2>2. CASE Accept
      <3> DEFINE n == wire[2].id
      <3>1. /\ n \in 1 .. Len(sealed)
            /\ accepted # <<>> => accepted[Len(accepted)] < n
        BY <2>2, TakenNext
      <3>2. accepted' = Append(accepted, n) /\ sealed' = sealed
        BY <2>2 DEF Accept
      <3> QED
        BY <3>1, <3>2 DEF Channel!Take, Channel!Next
    <2>3. CASE UNCHANGED <<sealed, accepted>>
      BY <2>3 DEF Channel!vars
    <2> QED
      BY <2>1, <2>2, <2>3 DEF Next, vars, Write, WriteFails, UpdateSendKey, UpdateRecvKey,
         Reject, Close, ReadFails, Disturb, Channel!Next
  <1> QED
    BY <1>1, <1>2, Invariance, PTL DEF Spec, ImplementsChannel, Channel!Spec

-----------------------------------------------------------------------------
(* What one goroutine sends on a reliable connection.  The wire holds, in order,
   the header and the body of each frame that was written and not yet taken; the
   frame that is being written comes last. *)

(* The k-th frame on the wire is the k-th after those accepted. *)
WireInOrder ==
    \A k \in Nat :
        /\ 2 * k + 1 \in 1 .. Len(wire) =>
             wire[2 * k + 1] = [kind |-> "header", id |-> Len(accepted) + k + 1]
        /\ 2 * k + 2 \in 1 .. Len(wire) =>
             wire[2 * k + 2] = [kind |-> "body", id |-> Len(accepted) + k + 1]

(* What the writer w has still to write of the frames it sealed. *)
Outstanding(w) == IF pc[w] = "idle" THEN 0 ELSE IF pc[w] = "header" THEN 2 ELSE 1

LoneInOrder(w) ==
    /\ rx = "open" /\ recvCounter = Len(accepted) /\ sendCounter = Len(sealed)
    /\ \A i \in 1 .. Len(accepted) : accepted[i] = i
    /\ \A i \in 1 .. Len(sealed) : sealed[i] = [epoch |-> 1, counter |-> i - 1]
    /\ pc[w] # "idle" => holding[w] = Len(sealed)
    /\ Len(wire) + Outstanding(w) = 2 * (Len(sealed) - Len(accepted))
    /\ WireInOrder

(* Keys are never changed back and a closed connection stays closed. *)
Lossless ==
    /\ sendEpoch >= 1 /\ recvEpoch >= 1
    /\ SteadyStream => \A w \in Goroutines : writers = {w} => LoneInOrder(w)

LEMMA LosslessStep == TypeOK /\ Lossless /\ [Next]_vars => Lossless'
  <1> SUFFICES ASSUME TypeOK, Lossless, [Next]_vars PROVE Lossless'
    OBVIOUS
  <1>0. /\ sendEpoch \in Nat /\ recvEpoch \in Nat /\ sendEpoch >= 1 /\ recvEpoch >= 1
        /\ pc \in [Goroutines -> {"idle", "header", "body"}]
        /\ wire \in Seq(Piece) /\ sealed \in Seq(Frame) /\ accepted \in Seq(Nat)
        /\ holding \in [Goroutines -> Nat]
        /\ Len(wire) \in Nat /\ Len(sealed) \in Nat /\ Len(accepted) \in Nat
    BY DEF TypeOK, Lossless
  <1>1. /\ sendEpoch' >= 1 /\ recvEpoch' >= 1
        /\ SteadyStream' => SteadyStream
        /\ UNCHANGED writers
    <2>1. CASE UpdateSendKey
      BY <1>0, <2>1 DEF UpdateSendKey, SteadyStream
    <2>2. CASE UpdateRecvKey
      BY <1>0, <2>2 DEF UpdateRecvKey, SteadyStream
    <2>3. CASE Close
      BY <1>0, <2>3 DEF Close, SteadyStream
    <2>4. CASE UNCHANGED <<network, sendEpoch, recvEpoch, conn, writers>>
      BY <1>0, <2>4 DEF SteadyStream
    <2>5. ASSUME NEW w \in writers, Seal(w) \/ Write(w) \/ WriteFails(w)
          PROVE  UNCHANGED <<network, sendEpoch, recvEpoch, conn, writers>>
      BY <2>5 DEF Seal, Write, WriteFails
    <2>6. Accept \/ Reject \/ ReadFails \/ Disturb \/ UNCHANGED vars
            => UNCHANGED <<network, sendEpoch, recvEpoch, conn, writers>>
      BY DEF Accept, Reject, ReadFails, Disturb, vars
    <2> QED
      BY <2>1, <2>2, <2>3, <2>4, <2>5, <2>6, Zenon DEF Next
  <1> SUFFICES ASSUME SteadyStream', NEW w \in Goroutines, writers = {w}
               PROVE  LoneInOrder(w)'
    BY <1>1 DEF Lossless
  <1>2. SteadyStream /\ LoneInOrder(w) /\ sendEpoch = 1 /\ recvEpoch = 1
    BY <1>1 DEF Lossless, SteadyStream
  <1>3. CASE Seal(w)
    <2> DEFINE f == [epoch |-> 1, counter |-> Len(sealed)]
    <2>1. /\ pc[w] = "idle" /\ sealed' = Append(sealed, f)
          /\ sendCounter' = Len(sealed) + 1
          /\ holding'[w] = Len(sealed) + 1 /\ pc'[w] = "header"
          /\ UNCHANGED <<wire, rx, recvCounter, accepted>>
      BY <1>0, <1>2, <1>3 DEF Seal, LoneInOrder
    <2>2. f \in Frame
      BY <1>0 DEF Frame
    <2>3. /\ Len(sealed') = Len(sealed) + 1 /\ sealed'[Len(sealed) + 1] = f
          /\ \A i \in 1 .. Len(sealed) : sealed'[i] = sealed[i]
      BY <1>0, <2>1, <2>2
    <2>4. \A i \in 1 .. Len(sealed') : sealed'[i] = [epoch |-> 1, counter |-> i - 1]
      <3>1. \A i \in 1 .. Len(sealed) : sealed[i] = [epoch |-> 1, counter |-> i - 1]
        BY <1>2 DEF LoneInOrder
      <3>2. (Len(sealed) + 1) - 1 = Len(sealed)
        BY <1>0
      <3>3. \A i \in 1 .. Len(sealed) + 1 : i \in 1 .. Len(sealed) \/ i = Len(sealed) + 1
        BY <1>0
      <3> QED
        BY <2>3, <3>1, <3>2, <3>3, Zenon
    <2>5. Len(wire) + 2 = 2 * ((Len(sealed) + 1) - Len(accepted))
      BY <1>0, <1>2, <2>1 DEF LoneInOrder, Outstanding
    <2>6. WireInOrder'
      BY <1>2, <2>1 DEF LoneInOrder, WireInOrder
    <2> QED
      BY <1>2, <2>1, <2>3, <2>4, <2>5, <2>6 DEF LoneInOrder, Outstanding
  <1>4. CASE Write(w)
    <2> DEFINE p == [kind |-> pc[w], id |-> Len(sealed)]
    <2>1. /\ pc[w] # "idle" /\ wire' = Append(wire, p) /\ holding' = holding
          /\ pc'[w] = IF pc[w] = "header" THEN "body" ELSE "idle"
          /\ UNCHANGED <<rx, recvCounter, accepted, sendCounter, sealed>>
      BY <1>0, <1>2, <1>4 DEF Write, LoneInOrder
    <2>2. p \in Piece /\ pc[w] \in {"header", "body"}
      BY <1>0, <2>1 DEF Piece
    <2>3. /\ Len(wire') = Len(wire) + 1 /\ wire'[Len(wire) + 1] = p
          /\ \A i \in 1 .. Len(wire) : wire'[i] = wire[i]
      BY <1>0, <2>1, <2>2
    <2>4. Len(wire') + Outstanding(w)' = 2 * (Len(sealed) - Len(accepted))
      BY <1>0, <1>2, <2>1, <2>2, <2>3 DEF LoneInOrder, Outstanding
    <2>5. WireInOrder'
      <3> SUFFICES ASSUME NEW k \in Nat
                   PROVE  /\ 2 * k + 1 \in 1 .. Len(wire') =>
                               wire'[2 * k + 1] =
                                 [kind |-> "header", id |-> Len(accepted) + k + 1]
                          /\ 2 * k + 2 \in 1 .. Len(wire') =>
                               wire'[2 * k + 2] =
                                 [kind |-> "body", id |-> Len(accepted) + k + 1]
        BY <2>1 DEF WireInOrder
      <3>1. /\ 2 * k + 1 \in 1 .. Len(wire) =>
                 wire[2 * k + 1] = [kind |-> "header", id |-> Len(accepted) + k + 1]
            /\ 2 * k + 2 \in 1 .. Len(wire) =>
                 wire[2 * k + 2] = [kind |-> "body", id |-> Len(accepted) + k + 1]
        BY <1>2 DEF LoneInOrder, WireInOrder
      <3>2. Len(wire) + (IF pc[w] = "header" THEN 2 ELSE 1)
              = 2 * (Len(sealed) - Len(accepted))
        BY <1>0, <1>2, <2>1 DEF LoneInOrder, Outstanding
      <3>3. ASSUME 2 * k + 1 = Len(wire) + 1
            PROVE  wire'[2 * k + 1] = [kind |-> "header", id |-> Len(accepted) + k + 1]
        <4>1. pc[w] = "header" /\ Len(sealed) = Len(accepted) + k + 1
          BY <1>0, <2>2, <3>2, <3>3
        <4> QED
          BY <2>3, <3>3, <4>1
      <3>4. ASSUME 2 * k + 2 = Len(wire) + 1
            PROVE  wire'[2 * k + 2] = [kind |-> "body", id |-> Len(accepted) + k + 1]
        <4>1. pc[w] = "body" /\ Len(sealed) = Len(accepted) + k + 1
          BY <1>0, <2>2, <3>2, <3>4
        <4> QED
          BY <2>3, <3>4, <4>1
      <3>5. \A j \in 1 .. Len(wire') : j \in 1 .. Len(wire) \/ j = Len(wire) + 1
        BY <1>0, <2>3
      <3>6. 2 * k + 1 \in 1 .. Len(wire) => wire'[2 * k + 1] = wire[2 * k + 1]
        BY <2>3
      <3>7. 2 * k + 2 \in 1 .. Len(wire) => wire'[2 * k + 2] = wire[2 * k + 2]
        BY <2>3
      <3> QED
        BY <3>1, <3>3, <3>4, <3>5, <3>6, <3>7, Zenon
    <2> QED
      BY <1>2, <2>1, <2>4, <2>5 DEF LoneInOrder
  <1>5. CASE WriteFails(w) \/ UpdateSendKey \/ UpdateRecvKey \/ Close \/ ReadFails \/ Disturb
    <2>1. FALSE
      BY <1>0, <1>2, <1>5 DEF SteadyStream, WriteFails, UpdateSendKey, UpdateRecvKey, Close,
         ReadFails, Disturb
    <2> QED
      BY <2>1
  <1>6. ASSUME Accept \/ Reject
        PROVE  /\ Len(wire) >= 2 /\ Len(sealed) >= Len(accepted) + 1
               /\ wire[1] = [kind |-> "header", id |-> Len(accepted) + 1]
               /\ wire[2] = [kind |-> "body", id |-> Len(accepted) + 1]
               /\ sealed[Len(accepted) + 1] = [epoch |-> 1, counter |-> Len(accepted)]
    <2>1. Len(wire) >= 2
      BY <1>6 DEF Accept, Reject
    <2>2. WireInOrder
      BY <1>2 DEF LoneInOrder
    <2>3. 0 \in Nat /\ 2 * 0 + 1 \in 1 .. Len(wire) /\ 2 * 0 + 2 \in 1 .. Len(wire)
      BY <1>0, <2>1
    <2>4. /\ wire[2 * 0 + 1] = [kind |-> "header", id |-> Len(accepted) + 0 + 1]
          /\ wire[2 * 0 + 2] = [kind |-> "body", id |-> Len(accepted) + 0 + 1]
      BY <2>2, <2>3, Zenon DEF WireInOrder
    <2>5. 2 * 0 + 1 = 1 /\ 2 * 0 + 2 = 2 /\ Len(accepted) + 0 + 1 = Len(accepted) + 1
      BY <1>0
    <2>6. wire[1] = [kind |-> "header", id |-> Len(accepted) + 1]
          /\ wire[2] = [kind |-> "body", id |-> Len(accepted) + 1]
      BY <2>4, <2>5
    <2>7. Len(sealed) >= Len(accepted) + 1
      BY <1>0, <1>2, <2>1 DEF LoneInOrder, Outstanding
    <2>8. sealed[Len(accepted) + 1] = [epoch |-> 1, counter |-> Len(accepted)]
      BY <1>0, <1>2, <2>7 DEF LoneInOrder
    <2> QED
      BY <2>1, <2>6, <2>7, <2>8
  <1>7. CASE Accept
    <2>1. /\ wire' = Tail(Tail(wire)) /\ accepted' = Append(accepted, Len(accepted) + 1)
          /\ recvCounter' = Len(accepted) + 1
          /\ UNCHANGED <<sealed, rx, sendCounter, pc, holding>>
      BY <1>0, <1>6, <1>7 DEF Accept
    <2>2. /\ Len(wire') = Len(wire) - 2
          /\ \A j \in 1 .. Len(wire) - 2 : wire'[j] = wire[j + 2]
      BY <1>0, <1>6, <1>7, <2>1, TwoPiecesOff
    <2>3. /\ Len(accepted') = Len(accepted) + 1
          /\ \A i \in 1 .. Len(accepted') : accepted'[i] = i
      BY <1>0, <1>2, <2>1 DEF LoneInOrder
    <2>4. Len(wire') + Outstanding(w)' = 2 * (Len(sealed') - Len(accepted'))
      <3>1. Outstanding(w)' = Outstanding(w) /\ Outstanding(w) \in Nat
        BY <2>1 DEF Outstanding
      <3>2. Len(wire) + Outstanding(w) = 2 * (Len(sealed) - Len(accepted))
        BY <1>2 DEF LoneInOrder
      <3>3. Len(sealed') = Len(sealed)
        BY <2>1
      <3>4. \A l, o, n, a \in Nat : l + o = 2 * (n - a) => (l - 2) + o = 2 * (n - (a + 1))
        OBVIOUS
      <3>5. (Len(wire) - 2) + Outstanding(w) = 2 * (Len(sealed) - (Len(accepted) + 1))
        <4> DEFINE l == Len(wire)
                   o == Outstanding(w)
                   n == Len(sealed)
                   a == Len(accepted)
        <4>1. l \in Nat /\ n \in Nat /\ a \in Nat
          BY <1>0
        <4>2. o \in Nat /\ l + o = 2 * (n - a)
          BY <3>1, <3>2
        <4> HIDE DEF l, o, n, a
        <4>3. (l - 2) + o = 2 * (n - (a + 1))
          BY <3>4, <4>1, <4>2
        <4> QED
          BY <4>3 DEF l, o, n, a
      <3> QED
        BY <2>2, <2>3, <3>1, <3>3, <3>5, Zenon
    <2>5. WireInOrder'
      <3> SUFFICES ASSUME NEW k \in Nat
                   PROVE  /\ 2 * k + 1 \in 1 .. Len(wire') =>
                               wire'[2 * k + 1] =
                                 [kind |-> "header", id |-> Len(accepted') + k + 1]
                          /\ 2 * k + 2 \in 1 .. Len(wire') =>
                               wire'[2 * k + 2] =
                                 [kind |-> "body", id |-> Len(accepted') + k + 1]
        BY DEF WireInOrder
      <3>1. k + 1 \in Nat
        OBVIOUS
      <3>2. /\ 2 * (k + 1) + 1 \in 1 .. Len(wire) =>
                 wire[2 * (k + 1) + 1] =
                   [kind |-> "header", id |-> Len(accepted) + (k + 1) + 1]
            /\ 2 * (k + 1) + 2 \in 1 .. Len(wire) =>
                 wire[2 * (k + 1) + 2] =
                   [kind |-> "body", id |-> Len(accepted) + (k + 1) + 1]
        BY <1>2, <3>1, Zenon DEF LoneInOrder, WireInOrder
      <3>3. /\ Len(accepted) + (k + 1) + 1 = Len(accepted') + k + 1
            /\ 2 * (k + 1) + 1 = (2 * k + 1) + 2 /\ 2 * (k + 1) + 2 = (2 * k + 2) + 2
        BY <1>0, <2>3
      <3>4. ASSUME 2 * k + 1 \in 1 .. Len(wire')
            PROVE  wire'[2 * k + 1] = [kind |-> "header", id |-> Len(accepted') + k + 1]
        <4>1. (2 * k + 1) + 2 \in 1 .. Len(wire) /\ 2 * k + 1 \in 1 .. Len(wire) - 2
          BY <1>0, <2>2, <3>4
        <4>2. wire'[2 * k + 1] = wire[(2 * k + 1) + 2]
          BY <2>2, <4>1, Zenon
        <4> QED
          BY <3>2, <3>3, <4>1, <4>2
      <3>5. ASSUME 2 * k + 2 \in 1 .. Len(wire')
            PROVE  wire'[2 * k + 2] = [kind |-> "body", id |-> Len(accepted') + k + 1]
        <4>1. (2 * k + 2) + 2 \in 1 .. Len(wire) /\ 2 * k + 2 \in 1 .. Len(wire) - 2
          BY <1>0, <2>2, <3>5
        <4>2. wire'[2 * k + 2] = wire[(2 * k + 2) + 2]
          BY <2>2, <4>1, Zenon
        <4> QED
          BY <3>2, <3>3, <4>1, <4>2
      <3> QED
        BY <3>4, <3>5
    <2> QED
      BY <1>2, <2>1, <2>3, <2>4, <2>5 DEF LoneInOrder
  <1>8. CASE Reject
    <2>1. /\ Framed /\ Opens(sealed[wire[2].id]) /\ Fresh(sealed[wire[2].id])
          /\ wire[1].id = wire[2].id
      BY <1>0, <1>2, <1>6, <1>8 DEF Framed, Opens, Fresh, LoneInOrder
    <2> QED
      BY <1>8, <2>1 DEF Reject
  <1>9. CASE UNCHANGED vars
    BY <1>2, <1>9 DEF vars, LoneInOrder, WireInOrder, Outstanding
  <1>10. \A v \in writers : v = w
    BY Zenon
  <1> QED
    BY <1>3, <1>4, <1>5, <1>7, <1>8, <1>9, <1>10 DEF Next

(* On a reliable connection, from one key change to the next, the frames of a
   goroutine that sends alone are taken without a gap, and Receive never fails. *)
THEOREM LoneWriterLosesNothing == Spec => []LoneWriterLossless
  <1>1. Init => Lossless
    <2> SUFFICES ASSUME Init, NEW w \in Goroutines PROVE LoneInOrder(w)
      BY DEF Init, Lossless
    <2>1. wire = <<>> /\ sealed = <<>> /\ accepted = <<>> /\ Len(wire) = 0
          /\ Len(sealed) = 0 /\ Len(accepted) = 0 /\ pc[w] = "idle"
      BY DEF Init
    <2>2. WireInOrder
      BY <2>1 DEF WireInOrder
    <2> QED
      BY <2>1, <2>2 DEF Init, LoneInOrder, Outstanding
  <1>2. TypeOK /\ Lossless /\ [Next]_vars => Lossless'
    BY LosslessStep
  <1>3. TypeOK /\ Lossless => LoneWriterLossless
    <2> SUFFICES ASSUME TypeOK, Lossless, SteadyStream, Lone
                 PROVE  rx = "open" /\ accepted = [i \in 1 .. Len(accepted) |-> i]
      BY DEF LoneWriterLossless
    <2>1. PICK w \in Goroutines : writers = {w}
      BY DEF Lone
    <2>2. rx = "open" /\ \A i \in 1 .. Len(accepted) : accepted[i] = i
      BY <2>1 DEF Lossless, LoneInOrder
    <2>3. accepted = [i \in 1 .. Len(accepted) |-> accepted[i]]
      BY DEF TypeOK
    <2> QED
      BY <2>2, <2>3
  <1> QED
    BY <1>1, <1>2, <1>3, TypeCorrect, PTL DEF Spec
=============================================================================
