------------------------------ MODULE MuxProofs -----------------------------
(***************************************************************************)
(* Proofs about module Mux, for any identifiers, limits, buffers, streams  *)
(* and frames.                                                             *)
(*                                                                         *)
(* Two arguments.  Whoever writes to the connection holds the mutex, and   *)
(* its holder is where it can let go of it, unless it waits for itself.    *)
(* And the chunks of a stream are numbered as they come: what is in its    *)
(* buffers increases, up to the frame that the read loop has in hand.      *)
(***************************************************************************)
EXTENDS Mux, SequenceTheorems, TLAPS

(* What reading the first element leaves. *)
LEMMA TailElements ==
    ASSUME NEW T, NEW s \in Seq(T), s # <<>>
    PROVE  /\ Tail(s) \in Seq(T) /\ Len(Tail(s)) = Len(s) - 1
           /\ \A j \in 1 .. Len(Tail(s)) : Tail(s)[j] = s[j + 1]
           /\ Head(s) = s[1] /\ 1 \in 1 .. Len(s) /\ Head(s) \in T
  BY HeadTailProperties

Bounds == /\ MaxStreams \in Nat /\ AcceptCapacity \in Nat /\ Buffer \in Nat
          /\ MaxObjects \in Nat /\ MaxEvents \in Nat

Stream == [id : Ids, closed : BOOLEAN, readBuf : Seq(Nat), writeCh : Seq(Nat),
           read : Nat, sent : Nat]

LoopStates ==
    [pc : {"read", "writing", "stuck", "ended"}]
    \cup [pc : {"handle"}, type : {"data", "open", "close", "ping"}, id : Ids, n : 1 .. MaxEvents]
    \cup [pc : {"deliver"}, to : Objects, n : 1 .. MaxEvents]

Typed ==
    /\ closed \in BOOLEAN /\ closing \in {"no", "lock", "done"} /\ broken \in BOOLEAN
    /\ lock \in Holders
    /\ stream \in Seq(Stream) /\ Len(stream) <= MaxObjects
    /\ table \in [Ids -> 0 .. MaxObjects] /\ \A i \in Ids : table[i] <= Len(stream)
    /\ accept \in Seq(Nat) /\ Len(accept) <= AcceptCapacity
    /\ owner \in [Objects -> {"none", "user", "lock", "writing", "done"}]
    /\ writer \in [Objects -> {"none", "select", "writing", "ended"}]
    /\ loop \in LoopStates
    /\ loop.pc = "deliver" => loop.to \in Created
    /\ loop.pc \in {"handle", "deliver"} => loop.n <= events
    /\ ping \in {"select", "writing", "ended"} /\ events \in 0 .. MaxEvents

(* Who writes to the connection holds the mutex, and the other way round. *)
MutexHeld ==
    /\ loop.pc = "writing" <=> lock.who = "loop"
    /\ ping = "writing" <=> lock.who = "ping"
    /\ \A k \in Objects : writer[k] = "writing" <=> lock.who = "writer" /\ lock.k = k
    /\ \A k \in Objects : owner[k] = "writing" <=> lock.who = "owner" /\ lock.k = k

(* Nobody owns a stream that is not created or waits to be accepted. *)
Unowned ==
    /\ \A k \in Objects : k \notin Created => owner[k] = "none" /\ writer[k] = "none"
    /\ \A i \in 1 .. Len(accept) : accept[i] \in Created /\ owner[accept[i]] = "none"
    /\ \A i, j \in 1 .. Len(accept) : i < j => accept[i] < accept[j]

(* The chunks last, q[1], q[2], ... increase, and none is above top. *)
Increasing(last, q, top) ==
    /\ last <= top /\ \A i \in 1 .. Len(q) : last < q[i] /\ q[i] <= top
    /\ \A i, j \in 1 .. Len(q) : i < j => q[i] < q[j]

(* The last frame that may be in a buffer: the one in hand is not. *)
Arrived == IF loop.pc \in {"handle", "deliver"} THEN loop.n - 1 ELSE events

Buffered(x, arrived, written) ==
    /\ Len(x.readBuf) <= Buffer /\ Len(x.writeCh) <= Buffer
    /\ Increasing(x.read, x.readBuf, arrived) /\ Increasing(x.sent, x.writeCh, written)

InOrder ==
    /\ Arrived <= events
    /\ \A k \in Created : Buffered(stream[k], Arrived, events)
    /\ \A k \in Created : writer[k] = "writing" => stream[k].writeCh # <<>>

(* The table has a stream under its identifier, and loses it to a later one or when
   it is closed. *)
Named ==
    /\ \A i \in Ids : table[i] # 0 => stream[table[i]].id = i
    /\ \A k \in Created : ~ stream[k].closed =>
         \/ table[stream[k].id] = k
         \/ \E l \in Created : l > k /\ stream[l].id = stream[k].id

IInv == Typed /\ MutexHeld /\ Unowned /\ InOrder /\ Named

-----------------------------------------------------------------------------
(* Records and indices, as the proofs use them. *)

LEMMA CreatedFacts ==
    ASSUME Bounds, Typed
    PROVE  /\ Created = 1 .. Len(stream) /\ Len(stream) \in Nat /\ Len(stream) <= MaxObjects
           /\ \A k \in Created : stream[k] \in Stream /\ k \in Objects /\ k \in Nat /\ k # 0
           /\ \A k \in Objects : k \in Nat /\ k # 0
           /\ \A i \in Ids : table[i] \in Nat /\ (table[i] # 0 => table[i] \in Created)
  <1>1. Created = 1 .. Len(stream) /\ Len(stream) \in Nat /\ Len(stream) <= MaxObjects
    BY DEF Typed, Created
  <1>2. \A k \in Created : stream[k] \in Stream
    BY <1>1 DEF Typed
  <1>3. \A k \in Created : k \in Objects /\ k \in Nat /\ k # 0
    BY <1>1 DEF Objects, Bounds
  <1>4. \A k \in Objects : k \in Nat /\ k # 0
    BY DEF Objects
  <1>5. \A i \in Ids : table[i] \in Nat /\ (table[i] # 0 => table[i] \in Created)
    BY <1>1 DEF Typed, Bounds
  <1> QED
    BY <1>1, <1>2, <1>3, <1>4, <1>5

LEMMA StreamFacts ==
    ASSUME NEW x \in Stream
    PROVE  /\ x.id \in Ids /\ x.closed \in BOOLEAN /\ x.readBuf \in Seq(Nat)
           /\ x.writeCh \in Seq(Nat) /\ x.read \in Nat /\ x.sent \in Nat
  BY DEF Stream

LEMMA LoopFacts ==
    ASSUME Bounds, Typed
    PROVE  /\ loop.pc \in {"read", "handle", "deliver", "writing", "stuck", "ended"}
           /\ loop.pc \in {"handle", "deliver"} => loop.n \in 1 .. MaxEvents /\ loop.n <= events
           /\ loop.pc = "handle" => loop.id \in Ids
           /\ loop.pc = "deliver" => loop.to \in Created
  <1>1. /\ loop \in LoopStates /\ (loop.pc = "deliver" => loop.to \in Created)
        /\ loop.pc \in {"handle", "deliver"} => loop.n <= events
    BY DEF Typed
  <1>2. CASE loop \in [pc : {"read", "writing", "stuck", "ended"}]
    BY <1>1, <1>2
  <1>3. CASE loop \in [pc : {"handle"}, type : {"data", "open", "close", "ping"}, id : Ids,
                      n : 1 .. MaxEvents]
    BY <1>1, <1>3
  <1>4. CASE loop \in [pc : {"deliver"}, to : Objects, n : 1 .. MaxEvents]
    BY <1>1, <1>4
  <1> QED
    BY <1>1, <1>2, <1>3, <1>4 DEF LoopStates

LEMMA LoopRecords ==
    /\ Reading \in LoopStates /\ Reading.pc = "read"
    /\ \A pc \in {"writing", "stuck", "ended"} : [pc |-> pc] \in LoopStates
    /\ \A k \in Objects, n \in 1 .. MaxEvents : [pc |-> "deliver", to |-> k, n |-> n] \in LoopStates
    /\ \A type \in {"data", "open", "close", "ping"}, id \in Ids, n \in 1 .. MaxEvents :
         [pc |-> "handle", type |-> type, id |-> id, n |-> n] \in LoopStates
  BY DEF LoopStates, Reading

LEMMA LockFacts ==
    /\ Free \in Holders /\ Free.who = "free" /\ Stuck \in Holders /\ Stuck.who = "itself"
    /\ \A k \in Objects : /\ [who |-> "writer", k |-> k] \in Holders
                          /\ [who |-> "owner", k |-> k] \in Holders
    /\ \A who \in {"loop", "ping"} : [who |-> who, k |-> 0] \in Holders
  BY DEF Free, Stuck, Holders

LEMMA HolderFacts ==
    ASSUME NEW l \in Holders
    PROVE  /\ l = Free <=> l.who = "free"
           /\ l = Stuck <=> l.who = "itself"
           /\ l.who \in {"loop", "ping", "writer", "owner", "free", "itself"}
  BY DEF Free, Stuck, Holders

LEMMA ArrivedFacts ==
    ASSUME Bounds, IInv
    PROVE  Arrived \in Nat /\ events \in Nat /\ Arrived <= events
  BY LoopFacts DEF IInv, Typed, InOrder, Arrived, Bounds

-----------------------------------------------------------------------------
(* Chunks in the order they came. *)

LEMMA IncreasingMore ==
    ASSUME NEW last \in Nat, NEW q \in Seq(Nat), NEW d \in Nat, NEW e \in Nat, d <= e,
           Increasing(last, q, d)
    PROVE  Increasing(last, q, e)
  <1>1. \A i \in 1 .. Len(q) : q[i] \in Nat
    OBVIOUS
  <1> QED
    BY <1>1 DEF Increasing

LEMMA IncreasingAppend ==
    ASSUME NEW last \in Nat, NEW q \in Seq(Nat), NEW d \in Nat, NEW n \in Nat, d < n,
           Increasing(last, q, d)
    PROVE  Increasing(last, Append(q, n), n)
  <1> DEFINE t == Append(q, n)
  <1>1. /\ Len(t) = Len(q) + 1 /\ Len(q) \in Nat /\ t[Len(q) + 1] = n
        /\ \A i \in 1 .. Len(q) : t[i] = q[i] /\ q[i] \in Nat /\ last < q[i] /\ q[i] <= d
    BY AppendProperties DEF Increasing
  <1> HIDE DEF t
  <1>2. \A i \in 1 .. Len(t) : i \in 1 .. Len(q) \/ i = Len(q) + 1
    BY <1>1
  <1>3. last <= n /\ last < n
    BY DEF Increasing
  <1>4. \A i \in 1 .. Len(t) : last < t[i] /\ t[i] <= n
    BY <1>1, <1>2, <1>3
  <1>5. ASSUME NEW i \in 1 .. Len(t), NEW j \in 1 .. Len(t), i < j PROVE t[i] < t[j]
    <2>1. i \in 1 .. Len(q)
      BY <1>1, <1>5
    <2>2. CASE j \in 1 .. Len(q)
      BY <1>1, <1>5, <2>1, <2>2 DEF Increasing
    <2>3. CASE j = Len(q) + 1
      BY <1>1, <2>1, <2>3
    <2> QED
      BY <1>2, <2>2, <2>3
  <1> QED
    BY <1>3, <1>4, <1>5 DEF Increasing, t

LEMMA IncreasingTail ==
    ASSUME NEW last \in Nat, NEW q \in Seq(Nat), NEW e \in Nat, q # <<>>,
           Increasing(last, q, e)
    PROVE  /\ Increasing(Head(q), Tail(q), e) /\ Head(q) \in Nat /\ Head(q) > last
           /\ Tail(q) \in Seq(Nat) /\ Len(Tail(q)) <= Len(q)
  <1> DEFINE t == Tail(q)
             h == Head(q)
  <1>1. /\ t \in Seq(Nat) /\ Len(t) = Len(q) - 1 /\ Len(q) \in Nat
        /\ \A i \in 1 .. Len(t) : t[i] = q[i + 1]
        /\ h = q[1] /\ 1 \in 1 .. Len(q) /\ h \in Nat
    BY TailElements
  <1> HIDE DEF t, h
  <1>2. h > last /\ h <= e
    BY <1>1 DEF Increasing
  <1>3. \A i \in 1 .. Len(t) : i + 1 \in 1 .. Len(q) /\ 1 < i + 1 /\ i \in Nat
    BY <1>1
  <1>4. \A i \in 1 .. Len(t) : h < t[i] /\ t[i] <= e
    BY <1>1, <1>3 DEF Increasing
  <1>5. \A i, j \in 1 .. Len(t) : i < j => t[i] < t[j]
    <2> SUFFICES ASSUME NEW i \in 1 .. Len(t), NEW j \in 1 .. Len(t), i < j
                 PROVE  t[i] < t[j]
      OBVIOUS
    <2>1. i + 1 < j + 1
      BY <1>3
    <2> QED
      BY <1>1, <1>3, <2>1 DEF Increasing
  <1> QED
    BY <1>1, <1>2, <1>4, <1>5 DEF Increasing, t, h

LEMMA BufferedMore ==
    ASSUME NEW x \in Stream, NEW a \in Nat, NEW w \in Nat, NEW b \in Nat, NEW v \in Nat,
           a <= b, w <= v, Buffered(x, a, w)
    PROVE  Buffered(x, b, v)
  <1>1. Increasing(x.read, x.readBuf, b) /\ Increasing(x.sent, x.writeCh, v)
    BY StreamFacts, IncreasingMore, Zenon DEF Buffered
  <1> QED
    BY <1>1 DEF Buffered

-----------------------------------------------------------------------------
(* What the steps keep that create no stream. *)

LEMMA StreamsKeep ==
    ASSUME Bounds, IInv, UNCHANGED table,
           Len(stream') = Len(stream), stream' \in Seq(Stream),
           Arrived' \in Nat, events' \in Nat, Arrived' <= events',
           \A k \in Created : /\ stream'[k].id = stream[k].id
                              /\ stream[k].closed => stream'[k].closed
                              /\ Buffered(stream'[k], Arrived', events')
                              /\ writer'[k] = "writing" => stream'[k].writeCh # <<>>
    PROVE  Created' = Created /\ InOrder' /\ Named'
  <1>1. Created' = Created
    BY CreatedFacts DEF IInv, Typed, Created
  <1>2. InOrder'
    BY <1>1 DEF InOrder
  <1>3. Named'
    <2>1. \A i \in Ids : table'[i] # 0 => stream'[table'[i]].id = i
      BY CreatedFacts DEF IInv, Named
    <2>2. ASSUME NEW k \in Created, ~ stream'[k].closed
          PROVE  \/ table'[stream'[k].id] = k
                 \/ \E l \in Created : l > k /\ stream'[l].id = stream'[k].id
      <3>1. ~ stream[k].closed
        BY <2>2
      <3>2. \/ table[stream[k].id] = k
            \/ \E l \in Created : l > k /\ stream[l].id = stream[k].id
        BY <3>1 DEF IInv, Named
      <3> QED
        BY <3>2
    <2> QED
      BY <1>1, <2>1, <2>2 DEF Named
  <1> QED
    BY <1>1, <1>2, <1>3

LEMMA BuffersKeep ==
    ASSUME Bounds, IInv, UNCHANGED <<stream, table>>,
           Arrived' \in Nat, events' \in Nat, Arrived <= Arrived', events <= events',
           Arrived' <= events',
           \A k \in Created : writer'[k] = "writing" =>
                                writer[k] = "writing" \/ stream[k].writeCh # <<>>
    PROVE  Created' = Created /\ InOrder' /\ Named'
  <1>1. \A k \in Created : Buffered(stream[k], Arrived', events')
    BY CreatedFacts, ArrivedFacts, BufferedMore DEF IInv, InOrder
  <1>2. \A k \in Created : writer'[k] = "writing" => stream[k].writeCh # <<>>
    BY DEF IInv, InOrder
  <1>3. stream' \in Seq(Stream) /\ Len(stream') = Len(stream)
    BY DEF IInv, Typed
  <1> QED
    BY <1>1, <1>2, <1>3, StreamsKeep

LEMMA OwnersKeep ==
    ASSUME Bounds, IInv, UNCHANGED accept, Created' = Created,
           \A k \in Objects : /\ owner[k] = "none" => owner'[k] = "none"
                              /\ writer[k] = "none" => writer'[k] = "none"
    PROVE  Unowned'
  <1>1. \A k \in Created : k \in Objects
    BY CreatedFacts DEF IInv
  <1> QED
    BY <1>1 DEF IInv, Unowned

(* close() of streams changes nothing else of them. *)
LEMMA CloseKeeps ==
    ASSUME Bounds, Typed, NEW S, CloseStreams(S)
    PROVE  /\ stream' \in Seq(Stream) /\ Len(stream') = Len(stream)
           /\ \A k \in Created :
                /\ stream'[k].id = stream[k].id
                /\ stream'[k].closed = (stream[k].closed \/ k \in S)
                /\ stream'[k].readBuf = stream[k].readBuf /\ stream'[k].read = stream[k].read
                /\ stream'[k].writeCh = stream[k].writeCh /\ stream'[k].sent = stream[k].sent
  <1> DEFINE y(k) == [stream[k] EXCEPT !.closed = @ \/ k \in S]
  <1>1. Created = 1 .. Len(stream) /\ \A k \in Created : stream[k] \in Stream
    BY CreatedFacts
  <1>2. ASSUME NEW k \in Created
        PROVE  /\ y(k) \in Stream
               /\ y(k).id = stream[k].id /\ y(k).closed = (stream[k].closed \/ k \in S)
               /\ y(k).readBuf = stream[k].readBuf /\ y(k).read = stream[k].read
               /\ y(k).writeCh = stream[k].writeCh /\ y(k).sent = stream[k].sent
    <2>1. (stream[k].closed \/ k \in S) \in BOOLEAN
      BY Zenon
    <2> QED
      BY <1>1, <2>1 DEF Stream
  <1>3. stream' = [k \in Created |-> y(k)]
    BY DEF CloseStreams
  <1> HIDE DEF y
  <1>4. stream' \in [1 .. Len(stream) -> Stream] /\ Len(stream) \in Nat
    BY <1>1, <1>2, <1>3, CreatedFacts
  <1>5. stream' \in Seq(Stream) /\ Len(stream') = Len(stream)
    BY <1>4
  <1>6. \A k \in Created : stream'[k] = y(k)
    BY <1>3
  <1> QED
    BY <1>2, <1>5, <1>6, Zenon

(* A step that closes streams and changes nothing of the loop or the counter. *)
LEMMA ClosedKeeps ==
    ASSUME Bounds, IInv, NEW S, CloseStreams(S), UNCHANGED <<table, events>>,
           Arrived' \in Nat, Arrived <= Arrived', Arrived' <= events,
           \A k \in Created : writer'[k] = "writing" => writer[k] = "writing"
    PROVE  /\ Created' = Created /\ InOrder' /\ Named'
           /\ stream' \in Seq(Stream) /\ Len(stream') = Len(stream)
  <1>1. /\ stream' \in Seq(Stream) /\ Len(stream') = Len(stream)
        /\ \A k \in Created :
             /\ stream'[k].id = stream[k].id
             /\ stream'[k].closed = (stream[k].closed \/ k \in S)
             /\ stream'[k].readBuf = stream[k].readBuf /\ stream'[k].read = stream[k].read
             /\ stream'[k].writeCh = stream[k].writeCh /\ stream'[k].sent = stream[k].sent
    BY CloseKeeps DEF IInv
  <1>2. \A k \in Created : Buffered(stream[k], Arrived', events)
    BY CreatedFacts, ArrivedFacts, BufferedMore DEF IInv, InOrder
  <1>3. \A k \in Created : Buffered(stream'[k], Arrived', events')
    BY <1>1, <1>2 DEF Buffered
  <1>4. \A k \in Created : writer'[k] = "writing" => stream'[k].writeCh # <<>>
    BY <1>1 DEF IInv, InOrder
  <1>5. events' \in Nat /\ Arrived' <= events'
    BY ArrivedFacts
  <1>6. \A k \in Created : stream[k].closed => stream'[k].closed
    BY <1>1
  <1> QED
    BY <1>1, <1>3, <1>4, <1>5, <1>6, StreamsKeep

-----------------------------------------------------------------------------
(* One lemma for each action, those first that leave the streams alone.    *)

LEMMA ClosingKeeps ==
    ASSUME Bounds, IInv, UserCloses \/ Break \/ PingEnds PROVE IInv'
  <1>1. /\ UNCHANGED <<lock, table, accept, stream, owner, writer, loop, events>>
        /\ closed' \in BOOLEAN /\ closing' \in {"no", "lock", "done"} /\ broken' \in BOOLEAN
        /\ ping' = ping \/ (ping = "select" /\ ping' = "ended")
    <2>1. /\ closed \in BOOLEAN /\ closing \in {"no", "lock", "done"} /\ broken \in BOOLEAN
      BY DEF IInv, Typed
    <2>2. CASE UserCloses
      BY <2>1, <2>2 DEF UserCloses, BeginClose
    <2>3. CASE Break
      BY <2>1, <2>3 DEF Break
    <2>4. CASE PingEnds
      BY <2>1, <2>4 DEF PingEnds
    <2> QED
      BY <2>2, <2>3, <2>4
  <1>2. Typed'
    BY <1>1 DEF IInv, Typed, Created
  <1>3. MutexHeld'
    BY <1>1 DEF IInv, MutexHeld
  <1>4. Arrived' = Arrived
    BY <1>1 DEF Arrived
  <1>5. Created' = Created /\ InOrder' /\ Named'
    BY <1>1, <1>4, ArrivedFacts, BuffersKeep
  <1>6. Unowned'
    BY <1>1, <1>5, OwnersKeep
  <1> QED
    BY <1>2, <1>3, <1>5, <1>6 DEF IInv

(* What a step of the read loop has to show that leaves streams and owners alone. *)
LEMMA LoopKeeps ==
    ASSUME Bounds, IInv, UNCHANGED <<broken, table, accept, stream, owner, writer, ping>>,
           closed' \in BOOLEAN, closing' \in {"no", "lock", "done"}, lock' \in Holders,
           loop' \in LoopStates, loop'.pc = "deliver" => loop'.to \in Created,
           loop'.pc \in {"handle", "deliver"} => loop'.n <= events',
           events' \in 0 .. MaxEvents, Arrived' \in Nat,
           Arrived <= Arrived', events <= events', Arrived' <= events',
           lock' # lock => lock.who \in {"free", "loop"} /\ lock'.who \in {"free", "loop", "itself"},
           loop'.pc = "writing" <=> lock'.who = "loop"
    PROVE  IInv'
  <1>1. Typed'
    BY DEF IInv, Typed, Created
  <1>2. MutexHeld'
    <2>1. CASE lock' = lock
      BY <2>1 DEF IInv, MutexHeld
    <2>2. CASE lock' # lock
      BY <2>2 DEF IInv, MutexHeld
    <2> QED
      BY <2>1, <2>2
  <1>3. Created' = Created /\ InOrder' /\ Named'
    BY BuffersKeep DEF Bounds
  <1>4. Unowned'
    BY <1>3, OwnersKeep
  <1> QED
    BY <1>1, <1>2, <1>3, <1>4 DEF IInv

LEMMA ReadingKeeps ==
    ASSUME Bounds, IInv, LoopReads \/ LoopFails \/ LoopStops PROVE IInv'
  <1>1. /\ loop = Reading /\ loop.pc = "read" /\ Arrived = events
        /\ UNCHANGED <<broken, lock, table, accept, stream, owner, writer, ping>>
        /\ lock.who # "loop" /\ lock' \in Holders
    <2>1. loop = Reading /\ UNCHANGED <<broken, lock, table, accept, stream, owner, writer, ping>>
      BY DEF LoopReads, LoopFails, LoopStops
    <2>2. loop.pc = "read"
      BY <2>1 DEF Reading
    <2>3. lock.who # "loop"
      BY <2>2 DEF IInv, MutexHeld
    <2>4. lock' \in Holders
      BY <2>1 DEF IInv, Typed
    <2> QED
      BY <2>1, <2>2, <2>3, <2>4 DEF Arrived
  <1>2. closed \in BOOLEAN /\ closing \in {"no", "lock", "done"} /\ events \in 0 .. MaxEvents
    BY DEF IInv, Typed
  <1>3. CASE LoopReads
    <2>1. /\ events' = events + 1 /\ events' \in 1 .. MaxEvents /\ events' \in 0 .. MaxEvents
          /\ events' \in Nat /\ UNCHANGED <<closed, closing>>
      BY <1>2, <1>3 DEF LoopReads, Bounds
    <2>2. PICK type \in {"data", "open", "close", "ping", "pong"}, id \in Ids :
            loop' = IF type = "pong" THEN Reading
                    ELSE [pc |-> "handle", type |-> type, id |-> id, n |-> events']
      BY <1>3 DEF LoopReads
    <2>3. /\ loop' \in LoopStates /\ loop'.pc # "deliver" /\ loop'.pc # "writing"
          /\ loop'.pc = "handle" => loop'.n <= events'
          /\ Arrived' \in {events, events'}
      <3>1. CASE type = "pong"
        <4>1. loop' = Reading
          BY <2>2, <3>1
        <4> QED
          BY <4>1, LoopRecords DEF Arrived
      <3>2. CASE type # "pong"
        <4>1. loop' = [pc |-> "handle", type |-> type, id |-> id, n |-> events']
          BY <2>2, <3>2
        <4>2. loop'.pc = "handle" /\ loop'.n = events' /\ loop'.n <= events'
          BY <2>1, <4>1
        <4>3. loop' \in LoopStates
          BY <2>1, <3>2, <4>1, LoopRecords
        <4>4. Arrived' = events
          BY <1>2, <2>1, <4>2 DEF Arrived
        <4> QED
          BY <4>2, <4>3, <4>4
      <3> QED
        BY <3>1, <3>2
    <2>4. Arrived' \in Nat /\ Arrived <= Arrived' /\ events <= events' /\ Arrived' <= events'
      BY <1>1, <1>2, <2>1, <2>3
    <2> QED
      BY <1>1, <1>2, <2>1, <2>3, <2>4, LoopKeeps
  <1>4. CASE LoopFails \/ LoopStops
    <2>1. /\ loop' = [pc |-> "ended"] /\ UNCHANGED events
          /\ closed' \in BOOLEAN /\ closing' \in {"no", "lock", "done"}
      <3>1. CASE LoopFails
        BY <1>2, <3>1 DEF LoopFails, BeginClose
      <3>2. CASE LoopStops
        BY <1>2, <3>2 DEF LoopStops
      <3> QED
        BY <1>4, <3>1, <3>2
    <2>2. loop' \in LoopStates /\ loop'.pc = "ended"
      BY <2>1, LoopRecords
    <2>3. Arrived' = Arrived
      BY <1>1, <2>1, <2>2 DEF Arrived
    <2> QED
      BY <1>1, <1>2, <2>1, <2>2, <2>3, ArrivedFacts, LoopKeeps
  <1> QED
    BY <1>3, <1>4

LEMMA HandlingKeeps ==
    ASSUME Bounds, IInv,
           HandleDataFrame \/ HandleOpenFrameAtLimit \/ AnswerPing \/ PongWritten
    PROVE  IInv'
  <1>1. /\ UNCHANGED <<closed, closing, broken, table, accept, stream, owner, writer, ping, events>>
        /\ closed' \in BOOLEAN /\ closing' \in {"no", "lock", "done"} /\ events' \in 0 .. MaxEvents
        /\ events' \in Nat
    <2>1. UNCHANGED <<closed, closing, broken, table, accept, stream, owner, writer, ping, events>>
      BY DEF HandleDataFrame, HandleOpenFrameAtLimit, AnswerPing, PongWritten
    <2> QED
      BY <2>1 DEF IInv, Typed, Bounds
  <1>2. /\ Arrived \in Nat /\ Arrived <= events /\ events \in Nat
        /\ loop.pc = "handle" =>
             loop.n \in 1 .. MaxEvents /\ loop.n <= events /\ loop.id \in Ids /\ Arrived = loop.n - 1
    BY ArrivedFacts, LoopFacts DEF IInv, Arrived
  <1>3. CASE HandleDataFrame
    <2> DEFINE k == table[loop.id]
    <2>1. /\ loop.pc = "handle" /\ lock' = lock
          /\ loop' = IF k = 0 THEN Reading ELSE [pc |-> "deliver", to |-> k, n |-> loop.n]
      BY <1>3 DEF HandleDataFrame, Handles
    <2>2. k \in Nat /\ (k # 0 => k \in Created /\ k \in Objects)
      BY <1>2, <2>1, CreatedFacts DEF IInv
    <2>3. lock' \in Holders /\ lock.who # "loop"
      BY <2>1 DEF IInv, Typed, MutexHeld
    <2> HIDE DEF k
    <2>4. /\ loop' \in LoopStates /\ loop'.pc # "writing"
          /\ loop'.pc = "deliver" => loop'.to \in Created
          /\ loop'.pc \in {"handle", "deliver"} => loop'.n <= events'
          /\ Arrived' \in Nat /\ Arrived <= Arrived' /\ Arrived' <= events'
      <3>1. CASE k = 0
        <4>1. loop' = Reading
          BY <2>1, <3>1
        <4>2. loop'.pc = "read" /\ loop' \in LoopStates
          BY <4>1, LoopRecords
        <4>3. Arrived' = events'
          BY <4>2 DEF Arrived
        <4> QED
          BY <1>1, <1>2, <4>2, <4>3
      <3>2. CASE k # 0
        <4>1. loop' = [pc |-> "deliver", to |-> k, n |-> loop.n]
          BY <2>1, <3>2
        <4>2. loop'.pc = "deliver" /\ loop'.to = k /\ loop'.n = loop.n
          BY <4>1
        <4>3. loop' \in LoopStates
          BY <1>2, <2>1, <2>2, <3>2, <4>1, LoopRecords
        <4>4. Arrived' = Arrived
          BY <1>2, <2>1, <4>2 DEF Arrived
        <4> QED
          BY <1>1, <1>2, <2>1, <2>2, <3>2, <4>2, <4>3, <4>4
      <3> QED
        BY <3>1, <3>2
    <2> QED
      BY <1>1, <1>2, <2>1, <2>3, <2>4, LoopKeeps
  <1>4. CASE HandleOpenFrameAtLimit \/ AnswerPing
    <2>1. /\ loop.pc = "handle" /\ lock = Free
          /\ \/ loop' = [pc |-> "stuck"] /\ lock' = Stuck
             \/ loop' = [pc |-> "writing"] /\ lock' = [who |-> "loop", k |-> 0]
      BY <1>4 DEF HandleOpenFrameAtLimit, AnswerPing, Handles
    <2>2. /\ loop' \in LoopStates /\ loop'.pc \in {"stuck", "writing"}
          /\ lock' \in Holders /\ lock.who = "free" /\ lock'.who \in {"loop", "itself"}
          /\ loop'.pc = "writing" <=> lock'.who = "loop"
      BY <2>1, LoopRecords, LockFacts
    <2>3. Arrived' = events'
      BY <2>2 DEF Arrived
    <2> QED
      BY <1>1, <1>2, <2>2, <2>3, LoopKeeps
  <1>5. CASE PongWritten
    <2>1. loop.pc = "writing" /\ lock' = Free /\ loop' = Reading
      BY <1>5 DEF PongWritten
    <2>2. lock.who = "loop"
      BY <2>1 DEF IInv, MutexHeld
    <2>3. /\ loop' \in LoopStates /\ loop'.pc = "read" /\ lock' \in Holders /\ lock'.who = "free"
      BY <2>1, LoopRecords, LockFacts
    <2>4. Arrived' = events'
      BY <2>3 DEF Arrived
    <2> QED
      BY <1>1, <1>2, <2>2, <2>3, <2>4, LoopKeeps
  <1> QED
    BY <1>3, <1>4, <1>5

(* What a step of another goroutine has to show that leaves the streams alone. *)
LEMMA GoroutineKeeps ==
    ASSUME Bounds, IInv, UNCHANGED <<broken, table, accept, stream, loop, events>>,
           closed' \in BOOLEAN, closing' \in {"no", "lock", "done"}, lock' \in Holders,
           owner' \in [Objects -> {"none", "user", "lock", "writing", "done"}],
           writer' \in [Objects -> {"none", "select", "writing", "ended"}],
           ping' \in {"select", "writing", "ended"}, MutexHeld',
           \A k \in Objects : /\ owner[k] = "none" => owner'[k] = "none"
                              /\ writer[k] = "none" => writer'[k] = "none",
           \A k \in Created : writer'[k] = "writing" =>
                                writer[k] = "writing" \/ stream[k].writeCh # <<>>
    PROVE  IInv'
  <1>1. Typed'
    BY DEF IInv, Typed, Created
  <1>2. Arrived' = Arrived
    BY DEF Arrived
  <1>3. Created' = Created /\ InOrder' /\ Named'
    BY <1>2, ArrivedFacts, BuffersKeep
  <1>4. Unowned'
    BY <1>3, OwnersKeep
  <1> QED
    BY <1>1, <1>3, <1>4 DEF IInv

LEMMA PingingKeeps ==
    ASSUME Bounds, IInv, Tick \/ PingWritten PROVE IInv'
  <1>1. /\ UNCHANGED <<broken, table, accept, stream, owner, writer, loop, events>>
        /\ owner \in [Objects -> {"none", "user", "lock", "writing", "done"}]
        /\ writer \in [Objects -> {"none", "select", "writing", "ended"}]
        /\ closed \in BOOLEAN /\ closing \in {"no", "lock", "done"}
    BY DEF Tick, PingWritten, IInv, Typed
  <1>2. CASE Tick
    <2>1. /\ ping = "select" /\ lock = Free /\ ping' = "writing"
          /\ lock' = [who |-> "ping", k |-> 0] /\ UNCHANGED <<closed, closing>>
      BY <1>2 DEF Tick
    <2>2. lock' \in Holders /\ lock'.who = "ping" /\ lock.who = "free"
      BY <2>1, LockFacts
    <2>3. MutexHeld'
      BY <1>1, <2>1, <2>2 DEF IInv, MutexHeld
    <2> QED
      BY <1>1, <2>1, <2>2, <2>3, GoroutineKeeps
  <1>3. CASE PingWritten
    <2>1. /\ ping = "writing" /\ lock' = Free /\ ping' \in {"select", "ended"}
          /\ closed' \in BOOLEAN /\ closing' \in {"no", "lock", "done"}
      BY <1>1, <1>3 DEF PingWritten, BeginClose
    <2>2. lock' \in Holders /\ lock.who = "ping" /\ lock'.who = "free"
      BY <2>1, LockFacts DEF IInv, MutexHeld
    <2>3. MutexHeld'
      BY <1>1, <2>1, <2>2 DEF IInv, MutexHeld
    <2> QED
      BY <1>1, <2>1, <2>2, <2>3, GoroutineKeeps
  <1> QED
    BY <1>2, <1>3

LEMMA ClosesOwnKeeps ==
    ASSUME Bounds, IInv, NEW k \in Created, CloseLocks(k) \/ CloseWritten(k) PROVE IInv'
  <1>1. /\ UNCHANGED <<closed, closing, broken, table, accept, stream, writer, loop, ping, events>>
        /\ owner \in [Objects -> {"none", "user", "lock", "writing", "done"}]
        /\ writer' \in [Objects -> {"none", "select", "writing", "ended"}]
        /\ closed' \in BOOLEAN /\ closing' \in {"no", "lock", "done"}
        /\ ping' \in {"select", "writing", "ended"}
    BY DEF CloseLocks, CloseWritten, IInv, Typed
  <1>2. k \in Objects
    BY CreatedFacts DEF IInv
  <1>3. CASE CloseLocks(k)
    <2>1. /\ owner[k] = "lock" /\ lock = Free /\ owner' = [owner EXCEPT ![k] = "writing"]
          /\ lock' = [who |-> "owner", k |-> k]
      BY <1>3 DEF CloseLocks
    <2>2. /\ lock' \in Holders /\ lock'.who = "owner" /\ lock'.k = k /\ lock.who = "free"
      BY <1>2, <2>1, LockFacts
    <2>3. \A q \in Objects : owner'[q] = IF q = k THEN "writing" ELSE owner[q]
      BY <1>1, <2>1
    <2>4. MutexHeld'
      BY <1>1, <2>2, <2>3 DEF IInv, MutexHeld
    <2>5. owner' \in [Objects -> {"none", "user", "lock", "writing", "done"}]
      BY <1>1, <2>1
    <2> QED
      BY <1>1, <2>1, <2>2, <2>3, <2>4, <2>5, GoroutineKeeps
  <1>4. CASE CloseWritten(k)
    <2>1. owner[k] = "writing" /\ owner' = [owner EXCEPT ![k] = "done"] /\ lock' = Free
      BY <1>4 DEF CloseWritten
    <2>2. lock' \in Holders /\ lock'.who = "free" /\ lock.who = "owner" /\ lock.k = k
      BY <1>2, <2>1, LockFacts DEF IInv, MutexHeld
    <2>3. \A q \in Objects : owner'[q] = IF q = k THEN "done" ELSE owner[q]
      BY <1>1, <2>1
    <2>4. MutexHeld'
      BY <1>1, <2>2, <2>3 DEF IInv, MutexHeld
    <2>5. owner' \in [Objects -> {"none", "user", "lock", "writing", "done"}]
      BY <1>1, <2>1
    <2> QED
      BY <1>1, <2>1, <2>2, <2>3, <2>4, <2>5, GoroutineKeeps
  <1> QED
    BY <1>3, <1>4

LEMMA WriterGoesKeeps ==
    ASSUME Bounds, IInv, NEW k \in Created, WriterTakes(k) \/ WriterEnds(k) PROVE IInv'
  <1>1. /\ UNCHANGED <<closed, closing, broken, table, accept, stream, owner, loop, ping, events>>
        /\ owner' \in [Objects -> {"none", "user", "lock", "writing", "done"}]
        /\ writer \in [Objects -> {"none", "select", "writing", "ended"}]
        /\ closed' \in BOOLEAN /\ closing' \in {"no", "lock", "done"}
        /\ ping' \in {"select", "writing", "ended"}
    BY DEF WriterTakes, WriterEnds, IInv, Typed
  <1>2. k \in Objects /\ writer[k] = "select"
    BY CreatedFacts DEF IInv, WriterTakes, WriterEnds
  <1>3. CASE WriterTakes(k)
    <2>1. /\ stream[k].writeCh # <<>> /\ lock = Free /\ writer' = [writer EXCEPT ![k] = "writing"]
          /\ lock' = [who |-> "writer", k |-> k]
      BY <1>3 DEF WriterTakes
    <2>2. /\ lock' \in Holders /\ lock'.who = "writer" /\ lock'.k = k /\ lock.who = "free"
      BY <1>2, <2>1, LockFacts
    <2>3. \A q \in Objects : writer'[q] = IF q = k THEN "writing" ELSE writer[q]
      BY <1>1, <2>1
    <2>4. MutexHeld'
      BY <1>1, <2>2, <2>3 DEF IInv, MutexHeld
    <2>5. writer' \in [Objects -> {"none", "select", "writing", "ended"}]
      BY <1>1, <2>1
    <2>6. \A q \in Created : q \in Objects
      BY CreatedFacts DEF IInv
    <2> QED
      BY <1>1, <1>2, <2>1, <2>2, <2>3, <2>4, <2>5, <2>6, GoroutineKeeps
  <1>4. CASE WriterEnds(k)
    <2>1. writer' = [writer EXCEPT ![k] = "ended"] /\ lock' = lock /\ lock' \in Holders
      BY <1>4 DEF WriterEnds, IInv, Typed
    <2>2. \A q \in Objects : writer'[q] = IF q = k THEN "ended" ELSE writer[q]
      BY <1>1, <2>1
    <2>3. MutexHeld'
      BY <1>1, <1>2, <2>1, <2>2 DEF IInv, MutexHeld
    <2>4. writer' \in [Objects -> {"none", "select", "writing", "ended"}]
      BY <1>1, <2>1
    <2>5. \A q \in Created : q \in Objects
      BY CreatedFacts DEF IInv
    <2> QED
      BY <1>1, <1>2, <2>1, <2>2, <2>3, <2>4, <2>5, GoroutineKeeps
  <1> QED
    BY <1>3, <1>4

LEMMA AcceptKeeps ==
    ASSUME Bounds, IInv, AcceptStream PROVE IInv'
  <1> DEFINE h == Head(accept)
             t == Tail(accept)
  <1>1. /\ accept # <<>> /\ accept' = t /\ owner' = [owner EXCEPT ![h] = "user"]
        /\ UNCHANGED <<closed, closing, broken, lock, table, stream, writer, loop, ping, events>>
    BY DEF AcceptStream
  <1>2. /\ t \in Seq(Nat) /\ Len(t) = Len(accept) - 1 /\ Len(accept) \in Nat
        /\ \A i \in 1 .. Len(t) : t[i] = accept[i + 1]
        /\ h = accept[1] /\ 1 \in 1 .. Len(accept) /\ accept \in Seq(Nat)
    BY <1>1, TailElements DEF IInv, Typed
  <1> HIDE DEF h, t
  <1>3. h \in Created /\ h \in Objects /\ owner[h] = "none"
    BY <1>2, CreatedFacts DEF IInv, Unowned
  <1>4. \A q \in Objects : owner'[q] = IF q = h THEN "user" ELSE owner[q]
    BY <1>1 DEF IInv, Typed
  <1>5. Typed'
    <2>1. owner' \in [Objects -> {"none", "user", "lock", "writing", "done"}]
      BY <1>1 DEF IInv, Typed
    <2>2. accept' \in Seq(Nat) /\ Len(accept') <= AcceptCapacity
      BY <1>1, <1>2 DEF IInv, Typed, Bounds
    <2> QED
      BY <1>1, <2>1, <2>2 DEF IInv, Typed, Created
  <1>6. MutexHeld'
    BY <1>1, <1>3, <1>4 DEF IInv, MutexHeld
  <1>7. Created' = Created /\ InOrder' /\ Named'
    <2>1. Arrived' = Arrived
      BY <1>1 DEF Arrived
    <2> QED
      BY <1>1, <2>1, ArrivedFacts, BuffersKeep
  <1>8. Unowned'
    <2>1. \A k \in Objects : k \notin Created => owner'[k] = "none" /\ writer'[k] = "none"
      BY <1>1, <1>3, <1>4 DEF IInv, Unowned
    <2>2. \A i \in 1 .. Len(t) : i + 1 \in 1 .. Len(accept) /\ 1 < i + 1 /\ i \in Nat
      BY <1>2
    <2>3. \A i \in 1 .. Len(t) : t[i] \in Created /\ t[i] \in Objects /\ t[i] # h /\ owner[t[i]] = "none"
      <3> SUFFICES ASSUME NEW i \in 1 .. Len(t)
                   PROVE  t[i] \in Created /\ t[i] \in Objects /\ t[i] # h /\ owner[t[i]] = "none"
        OBVIOUS
      <3>1. t[i] = accept[i + 1] /\ i + 1 \in 1 .. Len(accept) /\ 1 < i + 1
        BY <1>2, <2>2
      <3>2. accept[i + 1] \in Created /\ owner[accept[i + 1]] = "none" /\ accept[1] < accept[i + 1]
        BY <1>2, <3>1 DEF IInv, Unowned
      <3>3. accept[i + 1] \in Objects /\ accept[i + 1] \in Nat
        BY <3>2, CreatedFacts DEF IInv
      <3>4. accept[1] \in Nat
        BY <1>2
      <3> QED
        BY <1>2, <3>1, <3>2, <3>3, <3>4
    <2>4. \A i \in 1 .. Len(t) : owner'[t[i]] = "none"
      BY <1>4, <2>3
    <2>5. \A i, j \in 1 .. Len(t) : i < j => t[i] < t[j]
      <3> SUFFICES ASSUME NEW i \in 1 .. Len(t), NEW j \in 1 .. Len(t), i < j
                   PROVE  t[i] < t[j]
        OBVIOUS
      <3>1. i + 1 < j + 1
        BY <2>2
      <3> QED
        BY <1>2, <2>2, <3>1 DEF IInv, Unowned
    <2> QED
      BY <1>1, <1>7, <2>1, <2>3, <2>4, <2>5 DEF Unowned
  <1> QED
    BY <1>5, <1>6, <1>7, <1>8 DEF IInv

-----------------------------------------------------------------------------
(* Actions that close streams. *)

LEMMA FinishCloseKeeps ==
    ASSUME Bounds, IInv, FinishClose PROVE IInv'
  <1>1. /\ CloseStreams(InTable) /\ closing' = "done" /\ broken' = TRUE
        /\ UNCHANGED <<closed, lock, table, accept, owner, writer, loop, ping, events>>
    BY DEF FinishClose
  <1>2. Arrived' = Arrived
    BY <1>1 DEF Arrived
  <1>3. /\ Created' = Created /\ InOrder' /\ Named'
        /\ stream' \in Seq(Stream) /\ Len(stream') = Len(stream)
    BY <1>1, <1>2, ArrivedFacts, ClosedKeeps
  <1>4. Typed'
    BY <1>1, <1>3 DEF IInv, Typed
  <1>5. MutexHeld'
    BY <1>1 DEF IInv, MutexHeld
  <1>6. Unowned'
    BY <1>1, <1>3, OwnersKeep
  <1> QED
    BY <1>3, <1>4, <1>5, <1>6 DEF IInv

LEMMA CloseStreamKeeps ==
    ASSUME Bounds, IInv, NEW k \in Created, CloseStream(k) PROVE IInv'
  <1>1. /\ owner[k] = "user" /\ owner' = [owner EXCEPT ![k] = "lock"] /\ CloseStreams({k})
        /\ UNCHANGED <<closed, closing, broken, lock, table, accept, writer, loop, ping, events>>
    BY DEF CloseStream
  <1>2. Arrived' = Arrived
    BY <1>1 DEF Arrived
  <1>3. /\ Created' = Created /\ InOrder' /\ Named'
        /\ stream' \in Seq(Stream) /\ Len(stream') = Len(stream)
    BY <1>1, <1>2, ArrivedFacts, ClosedKeeps
  <1>4. \A q \in Objects : owner'[q] = IF q = k THEN "lock" ELSE owner[q]
    BY <1>1 DEF IInv, Typed
  <1>5. owner' \in [Objects -> {"none", "user", "lock", "writing", "done"}]
    BY <1>1 DEF IInv, Typed
  <1>6. Typed'
    BY <1>1, <1>3, <1>5 DEF IInv, Typed
  <1>7. MutexHeld'
    BY <1>1, <1>4 DEF IInv, MutexHeld
  <1>8. Unowned'
    BY <1>1, <1>3, <1>4, OwnersKeep
  <1> QED
    BY <1>3, <1>6, <1>7, <1>8 DEF IInv

(* The frame closes the stream in the table, and forgets it. *)
LEMMA HandleCloseKeeps ==
    ASSUME Bounds, IInv, HandleCloseFrame PROVE IInv'
  <1> DEFINE id == loop.id
             c == table[loop.id]
  <1>1. /\ loop.pc = "handle" /\ loop' = Reading
        /\ table' = [table EXCEPT ![id] = 0] /\ CloseStreams({c})
        /\ UNCHANGED <<closed, closing, broken, lock, accept, owner, writer, ping, events>>
    BY DEF HandleCloseFrame, Handles
  <1>2. id \in Ids /\ loop.n \in 1 .. MaxEvents /\ Arrived = loop.n - 1
    BY <1>1, LoopFacts DEF IInv, Arrived
  <1>3. loop' \in LoopStates /\ loop'.pc = "read" /\ Arrived' = events
    BY <1>1, LoopRecords DEF Arrived
  <1>4. /\ stream' \in Seq(Stream) /\ Len(stream') = Len(stream) /\ Created' = Created
        /\ \A k \in Created :
             /\ stream'[k].id = stream[k].id
             /\ stream'[k].closed = (stream[k].closed \/ k \in {c})
             /\ stream'[k].readBuf = stream[k].readBuf /\ stream'[k].read = stream[k].read
             /\ stream'[k].writeCh = stream[k].writeCh /\ stream'[k].sent = stream[k].sent
    <2>1. /\ stream' \in Seq(Stream) /\ Len(stream') = Len(stream)
          /\ \A k \in Created :
             /\ stream'[k].id = stream[k].id
             /\ stream'[k].closed = (stream[k].closed \/ k \in {c})
             /\ stream'[k].readBuf = stream[k].readBuf /\ stream'[k].read = stream[k].read
             /\ stream'[k].writeCh = stream[k].writeCh /\ stream'[k].sent = stream[k].sent
      BY <1>1, CloseKeeps DEF IInv
    <2>2. Created' = Created
      BY <2>1 DEF IInv, Typed, Created
    <2> QED
      BY <2>1, <2>2
  <1>5. \A i \in Ids : table'[i] = IF i = id THEN 0 ELSE table[i]
    BY <1>1 DEF IInv, Typed
  <1> HIDE DEF id, c
  <1>6. Typed'
    <2>1. table' \in [Ids -> 0 .. MaxObjects]
      <3>1. 0 \in 0 .. MaxObjects
        BY DEF Bounds
      <3> QED
        BY <1>1, <3>1 DEF IInv, Typed
    <2>2. \A i \in Ids : table[i] <= Len(stream) /\ 0 <= Len(stream)
      BY CreatedFacts DEF IInv, Typed
    <2>3. \A i \in Ids : table'[i] <= Len(stream')
      BY <1>4, <1>5, <2>2
    <2> QED
      BY <1>1, <1>3, <1>4, <2>1, <2>3 DEF IInv, Typed
  <1>7. MutexHeld'
    BY <1>1, <1>3 DEF IInv, MutexHeld
  <1>8. Unowned'
    BY <1>1, <1>4, OwnersKeep
  <1>9. InOrder'
    <2>1. \A k \in Created : Buffered(stream[k], events, events)
      BY CreatedFacts, ArrivedFacts, BufferedMore DEF IInv, InOrder
    <2>2. \A k \in Created : Buffered(stream'[k], Arrived', events')
      BY <1>1, <1>3, <1>4, <2>1 DEF Buffered
    <2>3. \A k \in Created : writer'[k] = "writing" => stream'[k].writeCh # <<>>
      BY <1>1, <1>4 DEF IInv, InOrder
    <2> QED
      BY <1>1, <1>3, <1>4, <2>2, <2>3, ArrivedFacts DEF InOrder
  <1>10. Named'
    <2>1. ASSUME NEW i \in Ids, table'[i] # 0 PROVE stream'[table'[i]].id = i
      <3>1. i # id /\ table'[i] = table[i] /\ table[i] # 0
        BY <1>5, <2>1
      <3> QED
        BY <1>4, <3>1, CreatedFacts DEF IInv, Named
    <2>2. ASSUME NEW k \in Created, ~ stream'[k].closed
          PROVE  \/ table'[stream'[k].id] = k
                 \/ \E l \in Created : l > k /\ stream'[l].id = stream'[k].id
      <3>1. ~ stream[k].closed /\ k # c /\ stream[k].id \in Ids
        BY <1>4, <2>2, CreatedFacts, StreamFacts DEF IInv
      <3>2. CASE table[stream[k].id] = k
        <4>1. stream[k].id # id
          BY <3>1, <3>2 DEF c, id
        <4> QED
          BY <1>4, <1>5, <3>1, <3>2, <4>1
      <3>3. CASE \E l \in Created : l > k /\ stream[l].id = stream[k].id
        BY <1>4, <3>3
      <3> QED
        BY <3>1, <3>2, <3>3 DEF IInv, Named
    <2> QED
      BY <1>4, <2>1, <2>2 DEF Named
  <1> QED
    BY <1>6, <1>7, <1>8, <1>9, <1>10 DEF IInv

-----------------------------------------------------------------------------
(* Actions that put a chunk into a buffer or take one out.                  *)

(* What a step has to show that changes the buffers of one stream. *)
LEMMA OneStreamKeeps ==
    ASSUME Bounds, IInv, NEW k \in Created, NEW y \in Stream,
           stream' = [stream EXCEPT ![k] = y],
           y.id = stream[k].id, stream[k].closed => y.closed,
           Arrived' \in Nat, Arrived <= Arrived', Arrived' <= events',
           events' \in 0 .. MaxEvents, events <= events',
           Buffered(y, Arrived', events'),
           writer'[k] = "writing" => y.writeCh # <<>>,
           \A q \in Created : q # k => (writer'[q] = "writing" => writer[q] = "writing"),
           \A q \in Objects : writer[q] = "none" => writer'[q] = "none",
           UNCHANGED <<closed, closing, broken, table, accept, owner, ping>>,
           lock' \in Holders, writer' \in [Objects -> {"none", "select", "writing", "ended"}],
           loop' \in LoopStates, loop' = loop \/ loop'.pc = "read", MutexHeld'
    PROVE  IInv'
  <1>1. /\ stream' \in Seq(Stream) /\ Len(stream') = Len(stream) /\ stream'[k] = y
        /\ \A q \in Created : q # k => stream'[q] = stream[q]
    BY DEF IInv, Typed, Created
  <1>2. events' \in Nat
    BY DEF Bounds
  <1>3. ASSUME NEW q \in Created
        PROVE  /\ stream'[q].id = stream[q].id
               /\ stream[q].closed => stream'[q].closed
               /\ Buffered(stream'[q], Arrived', events')
               /\ writer'[q] = "writing" => stream'[q].writeCh # <<>>
    <2>1. CASE q = k
      BY <1>1, <2>1
    <2>2. CASE q # k
      <3>1. stream'[q] = stream[q] /\ stream[q] \in Stream
        BY <1>1, <2>2, CreatedFacts DEF IInv
      <3>2. Buffered(stream[q], Arrived, events)
        BY DEF IInv, InOrder
      <3>3. Buffered(stream[q], Arrived', events')
        BY <1>2, <3>1, <3>2, ArrivedFacts, BufferedMore
      <3> QED
        BY <2>2, <3>1, <3>3 DEF IInv, InOrder
    <2> QED
      BY <2>1, <2>2
  <1>4. Created' = Created /\ InOrder' /\ Named'
    BY <1>1, <1>2, <1>3, StreamsKeep
  <1>5. Typed'
    <2>1. CASE loop' = loop
      <3>1. loop.pc \in {"handle", "deliver"} => loop.n \in Nat /\ loop.n <= events
        BY LoopFacts DEF IInv
      <3>2. events \in Nat
        BY ArrivedFacts
      <3>3. loop'.pc \in {"handle", "deliver"} => loop'.n <= events'
        BY <1>2, <2>1, <3>1, <3>2
      <3> QED
        BY <1>1, <1>4, <2>1, <3>3 DEF IInv, Typed
    <2>2. CASE loop'.pc = "read"
      BY <1>1, <1>4, <2>2 DEF IInv, Typed
    <2> QED
      BY <2>1, <2>2
  <1>6. Unowned'
    BY <1>4, OwnersKeep
  <1> QED
    BY <1>4, <1>5, <1>6 DEF IInv

LEMMA DeliverKeeps ==
    ASSUME Bounds, IInv, Deliver PROVE IInv'
  <1> DEFINE k == loop.to
             x == stream[k]
             y == [x EXCEPT !.readBuf = Append(@, loop.n)]
  <1>1. /\ loop.pc = "deliver" /\ loop' = Reading
        /\ \/ Len(x.readBuf) < Buffer /\ stream' = [stream EXCEPT ![k].readBuf = Append(@, loop.n)]
           \/ UNCHANGED stream
        /\ UNCHANGED <<closed, closing, broken, lock, table, accept, owner, writer, ping, events>>
    BY DEF Deliver
  <1>2. /\ k \in Created /\ loop.n \in Nat /\ loop.n \in 1 .. MaxEvents /\ Arrived = loop.n - 1
        /\ Arrived \in Nat /\ events \in Nat /\ loop.n <= events
    BY <1>1, LoopFacts, ArrivedFacts DEF IInv, Arrived
  <1>3. loop' \in LoopStates /\ loop'.pc = "read" /\ Arrived' = events
    BY <1>1, LoopRecords DEF Arrived
  <1>4. lock.who # "loop" /\ MutexHeld'
    BY <1>1, <1>3 DEF IInv, MutexHeld
  <1>5. CASE UNCHANGED stream
    <2>1. /\ closed' \in BOOLEAN /\ closing' \in {"no", "lock", "done"} /\ lock' \in Holders
          /\ events' \in 0 .. MaxEvents
      BY <1>1 DEF IInv, Typed
    <2> QED
      BY <1>1, <1>2, <1>3, <1>4, <1>5, <2>1, LoopKeeps
  <1>6. CASE Len(x.readBuf) < Buffer /\ stream' = [stream EXCEPT ![k].readBuf = Append(@, loop.n)]
    <2>1. x \in Stream /\ Buffered(x, Arrived, events)
      BY <1>2, CreatedFacts DEF IInv, InOrder
    <2>2. stream' = [stream EXCEPT ![k] = y]
      BY <1>6
    <2>3. /\ y \in Stream /\ y.id = x.id /\ y.closed = x.closed /\ y.writeCh = x.writeCh
          /\ y.read = x.read /\ y.sent = x.sent /\ y.readBuf = Append(x.readBuf, loop.n)
      <3>1. Append(x.readBuf, loop.n) \in Seq(Nat)
        BY <1>2, <2>1, StreamFacts, AppendProperties
      <3> QED
        BY <2>1, <3>1 DEF Stream
    <2> HIDE DEF y
    <2>4. Increasing(y.read, y.readBuf, events)
      <3>1. Increasing(x.read, Append(x.readBuf, loop.n), loop.n)
        BY <1>2, <2>1, StreamFacts, IncreasingAppend DEF Buffered
      <3>2. Increasing(y.read, y.readBuf, loop.n) /\ y.read \in Nat /\ y.readBuf \in Seq(Nat)
        BY <2>3, <3>1, StreamFacts
      <3> QED
        BY <1>2, <3>2, IncreasingMore
    <2>5. Len(y.readBuf) <= Buffer
      <3>1. Len(Append(x.readBuf, loop.n)) = Len(x.readBuf) + 1 /\ Len(x.readBuf) \in Nat
        BY <1>2, <2>1, StreamFacts, AppendProperties
      <3> QED
        BY <1>6, <2>3, <3>1 DEF Bounds
    <2>6. Buffered(y, Arrived', events')
      BY <1>1, <1>3, <2>1, <2>3, <2>4, <2>5 DEF Buffered
    <2>7. writer'[k] = "writing" => y.writeCh # <<>>
      BY <1>1, <1>2, <2>3 DEF IInv, InOrder
    <2>8. /\ lock' \in Holders /\ writer' \in [Objects -> {"none", "select", "writing", "ended"}]
          /\ events' \in 0 .. MaxEvents
      BY <1>1 DEF IInv, Typed
    <2> HIDE DEF x, k
    <2>9. y.id = stream[k].id /\ (stream[k].closed => y.closed)
      BY <2>3 DEF x
    <2>10. /\ events <= events' /\ Arrived' \in Nat /\ Arrived <= Arrived' /\ Arrived' <= events'
           /\ \A q \in Created : q # k => (writer'[q] = "writing" => writer[q] = "writing")
           /\ \A q \in Objects : writer[q] = "none" => writer'[q] = "none"
           /\ UNCHANGED <<closed, closing, broken, table, accept, owner, ping>>
      BY <1>1, <1>2, <1>3
    <2> QED
      BY <1>2, <1>3, <1>4, <2>2, <2>3, <2>6, <2>7, <2>8, <2>9, <2>10, OneStreamKeeps
  <1> QED
    BY <1>1, <1>5, <1>6

LEMMA ReadKeeps ==
    ASSUME Bounds, IInv, NEW k \in Created, Read(k) PROVE IInv'
  <1> DEFINE x == stream[k]
             y == [x EXCEPT !.readBuf = Tail(@), !.read = Head(x.readBuf)]
  <1>1. /\ x.readBuf # <<>> /\ stream' = [stream EXCEPT ![k] = y]
        /\ UNCHANGED <<closed, closing, broken, lock, table, accept, owner, writer, loop, ping, events>>
    BY DEF Read
  <1>2. x \in Stream /\ Buffered(x, Arrived, events) /\ Arrived \in Nat
    BY CreatedFacts, ArrivedFacts DEF IInv, InOrder
  <1>3. /\ Increasing(Head(x.readBuf), Tail(x.readBuf), Arrived) /\ Head(x.readBuf) \in Nat
        /\ Tail(x.readBuf) \in Seq(Nat) /\ Len(Tail(x.readBuf)) <= Len(x.readBuf)
    BY <1>1, <1>2, StreamFacts, IncreasingTail DEF Buffered
  <1>4. /\ y \in Stream /\ y.id = x.id /\ y.closed = x.closed /\ y.writeCh = x.writeCh
        /\ y.sent = x.sent /\ y.readBuf = Tail(x.readBuf) /\ y.read = Head(x.readBuf)
    BY <1>2, <1>3 DEF Stream
  <1> HIDE DEF y
  <1>5. Arrived' = Arrived
    BY <1>1 DEF Arrived
  <1>6. Buffered(y, Arrived', events')
    <2>1. Len(y.readBuf) <= Buffer
      <3>1. Len(x.readBuf) \in Nat /\ Len(Tail(x.readBuf)) \in Nat /\ Len(x.readBuf) <= Buffer
        BY <1>2, <1>3, StreamFacts DEF Buffered
      <3> QED
        BY <1>3, <1>4, <3>1 DEF Bounds
    <2> QED
      BY <1>1, <1>2, <1>3, <1>4, <1>5, <2>1 DEF Buffered
  <1>7. writer'[k] = "writing" => y.writeCh # <<>>
    BY <1>1, <1>4 DEF IInv, InOrder
  <1>8. /\ lock' \in Holders /\ writer' \in [Objects -> {"none", "select", "writing", "ended"}]
        /\ events' \in 0 .. MaxEvents /\ loop' \in LoopStates
    BY <1>1 DEF IInv, Typed
  <1>9. MutexHeld'
    BY <1>1 DEF IInv, MutexHeld
  <1> HIDE DEF x
  <1>10. y.id = stream[k].id /\ (stream[k].closed => y.closed)
    BY <1>4 DEF x
  <1>11. /\ events <= events' /\ Arrived' \in Nat /\ Arrived <= Arrived' /\ Arrived' <= events'
         /\ \A q \in Created : q # k => (writer'[q] = "writing" => writer[q] = "writing")
         /\ \A q \in Objects : writer[q] = "none" => writer'[q] = "none"
         /\ UNCHANGED <<closed, closing, broken, table, accept, owner, ping, loop>>
    BY <1>1, <1>2, <1>5, ArrivedFacts
  <1> QED
    BY <1>1, <1>4, <1>6, <1>7, <1>8, <1>9, <1>10, <1>11, OneStreamKeeps

LEMMA WriteKeeps ==
    ASSUME Bounds, IInv, NEW k \in Created, Write(k) PROVE IInv'
  <1> DEFINE x == stream[k]
             y == [x EXCEPT !.writeCh = Append(@, events')]
  <1>1. /\ Len(x.writeCh) < Buffer /\ events < MaxEvents /\ events' = events + 1
        /\ stream' = [stream EXCEPT ![k] = y]
        /\ UNCHANGED <<closed, closing, broken, lock, table, accept, owner, writer, loop, ping>>
    BY DEF Write
  <1>2. /\ x \in Stream /\ Buffered(x, Arrived, events) /\ Arrived \in Nat /\ events \in Nat
        /\ Arrived <= events
    BY CreatedFacts, ArrivedFacts DEF IInv, InOrder
  <1>3. events' \in Nat /\ events < events' /\ events' \in 0 .. MaxEvents
    BY <1>1, <1>2 DEF Bounds
  <1>4. /\ Append(x.writeCh, events') \in Seq(Nat)
        /\ Len(Append(x.writeCh, events')) = Len(x.writeCh) + 1 /\ Len(x.writeCh) \in Nat
    BY <1>2, <1>3, StreamFacts, AppendProperties
  <1>5. /\ y \in Stream /\ y.id = x.id /\ y.closed = x.closed /\ y.readBuf = x.readBuf
        /\ y.read = x.read /\ y.sent = x.sent /\ y.writeCh = Append(x.writeCh, events')
    BY <1>2, <1>4 DEF Stream
  <1> HIDE DEF y
  <1>6. Arrived' \in Nat /\ Arrived <= Arrived' /\ Arrived' <= events'
    <2>1. Arrived' = Arrived \/ Arrived' = events'
      BY <1>1 DEF Arrived
    <2> QED
      BY <1>2, <1>3, <2>1
  <1>7. Buffered(y, Arrived', events')
    <2>1. Increasing(x.sent, Append(x.writeCh, events'), events')
      BY <1>2, <1>3, StreamFacts, IncreasingAppend DEF Buffered
    <2>2. Increasing(x.read, x.readBuf, Arrived')
      BY <1>2, <1>6, StreamFacts, IncreasingMore DEF Buffered
    <2>3. Len(y.writeCh) <= Buffer
      BY <1>1, <1>4, <1>5 DEF Bounds
    <2> QED
      BY <1>2, <1>5, <2>1, <2>2, <2>3 DEF Buffered
  <1>8. y.writeCh # <<>>
    <2>1. Len(y.writeCh) # 0
      BY <1>4, <1>5
    <2> QED
      BY <2>1
  <1>9. /\ lock' \in Holders /\ writer' \in [Objects -> {"none", "select", "writing", "ended"}]
        /\ loop' \in LoopStates
    BY <1>1 DEF IInv, Typed
  <1>10. MutexHeld'
    BY <1>1 DEF IInv, MutexHeld
  <1> HIDE DEF x
  <1>11. y.id = stream[k].id /\ (stream[k].closed => y.closed)
    BY <1>5 DEF x
  <1>12. events <= events'
    BY <1>2, <1>3
  <1> QED
    BY <1>1, <1>3, <1>5, <1>6, <1>7, <1>8, <1>9, <1>10, <1>11, <1>12, OneStreamKeeps

LEMMA WriterWrittenKeeps ==
    ASSUME Bounds, IInv, NEW k \in Created, WriterWritten(k) PROVE IInv'
  <1>1. /\ writer[k] = "writing" /\ lock' = Free
        /\ UNCHANGED <<closed, closing, broken, table, accept, owner, loop, ping, events>>
    BY DEF WriterWritten
  <1>2. k \in Objects
    BY CreatedFacts DEF IInv
  <1>3. lock.who = "writer" /\ lock.k = k /\ lock'.who = "free" /\ lock' \in Holders
    BY <1>1, <1>2, LockFacts DEF IInv, MutexHeld
  <1>4. Arrived' = Arrived
    BY <1>1 DEF Arrived
  <1>5. ASSUME NEW end \in {"select", "ended"}, writer' = [writer EXCEPT ![k] = end]
        PROVE  /\ \A q \in Objects : writer'[q] = IF q = k THEN end ELSE writer[q]
               /\ writer' \in [Objects -> {"none", "select", "writing", "ended"}]
               /\ MutexHeld'
    <2>1. \A q \in Objects : writer'[q] = IF q = k THEN end ELSE writer[q]
      BY <1>5 DEF IInv, Typed
    <2>2. writer' \in [Objects -> {"none", "select", "writing", "ended"}]
      BY <1>5 DEF IInv, Typed
    <2>3. MutexHeld'
      BY <1>1, <1>3, <2>1 DEF IInv, MutexHeld
    <2> QED
      BY <2>1, <2>2, <2>3
  <1>6. CASE /\ writer' = [writer EXCEPT ![k] = "select"]
             /\ stream' = [stream EXCEPT ![k].writeCh = Tail(@), ![k].sent = Head(stream[k].writeCh)]
    <2> DEFINE x == stream[k]
               y == [x EXCEPT !.writeCh = Tail(@), !.sent = Head(x.writeCh)]
    <2>1. stream' = [stream EXCEPT ![k] = y]
      BY <1>6
    <2>2. x \in Stream /\ Buffered(x, Arrived, events) /\ events \in Nat /\ x.writeCh # <<>>
      BY <1>1, CreatedFacts, ArrivedFacts DEF IInv, InOrder
    <2>3. /\ Increasing(Head(x.writeCh), Tail(x.writeCh), events) /\ Head(x.writeCh) \in Nat
          /\ Tail(x.writeCh) \in Seq(Nat) /\ Len(Tail(x.writeCh)) <= Len(x.writeCh)
      BY <2>2, StreamFacts, IncreasingTail DEF Buffered
    <2>4. /\ y \in Stream /\ y.id = x.id /\ y.closed = x.closed /\ y.readBuf = x.readBuf
          /\ y.read = x.read /\ y.writeCh = Tail(x.writeCh) /\ y.sent = Head(x.writeCh)
      BY <2>2, <2>3 DEF Stream
    <2> HIDE DEF y
    <2>5. Buffered(y, Arrived', events')
      <3>1. Len(y.writeCh) <= Buffer
        <4>1. Len(x.writeCh) \in Nat /\ Len(Tail(x.writeCh)) \in Nat /\ Len(x.writeCh) <= Buffer
          BY <2>2, <2>3, StreamFacts DEF Buffered
        <4> QED
          BY <2>3, <2>4, <4>1 DEF Bounds
      <3> QED
        BY <1>1, <1>4, <2>2, <2>3, <2>4, <3>1 DEF Buffered
    <2>6. /\ \A q \in Objects : writer'[q] = IF q = k THEN "select" ELSE writer[q]
          /\ writer' \in [Objects -> {"none", "select", "writing", "ended"}]
          /\ MutexHeld'
      BY <1>5, <1>6
    <2>7. loop' \in LoopStates /\ events' \in 0 .. MaxEvents
      BY <1>1 DEF IInv, Typed
    <2>8. \A q \in Created : q \in Objects
      BY CreatedFacts DEF IInv
    <2> HIDE DEF x
    <2>9. y.id = stream[k].id /\ (stream[k].closed => y.closed)
      BY <2>4 DEF x
    <2>10. /\ events <= events' /\ Arrived' \in Nat /\ Arrived <= Arrived' /\ Arrived' <= events'
           /\ \A q \in Created : q # k => (writer'[q] = "writing" => writer[q] = "writing")
           /\ \A q \in Objects : writer[q] = "none" => writer'[q] = "none"
           /\ UNCHANGED <<closed, closing, broken, table, accept, owner, ping, loop>>
           /\ writer'[k] # "writing"
      BY <1>1, <1>2, <1>4, <2>2, <2>6, <2>8, ArrivedFacts
    <2> QED
      BY <1>3, <2>1, <2>4, <2>5, <2>6, <2>7, <2>9, <2>10, OneStreamKeeps
  <1>7. CASE writer' = [writer EXCEPT ![k] = "ended"] /\ CloseStreams({k})
    <2>1. /\ \A q \in Objects : writer'[q] = IF q = k THEN "ended" ELSE writer[q]
          /\ writer' \in [Objects -> {"none", "select", "writing", "ended"}]
          /\ MutexHeld'
      BY <1>5, <1>7
    <2>2. \A q \in Created : q \in Objects
      BY CreatedFacts DEF IInv
    <2>3. /\ Created' = Created /\ InOrder' /\ Named'
          /\ stream' \in Seq(Stream) /\ Len(stream') = Len(stream)
      BY <1>1, <1>4, <1>7, <2>1, <2>2, ArrivedFacts, ClosedKeeps
    <2>4. Typed'
      BY <1>1, <1>3, <2>1, <2>3 DEF IInv, Typed
    <2>5. Unowned'
      BY <1>1, <1>2, <2>1, <2>3, OwnersKeep
    <2> QED
      BY <2>1, <2>3, <2>4, <2>5 DEF IInv
  <1> QED
    BY <1>6, <1>7 DEF WriterWritten

-----------------------------------------------------------------------------
(* Actions that create a stream. *)

(* What a step has to show that creates one. *)
LEMMA CreationKeeps ==
    ASSUME Bounds, IInv, NEW id \in Ids, NEW y \in Stream, Len(stream) + 1 <= MaxObjects,
           stream' = Append(stream, y), y.id = id,
           y.readBuf = <<>>, y.writeCh = <<>>, y.read = 0, y.sent = 0,
           table' = [table EXCEPT ![id] = Len(stream) + 1],
           accept' = accept \/ (/\ Len(accept) < AcceptCapacity
                                /\ accept' = Append(accept, Len(stream) + 1)),
           \A q \in Objects : q # Len(stream) + 1 => writer'[q] = writer[q],
           writer'[Len(stream) + 1] \in {"none", "select"},
           UNCHANGED <<closed, closing, broken, owner, ping, events>>, lock' \in Holders,
           writer' \in [Objects -> {"none", "select", "writing", "ended"}],
           loop' \in LoopStates, loop' = loop \/ loop'.pc = "read", MutexHeld'
    PROVE  IInv'
  <1> DEFINE new == Len(stream) + 1
  <1>1. /\ Created = 1 .. Len(stream) /\ Len(stream) \in Nat /\ new \in Objects /\ new \notin Created
        /\ \A q \in Created : q \in Nat /\ q < new /\ q # new /\ q \in Objects
    BY CreatedFacts DEF IInv, Objects, Bounds
  <1>2. /\ stream' \in Seq(Stream) /\ Len(stream') = new /\ stream'[new] = y
        /\ \A q \in Created : stream'[q] = stream[q]
    <2>1. stream \in Seq(Stream)
      BY DEF IInv, Typed
    <2> QED
      BY <1>1, <2>1, AppendProperties
  <1>3. Created' = Created \cup {new}
    <2>1. Created' = 1 .. Len(stream')
      BY <1>2 DEF Created
    <2>2. 1 .. (Len(stream) + 1) = 1 .. Len(stream) \cup {Len(stream) + 1}
      BY <1>1
    <2> QED
      BY <1>1, <1>2, <2>1, <2>2
  <1>4. \A i \in Ids : table'[i] = IF i = id THEN new ELSE table[i]
    BY DEF IInv, Typed
  <1>5. /\ events \in Nat /\ events' = events /\ Arrived \in Nat /\ Arrived <= events
        /\ Arrived' = Arrived \/ Arrived' = events
    <2>1. Arrived' = Arrived \/ Arrived' = events
      BY DEF Arrived
    <2> QED
      BY <2>1, ArrivedFacts
  <1>6. accept \in Seq(Nat) /\ Len(accept) \in Nat /\ Len(accept) <= AcceptCapacity
    BY DEF IInv, Typed
  <1>7. /\ accept' \in Seq(Nat) /\ Len(accept') <= AcceptCapacity
        /\ \A i \in 1 .. Len(accept') :
             \/ i \in 1 .. Len(accept) /\ accept'[i] = accept[i]
             \/ i = Len(accept) + 1 /\ accept'[i] = new
    <2>1. CASE accept' = accept
      BY <1>6, <2>1
    <2>2. CASE Len(accept) < AcceptCapacity /\ accept' = Append(accept, new)
      BY <1>1, <1>6, <2>2, AppendProperties DEF Bounds
    <2> QED
      BY <2>1, <2>2
  <1> HIDE DEF new
  <1>8. Typed'
    <2>1. table' \in [Ids -> 0 .. MaxObjects]
      <3>1. new \in 0 .. MaxObjects
        BY <1>1 DEF Objects, Bounds
      <3> QED
        BY <3>1 DEF IInv, Typed, new
    <2>2. \A i \in Ids : table'[i] <= Len(stream')
      <3>1. \A i \in Ids : table[i] \in Nat /\ table[i] <= Len(stream)
        BY CreatedFacts DEF IInv, Typed
      <3> QED
        BY <1>1, <1>2, <1>4, <3>1 DEF new
    <2>3. Len(stream') <= MaxObjects
      BY <1>2 DEF new
    <2>4. loop'.pc = "deliver" => loop'.to \in Created'
      BY <1>3, LoopFacts DEF IInv
    <2>5. loop'.pc \in {"handle", "deliver"} => loop'.n <= events'
      BY LoopFacts DEF IInv
    <2> QED
      BY <1>2, <1>7, <2>1, <2>2, <2>3, <2>4, <2>5 DEF IInv, Typed
  <1>9. Unowned'
    <2>1. \A k \in Objects : k \notin Created' => owner'[k] = "none" /\ writer'[k] = "none"
      BY <1>3 DEF IInv, Unowned, new
    <2>2. \A i \in 1 .. Len(accept') : accept'[i] \in Created' /\ owner'[accept'[i]] = "none"
      BY <1>1, <1>3, <1>7 DEF IInv, Unowned
    <2>3. ASSUME NEW i \in 1 .. Len(accept'), NEW j \in 1 .. Len(accept'), i < j
          PROVE  accept'[i] < accept'[j]
      <3>1. i \in 1 .. Len(accept) /\ accept'[i] = accept[i]
        <4>1. \A h \in 1 .. Len(accept') : h <= Len(accept) + 1
          BY <1>6, <1>7
        <4>2. i # Len(accept) + 1
          BY <1>6, <2>3, <4>1
        <4> QED
          BY <1>7, <4>2
      <3>2. CASE j \in 1 .. Len(accept) /\ accept'[j] = accept[j]
        BY <2>3, <3>1, <3>2 DEF IInv, Unowned
      <3>3. CASE accept'[j] = new
        <4>1. accept[i] \in Created
          BY <3>1 DEF IInv, Unowned
        <4> QED
          BY <1>1, <3>1, <3>3, <4>1
      <3> QED
        BY <1>7, <3>2, <3>3
    <2> QED
      BY <2>1, <2>2, <2>3 DEF Unowned
  <1>10. InOrder'
    <2>1. Arrived' \in Nat /\ Arrived <= Arrived' /\ Arrived' <= events'
      BY <1>5
    <2>2. ASSUME NEW k \in Created
          PROVE  Buffered(stream'[k], Arrived', events') /\ (writer'[k] = "writing" => stream'[k].writeCh # <<>>)
      <3>1. Buffered(stream[k], Arrived', events')
        BY <1>5, <2>1, CreatedFacts, BufferedMore DEF IInv, InOrder
      <3>2. writer'[k] = writer[k]
        BY <1>1 DEF new
      <3> QED
        BY <1>2, <3>1, <3>2 DEF IInv, InOrder
    <2>3. Buffered(y, Arrived', events')
      BY <1>5, <2>1 DEF Buffered, Increasing, Bounds
    <2>4. writer'[new] # "writing"
      BY DEF new
    <2> QED
      BY <1>2, <1>3, <2>1, <2>2, <2>3, <2>4 DEF InOrder
  <1>11. Named'
    <2>1. ASSUME NEW i \in Ids, table'[i] # 0 PROVE stream'[table'[i]].id = i
      <3>1. CASE i = id
        BY <1>2, <1>4, <3>1
      <3>2. CASE i # id
        <4>1. table'[i] = table[i] /\ table[i] # 0 /\ table[i] \in Created
          BY <1>4, <2>1, <3>2, CreatedFacts DEF IInv
        <4>2. stream[table[i]].id = i
          BY <4>1 DEF IInv, Named
        <4>3. stream'[table[i]] = stream[table[i]]
          BY <1>2, <4>1
        <4> QED
          BY <4>1, <4>2, <4>3, Zenon
      <3> QED
        BY <3>1, <3>2
    <2>2. ASSUME NEW k \in Created', ~ stream'[k].closed
          PROVE  \/ table'[stream'[k].id] = k
                 \/ \E l \in Created' : l > k /\ stream'[l].id = stream'[k].id
      <3>1. CASE k = new
        BY <1>2, <1>4, <3>1
      <3>2. CASE k \in Created
        <4>1. stream'[k] = stream[k] /\ stream[k].id \in Ids /\ new > k
          BY <1>1, <1>2, <3>2, CreatedFacts, StreamFacts DEF IInv
        <4>2. CASE stream[k].id = id
          BY <1>2, <1>3, <4>1, <4>2
        <4>3. CASE stream[k].id # id
          <5>1. \/ table[stream[k].id] = k
                \/ \E l \in Created : l > k /\ stream[l].id = stream[k].id
            BY <2>2, <3>2, <4>1 DEF IInv, Named
          <5> QED
            BY <1>2, <1>3, <1>4, <4>1, <4>3, <5>1
        <4> QED
          BY <4>2, <4>3
      <3> QED
        BY <1>3, <3>1, <3>2
    <2> QED
      BY <2>1, <2>2 DEF Named
  <1> QED
    BY <1>8, <1>9, <1>10, <1>11 DEF IInv

LEMMA NewStreamFacts ==
    ASSUME NEW id \in Ids, NEW y, y = NewStream(id) \/ y = [NewStream(id) EXCEPT !.closed = TRUE]
    PROVE  /\ y \in Stream /\ y.id = id /\ y.readBuf = <<>> /\ y.writeCh = <<>>
           /\ y.read = 0 /\ y.sent = 0
  <1>1. \A shut \in BOOLEAN :
          [id |-> id, closed |-> shut, readBuf |-> <<>>, writeCh |-> <<>>,
           read |-> 0, sent |-> 0] \in Stream
    BY DEF Stream
  <1>2. \E shut \in BOOLEAN :
          y = [id |-> id, closed |-> shut, readBuf |-> <<>>, writeCh |-> <<>>,
               read |-> 0, sent |-> 0]
    BY DEF NewStream
  <1> QED
    BY <1>1, <1>2

LEMMA OpeningKeeps ==
    ASSUME Bounds, IInv, HandleOpenFrame \/ \E id \in Ids : OpenStream(id) PROVE IInv'
  <1> DEFINE new == Len(stream) + 1
  <1>1. /\ Len(stream) \in Nat /\ owner \in [Objects -> {"none", "user", "lock", "writing", "done"}]
        /\ writer \in [Objects -> {"none", "select", "writing", "ended"}] /\ loop \in LoopStates
    BY CreatedFacts DEF IInv, Typed
  <1>2. CASE HandleOpenFrame
    <2>1. /\ loop.pc = "handle" /\ lock = Free /\ lock' = lock /\ new <= MaxObjects /\ loop' = Reading
          /\ table' = [table EXCEPT ![loop.id] = new] /\ writer' = [writer EXCEPT ![new] = "select"]
          /\ accept' = accept \/ (Len(accept) < AcceptCapacity /\ accept' = Append(accept, new))
          /\ UNCHANGED <<closed, closing, broken, owner, ping, events>>
      BY <1>2 DEF HandleOpenFrame, Handles
    <2>2. PICK y : /\ y = NewStream(loop.id) \/ y = [NewStream(loop.id) EXCEPT !.closed = TRUE]
                   /\ stream' = Append(stream, y)
      BY <1>2 DEF HandleOpenFrame
    <2>3. loop.id \in Ids
      BY <2>1, LoopFacts DEF IInv
    <2>4. /\ y \in Stream /\ y.id = loop.id /\ y.readBuf = <<>> /\ y.writeCh = <<>>
          /\ y.read = 0 /\ y.sent = 0
      BY <2>2, <2>3, NewStreamFacts
    <2>5. /\ lock' \in Holders /\ loop' \in LoopStates /\ loop'.pc = "read" /\ lock'.who = "free"
      BY <2>1, LockFacts, LoopRecords
    <2>6. new \in Objects
      BY <1>1, <2>1 DEF Objects, Bounds
    <2>7. \A q \in Objects : writer'[q] = IF q = new THEN "select" ELSE writer[q]
      BY <1>1, <2>1
    <2>8. writer' \in [Objects -> {"none", "select", "writing", "ended"}]
      BY <1>1, <2>1
    <2>9. MutexHeld'
      BY <2>1, <2>5, <2>7 DEF IInv, MutexHeld
    <2> QED
      BY <2>1, <2>2, <2>3, <2>4, <2>5, <2>6, <2>7, <2>8, <2>9, CreationKeeps
  <1>3. ASSUME NEW id \in Ids, OpenStream(id) PROVE IInv'
    <2>1. /\ lock = Free /\ new <= MaxObjects /\ stream' = Append(stream, NewStream(id))
          /\ table' = [table EXCEPT ![id] = new] /\ lock' = Stuck
          /\ UNCHANGED <<closed, closing, broken, accept, owner, writer, loop, ping, events>>
      BY <1>3 DEF OpenStream
    <2>2. PICK y : y = NewStream(id)
      OBVIOUS
    <2>3. /\ y \in Stream /\ y.id = id /\ y.readBuf = <<>> /\ y.writeCh = <<>>
          /\ y.read = 0 /\ y.sent = 0
      BY <2>2, NewStreamFacts
    <2>4. lock' \in Holders /\ lock.who = "free" /\ lock'.who = "itself"
      BY <2>1, LockFacts
    <2>5. new \in Objects /\ new \notin Created
      BY <1>1, <2>1, CreatedFacts DEF Objects, Bounds, IInv
    <2>6. writer[new] = "none"
      BY <2>5 DEF IInv, Unowned
    <2>7. MutexHeld'
      BY <2>1, <2>4 DEF IInv, MutexHeld
    <2> QED
      BY <1>1, <2>1, <2>2, <2>3, <2>4, <2>5, <2>6, <2>7, CreationKeeps
  <1> QED
    BY <1>2, <1>3

-----------------------------------------------------------------------------

LEMMA MuxStarts == ASSUME Bounds, Init PROVE IInv
  <1>1. Created = {} /\ Len(stream) = 0 /\ stream \in Seq(Stream) /\ accept \in Seq(Nat) /\ Len(accept) = 0
    BY DEF Init, Created
  <1>2. lock \in Holders /\ lock.who = "free" /\ loop \in LoopStates /\ loop.pc = "read"
    BY LockFacts, LoopRecords DEF Init
  <1>3. Typed
    <2>1. /\ owner \in [Objects -> {"none", "user", "lock", "writing", "done"}]
          /\ writer \in [Objects -> {"none", "select", "writing", "ended"}]
          /\ table \in [Ids -> 0 .. MaxObjects] /\ \A i \in Ids : table[i] = 0
      BY DEF Init, Bounds
    <2>2. /\ closed \in BOOLEAN /\ closing \in {"no", "lock", "done"} /\ broken \in BOOLEAN
          /\ ping \in {"select", "writing", "ended"}
      BY DEF Init
    <2>3. /\ Len(stream) <= MaxObjects /\ Len(accept) <= AcceptCapacity
          /\ \A i \in Ids : table[i] <= Len(stream)
      BY <1>1, <2>1 DEF Bounds
    <2>4. events \in 0 .. MaxEvents
      BY DEF Init, Bounds
    <2> QED
      BY <1>1, <1>2, <2>1, <2>2, <2>3, <2>4 DEF Typed
  <1>4. MutexHeld
    BY <1>2 DEF Init, MutexHeld
  <1>5. Unowned
    BY <1>1 DEF Init, Unowned
  <1>6. InOrder
    BY <1>1, <1>2 DEF Init, InOrder, Arrived
  <1>7. Named
    BY <1>1 DEF Init, Named
  <1> QED
    BY <1>3, <1>4, <1>5, <1>6, <1>7 DEF IInv

LEMMA MuxInvariant ==
    ASSUME Bounds PROVE Spec => []IInv
  <1>1. Init => IInv
    BY MuxStarts
  <1>2. IInv /\ [Next]_vars => IInv'
    <2> SUFFICES ASSUME IInv, [Next]_vars PROVE IInv'
      OBVIOUS
    <2>1. CASE UNCHANGED vars
      BY <2>1 DEF vars, IInv, Typed, MutexHeld, Unowned, InOrder, Named, Arrived, Created
    <2>2. CASE LoopGoes
      BY <2>2, ReadingKeeps, HandlingKeeps, DeliverKeeps, OpeningKeeps, HandleCloseKeeps DEF LoopGoes
    <2>3. ASSUME NEW k \in Created,
                 Read(k) \/ Write(k) \/ CloseStream(k) \/ CloseLocks(k) \/ CloseWritten(k)
                 \/ WriterGoes(k) \/ WriterWritten(k)
          PROVE  IInv'
      BY <2>3, ReadKeeps, WriteKeeps, CloseStreamKeeps, ClosesOwnKeeps, WriterGoesKeeps,
         WriterWrittenKeeps DEF WriterGoes
    <2> QED
      BY <2>1, <2>2, <2>3, FinishCloseKeeps, ClosingKeeps, ReadingKeeps, HandlingKeeps,
         PingingKeeps, AcceptKeeps, OpeningKeeps DEF Next
  <1> QED
    BY <1>1, <1>2, PTL DEF Spec

(* Every variable keeps its type, and no buffer or queue of mux.go exceeds its
   capacity. *)
THEOREM MuxTypeCorrect ==
    ASSUME Bounds PROVE Spec => []TypeOK
  <1>1. IInv => TypeOK
    <2> SUFFICES ASSUME IInv PROVE TypeOK
      OBVIOUS
    <2>1. accept \in Seq(Created)
      <3>1. accept \in Seq(Nat) /\ \A i \in 1 .. Len(accept) : accept[i] \in Created
        BY DEF IInv, Typed, Unowned
      <3> QED
        BY <3>1
    <2>2. loop.pc \in {"read", "handle", "deliver", "writing", "stuck", "ended"}
      BY LoopFacts DEF IInv
    <2> QED
      BY <2>1, <2>2 DEF IInv, Typed, InOrder, Buffered, TypeOK
  <1> QED
    BY <1>1, MuxInvariant, PTL

(* At most one goroutine is writing to the connection, and none while the mutex is
   free or waits for itself. *)
WritesAlone ==
    /\ lock \in {Free, Stuck} => /\ loop.pc # "writing" /\ ping # "writing"
                                 /\ \A k \in Objects : writer[k] # "writing" /\ owner[k] # "writing"
    /\ \A k, l \in Objects : /\ writer[k] = "writing" /\ writer[l] = "writing" => k = l
                             /\ owner[k] = "writing" /\ owner[l] = "writing" => k = l
                             /\ ~ (writer[k] = "writing" /\ owner[l] = "writing")
                             /\ loop.pc = "writing" \/ ping = "writing" =>
                                  writer[k] # "writing" /\ owner[k] # "writing"
    /\ ~ (loop.pc = "writing" /\ ping = "writing")

(* The frames on the connection are not interleaved, because writeFrame holds the
   mutex of the multiplexer, whichever goroutine calls it. *)
THEOREM OneWritesAtATime ==
    ASSUME Bounds PROVE Spec => []WritesAlone
  <1>1. IInv => WritesAlone
    <2> SUFFICES ASSUME IInv PROVE WritesAlone
      OBVIOUS
    <2>1. lock \in {Free, Stuck} => lock.who \in {"free", "itself"}
      BY LockFacts
    <2> QED
      BY <2>1, CreatedFacts DEF IInv, MutexHeld, WritesAlone
  <1> QED
    BY <1>1, MuxInvariant, PTL

(* A mutex whose holder waits for it is never free again. *)
NeverFreeAgain == [][lock = Stuck => lock' = Stuck]_vars

(* One call of OpenStream, or one open frame at the stream limit, stops the
   multiplexer for good, and Close with it (writeFrame under the mutex, mux.go). *)
THEOREM StuckForEver ==
    ASSUME Bounds PROVE Spec => NeverFreeAgain
  <1>1. IInv /\ [Next]_vars => [lock = Stuck => lock' = Stuck]_vars
    <2> SUFFICES ASSUME IInv, Next, lock = Stuck PROVE lock' = Stuck
      BY DEF vars
    <2>1. /\ lock # Free /\ lock.who = "itself" /\ loop.pc # "writing" /\ ping # "writing"
          /\ \A k \in Created : writer[k] # "writing" /\ owner[k] # "writing"
      BY LockFacts, CreatedFacts DEF IInv, MutexHeld
    <2>2. CASE LoopGoes
      BY <2>1, <2>2 DEF LoopGoes, LoopFails, HandleDataFrame, Deliver, HandleOpenFrame,
         HandleOpenFrameAtLimit, HandleCloseFrame, AnswerPing, Handles
    <2>3. CASE LoopReads \/ LoopStops \/ PongWritten \/ Tick \/ PingWritten \/ PingEnds
      BY <2>1, <2>3 DEF LoopReads, LoopStops, PongWritten, Tick, PingWritten, PingEnds
    <2>4. CASE FinishClose \/ UserCloses \/ Break \/ AcceptStream \/ \E id \in Ids : OpenStream(id)
      BY <2>1, <2>4 DEF FinishClose, UserCloses, Break, AcceptStream, OpenStream
    <2>5. ASSUME NEW k \in Created,
                 Read(k) \/ Write(k) \/ CloseStream(k) \/ CloseLocks(k) \/ CloseWritten(k)
                 \/ WriterGoes(k) \/ WriterWritten(k)
          PROVE  lock' = Stuck
      BY <2>1, <2>5 DEF Read, Write, CloseStream, CloseLocks, CloseWritten, WriterGoes,
         WriterTakes, WriterEnds, WriterWritten
    <2> QED
      BY <2>2, <2>3, <2>4, <2>5 DEF Next
  <1> QED
    BY <1>1, MuxInvariant, PTL DEF Spec, NeverFreeAgain

(* An open stream is lost to the table only if its identifier was opened again
   (handleOpenFrame). *)
THEOREM StreamsStayNamed ==
    ASSUME Bounds PROVE Spec => []LostOnlyIfReopened
  <1>1. IInv => LostOnlyIfReopened
    BY DEF IInv, Named, LostOnlyIfReopened
  <1> QED
    BY <1>1, MuxInvariant, PTL

(* A read or a write takes the first of what is buffered, and leaves the rest. *)
LEMMA NextChunks ==
    ASSUME Bounds, IInv, Next PROVE StreamsInOrder
  <1>1. /\ Created = 1 .. Len(stream) /\ Len(stream) \in Nat /\ stream \in Seq(Stream)
        /\ \A k \in Created : stream[k] \in Stream /\ Buffered(stream[k], Arrived, events)
    BY CreatedFacts DEF IInv, Typed, InOrder
  <1>2. Arrived \in Nat /\ events \in Nat
    BY ArrivedFacts
  <1> SUFFICES ASSUME NEW k \in Created
               PROVE  /\ stream'[k].read = stream[k].read \/ stream'[k].read > stream[k].read
                      /\ stream'[k].sent = stream[k].sent \/ stream'[k].sent > stream[k].sent
    BY DEF StreamsInOrder
  <1>3. ASSUME NEW S, CloseStreams(S)
        PROVE  stream'[k].read = stream[k].read /\ stream'[k].sent = stream[k].sent
    BY <1>3, CloseKeeps DEF IInv
  <1>4. ASSUME NEW y, stream' = Append(stream, y)
        PROVE  stream'[k] = stream[k]
    BY <1>1, <1>4
  <1>5. ASSUME NEW l \in Created, NEW y \in Stream, stream' = [stream EXCEPT ![l] = y],
               y.read = stream[l].read \/ y.read > stream[l].read,
               y.sent = stream[l].sent \/ y.sent > stream[l].sent
        PROVE  /\ stream'[k].read = stream[k].read \/ stream'[k].read > stream[k].read
               /\ stream'[k].sent = stream[k].sent \/ stream'[k].sent > stream[k].sent
    <2>1. CASE k = l
      <3>1. stream'[k] = y
        BY <1>1, <1>5, <2>1
      <3> QED
        BY <1>5, <2>1, <3>1
    <2>2. CASE k # l
      <3>1. stream'[k] = stream[k]
        BY <1>1, <1>5, <2>2
      <3> QED
        BY <3>1
    <2> QED
      BY <2>1, <2>2
  <1>6. CASE \/ UNCHANGED stream \/ (\E S : CloseStreams(S)) \/ \E y : stream' = Append(stream, y)
    BY <1>3, <1>4, <1>6
  <1>7. CASE Deliver
    <2> DEFINE l == loop.to
               y == [stream[l] EXCEPT !.readBuf = Append(@, loop.n)]
    <2>1. l \in Created /\ loop.n \in Nat
      BY <1>7, LoopFacts DEF IInv, Deliver
    <2>2. UNCHANGED stream \/ stream' = [stream EXCEPT ![l] = y]
      BY <1>7 DEF Deliver
    <2>3. stream[l] \in Stream /\ Append(stream[l].readBuf, loop.n) \in Seq(Nat)
      BY <1>1, <2>1, StreamFacts, AppendProperties
    <2>4. y \in Stream /\ y.read = stream[l].read /\ y.sent = stream[l].sent
      BY <2>3 DEF Stream
    <2> HIDE DEF y, l
    <2> QED
      BY <1>5, <1>6, <2>1, <2>2, <2>4
  <1>8. ASSUME NEW l \in Created, Write(l)
        PROVE  /\ stream'[k].read = stream[k].read \/ stream'[k].read > stream[k].read
               /\ stream'[k].sent = stream[k].sent \/ stream'[k].sent > stream[k].sent
    <2> DEFINE y == [stream[l] EXCEPT !.writeCh = Append(@, events')]
    <2>1. stream' = [stream EXCEPT ![l] = y] /\ events' \in Nat
      BY <1>2, <1>8 DEF Write
    <2>2. stream[l] \in Stream /\ Append(stream[l].writeCh, events') \in Seq(Nat)
      BY <1>1, <2>1, StreamFacts, AppendProperties
    <2>3. y \in Stream /\ y.read = stream[l].read /\ y.sent = stream[l].sent
      BY <2>2 DEF Stream
    <2> HIDE DEF y
    <2> QED
      BY <1>5, <2>1, <2>3
  <1>9. ASSUME NEW l \in Created, Read(l)
        PROVE  /\ stream'[k].read = stream[k].read \/ stream'[k].read > stream[k].read
               /\ stream'[k].sent = stream[k].sent \/ stream'[k].sent > stream[k].sent
    <2> DEFINE x == stream[l]
               y == [x EXCEPT !.readBuf = Tail(@), !.read = Head(x.readBuf)]
    <2>1. x.readBuf # <<>> /\ stream' = [stream EXCEPT ![l] = y]
      BY <1>9 DEF Read
    <2>2. x \in Stream /\ Increasing(x.read, x.readBuf, Arrived)
      BY <1>1 DEF Buffered
    <2>3. Tail(x.readBuf) \in Seq(Nat) /\ Head(x.readBuf) \in Nat /\ Head(x.readBuf) > x.read
      BY <1>2, <2>1, <2>2, StreamFacts, IncreasingTail
    <2>4. y \in Stream /\ y.read = Head(x.readBuf) /\ y.sent = x.sent
      BY <2>2, <2>3 DEF Stream
    <2> HIDE DEF y
    <2> QED
      BY <1>5, <2>1, <2>3, <2>4
  <1>10. ASSUME NEW l \in Created, WriterWritten(l)
         PROVE  /\ stream'[k].read = stream[k].read \/ stream'[k].read > stream[k].read
                /\ stream'[k].sent = stream[k].sent \/ stream'[k].sent > stream[k].sent
    <2>1. CASE CloseStreams({l})
      BY <1>6, <2>1
    <2>2. CASE stream' = [stream EXCEPT ![l].writeCh = Tail(@), ![l].sent = Head(stream[l].writeCh)]
      <3> DEFINE x == stream[l]
                 y == [x EXCEPT !.writeCh = Tail(@), !.sent = Head(x.writeCh)]
      <3>1. x.writeCh # <<>> /\ stream' = [stream EXCEPT ![l] = y]
        BY <1>10, <2>2 DEF WriterWritten, IInv, InOrder
      <3>2. x \in Stream /\ Increasing(x.sent, x.writeCh, events)
        BY <1>1 DEF Buffered
      <3>3. Tail(x.writeCh) \in Seq(Nat) /\ Head(x.writeCh) \in Nat /\ Head(x.writeCh) > x.sent
        BY <1>2, <3>1, <3>2, StreamFacts, IncreasingTail
      <3>4. y \in Stream /\ y.sent = Head(x.writeCh) /\ y.read = x.read
        BY <3>2, <3>3 DEF Stream
      <3> HIDE DEF y
      <3> QED
        BY <1>5, <3>1, <3>3, <3>4
    <2> QED
      BY <1>10, <2>1, <2>2 DEF WriterWritten
  <1>11. CASE LoopGoes
    BY <1>6, <1>7, <1>11 DEF LoopGoes, LoopFails, HandleDataFrame, HandleOpenFrame,
       HandleOpenFrameAtLimit, HandleCloseFrame, AnswerPing
  <1>12. CASE LoopReads \/ LoopStops \/ PongWritten \/ Tick \/ PingWritten \/ PingEnds
    BY <1>6, <1>12 DEF LoopReads, LoopStops, PongWritten, Tick, PingWritten, PingEnds
  <1>13. CASE FinishClose \/ UserCloses \/ Break \/ AcceptStream \/ \E id \in Ids : OpenStream(id)
    BY <1>6, <1>13 DEF FinishClose, UserCloses, Break, AcceptStream, OpenStream
  <1>14. ASSUME NEW l \in Created,
                CloseStream(l) \/ CloseLocks(l) \/ CloseWritten(l) \/ WriterGoes(l)
         PROVE  /\ stream'[k].read = stream[k].read \/ stream'[k].read > stream[k].read
                /\ stream'[k].sent = stream[k].sent \/ stream'[k].sent > stream[k].sent
    BY <1>6, <1>14 DEF CloseStream, CloseLocks, CloseWritten, WriterGoes, WriterTakes, WriterEnds
  <1> QED
    BY <1>8, <1>9, <1>10, <1>11, <1>12, <1>13, <1>14 DEF Next

(* The owner of a stream reads the peer's chunks, and the peer gets the owner's, in
   order and none twice, whatever frames arrive for whatever streams. *)
THEOREM ChunksStayInOrder ==
    ASSUME Bounds PROVE Spec => [][StreamsInOrder]_vars
  <1>1. IInv /\ [Next]_vars => [StreamsInOrder]_vars
    BY NextChunks
  <1> QED
    BY <1>1, MuxInvariant, PTL DEF Spec

=============================================================================
