-------------------------- MODULE UDPListenerProofs --------------------------
(***************************************************************************)
(* Proofs about module UDPListener, for any addresses and for sessions,    *)
(* datagrams and channels of any number and size.                          *)
(*                                                                         *)
(* What is checked of the table and of the panic turns on two facts: demux *)
(* holds the listener's lock from its look at a session to its send, so    *)
(* that Close cannot come between; and a session leaves the table only by  *)
(* the cleanup of its own owner, who is the one that closed it.            *)
(***************************************************************************)
EXTENDS UDPListener, SequenceTheorems, TLAPS

(* What reading the first element leaves. *)
LEMMA TailElements ==
    ASSUME NEW T, NEW s \in Seq(T), s # <<>>
    PROVE  /\ Tail(s) \in Seq(T) /\ Len(Tail(s)) = Len(s) - 1
           /\ \A j \in 1 .. Len(Tail(s)) : Tail(s)[j] = s[j + 1]
           /\ Head(s) = s[1] /\ 1 \in 1 .. Len(s) /\ Head(s) \in T
  BY HeadTailProperties

Bounds == /\ MaxSessions \in Nat /\ MaxDatagrams \in Nat
          /\ AcceptCapacity \in Nat /\ ReadCapacity \in Nat \ {0}

Session == [addr : Addrs, closedBy : {"nobody", "owner", "listener", "demux"},
            queue : Seq(Nat), pending : Seq(Nat), last : Nat]

Typed ==
    /\ listener \in {"open", "closing", "closed"}
    /\ table \in [Addrs -> 0 .. MaxSessions]
    /\ accept \in Seq(Sessions) /\ Len(accept) <= AcceptCapacity
    /\ session \in Seq(Session) /\ Len(session) <= MaxSessions
    /\ \A s \in Created : Len(session[s].queue) <= ReadCapacity
    /\ reader \in [Sessions -> {"none", "idle", "waiting"}]
    /\ closer \in [Sessions -> {"no", "cleanup", "done"}]
    /\ demux \in Demux /\ received \in 0 .. MaxDatagrams
    /\ toClose \subseteq Created

(* What refers to a session refers to one that was created, under its address. *)
Known ==
    /\ \A a \in Addrs : table[a] # 0 => table[a] \in Created /\ session[table[a]].addr = a
    /\ demux.pc \in {"send", "panicked"} => demux.to \in Created
    /\ \A s \in Sessions : closer[s] # "no" => s \in Created

(* Who closed the session that demux pushes to, and the one that an owner cleans up. *)
ClosedByOwner ==
    /\ demux.pc = "send" =>
         listener = "open" /\ session[demux.to].closedBy \in {"nobody", "owner"}
    /\ demux.pc = "panicked" => session[demux.to].closedBy = "owner"
    /\ \A s \in Sessions : closer[s] = "cleanup" => session[s].closedBy = "owner"

(* What a session has to give: the second piece of the datagram read last, or
   nothing; then the datagrams of its queue, each later than the one before, none
   later than datagram m. *)
Ordered(x, m) ==
    /\ \E d \in Nat : \/ d > 0 /\ x.last = 2 * d /\ x.pending = <<2 * d + 1>>
                      \/ d > 0 /\ x.last = 2 * d + 1 /\ x.pending = <<>>
                      \/ x.last = 0 /\ x.pending = <<>>
    /\ x.last <= 2 * m + 1
    /\ \A i \in 1 .. Len(x.queue) : x.last < 2 * x.queue[i] /\ x.queue[i] <= m
    /\ \A i, j \in 1 .. Len(x.queue) : i < j => x.queue[i] < x.queue[j]

InOrder ==
    /\ \A s \in Created : Ordered(session[s], received)
    /\ \A s \in Created : reader[s] = "waiting" => session[s].pending = <<>>
    /\ demux.pc = "send" =>
         demux.datagram = received /\ Ordered(session[demux.to], received - 1)

IInv == Typed /\ Known /\ ClosedByOwner /\ InOrder /\ TableExact

-----------------------------------------------------------------------------
(* Records and indices, as the proofs use them. *)

LEMMA CreatedFacts ==
    ASSUME Bounds, Typed
    PROVE  /\ Created = 1 .. Len(session) /\ Len(session) \in Nat
           /\ \A s \in Created : session[s] \in Session /\ s \in Sessions /\ s # 0
  BY DEF Bounds, Typed, Created, Sessions

LEMMA SessionFacts ==
    ASSUME NEW x \in Session
    PROVE  /\ x.addr \in Addrs /\ x.closedBy \in {"nobody", "owner", "listener", "demux"}
           /\ x.queue \in Seq(Nat) /\ x.pending \in Seq(Nat) /\ x.last \in Nat
  BY DEF Session

LEMMA DemuxFacts ==
    ASSUME Bounds, Typed
    PROVE  /\ demux.pc \in {"read", "ended", "send", "panicked"}
           /\ demux.pc \in {"send", "panicked"} =>
                demux.to \in Sessions /\ demux.datagram \in 1 .. MaxDatagrams
  BY DEF Typed, Demux

LEMMA DemuxRecords ==
    /\ [pc |-> "read"] \in Demux /\ [pc |-> "ended"] \in Demux
    /\ \A s \in Sessions, d \in 1 .. MaxDatagrams :
         [pc |-> "send", to |-> s, datagram |-> d] \in Demux
  BY DEF Demux

(* One session changes. *)
LEMMA Replaced ==
    ASSUME Bounds, Typed, NEW s \in Created, NEW y \in Session,
           session' = [session EXCEPT ![s] = y]
    PROVE  /\ session' \in Seq(Session) /\ Len(session') = Len(session)
           /\ Created' = Created /\ session'[s] = y
           /\ \A t \in Created : t # s => session'[t] = session[t]
  BY DEF Typed, Created

(* A session is closed. *)
LEMMA Shut ==
    ASSUME Bounds, Typed, NEW s \in Created,
           NEW who \in {"nobody", "owner", "listener", "demux"}, Close(s, who)
    PROVE  /\ session' \in Seq(Session) /\ Len(session') = Len(session)
           /\ Created' = Created
           /\ \A t \in Created : t # s => session'[t] = session[t]
           /\ session'[s].closedBy = who
           /\ \A t \in Created : /\ session'[t].addr = session[t].addr
                                 /\ session'[t].queue = session[t].queue
                                 /\ session'[t].pending = session[t].pending
                                 /\ session'[t].last = session[t].last
  <1> DEFINE y == [session[s] EXCEPT !.closedBy = who]
  <1>1. session[s] \in Session
    BY CreatedFacts
  <1>2. /\ y \in Session /\ y.closedBy = who /\ y.addr = session[s].addr
        /\ y.queue = session[s].queue /\ y.pending = session[s].pending
        /\ y.last = session[s].last
    BY <1>1 DEF Session
  <1>3. session' = [session EXCEPT ![s] = y]
    BY DEF Close
  <1> HIDE DEF y
  <1>4. /\ session' \in Seq(Session) /\ Len(session') = Len(session)
        /\ Created' = Created /\ session'[s] = y
        /\ \A t \in Created : t # s => session'[t] = session[t]
    BY <1>2, <1>3, Replaced
  <1> QED
    BY <1>2, <1>4

-----------------------------------------------------------------------------
(* What reads and pushes do to the order of one session. *)

LEMMA OrderedLater ==
    ASSUME NEW x \in Session, NEW m \in Nat, NEW n \in Nat, m <= n, Ordered(x, m)
    PROVE  Ordered(x, n)
  <1>1. /\ x.last \in Nat /\ \A i \in 1 .. Len(x.queue) : x.queue[i] \in Nat
    BY SessionFacts
  <1>2. x.last <= 2 * n + 1
    BY <1>1 DEF Ordered
  <1>3. \A i \in 1 .. Len(x.queue) : x.last < 2 * x.queue[i] /\ x.queue[i] <= n
    BY <1>1 DEF Ordered
  <1> QED
    BY <1>2, <1>3, Zenon DEF Ordered

(* What matters of a session is what it holds. *)
LEMMA OrderedSame ==
    ASSUME NEW x, NEW y, NEW m, Ordered(x, m),
           y.queue = x.queue, y.pending = x.pending, y.last = x.last
    PROVE  Ordered(y, m)
  BY Zenon DEF Ordered

Pushed(x, m) == [x EXCEPT !.queue = Append(@, m)]

LEMMA PushKeeps ==
    ASSUME NEW x \in Session, NEW m \in Nat \ {0}, Ordered(x, m - 1)
    PROVE  /\ Pushed(x, m) \in Session /\ Ordered(Pushed(x, m), m)
           /\ Pushed(x, m).addr = x.addr /\ Pushed(x, m).closedBy = x.closedBy
           /\ Pushed(x, m).pending = x.pending /\ Pushed(x, m).last = x.last
           /\ Len(Pushed(x, m).queue) = Len(x.queue) + 1
  <1> DEFINE y == Pushed(x, m)
             q == x.queue
  <1>1. q \in Seq(Nat) /\ x.last \in Nat /\ Len(q) \in Nat
    BY SessionFacts
  <1>2. /\ y \in Session /\ y.queue = Append(q, m)
        /\ y.addr = x.addr /\ y.closedBy = x.closedBy
        /\ y.pending = x.pending /\ y.last = x.last
    <2>1. Append(q, m) \in Seq(Nat)
      BY <1>1
    <2>2. x \in Session /\ y = [x EXCEPT !.queue = Append(x.queue, m)]
      BY DEF Pushed
    <2> HIDE DEF y
    <2>3. /\ y.queue = Append(q, m) /\ y.addr = x.addr /\ y.closedBy = x.closedBy
          /\ y.pending = x.pending /\ y.last = x.last
      BY <2>2 DEF Session
    <2>4. y \in Session
      BY <2>1, <2>2 DEF Session
    <2> QED
      BY <2>3, <2>4
  <1>3. /\ Len(y.queue) = Len(q) + 1 /\ y.queue[Len(q) + 1] = m
        /\ \A i \in 1 .. Len(q) : y.queue[i] = q[i] /\ q[i] \in Nat
    BY <1>1, <1>2
  <1>4. \A i \in 1 .. Len(q) + 1 : i \in 1 .. Len(q) \/ i = Len(q) + 1
    BY <1>1
  <1>5. \A i \in 1 .. Len(q) : x.last < 2 * q[i] /\ q[i] <= m - 1 /\ q[i] < m
    BY <1>1, <1>3 DEF Ordered
  <1>6. x.last < 2 * m /\ x.last <= 2 * m + 1
    BY <1>1 DEF Ordered
  <1> HIDE DEF y
  <1>7. \A i \in 1 .. Len(y.queue) : y.last < 2 * y.queue[i] /\ y.queue[i] <= m
    <2> SUFFICES ASSUME NEW i \in 1 .. Len(y.queue)
                 PROVE  y.last < 2 * y.queue[i] /\ y.queue[i] <= m
      OBVIOUS
    <2>1. CASE i \in 1 .. Len(q)
      <3>1. q[i] \in Nat /\ x.last < 2 * q[i] /\ q[i] <= m
        BY <1>3, <2>1 DEF Ordered
      <3> QED
        BY <1>2, <1>3, <2>1, <3>1
    <2>2. CASE i = Len(q) + 1
      BY <1>2, <1>3, <1>6, <2>2
    <2> QED
      BY <1>3, <1>4, <2>1, <2>2
  <1>8. ASSUME NEW i \in 1 .. Len(y.queue), NEW j \in 1 .. Len(y.queue), i < j
        PROVE  y.queue[i] < y.queue[j]
    <2>1. i \in 1 .. Len(q)
      BY <1>1, <1>3, <1>8
    <2>2. CASE j \in 1 .. Len(q)
      BY <1>3, <1>8, <2>1, <2>2 DEF Ordered
    <2>3. CASE j = Len(q) + 1
      BY <1>3, <1>5, <2>1, <2>3
    <2> QED
      BY <1>3, <1>4, <2>2, <2>3
  <1>9. Ordered(y, m)
    <2>1. \E d \in Nat : \/ d > 0 /\ x.last = 2 * d /\ x.pending = <<2 * d + 1>>
                         \/ d > 0 /\ x.last = 2 * d + 1 /\ x.pending = <<>>
                         \/ x.last = 0 /\ x.pending = <<>>
      BY DEF Ordered
    <2>2. \E d \in Nat : \/ d > 0 /\ y.last = 2 * d /\ y.pending = <<2 * d + 1>>
                         \/ d > 0 /\ y.last = 2 * d + 1 /\ y.pending = <<>>
                         \/ y.last = 0 /\ y.pending = <<>>
      BY <1>2, <2>1, Zenon
    <2>3. y.last <= 2 * m + 1
      BY <1>2, <1>6
    <2> QED
      BY <1>7, <1>8, <2>2, <2>3, Zenon DEF Ordered
  <1> QED
    BY <1>2, <1>3, <1>9 DEF y

(* What Read leaves of a session when it copies n pieces of data. *)
Delivered(x, data, n) ==
    [x EXCEPT !.pending = SubSeq(data, n + 1, Len(data)), !.last = data[n],
              !.queue = IF x.pending = <<>> THEN Tail(@) ELSE @]

(* The next piece of the session comes right after the one read last, or is the
   first of a later datagram. *)
NextPiece(x, y) ==
    y.last > x.last /\ (x.last # 0 /\ x.last % 2 = 0 => y.last = x.last + 1)

LEMMA PendingKeeps ==
    ASSUME NEW x \in Session, NEW m \in Nat, Ordered(x, m), x.pending # <<>>,
           NEW n \in DOMAIN x.pending, NEW y, y = Delivered(x, x.pending, n)
    PROVE  /\ y \in Session /\ Ordered(y, m) /\ NextPiece(x, y) /\ y.pending = <<>>
           /\ y.addr = x.addr /\ y.closedBy = x.closedBy /\ y.queue = x.queue
  <1>1. PICK d \in Nat : d > 0 /\ x.last = 2 * d /\ x.pending = <<2 * d + 1>>
    BY DEF Ordered
  <1>2. n = 1 /\ x.pending[n] = 2 * d + 1 /\ Len(x.pending) = 1
    BY <1>1
  <1>3. SubSeq(x.pending, n + 1, Len(x.pending)) = <<>>
    BY <1>1, <1>2
  <1>4. /\ y \in Session /\ y.addr = x.addr /\ y.closedBy = x.closedBy
        /\ y.queue = x.queue /\ y.pending = <<>> /\ y.last = 2 * d + 1
    <2>1. y = [x EXCEPT !.pending = <<>>, !.last = 2 * d + 1, !.queue = x.queue]
      BY <1>2, <1>3 DEF Delivered
    <2>2. <<>> \in Seq(Nat) /\ 2 * d + 1 \in Nat
      OBVIOUS
    <2> QED
      BY <2>1, <2>2 DEF Session
  <1>5. \A i \in 1 .. Len(x.queue) : x.queue[i] \in Nat
    BY SessionFacts
  <1>6. \A i \in 1 .. Len(y.queue) : y.last < 2 * y.queue[i] /\ y.queue[i] <= m
    <2>1. \A i \in 1 .. Len(x.queue) : 2 * d < 2 * x.queue[i] /\ x.queue[i] <= m
      BY <1>1 DEF Ordered
    <2> QED
      BY <1>4, <1>5, <2>1
  <1>7. y.last <= 2 * m + 1
    BY <1>1, <1>4 DEF Ordered
  <1>8. Ordered(y, m)
    BY <1>1, <1>4, <1>6, <1>7 DEF Ordered
  <1>9. NextPiece(x, y)
    BY <1>1, <1>4 DEF NextPiece
  <1> QED
    BY <1>4, <1>8, <1>9

LEMMA QueueKeeps ==
    ASSUME NEW x \in Session, NEW m \in Nat, Ordered(x, m), x.pending = <<>>,
           x.queue # <<>>, NEW n \in 1 .. 2, NEW y,
           y = Delivered(x, Pieces(Head(x.queue)), n)
    PROVE  /\ y \in Session /\ Ordered(y, m) /\ NextPiece(x, y)
           /\ y.addr = x.addr /\ y.closedBy = x.closedBy
           /\ Len(y.queue) <= Len(x.queue)
  <1> DEFINE q == Head(x.queue)
             t == Tail(x.queue)
  <1>1. /\ x.queue \in Seq(Nat) /\ x.last \in Nat /\ Len(x.queue) \in Nat
        /\ \A i \in 1 .. Len(x.queue) : x.queue[i] \in Nat
    BY SessionFacts
  <1>2. /\ t \in Seq(Nat) /\ Len(t) = Len(x.queue) - 1 /\ q \in Nat
        /\ \A i \in 1 .. Len(t) : t[i] = x.queue[i + 1]
        /\ q = x.queue[1] /\ 1 \in 1 .. Len(x.queue)
    BY <1>1, TailElements
  <1>3. x.last < 2 * q /\ q <= m
    BY <1>2 DEF Ordered
  <1> HIDE DEF q, t
  <1>4. /\ Len(Pieces(q)) = 2
        /\ n = 1 => Pieces(q)[n] = 2 * q /\ SubSeq(Pieces(q), n + 1, 2) = <<2 * q + 1>>
        /\ n = 2 => Pieces(q)[n] = 2 * q + 1 /\ SubSeq(Pieces(q), n + 1, 2) = <<>>
    <2>1. /\ Pieces(q) \in Seq(Nat) /\ Len(Pieces(q)) = 2
          /\ Pieces(q)[1] = 2 * q /\ Pieces(q)[2] = 2 * q + 1
      BY <1>2 DEF Pieces
    <2>2. SubSeq(Pieces(q), 1 + 1, 2) = <<2 * q + 1>>
      <3> DEFINE u == SubSeq(Pieces(q), 2, 2)
      <3>1. \A i \in 2 .. 2 : Pieces(q)[i] \in Nat
        BY <1>2, <2>1
      <3>2. u \in Seq(Nat) /\ Len(u) = 1 /\ \A i \in 1 .. 1 : u[i] = Pieces(q)[2 + i - 1]
        BY <3>1, SubSeqProperties
      <3>3. u[1] = 2 * q + 1
        BY <2>1, <3>2
      <3> HIDE DEF u
      <3>4. u = <<2 * q + 1>>
        BY <1>2, <3>2, <3>3
      <3>5. 1 + 1 = 2
        OBVIOUS
      <3> QED
        BY <3>4, <3>5 DEF u
    <2>3. SubSeq(Pieces(q), 2 + 1, 2) = <<>>
      BY SubSeqEmpty
    <2> QED
      BY <2>1, <2>2, <2>3
  <1>5. /\ y.addr = x.addr /\ y.closedBy = x.closedBy /\ y.queue = t
        /\ y.pending = SubSeq(Pieces(q), n + 1, 2) /\ y.last = Pieces(q)[n]
        /\ y = [addr |-> x.addr, closedBy |-> x.closedBy, queue |-> t,
                pending |-> SubSeq(Pieces(q), n + 1, 2), last |-> Pieces(q)[n]]
    BY <1>4 DEF Delivered, Session, q, t
  <1>6. Pieces(q)[n] \in Nat /\ SubSeq(Pieces(q), n + 1, 2) \in Seq(Nat)
    <2>0. 2 * q \in Nat /\ 2 * q + 1 \in Nat /\ <<2 * q + 1>> \in Seq(Nat) /\ <<>> \in Seq(Nat)
      BY <1>2
    <2>1. CASE n = 1
      BY <1>4, <2>0, <2>1, Zenon
    <2>2. CASE n = 2
      BY <1>4, <2>0, <2>2, Zenon
    <2> QED
      BY <2>1, <2>2
  <1>7. y \in Session
    BY <1>2, <1>5, <1>6, SessionFacts DEF Session
  <1>8. n = 1 \/ n = 2
    OBVIOUS
  <1>9. y.last \in {2 * q, 2 * q + 1}
    BY <1>4, <1>5, <1>8
  <1>10. \E d \in Nat : \/ d > 0 /\ y.last = 2 * d /\ y.pending = <<2 * d + 1>>
                        \/ d > 0 /\ y.last = 2 * d + 1 /\ y.pending = <<>>
                        \/ y.last = 0 /\ y.pending = <<>>
    <2>1. q > 0
      BY <1>1, <1>2, <1>3
    <2> QED
      BY <1>2, <1>4, <1>5, <1>8, <2>1, Zenon
  <1>11. \A i \in 1 .. Len(t) : i + 1 \in 1 .. Len(x.queue) /\ 1 < i + 1
    BY <1>1, <1>2
  <1>12. ASSUME NEW i \in 1 .. Len(t) PROVE y.last < 2 * t[i] /\ t[i] <= m
    <2>1. /\ t[i] = x.queue[i + 1] /\ i + 1 \in 1 .. Len(x.queue) /\ 1 < i + 1
          /\ t[i] \in Nat
      BY <1>1, <1>2, <1>11
    <2>2. q < t[i] /\ t[i] <= m
      BY <1>2, <2>1 DEF Ordered
    <2>3. \A a, b \in Nat : a < b => 2 * a < 2 * b /\ 2 * a + 1 < 2 * b
      OBVIOUS
    <2> QED
      BY <1>2, <1>9, <2>1, <2>2, <2>3
  <1>13. \A i, j \in 1 .. Len(t) : i < j => t[i] < t[j]
    <2> SUFFICES ASSUME NEW i \in 1 .. Len(t), NEW j \in 1 .. Len(t), i < j
                 PROVE  t[i] < t[j]
      OBVIOUS
    <2>1. /\ t[i] = x.queue[i + 1] /\ t[j] = x.queue[j + 1] /\ i + 1 < j + 1
          /\ i + 1 \in 1 .. Len(x.queue) /\ j + 1 \in 1 .. Len(x.queue)
      BY <1>2, <1>11
    <2> QED
      BY <2>1 DEF Ordered
  <1>14. y.last <= 2 * m + 1
    BY <1>2, <1>3, <1>9
  <1>15. Ordered(y, m)
    BY <1>5, <1>10, <1>12, <1>13, <1>14, Zenon DEF Ordered
  <1>16. NextPiece(x, y)
    <2>1. y.last > x.last
      <3>1. x.last \in Nat /\ 2 * q \in Nat /\ x.last < 2 * q
        <4>1. q \in Nat => 2 * q \in Nat
          OBVIOUS
        <4>2. x.last \in Nat
          BY <1>1, Zenon
        <4>3. q \in Nat
          BY <1>2, Zenon
        <4>4. x.last < 2 * q
          BY <1>3, Zenon
        <4> QED
          BY <4>1, <4>2, <4>3, <4>4, Zenon
      <3>2. \A a, b \in Nat : a < b => b > a /\ b + 1 > a
        OBVIOUS
      <3> QED
        BY <1>9, <3>1, <3>2, Zenon
    <2>2. ~ (x.last # 0 /\ x.last % 2 = 0)
      <3>1. \A d \in Nat : (2 * d + 1) % 2 = 1
        OBVIOUS
      <3>2. x.last = 0 \/ \E d \in Nat : x.last = 2 * d + 1
        BY DEF Ordered
      <3> QED
        BY <3>1, <3>2
    <2> QED
      BY <2>1, <2>2 DEF NextPiece
  <1> QED
    BY <1>1, <1>2, <1>5, <1>7, <1>15, <1>16

-----------------------------------------------------------------------------
(* What an action leaves alone. *)

LEMMA OwnersKept ==
    ASSUME IInv, Created' = Created, UNCHANGED <<listener, table, closer, demux>>,
           \A t \in Created : /\ session'[t].addr = session[t].addr
                              /\ session'[t].closedBy = session[t].closedBy
    PROVE  Known' /\ ClosedByOwner' /\ TableExact'
  <1>1. Known'
    BY DEF IInv, Known
  <1>2. ClosedByOwner'
    BY DEF IInv, Known, ClosedByOwner
  <1>3. TableExact'
    BY DEF IInv, TableExact, Closed
  <1> QED
    BY <1>1, <1>2, <1>3

LEMMA OrderKept ==
    ASSUME IInv, Created' = Created, UNCHANGED received,
           demux'.pc = "send" => UNCHANGED demux,
           \A t \in Created : /\ session'[t].queue = session[t].queue
                              /\ session'[t].pending = session[t].pending
                              /\ session'[t].last = session[t].last
                              /\ reader'[t] = "waiting" => session[t].pending = <<>>
    PROVE  InOrder' /\ ReadsInOrder
  <1>1. \A t \in Created : Ordered(session'[t], received)
    BY OrderedSame DEF IInv, InOrder
  <1>2. \A t \in Created : reader'[t] = "waiting" => session'[t].pending = <<>>
    OBVIOUS
  <1>3. ASSUME demux'.pc = "send"
        PROVE  /\ demux'.datagram = received
               /\ Ordered(session'[demux'.to], received - 1)
    <2>1. /\ demux' = demux /\ demux.pc = "send" /\ demux.to \in Created
          /\ demux.datagram = received /\ Ordered(session[demux.to], received - 1)
      BY <1>3 DEF IInv, InOrder, Known
    <2> QED
      BY <2>1, OrderedSame
  <1>4. InOrder'
    BY <1>1, <1>2, <1>3, Zenon DEF InOrder
  <1>5. ReadsInOrder
    BY DEF ReadsInOrder
  <1> QED
    BY <1>4, <1>5

-----------------------------------------------------------------------------
(* One lemma for each action.                                              *)

LEMMA DemuxConnectsKeeps ==
    ASSUME Bounds, IInv, NEW a \in Addrs, DemuxConnects(a) PROVE IInv' /\ ReadsInOrder
  <1> DEFINE s == Len(session) + 1
             d == received + 1
  <1>1. /\ Created = 1 .. Len(session) /\ Len(session) \in Nat
        /\ \A t \in Created : session[t] \in Session /\ t \in Sessions /\ t # 0
    BY CreatedFacts DEF IInv
  <1>2. /\ demux.pc = "read" /\ listener = "open" /\ table[a] = 0 /\ s <= MaxSessions
        /\ received' = d /\ d \in 1 .. MaxDatagrams /\ received \in Nat
        /\ UNCHANGED <<listener, reader, closer, demux, toClose>>
    BY DEF DemuxConnects, IInv, Typed, Bounds
  <1>3. s \in Sessions /\ s \notin Created /\ s # 0
    BY <1>1, <1>2 DEF Sessions, Bounds
  <1>4. PICK y \in {NewSession(a, d), [NewSession(a, d) EXCEPT !.closedBy = "demux"]} :
          /\ session' = Append(session, y)
          /\ \/ /\ y = NewSession(a, d) /\ Len(accept) < AcceptCapacity
                /\ table' = [table EXCEPT ![a] = s] /\ accept' = Append(accept, s)
             \/ /\ y = [NewSession(a, d) EXCEPT !.closedBy = "demux"]
                /\ UNCHANGED <<table, accept>>
    BY <1>2 DEF DemuxConnects, Refuse
  <1>5. /\ y \in Session /\ y.addr = a /\ y.queue = <<d>> /\ y.pending = <<>> /\ y.last = 0
        /\ y = NewSession(a, d) => y.closedBy = "nobody"
        /\ y = [NewSession(a, d) EXCEPT !.closedBy = "demux"] => y.closedBy = "demux"
    <2>1. <<d>> \in Seq(Nat) /\ <<>> \in Seq(Nat) /\ 0 \in Nat
      BY <1>2
    <2>2. NewSession(a, d) = [addr |-> a, closedBy |-> "nobody", queue |-> <<d>>,
                              pending |-> <<>>, last |-> 0]
      BY DEF NewSession
    <2>3. [NewSession(a, d) EXCEPT !.closedBy = "demux"] =
            [addr |-> a, closedBy |-> "demux", queue |-> <<d>>, pending |-> <<>>, last |-> 0]
      BY <2>2
    <2>4. PICK who \in {"nobody", "demux"} :
            y = [addr |-> a, closedBy |-> who, queue |-> <<d>>, pending |-> <<>>, last |-> 0]
      BY <2>2, <2>3, Zenon
    <2>5. y \in Session /\ y.addr = a /\ y.queue = <<d>> /\ y.pending = <<>> /\ y.last = 0
      BY <2>1, <2>4 DEF Session
    <2> HIDE DEF d
    <2>6. NewSession(a, d).closedBy = "nobody"
      BY <2>2
    <2>7. [NewSession(a, d) EXCEPT !.closedBy = "demux"].closedBy = "demux"
      BY <2>3
    <2> QED
      BY <2>5, <2>6, <2>7, Zenon
  <1>6. /\ session' \in Seq(Session) /\ Len(session') = s /\ session'[s] = y
        /\ Created' = 1 .. s /\ \A t \in Created : session'[t] = session[t] /\ t # s
        /\ \A t \in Created' : t \in Created \/ t = s
        /\ \A t \in Created : t \in Created'
    <2>1. session \in Seq(Session)
      BY DEF IInv, Typed
    <2> QED
      BY <1>1, <1>4, <1>5, <2>1 DEF Created
  <1> HIDE DEF s, d
  <1>7. table' \in [Addrs -> 0 .. MaxSessions] /\ accept' \in Seq(Sessions)
        /\ Len(accept') <= AcceptCapacity
    <2>1. /\ table \in [Addrs -> 0 .. MaxSessions] /\ accept \in Seq(Sessions)
          /\ Len(accept) <= AcceptCapacity /\ s \in 0 .. MaxSessions
      BY <1>3 DEF IInv, Typed, Sessions, Bounds
    <2>2. CASE table' = [table EXCEPT ![a] = s] /\ accept' = Append(accept, s)
               /\ Len(accept) < AcceptCapacity
      <3>1. table' \in [Addrs -> 0 .. MaxSessions]
        BY <2>1, <2>2
      <3>2. accept' \in Seq(Sessions) /\ Len(accept') = Len(accept) + 1 /\ Len(accept) \in Nat
        BY <1>3, <2>1, <2>2
      <3> QED
        BY <2>2, <3>1, <3>2 DEF Bounds
    <2> QED
      BY <1>4, <2>1, <2>2
  <1>8. Typed'
    <2>1. \A t \in Created' : Len(session'[t].queue) <= ReadCapacity
      <3>1. Len(y.queue) <= ReadCapacity
        BY <1>5 DEF Bounds
      <3> QED
        BY <1>6, <3>1 DEF IInv, Typed
    <2>2. toClose' \subseteq Created' /\ received' \in 0 .. MaxDatagrams
          /\ Len(session') <= MaxSessions
      BY <1>2, <1>6 DEF IInv, Typed
    <2> QED
      BY <1>2, <1>6, <1>7, <2>1, <2>2 DEF IInv, Typed
  <1>9. closer[s] = "no"
    BY <1>3 DEF IInv, Known
  <1>10. table[a] = 0 /\ \A t \in Created : table[session[t].addr] # t \/ session[t].addr # a
    BY <1>1, <1>2
  <1>11. \A b \in Addrs : table'[b] = IF b = a /\ y = NewSession(a, d) THEN s ELSE table[b]
    <2>1. table \in [Addrs -> 0 .. MaxSessions]
      BY DEF IInv, Typed
    <2>2. y = [NewSession(a, d) EXCEPT !.closedBy = "demux"] => y # NewSession(a, d)
      BY <1>5
    <2> QED
      BY <1>4, <2>1, <2>2
  <1>12. Known'
    <2>1. ASSUME NEW b \in Addrs, table'[b] # 0
          PROVE  table'[b] \in Created' /\ session'[table'[b]].addr = b
      <3>1. CASE b = a /\ y = NewSession(a, d)
        <4>1. table'[b] = s /\ session'[s].addr = a
          BY <1>5, <1>6, <1>11, <3>1
        <4>2. s \in Created'
          <5>1. s \in 1 .. s
            BY <1>3 DEF Sessions
          <5> QED
            BY <1>6, <5>1
        <4> QED
          BY <3>1, <4>1, <4>2
      <3>2. CASE ~ (b = a /\ y = NewSession(a, d))
        BY <1>6, <1>11, <2>1, <3>2 DEF IInv, Known
      <3> QED
        BY <3>1, <3>2
    <2>2. ~ (demux'.pc \in {"send", "panicked"})
      BY <1>2
    <2>3. \A t \in Sessions : closer'[t] # "no" => t \in Created'
      BY <1>2, <1>6 DEF IInv, Known
    <2> QED
      BY <2>1, <2>2, <2>3 DEF Known
  <1>13. ClosedByOwner'
    <2>1. \A t \in Sessions : closer'[t] = "cleanup" => session'[t].closedBy = "owner"
      BY <1>2, <1>6 DEF IInv, Known, ClosedByOwner
    <2> QED
      BY <1>2, <2>1 DEF ClosedByOwner
  <1>14. TableExact'
    <2>1. ASSUME NEW t \in Created'
          PROVE  table'[session'[t].addr] = t <=> ~ Closed(t)' \/ closer'[t] = "cleanup"
      <3>1. CASE t = s
        <4>2. session'[t].addr = a /\ closer'[t] = "no"
          BY <1>2, <1>5, <1>6, <1>9, <3>1
        <4>3. table'[a] = s <=> y = NewSession(a, d)
          BY <1>2, <1>3, <1>11
        <4>4. ~ Closed(t)' <=> y = NewSession(a, d)
          BY <1>4, <1>5, <1>6, <3>1 DEF Closed
        <4> QED
          BY <3>1, <4>2, <4>3, <4>4
      <3>2. CASE t \in Created
        <4>1. /\ session'[t] = session[t] /\ closer'[t] = closer[t] /\ t # s
              /\ session[t].addr \in Addrs
          BY <1>1, <1>2, <1>6, <3>2, SessionFacts
        <4>2. table[session[t].addr] = t <=> ~ Closed(t) \/ closer[t] = "cleanup"
          BY <1>2, <3>2 DEF IInv, TableExact
        <4>3. table'[session[t].addr] = t <=> table[session[t].addr] = t
          BY <1>10, <1>11, <3>2, <4>1
        <4> QED
          BY <4>1, <4>2, <4>3 DEF Closed
      <3> QED
        BY <1>6, <3>1, <3>2
    <2> QED
      BY <2>1 DEF TableExact
  <1>15. InOrder'
    <2>1. Ordered(y, d)
      BY <1>2, <1>5 DEF Ordered
    <2>2. ASSUME NEW t \in Created' PROVE Ordered(session'[t], d)
      <3>1. CASE t = s
        BY <1>6, <2>1, <3>1
      <3>2. CASE t \in Created
        <4>1. Ordered(session[t], received) /\ received <= d /\ d \in Nat
          BY <1>2, <3>2 DEF IInv, InOrder, d
        <4> QED
          BY <1>1, <1>2, <1>6, <3>2, <4>1, OrderedLater
      <3> QED
        BY <1>6, <3>1, <3>2
    <2>3. \A t \in Created' : reader'[t] = "waiting" => session'[t].pending = <<>>
      BY <1>2, <1>5, <1>6 DEF IInv, InOrder
    <2>4. demux'.pc # "send"
      BY <1>2
    <2> QED
      BY <1>2, <2>2, <2>3, <2>4 DEF InOrder
  <1>16. ReadsInOrder
    BY <1>6 DEF ReadsInOrder
  <1> QED
    BY <1>8, <1>12, <1>13, <1>14, <1>15, <1>16 DEF IInv

LEMMA DemuxPushesKeeps ==
    ASSUME Bounds, IInv, NEW a \in Addrs, DemuxPushes(a) PROVE IInv' /\ ReadsInOrder
  <1> DEFINE s == table[a]
             d == received + 1
  <1>1. /\ demux.pc = "read" /\ listener = "open" /\ s # 0 /\ received' = d
        /\ demux' = (IF Closed(s) THEN demux ELSE [pc |-> "send", to |-> s, datagram |-> d])
        /\ d \in 1 .. MaxDatagrams /\ received \in Nat
        /\ UNCHANGED <<listener, table, accept, session, reader, closer, toClose>>
    BY DEF DemuxPushes, IInv, Typed, Bounds
  <1>2. s \in Created /\ s \in Sessions /\ \A t \in Created : session[t] \in Session
    BY <1>1, CreatedFacts DEF IInv, Known
  <1> HIDE DEF s, d
  <1>3. Typed'
    <2>1. demux' \in Demux
      BY <1>1, <1>2, DemuxRecords DEF IInv, Typed
    <2>2. received' \in 0 .. MaxDatagrams /\ Created' = Created
      BY <1>1 DEF Created, Bounds
    <2> QED
      BY <1>1, <2>1, <2>2 DEF IInv, Typed
  <1>4. demux'.pc \in {"read", "send"}
        /\ (demux'.pc = "send" => demux'.to = s /\ demux'.datagram = d /\ ~ Closed(s))
    BY <1>1
  <1>5. Created' = Created
    BY <1>1 DEF Created
  <1>6. Known' /\ ClosedByOwner'
    BY <1>1, <1>2, <1>4, <1>5 DEF IInv, Known, ClosedByOwner, Closed
  <1>7. TableExact' /\ ReadsInOrder
    BY <1>1, <1>5 DEF IInv, TableExact, Closed, ReadsInOrder
  <1>8. InOrder'
    <2>1. \A t \in Created : Ordered(session[t], received)
      BY DEF IInv, InOrder
    <2>2. received <= d /\ d \in Nat /\ d - 1 = received
      BY <1>1 DEF d
    <2>3. \A t \in Created : Ordered(session'[t], d)
      BY <1>1, <1>2, <2>1, <2>2, OrderedLater
    <2>4. demux'.pc = "send" => demux'.datagram = d /\ Ordered(session'[demux'.to], d - 1)
      BY <1>1, <1>2, <1>4, <2>1, <2>2
    <2>5. \A t \in Created : reader'[t] = "waiting" => session'[t].pending = <<>>
      BY <1>1 DEF IInv, InOrder
    <2> QED
      BY <1>1, <1>5, <2>3, <2>4, <2>5 DEF InOrder
  <1> QED
    BY <1>3, <1>6, <1>7, <1>8 DEF IInv

LEMMA DemuxSendsKeeps ==
    ASSUME Bounds, IInv, DemuxSends PROVE IInv' /\ ReadsInOrder
  <1> DEFINE s == demux.to
             d == demux.datagram
  <1>1. /\ demux.pc = "send" /\ s \in Created /\ s \in Sessions /\ d \in 1 .. MaxDatagrams
        /\ d = received /\ listener = "open"
        /\ session[s].closedBy \in {"nobody", "owner"} /\ Ordered(session[s], d - 1)
        /\ UNCHANGED <<listener, table, accept, reader, closer, received, toClose>>
    BY DemuxFacts DEF IInv, DemuxSends, Known, ClosedByOwner, InOrder
  <1>2. session[s] \in Session /\ session \in Seq(Session) /\ d \in Nat \ {0}
    BY <1>1, CreatedFacts DEF IInv, Typed, Bounds
  <1>3. CASE Closed(s)
    <2>1. demux' = [demux EXCEPT !.pc = "panicked"] /\ UNCHANGED session
          /\ session[s].closedBy = "owner"
      BY <1>1, <1>3 DEF DemuxSends, Closed
    <2>2. demux' \in Demux /\ demux'.pc = "panicked" /\ demux'.to = s
      <3>1. demux \in [pc : {"send", "panicked"}, to : Sessions, datagram : 1 .. MaxDatagrams]
        BY <1>1 DEF IInv, Typed, Demux
      <3> QED
        BY <2>1, <3>1 DEF Demux
    <2>3. Created' = Created
      BY <2>1 DEF Created
    <2>4. Typed'
      BY <1>1, <2>1, <2>2, <2>3 DEF IInv, Typed
    <2> HIDE DEF s
    <2>5. Known' /\ ClosedByOwner'
      BY <1>1, <2>1, <2>2, <2>3 DEF IInv, Known, ClosedByOwner
    <2>6. TableExact'
      BY <1>1, <2>1, <2>3 DEF IInv, TableExact, Closed
    <2>7. InOrder' /\ ReadsInOrder
      <3>1. \A t \in Created : reader'[t] = "waiting" => session[t].pending = <<>>
        BY <1>1 DEF IInv, InOrder
      <3> QED
        BY <1>1, <2>1, <2>2, <2>3, <3>1, OrderKept
    <2> QED
      BY <2>4, <2>5, <2>6, <2>7 DEF IInv
  <1>4. CASE ~ Closed(s)
    <2> DEFINE y == Pushed(session[s], d)
    <2>1. /\ demux' = [pc |-> "read"]
          /\ IF Len(session[s].queue) >= ReadCapacity THEN UNCHANGED session
             ELSE session' = [session EXCEPT ![s] = y]
      BY <1>4 DEF DemuxSends, Pushed
    <2>2. /\ y \in Session /\ Ordered(y, d)
          /\ y.addr = session[s].addr /\ y.closedBy = session[s].closedBy
          /\ y.pending = session[s].pending /\ y.last = session[s].last
          /\ Len(y.queue) = Len(session[s].queue) + 1
      BY <1>1, <1>2, PushKeeps
    <2> HIDE DEF s, d, y
    <2>3. /\ Created' = Created /\ session' \in Seq(Session) /\ Len(session') = Len(session)
          /\ \A t \in Created : /\ session'[t].addr = session[t].addr
                                /\ session'[t].closedBy = session[t].closedBy
                                /\ session'[t].pending = session[t].pending
                                /\ session'[t].last = session[t].last
                                /\ Len(session'[t].queue) <= ReadCapacity
                                /\ Ordered(session'[t], received)
      <3>1. \A t \in Created : Len(session[t].queue) <= ReadCapacity
                               /\ Ordered(session[t], received)
        BY DEF IInv, Typed, InOrder
      <3>2. CASE Len(session[s].queue) >= ReadCapacity
        BY <1>2, <2>1, <3>1, <3>2 DEF Created
      <3>3. CASE ~ (Len(session[s].queue) >= ReadCapacity)
        <4>1. session' = [session EXCEPT ![s] = y]
          BY <2>1, <3>3
        <4>2. /\ Created' = Created /\ session' \in Seq(Session)
              /\ Len(session') = Len(session) /\ session'[s] = y
              /\ \A t \in Created : t # s => session'[t] = session[t]
          BY <1>1, <2>2, <4>1, Replaced DEF IInv
        <4>3. Len(y.queue) <= ReadCapacity
          <5>1. Len(session[s].queue) \in Nat
            BY <1>2, SessionFacts
          <5> QED
            BY <2>2, <3>3, <5>1 DEF Bounds
        <4> QED
          BY <1>1, <2>2, <3>1, <4>2, <4>3
      <3> QED
        BY <3>2, <3>3
    <2>4. demux' \in Demux /\ demux'.pc = "read"
      BY <2>1, DemuxRecords
    <2>5. Typed'
      BY <1>1, <2>3, <2>4 DEF IInv, Typed
    <2>6. Known' /\ ClosedByOwner' /\ TableExact'
      <3>1. Known'
        BY <1>1, <2>3, <2>4 DEF IInv, Known
      <3>2. ClosedByOwner'
        BY <1>1, <2>3, <2>4 DEF IInv, Known, ClosedByOwner
      <3>3. TableExact'
        BY <1>1, <2>3 DEF IInv, TableExact, Closed
      <3> QED
        BY <3>1, <3>2, <3>3
    <2>7. InOrder' /\ ReadsInOrder
      BY <1>1, <2>3, <2>4 DEF IInv, InOrder, ReadsInOrder
    <2> QED
      BY <2>5, <2>6, <2>7 DEF IInv
  <1> QED
    BY <1>3, <1>4

LEMMA DemuxEndsKeeps ==
    ASSUME Bounds, IInv, DemuxEnds PROVE IInv' /\ ReadsInOrder
  <1>1. /\ demux.pc = "read" /\ demux' = [pc |-> "ended"] /\ demux'.pc = "ended"
        /\ UNCHANGED <<listener, table, accept, session, reader, closer, received, toClose>>
        /\ Created' = Created
    BY DEF DemuxEnds, Created
  <1>2. demux' \in Demux
    BY <1>1, DemuxRecords
  <1>3. Typed'
    BY <1>1, <1>2 DEF IInv, Typed
  <1>4. Known' /\ ClosedByOwner' /\ TableExact'
    BY <1>1 DEF IInv, Known, ClosedByOwner, TableExact, Closed
  <1>5. InOrder' /\ ReadsInOrder
    <2>1. \A t \in Created : reader'[t] = "waiting" => session[t].pending = <<>>
      BY <1>1 DEF IInv, InOrder
    <2> QED
      BY <1>1, <2>1, OrderKept
  <1> QED
    BY <1>3, <1>4, <1>5 DEF IInv

LEMMA AcceptKeeps ==
    ASSUME Bounds, IInv, Accept PROVE IInv' /\ ReadsInOrder
  <1>1. /\ accept # <<>> /\ accept' = Tail(accept)
        /\ reader' = [reader EXCEPT ![Head(accept)] = "idle"]
        /\ UNCHANGED <<listener, table, session, closer, demux, received, toClose>>
        /\ Created' = Created
    BY DEF Accept, Created
  <1>2. accept \in Seq(Sessions) /\ Len(accept) <= AcceptCapacity /\ Len(accept) \in Nat
    BY DEF IInv, Typed
  <1>3. accept' \in Seq(Sessions) /\ Len(accept') = Len(accept) - 1 /\ Head(accept) \in Sessions
    BY <1>1, <1>2, TailElements
  <1>4. Len(accept') <= AcceptCapacity
    BY <1>2, <1>3 DEF Bounds
  <1>5. /\ reader' \in [Sessions -> {"none", "idle", "waiting"}]
        /\ \A t \in Sessions : reader'[t] = "waiting" => reader[t] = "waiting"
    BY <1>1, <1>3 DEF IInv, Typed
  <1>6. Typed'
    BY <1>1, <1>3, <1>4, <1>5 DEF IInv, Typed
  <1>7. Known' /\ ClosedByOwner' /\ TableExact'
    BY <1>1, OwnersKept
  <1>8. InOrder' /\ ReadsInOrder
    <2>1. \A t \in Created : reader'[t] = "waiting" => session[t].pending = <<>>
      BY <1>5, CreatedFacts DEF IInv, InOrder
    <2> QED
      BY <1>1, <2>1, OrderKept
  <1> QED
    BY <1>6, <1>7, <1>8 DEF IInv

(* Close takes the lock, so demux is not between its look at a session and its send;
   from here on the listener is not open. *)
LEMMA CloseListenerKeeps ==
    ASSUME Bounds, IInv, CloseListener PROVE IInv' /\ ReadsInOrder
  <1>1. /\ listener' = "closing" /\ demux.pc # "send"
        /\ toClose' = {table[a] : a \in Addrs} \ {0} /\ table' = [a \in Addrs |-> 0]
        /\ UNCHANGED <<accept, session, reader, closer, demux, received>>
        /\ Created' = Created
    BY DEF CloseListener, CloseMayLock, LockFree, Created
  <1>2. toClose' \subseteq Created
    BY <1>1 DEF IInv, Known
  <1>3. Typed'
    <2>1. table' \in [Addrs -> 0 .. MaxSessions]
      BY <1>1 DEF Bounds
    <2> QED
      BY <1>1, <1>2, <2>1 DEF IInv, Typed
  <1>4. Known' /\ ClosedByOwner' /\ TableExact'
    BY <1>1 DEF IInv, Known, ClosedByOwner, TableExact
  <1>5. InOrder' /\ ReadsInOrder
    <2>1. \A t \in Created : reader'[t] = "waiting" => session[t].pending = <<>>
      BY <1>1 DEF IInv, InOrder
    <2> QED
      BY <1>1, <2>1, OrderKept
  <1> QED
    BY <1>3, <1>4, <1>5 DEF IInv

LEMMA CloseNextKeeps ==
    ASSUME Bounds, IInv, CloseNext PROVE IInv' /\ ReadsInOrder
  <1>1. PICK s \in toClose :
          /\ listener = "closing" /\ toClose' = toClose \ {s}
          /\ IF Closed(s) THEN UNCHANGED session ELSE Close(s, "listener")
          /\ UNCHANGED <<listener, table, accept, reader, closer, demux, received>>
    BY DEF CloseNext
  <1>2. s \in Created /\ session \in Seq(Session)
    BY DEF IInv, Typed
  <1>3. /\ Created' = Created /\ session' \in Seq(Session) /\ Len(session') = Len(session)
        /\ \A t \in Created : /\ session'[t].addr = session[t].addr
                              /\ session'[t].queue = session[t].queue
                              /\ session'[t].pending = session[t].pending
                              /\ session'[t].last = session[t].last
                              /\ session[t].closedBy # "nobody" =>
                                   session'[t].closedBy = session[t].closedBy
    <2>1. CASE Closed(s)
      BY <1>1, <1>2, <2>1 DEF Created
    <2>2. CASE ~ Closed(s)
      <3>1. Close(s, "listener") /\ session[s].closedBy = "nobody"
        BY <1>1, <2>2 DEF Closed
      <3> QED
        BY <1>2, <3>1, Shut DEF IInv
    <2> QED
      BY <2>1, <2>2
  <1>4. Typed'
    BY <1>1, <1>3 DEF IInv, Typed
  <1>5. Known' /\ TableExact'
    BY <1>1, <1>3 DEF IInv, Known, TableExact
  <1>6. ClosedByOwner'
    BY <1>1, <1>3 DEF IInv, Known, ClosedByOwner
  <1>7. InOrder' /\ ReadsInOrder
    <2>1. \A t \in Created : reader'[t] = "waiting" => session[t].pending = <<>>
      BY <1>1 DEF IInv, InOrder
    <2> QED
      BY <1>1, <1>3, <2>1, OrderKept
  <1> QED
    BY <1>4, <1>5, <1>6, <1>7 DEF IInv

LEMMA CloseReturnsKeeps ==
    ASSUME Bounds, IInv, CloseReturns PROVE IInv' /\ ReadsInOrder
  <1>1. /\ listener = "closing" /\ listener' = "closed" /\ Created' = Created
        /\ UNCHANGED <<table, accept, session, reader, closer, demux, received, toClose>>
    BY DEF CloseReturns, Created
  <1>2. Typed'
    BY <1>1 DEF IInv, Typed
  <1>3. Known' /\ ClosedByOwner' /\ TableExact'
    BY <1>1 DEF IInv, Known, ClosedByOwner, TableExact
  <1>4. InOrder' /\ ReadsInOrder
    <2>1. \A t \in Created : reader'[t] = "waiting" => session[t].pending = <<>>
      BY <1>1 DEF IInv, InOrder
    <2> QED
      BY <1>1, <2>1, OrderKept
  <1> QED
    BY <1>2, <1>3, <1>4 DEF IInv

(* A Read takes what is next of its session, and of no other. *)
LEMMA ReadKeeps ==
    ASSUME Bounds, IInv, NEW s \in Created, NEW y \in Session,
           session' = [session EXCEPT ![s] = y],
           Ordered(y, received), NextPiece(session[s], y),
           Ordered(session[s], received - 1) /\ received > 0 => Ordered(y, received - 1),
           y.addr = session[s].addr, y.closedBy = session[s].closedBy,
           Len(y.queue) <= ReadCapacity,
           reader'[s] = "waiting" => y.pending = <<>>,
           \A t \in Created : t # s => reader'[t] = reader[t],
           reader' \in [Sessions -> {"none", "idle", "waiting"}],
           UNCHANGED <<listener, table, accept, closer, demux, received, toClose>>
    PROVE  IInv' /\ ReadsInOrder
  <1>1. /\ session' \in Seq(Session) /\ Len(session') = Len(session)
        /\ Created' = Created /\ session'[s] = y
        /\ \A t \in Created : t # s => session'[t] = session[t]
    BY Replaced DEF IInv
  <1>2. Typed'
    BY <1>1 DEF IInv, Typed
  <1>3. Known' /\ ClosedByOwner' /\ TableExact'
    BY <1>1, OwnersKept
  <1>4. InOrder'
    <2>1. \A t \in Created : Ordered(session'[t], received)
      BY <1>1 DEF IInv, InOrder
    <2>2. \A t \in Created : reader'[t] = "waiting" => session'[t].pending = <<>>
      BY <1>1 DEF IInv, InOrder
    <2>3. ASSUME demux.pc = "send"
          PROVE  demux.datagram = received /\ Ordered(session'[demux.to], received - 1)
      <3>1. /\ demux.datagram = received /\ Ordered(session[demux.to], received - 1)
            /\ demux.to \in Created /\ received > 0
        BY <2>3, DemuxFacts DEF IInv, InOrder, Known, Bounds
      <3>2. CASE demux.to = s
        BY <1>1, <3>1, <3>2
      <3>3. CASE demux.to # s
        BY <1>1, <3>1, <3>3
      <3> QED
        BY <3>1, <3>2, <3>3
    <2> QED
      BY <1>1, <2>1, <2>2, <2>3 DEF InOrder
  <1>5. ReadsInOrder
    BY <1>1 DEF ReadsInOrder, NextPiece
  <1> QED
    BY <1>2, <1>3, <1>4, <1>5 DEF IInv

LEMMA DeliverIs ==
    ASSUME NEW s \in Created, NEW data, NEW n, Deliver(s, data, n)
    PROVE  session' = [session EXCEPT ![s] = Delivered(session[s], data, n)]
  BY DEF Deliver, Delivered

LEMMA ReadPendingKeeps ==
    ASSUME Bounds, IInv, NEW s \in Created, ReadPending(s) PROVE IInv' /\ ReadsInOrder
  <1> DEFINE x == session[s]
  <1>1. PICK n \in DOMAIN x.pending : Deliver(s, x.pending, n)
    BY DEF ReadPending
  <1> DEFINE y == Delivered(x, x.pending, n)
  <1>2. /\ reader[s] = "idle" /\ x.pending # <<>>
        /\ UNCHANGED <<listener, table, accept, reader, closer, demux, received, toClose>>
    BY DEF ReadPending
  <1>3. x \in Session /\ Ordered(x, received) /\ received \in Nat
        /\ Len(x.queue) <= ReadCapacity
    BY CreatedFacts DEF IInv, InOrder, Typed, Bounds
  <1>4. session' = [session EXCEPT ![s] = y]
    BY <1>1, DeliverIs
  <1>5. /\ y \in Session /\ Ordered(y, received) /\ NextPiece(x, y) /\ y.pending = <<>>
        /\ y.addr = x.addr /\ y.closedBy = x.closedBy /\ y.queue = x.queue
    BY <1>2, <1>3, PendingKeeps
  <1>6. Ordered(x, received - 1) /\ received > 0 => Ordered(y, received - 1)
    <2> SUFFICES ASSUME Ordered(x, received - 1), received > 0 PROVE Ordered(y, received - 1)
      OBVIOUS
    <2>1. received - 1 \in Nat
      BY <1>3
    <2> QED
      BY <1>2, <1>3, <2>1, PendingKeeps
  <1> HIDE DEF y
  <1>7. /\ Len(y.queue) <= ReadCapacity /\ (reader'[s] = "waiting" => y.pending = <<>>)
        /\ \A t \in Created : t # s => reader'[t] = reader[t]
        /\ reader' \in [Sessions -> {"none", "idle", "waiting"}]
    BY <1>2, <1>3, <1>5 DEF IInv, Typed
  <1> QED
    BY <1>2, <1>4, <1>5, <1>6, <1>7, ReadKeeps

LEMMA ReadGetsKeeps ==
    ASSUME Bounds, IInv, NEW s \in Created, ReadGets(s) PROVE IInv' /\ ReadsInOrder
  <1> DEFINE x == session[s]
             data == Pieces(Head(x.queue))
  <1>1. PICK n \in 1 .. 2 : Deliver(s, data, n)
    BY DEF ReadGets
  <1> DEFINE y == Delivered(x, data, n)
  <1>2. /\ reader[s] = "waiting" /\ x.queue # <<>>
        /\ reader' = [reader EXCEPT ![s] = "idle"]
        /\ UNCHANGED <<listener, table, accept, closer, demux, received, toClose>>
    BY DEF ReadGets
  <1>3. /\ x \in Session /\ Ordered(x, received) /\ received \in Nat
        /\ Len(x.queue) <= ReadCapacity /\ x.pending = <<>> /\ s \in Sessions
        /\ Len(x.queue) \in Nat
    BY <1>2, CreatedFacts, SessionFacts DEF IInv, InOrder, Typed, Bounds
  <1>4. session' = [session EXCEPT ![s] = y]
    BY <1>1, DeliverIs
  <1>5. /\ y \in Session /\ Ordered(y, received) /\ NextPiece(x, y)
        /\ y.addr = x.addr /\ y.closedBy = x.closedBy /\ Len(y.queue) <= Len(x.queue)
    BY <1>2, <1>3, QueueKeeps
  <1>6. Ordered(x, received - 1) /\ received > 0 => Ordered(y, received - 1)
    <2> SUFFICES ASSUME Ordered(x, received - 1), received > 0 PROVE Ordered(y, received - 1)
      OBVIOUS
    <2>1. received - 1 \in Nat
      BY <1>3
    <2> QED
      BY <1>2, <1>3, <2>1, QueueKeeps
  <1> HIDE DEF y
  <1>7. /\ reader'[s] = "idle" /\ \A t \in Created : t # s => reader'[t] = reader[t]
        /\ reader' \in [Sessions -> {"none", "idle", "waiting"}]
    BY <1>2, <1>3, CreatedFacts DEF IInv, Typed
  <1>8. Len(y.queue) <= ReadCapacity
    <2>1. Len(y.queue) \in Nat
      BY <1>5, SessionFacts
    <2> QED
      BY <1>3, <1>5, <2>1 DEF Bounds
  <1>9. reader'[s] = "waiting" => y.pending = <<>>
    BY <1>7
  <1> QED
    BY <1>2, <1>4, <1>5, <1>6, <1>7, <1>8, <1>9, ReadKeeps

LEMMA ReadWaitsKeeps ==
    ASSUME Bounds, IInv, NEW s \in Created, ReadWaits(s) \/ ReadGetsNothing(s)
    PROVE  IInv' /\ ReadsInOrder
  <1>1. /\ UNCHANGED <<listener, table, accept, session, closer, demux, received, toClose>>
        /\ Created' = Created /\ s \in Sessions
        /\ \/ reader' = [reader EXCEPT ![s] = "waiting"] /\ session[s].pending = <<>>
           \/ reader' = [reader EXCEPT ![s] = "idle"]
    BY CreatedFacts DEF IInv, ReadWaits, ReadGetsNothing, Created
  <1>2. /\ reader' \in [Sessions -> {"none", "idle", "waiting"}]
        /\ \A t \in Sessions : reader'[t] = "waiting" =>
             reader[t] = "waiting" \/ session[t].pending = <<>>
    BY <1>1 DEF IInv, Typed
  <1>3. Typed'
    BY <1>1, <1>2 DEF IInv, Typed
  <1>4. Known' /\ ClosedByOwner' /\ TableExact'
    BY <1>1, OwnersKept
  <1>5. InOrder' /\ ReadsInOrder
    <2>1. \A t \in Created : reader'[t] = "waiting" => session[t].pending = <<>>
      BY <1>2, CreatedFacts DEF IInv, InOrder
    <2> QED
      BY <1>1, <2>1, OrderKept
  <1> QED
    BY <1>3, <1>4, <1>5 DEF IInv

LEMMA OwnerClosesKeeps ==
    ASSUME Bounds, IInv, NEW s \in Created, OwnerCloses(s) PROVE IInv' /\ ReadsInOrder
  <1>1. /\ closer[s] = "no" /\ s \in Sessions /\ session \in Seq(Session)
        /\ closer' = [closer EXCEPT ![s] = IF Closed(s) THEN "done" ELSE "cleanup"]
        /\ IF Closed(s) THEN UNCHANGED session ELSE Close(s, "owner")
        /\ UNCHANGED <<listener, table, accept, reader, demux, received, toClose>>
    BY CreatedFacts DEF IInv, Typed, OwnerCloses
  <1>2. /\ closer' \in [Sessions -> {"no", "cleanup", "done"}]
        /\ \A t \in Sessions : closer'[t] =
             IF t = s THEN IF Closed(s) THEN "done" ELSE "cleanup" ELSE closer[t]
    BY <1>1 DEF IInv, Typed
  <1>3. /\ Created' = Created /\ session' \in Seq(Session) /\ Len(session') = Len(session)
        /\ \A t \in Created : /\ session'[t].addr = session[t].addr
                              /\ session'[t].queue = session[t].queue
                              /\ session'[t].pending = session[t].pending
                              /\ session'[t].last = session[t].last
                              /\ Closed(t) \/ t # s => session'[t].closedBy = session[t].closedBy
        /\ ~ Closed(s) => session'[s].closedBy = "owner"
    <2>1. CASE Closed(s)
      BY <1>1, <2>1 DEF Created
    <2>2. CASE ~ Closed(s)
      BY <1>1, <2>2, Shut DEF IInv, Closed
    <2> QED
      BY <2>1, <2>2
  <1>4. Typed'
    BY <1>1, <1>2, <1>3 DEF IInv, Typed
  <1>5. Known'
    BY <1>1, <1>2, <1>3 DEF IInv, Known
  <1>6. ClosedByOwner'
    <2>1. demux'.pc \in {"send", "panicked"} =>
            /\ demux.to \in Created
            /\ \/ session'[demux.to].closedBy = session[demux.to].closedBy
               \/ session'[demux.to].closedBy = "owner"
      BY <1>1, <1>3 DEF IInv, Known
    <2>2. \A t \in Sessions : closer'[t] = "cleanup" => session'[t].closedBy = "owner"
      BY <1>2, <1>3 DEF IInv, Known, ClosedByOwner, Closed
    <2> QED
      BY <1>1, <2>1, <2>2 DEF IInv, ClosedByOwner
  <1>7. TableExact'
    <2> SUFFICES ASSUME listener = "open", NEW t \in Created
                 PROVE  table[session[t].addr] = t <=> ~ Closed(t)' \/ closer'[t] = "cleanup"
      BY <1>1, <1>3 DEF TableExact
    <2>1. table[session[t].addr] = t <=> ~ Closed(t) \/ closer[t] = "cleanup"
      BY DEF IInv, TableExact
    <2>2. CASE t = s
      <3>1. Closed(t)' <=> TRUE
        BY <1>3, <2>2 DEF Closed
      <3> QED
        BY <1>1, <1>2, <2>1, <2>2, <3>1
    <2>3. CASE t # s
      BY <1>2, <1>3, <2>1, <2>3, CreatedFacts DEF IInv, Closed
    <2> QED
      BY <2>2, <2>3
  <1>8. InOrder' /\ ReadsInOrder
    <2>1. \A t \in Created : reader'[t] = "waiting" => session[t].pending = <<>>
      BY <1>1 DEF IInv, InOrder
    <2> QED
      BY <1>1, <1>3, <2>1, OrderKept
  <1> QED
    BY <1>4, <1>5, <1>6, <1>7, <1>8 DEF IInv

(* The cleanup takes its own session out of the table: while the listener is open no
   other is under its address. *)
LEMMA OwnerCleansUpKeeps ==
    ASSUME Bounds, IInv, NEW s \in Created, OwnerCleansUp(s) PROVE IInv' /\ ReadsInOrder
  <1>1. /\ closer[s] = "cleanup" /\ s \in Sessions /\ session[s] \in Session /\ s # 0
        /\ closer' = [closer EXCEPT ![s] = "done"]
        /\ table' = [table EXCEPT ![session[s].addr] = 0] /\ session[s].closedBy = "owner"
        /\ UNCHANGED <<listener, accept, session, reader, demux, received, toClose>>
        /\ Created' = Created
    BY CreatedFacts DEF IInv, OwnerCleansUp, Forget, ClosedByOwner, Created
  <1>2. /\ session[s].addr \in Addrs
        /\ table \in [Addrs -> 0 .. MaxSessions]
        /\ \A b \in Addrs : table'[b] = IF b = session[s].addr THEN 0 ELSE table[b]
        /\ \A t \in Sessions : closer'[t] = IF t = s THEN "done" ELSE closer[t]
    BY <1>1, SessionFacts DEF IInv, Typed
  <1>3. Typed'
    <2>1. table' \in [Addrs -> 0 .. MaxSessions]
      BY <1>1, <1>2 DEF Bounds
    <2>2. closer' \in [Sessions -> {"no", "cleanup", "done"}]
      BY <1>1 DEF IInv, Typed
    <2> QED
      BY <1>1, <2>1, <2>2 DEF IInv, Typed
  <1>4. Known' /\ ClosedByOwner'
    BY <1>1, <1>2 DEF IInv, Known, ClosedByOwner
  <1>5. TableExact'
    <2> SUFFICES ASSUME listener = "open", NEW t \in Created
                 PROVE  table'[session[t].addr] = t <=> ~ Closed(t) \/ closer'[t] = "cleanup"
      BY <1>1 DEF TableExact, Closed
    <2>1. /\ table[session[t].addr] = t <=> ~ Closed(t) \/ closer[t] = "cleanup"
          /\ table[session[s].addr] = s
      BY <1>1 DEF IInv, TableExact
    <2>2. t \in Sessions /\ t # 0 /\ session[t].addr \in Addrs
      BY CreatedFacts, SessionFacts DEF IInv
    <2>3. CASE t = s
      BY <1>1, <1>2, <2>2, <2>3 DEF Closed
    <2>4. CASE t # s
      BY <1>2, <2>1, <2>2, <2>4
    <2> QED
      BY <2>3, <2>4
  <1>6. InOrder' /\ ReadsInOrder
    <2>1. \A t \in Created : reader'[t] = "waiting" => session[t].pending = <<>>
      BY <1>1 DEF IInv, InOrder
    <2> QED
      BY <1>1, <2>1, OrderKept
  <1> QED
    BY <1>3, <1>4, <1>5, <1>6 DEF IInv

-----------------------------------------------------------------------------

LEMMA ListenerStarts == Bounds /\ Init => IInv
  <1> SUFFICES ASSUME Bounds, Init PROVE IInv
    OBVIOUS
  <1>1. session = <<>> /\ Created = {} /\ Len(session) = 0 /\ demux.pc = "read"
        /\ Len(accept) = 0
    BY DEF Init, Created
  <1>2. Typed
    <2>1. table \in [Addrs -> 0 .. MaxSessions] /\ received \in 0 .. MaxDatagrams
          /\ Len(accept) <= AcceptCapacity /\ Len(session) <= MaxSessions
      BY <1>1 DEF Init, Bounds
    <2>2. demux \in Demux
      BY DemuxRecords DEF Init
    <2>3. accept \in Seq(Sessions) /\ session \in Seq(Session) /\ listener = "open"
          /\ reader \in [Sessions -> {"none", "idle", "waiting"}]
          /\ closer \in [Sessions -> {"no", "cleanup", "done"}] /\ toClose = {}
      BY DEF Init
    <2> QED
      BY <1>1, <2>1, <2>2, <2>3 DEF Typed
  <1>3. Known /\ ClosedByOwner /\ InOrder /\ TableExact
    BY <1>1 DEF Init, Known, ClosedByOwner, InOrder, TableExact
  <1> QED
    BY <1>2, <1>3 DEF IInv

LEMMA ListenerGoesOn == Bounds /\ IInv /\ [Next]_vars => IInv' /\ [ReadsInOrder]_vars
  <1> SUFFICES ASSUME Bounds, IInv, [Next]_vars PROVE IInv' /\ [ReadsInOrder]_vars
    OBVIOUS
  <1>1. ASSUME NEW a \in Addrs, DemuxConnects(a) \/ DemuxPushes(a)
        PROVE  IInv' /\ ReadsInOrder
    BY <1>1, DemuxConnectsKeeps, DemuxPushesKeeps
  <1>2. CASE DemuxGoes \/ Accept \/ CloseListener \/ ListenerGoes
    BY <1>2, DemuxSendsKeeps, DemuxEndsKeeps, AcceptKeeps, CloseListenerKeeps, CloseNextKeeps,
       CloseReturnsKeeps DEF DemuxGoes, ListenerGoes
  <1>3. ASSUME NEW s \in Created, Owner(s) PROVE IInv' /\ ReadsInOrder
    BY <1>3, ReadPendingKeeps, ReadWaitsKeeps, ReadGetsKeeps, OwnerClosesKeeps,
       OwnerCleansUpKeeps DEF Owner
  <1>4. CASE UNCHANGED vars
    <2>1. Typed'
      BY <1>4 DEF vars, IInv, Typed, Created
    <2>2. Created' = Created /\ UNCHANGED <<listener, table, closer, demux, session, received>>
          /\ \A t \in Created : reader'[t] = "waiting" => session[t].pending = <<>>
      BY <1>4 DEF vars, Created, IInv, InOrder
    <2>3. Known' /\ ClosedByOwner' /\ TableExact'
      BY <2>2, OwnersKept
    <2>4. InOrder'
      BY <2>2, OrderKept
    <2> QED
      BY <1>4, <2>1, <2>3, <2>4 DEF IInv
  <1> QED
    BY <1>1, <1>2, <1>3, <1>4 DEF Next

(* The invariant, and what it says.  The bounds are those of the code's channels
   and of its table: all that is asked of them is that a readChan holds a datagram. *)

LEMMA ListenerInvariant ==
    ASSUME Bounds PROVE Spec => []IInv
  <1>1. Init => IInv
    BY ListenerStarts
  <1>2. IInv /\ [Next]_vars => IInv'
    BY ListenerGoesOn
  <1> QED
    BY <1>1, <1>2, PTL DEF Spec

(* Every variable keeps its type: no channel holds more than its capacity, and what
   demux is about to push is a datagram for a session. *)
THEOREM ListenerTypeCorrect ==
    ASSUME Bounds PROVE Spec => []TypeOK
  <1>1. IInv => TypeOK
    <2> SUFFICES ASSUME IInv PROVE TypeOK
      OBVIOUS
    <2>1. \A s \in Created : session[s] \in Session /\ s \in Sessions
      BY CreatedFacts DEF IInv
    <2>2. \A s \in Created :
            /\ session[s].addr \in Addrs /\ Len(session[s].queue) <= ReadCapacity
            /\ session[s].closedBy \in {"nobody", "owner", "listener", "demux"}
            /\ session[s].last \in Nat /\ session[s].pending \in Seq(Nat)
      BY <2>1, SessionFacts DEF IInv, Typed
    <2>3. toClose \subseteq Sessions
      BY <2>1 DEF IInv, Typed
    <2> QED
      BY <2>2, <2>3 DEF IInv, Typed, TypeOK
  <1> QED
    BY <1>1, ListenerInvariant, PTL

(* While the listener is open the table holds the sessions that are open or whose
   owner has yet to clean up, and no others, whatever the owners, demux and the
   addresses of the datagrams do (demux and cleanup of transport.go). *)
THEOREM TableStaysExact ==
    ASSUME Bounds PROVE Spec => []TableExact
  <1>1. IInv => TableExact
    BY DEF IInv
  <1> QED
    BY <1>1, ListenerInvariant, PTL

(* demux sends on a closed channel only if the owner of the session closed it: neither
   Close of the listener nor demux itself can be the cause (pushData). *)
THEOREM ListenerCannotPanicDemux ==
    ASSUME Bounds PROVE Spec => []PanicsOnlyIfOwnerRaced
  <1>1. IInv => PanicsOnlyIfOwnerRaced
    BY DEF IInv, ClosedByOwner, PanicsOnlyIfOwnerRaced
  <1> QED
    BY <1>1, ListenerInvariant, PTL

(* No Read, however short, gives an owner a datagram before an earlier one of its
   session, or the next datagram between the two halves of one. *)
THEOREM ReadsStayInOrder ==
    ASSUME Bounds PROVE Spec => [][ReadsInOrder]_vars
  <1>1. IInv /\ [Next]_vars => [ReadsInOrder]_vars
    BY ListenerGoesOn
  <1> QED
    BY <1>1, ListenerInvariant, PTL DEF Spec
=============================================================================
