--------------------------- MODULE HandshakeProofs ---------------------------
(***************************************************************************)
(* What holds of Handshake for any options of the server and any number of *)
(* records lost, cut or repeated.  The argument is that hello, cookie and  *)
(* server hello take turns: unless the network repeats a record, at most   *)
(* one of them is under way at a time, and it is about the client's last   *)
(* hello.                                                                  *)
(***************************************************************************)
EXTENDS Handshake, SequenceTheorems, TLAPS

LOCAL INSTANCE SequencesExt

(* What reading the first element leaves. *)
LEMMA TailElements ==
    ASSUME NEW T, NEW s \in Seq(T), s # <<>>
    PROVE  /\ Tail(s) \in Seq(T) /\ Len(Tail(s)) = Len(s) - 1
           /\ \A j \in 1 .. Len(Tail(s)) : Tail(s)[j] = s[j + 1]
           /\ Head(s) = s[1] /\ 1 \in 1 .. Len(s) /\ Head(s) \in T
  BY HeadTailProperties

(* RemoveAt of SequencesExt. *)
Without(s, i) == SubSeq(s, 1, i - 1) \o SubSeq(s, i + 1, Len(s))

(* When an element is lost, the ones after it move up. *)
LEMMA WithoutElements ==
    ASSUME NEW T, NEW s \in Seq(T), NEW i \in 1 .. Len(s)
    PROVE  /\ Without(s, i) \in Seq(T) /\ Len(Without(s, i)) = Len(s) - 1
           /\ \A j \in 1 .. Len(Without(s, i)) :
                /\ j < i => Without(s, i)[j] = s[j] /\ j \in 1 .. Len(s)
                /\ j >= i => Without(s, i)[j] = s[j + 1] /\ j + 1 \in 1 .. Len(s)
  <1> DEFINE p == SubSeq(s, 1, i - 1)
             q == SubSeq(s, i + 1, Len(s))
             t == Without(s, i)
  <1>1. p \in Seq(T) /\ Len(p) = i - 1 /\ \A j \in 1 .. i - 1 : p[j] = s[j]
    BY SubSeqProperties
  <1>2. q \in Seq(T) /\ Len(q) = Len(s) - i /\ \A j \in 1 .. Len(s) - i : q[j] = s[i + j]
    BY SubSeqProperties
  <1>3. t = p \o q /\ Len(s) \in Nat
    BY DEF Without
  <1> HIDE DEF p, q, t
  <1>4. /\ t \in Seq(T) /\ Len(t) = Len(p) + Len(q)
        /\ \A j \in 1 .. Len(p) + Len(q) :
             t[j] = IF j <= Len(p) THEN p[j] ELSE q[j - Len(p)]
    <2>1. /\ p \o q \in Seq(T) /\ Len(p \o q) = Len(p) + Len(q)
          /\ \A j \in 1 .. Len(p) + Len(q) :
               (p \o q)[j] = IF j <= Len(p) THEN p[j] ELSE q[j - Len(p)]
      BY <1>1, <1>2, ConcatProperties, Zenon
    <2> QED
      BY <1>3, <2>1, Zenon
  <1>5. Len(t) = Len(s) - 1
    BY <1>1, <1>2, <1>3, <1>4
  <1>6. ASSUME NEW j \in 1 .. Len(t), j < i PROVE t[j] = s[j] /\ j \in 1 .. Len(s)
    BY <1>1, <1>3, <1>4, <1>5, <1>6
  <1>7. ASSUME NEW j \in 1 .. Len(t), j >= i PROVE t[j] = s[j + 1] /\ j + 1 \in 1 .. Len(s)
    <2>1. t[j] = q[j - (i - 1)] /\ j - (i - 1) \in 1 .. Len(s) - i
      <3>1. j \in Nat /\ i \in Nat /\ j <= Len(s) - 1 /\ i <= j /\ Len(p) = i - 1 /\ Len(s) \in Nat
        BY <1>1, <1>3, <1>5, <1>7
      <3>2. j \in 1 .. Len(p) + Len(q) /\ ~ (j <= Len(p)) /\ j - (i - 1) \in 1 .. Len(s) - i
        BY <1>2, <3>1
      <3> QED
        BY <1>4, <3>1, <3>2
    <2>2. q[j - (i - 1)] = s[i + (j - (i - 1))]
      BY <1>2, <2>1
    <2>3. i + (j - (i - 1)) = j + 1
      BY <1>3
    <2> QED
      BY <1>3, <1>5, <2>1, <2>2, <2>3
  <1>8. t \in Seq(T) /\ Len(t) = Len(s) - 1
    BY <1>4, <1>5, Zenon
  <1>9. \A j \in 1 .. Len(t) :
           /\ j < i => t[j] = s[j] /\ j \in 1 .. Len(s)
           /\ j >= i => t[j] = s[j + 1] /\ j + 1 \in 1 .. Len(s)
    BY <1>6, <1>7, Zenon
  <1>10. t = Without(s, i)
    BY DEF t
  <1> QED
    BY <1>8, <1>9, <1>10

Typed ==
    /\ TypeOK /\ wire \in [Roles -> Seq(Record)]
    /\ keepAlive \in KeepAlives /\ maxPadding \in Paddings

(* The counts that end the exchange of cookies, and who has installed. *)
Counted ==
    /\ pc["server"] # "start"
    /\ pc["client"] = "start" => hello = 0
    /\ pc["client"] = "wait" => hello = attempts["client"] + 1
    /\ pc["client"] \in {"start", "wait"} => attempts["client"] <= 3
    /\ pc["server"] = "wait" => attempts["server"] <= 3
    /\ \A r \in Roles : Installed(r) <=> pc[r] \in {"bind", "done"}
    /\ hello = 0 => \A r \in Roles : wire[r] = <<>> /\ attempts[r] = 0 /\ ~ Installed(r)

(* A server hello is on its way only from a server that installed what it says. *)
Answered ==
    /\ \A i \in 1 .. Len(wire["client"]) : wire["client"][i].type = "serverHello" =>
         wire["client"][i] = ServerHelloRecord /\ Installed("server")
    /\ \A r \in Roles : Installed(r) => samePsk /\ Installed("server")
    /\ Installed("server") =>
         params["server"] = [keepAlive |-> keepAlive, maxPadding |-> maxPadding]
    /\ Installed("client") =>
         params["client"] = [keepAlive |-> IF Milliseconds(keepAlive) = 0 THEN 15000
                                           ELSE Milliseconds(keepAlive),
                             maxPadding |-> maxPadding]

HelloAt(i) == wire["server"][i].type = "hello"
CookieAt(i) == wire["client"][i].type = "cookie"

(* Unless a record was repeated: at most one hello or cookie is under way, none
   once the server has installed, and it is the last one sent. *)
InTurn ==
    /\ \A i \in 1 .. Len(wire["server"]) : HelloAt(i) =>
         /\ wire["server"][i].n = hello /\ wire["server"][i].cookie = attempts["server"]
         /\ attempts["client"] = attempts["server"] /\ ~ Installed("server")
         /\ \A j \in 1 .. Len(wire["server"]) : HelloAt(j) => j = i
         /\ \A j \in 1 .. Len(wire["client"]) : ~ CookieAt(j)
    /\ \A i \in 1 .. Len(wire["client"]) : CookieAt(i) =>
         /\ attempts["server"] = attempts["client"] + 1 /\ ~ Installed("server")
         /\ wire["client"][i].cookie = attempts["server"]
         /\ \A j \in 1 .. Len(wire["client"]) : CookieAt(j) => j = i
    /\ \A r \in Roles : Installed(r) => agreed[r] = hello
    /\ attempts["server"] <= expired + 1

(* On TCP nothing of the handshake is behind a frame of the tunnel. *)
OnTcp ==
    /\ ~ Installed("server") => \A i \in 1 .. Len(wire["client"]) : CookieAt(i)
    /\ \A i \in 2 .. Len(wire["client"]) : wire["client"][i].type = "bind"
    /\ Installed("client") => \A i \in 1 .. Len(wire["client"]) : wire["client"][i].type = "bind"
    /\ Installed("server") /\ pc["client"] = "wait" =>
         wire["client"] # <<>> /\ wire["client"][1].type = "serverHello"
    /\ \A i \in 1 .. Len(wire["server"]) :
         HelloAt(i) \/ (wire["server"][i].type = "bind" /\ Installed("client"))

(* Nobody fails before one of the causes that FailsOnlyForCause names. *)
Undisturbed == samePsk /\ expired < 3 /\ ~ hungUp /\ pc["server"] # "crashed"
Unfailed == closed = {} /\ \A r \in Roles : pc[r] # "failed"

IInv ==
    /\ Typed /\ Counted /\ Answered
    /\ ~ repeated => InTurn
    /\ network = "tcp" => ~ repeated /\ OnTcp /\ (Undisturbed => Unfailed)

-----------------------------------------------------------------------------
(* The records, and what the wires hold after an exchange *)

Word == 0 .. MaxUint16
Byte == 0 .. MaxUint8

Hellos == [type : {"hello"}, n : 1 .. 4, cookie : 0 .. 4]
Cookies == [type : {"cookie"}, cookie : 1 .. 4]
ServerHellos == [type : {"serverHello"}, keepAlive : Word, maxPadding : Byte]
Empties == [type : {"bind", "junk"}]

LEMMA RecordParts == Record = Hellos \cup Cookies \cup ServerHellos \cup Empties
  BY SMT DEF Record, Hellos, Cookies, ServerHellos, Empties, Word, Byte

LEMMA Records ==
    /\ [type |-> "bind"] \in Record /\ [type |-> "junk"] \in Record
    /\ \A n \in 1 .. 4, c \in 0 .. 4 : [type |-> "hello", n |-> n, cookie |-> c] \in Record
    /\ \A c \in 1 .. 4 : [type |-> "cookie", cookie |-> c] \in Record
    /\ \A k \in Word, p \in Byte :
         [type |-> "serverHello", keepAlive |-> k, maxPadding |-> p] \in Record
  <1>1. [type |-> "bind"] \in Empties /\ [type |-> "junk"] \in Empties
    BY SMT DEF Empties
  <1>2. \A n \in 1 .. 4, c \in 0 .. 4 : [type |-> "hello", n |-> n, cookie |-> c] \in Hellos
    BY SMT DEF Hellos
  <1>3. \A c \in 1 .. 4 : [type |-> "cookie", cookie |-> c] \in Cookies
    BY SMT DEF Cookies
  <1>4. \A k \in Word, p \in Byte :
          [type |-> "serverHello", keepAlive |-> k, maxPadding |-> p] \in ServerHellos
    BY SMT DEF ServerHellos
  <1> QED
    BY <1>1, <1>2, <1>3, <1>4, RecordParts, SMT

LEMMA RecordTypes ==
    ASSUME NEW m \in Record
    PROVE  /\ m.type \in {"hello", "cookie", "serverHello", "bind", "junk"}
           /\ m.type = "hello" => m.n \in 1 .. 4 /\ m.cookie \in 0 .. 4
           /\ m.type = "cookie" => m.cookie \in 1 .. 4
           /\ m.type = "serverHello" => m.keepAlive \in Word /\ m.maxPadding \in Byte
  <1>1. \A x \in Hellos : x.type = "hello" /\ x.n \in 1 .. 4 /\ x.cookie \in 0 .. 4
    BY SMT DEF Hellos
  <1>2. \A x \in Cookies : x.type = "cookie" /\ x.cookie \in 1 .. 4
    BY SMT DEF Cookies
  <1>3. \A x \in ServerHellos :
          x.type = "serverHello" /\ x.keepAlive \in Word /\ x.maxPadding \in Byte
    BY SMT DEF ServerHellos
  <1>4. \A x \in Empties : x.type \in {"bind", "junk"}
    BY SMT DEF Empties
  <1> QED
    BY <1>1, <1>2, <1>3, <1>4, RecordParts, SMT

LEMMA RolesApart ==
    /\ Roles = {"client", "server"} /\ "client" # "server"
    /\ Other("client") = "server" /\ Other("server") = "client"
  BY DEF Roles, Other

(* Records wrote on its way to a role are behind the ones that were there. *)
Behind(o, m) ==
    /\ Len(wire'[o]) = Len(wire[o]) + 1 /\ wire'[o][Len(wire[o]) + 1] = m
    /\ \A j \in 1 .. Len(wire[o]) : wire'[o][j] = wire[o][j]

(* A role that read has the first record behind it. *)
Read(r) ==
    /\ Len(wire'[r]) = Len(wire[r]) - 1 /\ Len(wire[r]) >= 1
    /\ \A j \in 1 .. Len(wire'[r]) : wire'[r][j] = wire[r][j + 1]

LEMMA WireLengths ==
    ASSUME wire \in [Roles -> Seq(Record)], NEW r \in Roles
    PROVE  wire[r] \in Seq(Record) /\ Len(wire[r]) \in Nat
  OBVIOUS

LEMMA ReadOnly ==
    ASSUME wire \in [Roles -> Seq(Record)], NEW r \in Roles, wire[r] # <<>>,
           Exchange(r, TRUE, <<>>)
    PROVE  /\ wire' \in [Roles -> Seq(Record)]
           /\ Read(r) /\ wire'[Other(r)] = wire[Other(r)]
           /\ Head(wire[r]) = wire[r][1] /\ Head(wire[r]) \in Record
  <1>1. /\ wire[r] \in Seq(Record) /\ wire[Other(r)] \in Seq(Record)
        /\ Other(r) \in Roles /\ Other(r) # r
    BY DEF Roles, Other
  <1>2. wire' = [wire EXCEPT ![r] = Tail(@), ![Other(r)] = @ \o <<>>]
    BY DEF Exchange
  <1>3. wire[Other(r)] \o <<>> = wire[Other(r)]
    BY <1>1, ConcatEmptySeq
  <1>4. wire'[r] = Tail(wire[r]) /\ wire'[Other(r)] = wire[Other(r)]
    BY <1>1, <1>2, <1>3
  <1>5. Read(r) /\ Tail(wire[r]) \in Seq(Record)
    BY <1>1, <1>4, TailElements DEF Read
  <1>6. wire' \in [Roles -> Seq(Record)]
    BY <1>1, <1>2, <1>3, <1>5
  <1>7. Head(wire[r]) = wire[r][1] /\ Head(wire[r]) \in Record
    BY <1>1, TailElements
  <1> QED
    BY <1>4, <1>5, <1>6, <1>7

LEMMA AppendedOne ==
    ASSUME NEW T, NEW s \in Seq(T), NEW m \in T
    PROVE  /\ s \o <<m>> \in Seq(T) /\ Len(s \o <<m>>) = Len(s) + 1
           /\ (s \o <<m>>)[Len(s) + 1] = m
           /\ \A j \in 1 .. Len(s) : (s \o <<m>>)[j] = s[j]
  OBVIOUS

LEMMA ReadAndAnswer ==
    ASSUME wire \in [Roles -> Seq(Record)], NEW r \in Roles, wire[r] # <<>>,
           NEW m \in Record, Exchange(r, TRUE, <<m>>)
    PROVE  /\ wire' \in [Roles -> Seq(Record)]
           /\ Read(r) /\ Behind(Other(r), m)
           /\ Head(wire[r]) = wire[r][1] /\ Head(wire[r]) \in Record
  <1>1. /\ wire[r] \in Seq(Record) /\ wire[Other(r)] \in Seq(Record)
        /\ Other(r) \in Roles /\ Other(r) # r
    BY DEF Roles, Other
  <1>2. wire' = [wire EXCEPT ![r] = Tail(@), ![Other(r)] = @ \o <<m>>]
    BY DEF Exchange
  <1>4. wire'[r] = Tail(wire[r]) /\ wire'[Other(r)] = wire[Other(r)] \o <<m>>
    BY <1>1, <1>2
  <1>5. Read(r) /\ Tail(wire[r]) \in Seq(Record)
    BY <1>1, <1>4, TailElements DEF Read
  <1>6. Behind(Other(r), m) /\ wire[Other(r)] \o <<m>> \in Seq(Record)
    BY <1>1, <1>4, AppendedOne DEF Behind
  <1>7. wire' \in [Roles -> Seq(Record)]
    BY <1>1, <1>2, <1>5, <1>6
  <1>8. Head(wire[r]) = wire[r][1] /\ Head(wire[r]) \in Record
    BY <1>1, TailElements
  <1> QED
    BY <1>5, <1>6, <1>7, <1>8

LEMMA WriteOnly ==
    ASSUME wire \in [Roles -> Seq(Record)], NEW r \in Roles,
           NEW m \in Record, Exchange(r, FALSE, <<m>>)
    PROVE  /\ wire' \in [Roles -> Seq(Record)]
           /\ wire'[r] = wire[r] /\ Behind(Other(r), m)
  <1>1. /\ wire[r] \in Seq(Record) /\ wire[Other(r)] \in Seq(Record)
        /\ Other(r) \in Roles /\ Other(r) # r
    BY DEF Roles, Other
  <1>2. wire' = [wire EXCEPT ![r] = @, ![Other(r)] = @ \o <<m>>]
    BY DEF Exchange
  <1>4. wire'[r] = wire[r] /\ wire'[Other(r)] = wire[Other(r)] \o <<m>>
    BY <1>1, <1>2
  <1>6. Behind(Other(r), m) /\ wire[Other(r)] \o <<m>> \in Seq(Record)
    BY <1>1, <1>4, AppendedOne DEF Behind
  <1>7. wire' \in [Roles -> Seq(Record)]
    BY <1>1, <1>2, <1>6
  <1> QED
    BY <1>4, <1>6, <1>7

LEMMA WriteNothing ==
    ASSUME wire \in [Roles -> Seq(Record)], NEW r \in Roles, Exchange(r, FALSE, <<>>)
    PROVE  wire' = wire
  <1>1. /\ wire[r] \in Seq(Record) /\ wire[Other(r)] \in Seq(Record)
        /\ Other(r) \in Roles /\ Other(r) # r
    BY DEF Roles, Other
  <1>2. wire' = [wire EXCEPT ![r] = @, ![Other(r)] = @ \o <<>>]
    BY DEF Exchange
  <1>3. wire[Other(r)] \o <<>> = wire[Other(r)]
    BY <1>1, ConcatEmptySeq
  <1> QED
    BY <1>1, <1>2, <1>3

(* What the network does to the records on their way to r, unless it repeats one. *)
Lost(r, i) ==
    /\ Len(wire'[r]) = Len(wire[r]) - 1
    /\ \A j \in 1 .. Len(wire'[r]) :
         /\ j < i => wire'[r][j] = wire[r][j]
         /\ j >= i => wire'[r][j] = wire[r][j + 1]
Cut(r, i) ==
    /\ Len(wire'[r]) = Len(wire[r])
    /\ \A j \in 1 .. Len(wire'[r]) :
         /\ j # i => wire'[r][j] = wire[r][j]
         /\ j = i => wire'[r][j] = [type |-> "junk"]
Repeated(r, i) == Behind(r, wire[r][i])

LEMMA Disturbed ==
    ASSUME wire \in [Roles -> Seq(Record)], NEW r \in Roles, Disturb(r)
    PROVE  /\ wire' \in [Roles -> Seq(Record)] /\ wire'[Other(r)] = wire[Other(r)]
           /\ \E i \in 1 .. Len(wire[r]) :
                \/ Lost(r, i) /\ UNCHANGED repeated
                \/ Cut(r, i) /\ UNCHANGED repeated
                \/ Repeated(r, i) /\ repeated' = TRUE
  <1>1. /\ wire[r] \in Seq(Record) /\ Other(r) \in Roles /\ Other(r) # r
    BY DEF Roles, Other
  <1>2. PICK i \in DOMAIN wire[r] :
          \/ wire' = [wire EXCEPT ![r] = RemoveAt(@, i)] /\ UNCHANGED repeated
          \/ wire' = [wire EXCEPT ![r][i] = [type |-> "junk"]] /\ UNCHANGED repeated
          \/ wire' = [wire EXCEPT ![r] = Append(@, @[i])] /\ repeated' = TRUE
    BY DEF Disturb
  <1>3. i \in 1 .. Len(wire[r]) /\ wire[r][i] \in Record
    BY <1>1
  <1>4. CASE wire' = [wire EXCEPT ![r] = RemoveAt(@, i)] /\ UNCHANGED repeated
    <2>1. wire' = [wire EXCEPT ![r] = Without(wire[r], i)]
      BY <1>4 DEF RemoveAt, Without
    <2>2. wire'[r] = Without(wire[r], i) /\ wire'[Other(r)] = wire[Other(r)]
      BY <1>1, <2>1
    <2>3. wire'[r] \in Seq(Record) /\ Lost(r, i)
      BY <1>1, <1>3, <2>2, WithoutElements DEF Lost
    <2>4. wire' \in [Roles -> Seq(Record)]
      BY <2>1, <2>2, <2>3
    <2> QED
      BY <1>3, <1>4, <2>2, <2>3, <2>4
  <1>5. CASE wire' = [wire EXCEPT ![r][i] = [type |-> "junk"]] /\ UNCHANGED repeated
    <2>1. [type |-> "junk"] \in Record
      BY Records
    <2>2. wire' = [wire EXCEPT ![r] = [wire[r] EXCEPT ![i] = [type |-> "junk"]]]
      BY <1>5
    <2>3. /\ wire'[r] = [wire[r] EXCEPT ![i] = [type |-> "junk"]]
          /\ wire'[Other(r)] = wire[Other(r)]
      BY <1>1, <2>2
    <2>4. wire'[r] \in Seq(Record) /\ Len(wire'[r]) = Len(wire[r])
      BY <1>1, <1>3, <2>1, <2>3, ExceptSeq
    <2>5. Cut(r, i)
      BY <1>1, <1>3, <2>3, <2>4 DEF Cut
    <2>6. wire' \in [Roles -> Seq(Record)]
      BY <2>2, <2>3, <2>4
    <2> QED
      BY <1>3, <1>5, <2>3, <2>5, <2>6
  <1>6. CASE wire' = [wire EXCEPT ![r] = Append(@, @[i])] /\ repeated' = TRUE
    <2>1. wire'[r] = Append(wire[r], wire[r][i]) /\ wire'[Other(r)] = wire[Other(r)]
      BY <1>1, <1>6
    <2>2. wire'[r] \in Seq(Record) /\ Repeated(r, i)
      BY <1>1, <1>3, <2>1, AppendProperties DEF Repeated, Behind
    <2>3. wire' \in [Roles -> Seq(Record)]
      BY <1>6, <2>1, <2>2
    <2> QED
      BY <1>3, <1>6, <2>1, <2>2, <2>3
  <1> QED
    BY <1>2, <1>4, <1>5, <1>6

-----------------------------------------------------------------------------
(* Types *)

(* The 16 bits of the server hello. *)
LEMMA CutToWord ==
    ASSUME NEW k \in Nat
    PROVE  /\ k % (MaxUint16 + 1) \in Word /\ k % (MaxUint16 + 1) <= k
           /\ k < 65536 => k % (MaxUint16 + 1) = k
  <1>1. MaxUint16 \in Nat /\ MaxUint16 + 1 = 65536
    BY SMT DEF MaxUint16
  <1>2. /\ k % 65536 \in Nat /\ k % 65536 < 65536 /\ k % 65536 <= k
        /\ k < 65536 => k % 65536 = k
    BY SMT
  <1> QED
    BY <1>1, <1>2, SMT DEF Word

LEMMA OptionTypes ==
    ASSUME keepAlive \in KeepAlives, maxPadding \in Paddings
    PROVE  /\ keepAlive \in Nat /\ keepAlive # 0
           /\ maxPadding \in Byte
           /\ ServerHelloRecord \in Record
           /\ Milliseconds(keepAlive) \in Word /\ Milliseconds(keepAlive) <= keepAlive
           /\ keepAlive < 65536 => Milliseconds(keepAlive) = keepAlive
  <1>1. keepAlive \in Nat /\ keepAlive # 0
    BY HandshakeAssumption, SMT
  <1>2. /\ Milliseconds(keepAlive) \in Word /\ Milliseconds(keepAlive) <= keepAlive
        /\ keepAlive < 65536 => Milliseconds(keepAlive) = keepAlive
    BY <1>1, CutToWord, SMT DEF Milliseconds
  <1>3. maxPadding \in Byte
    <2>1. maxPadding \in 1 .. MaxUint8 /\ MaxUint8 \in Nat
      BY HandshakeAssumption, SMT DEF MaxUint8
    <2> QED
      BY <2>1, SMT DEF Byte
  <1>4. ServerHelloRecord \in Record
    BY <1>2, <1>3, Records, SMT DEF ServerHelloRecord
  <1> QED
    BY <1>1, <1>2, <1>3, <1>4, SMT

(* The head that a role reads. *)
LEMMA HeadRead ==
    ASSUME Typed, NEW r \in Roles, Reads(r)
    PROVE  /\ wire[r] # <<>> /\ Head(wire[r]) = wire[r][1] /\ 1 \in 1 .. Len(wire[r])
           /\ Head(wire[r]) \in Record
  <1>1. wire[r] \in Seq(Record) /\ wire[r] # <<>>
    BY DEF Typed, Reads
  <1> QED
    BY <1>1, TailElements

(* What each action does to the wires. *)
LEMMA WiresMove ==
    ASSUME Typed, Counted
    PROVE  /\ SendHello => /\ wire' \in [Roles -> Seq(Record)] /\ wire'["client"] = wire["client"]
                           /\ Behind("server", [type |-> "hello", n |-> 1, cookie |-> 0])
           /\ ClientGetsCookie =>
                /\ wire' \in [Roles -> Seq(Record)] /\ Read("client")
                /\ \/ /\ attempts'["client"] > 3 /\ wire'["server"] = wire["server"]
                   \/ /\ attempts'["client"] <= 3
                      /\ Behind("server", [type |-> "hello", n |-> hello + 1,
                                           cookie |-> wire["client"][1].cookie])
           /\ ClientGetsServerHello =>
                /\ wire' \in [Roles -> Seq(Record)] /\ Read("client")
                /\ wire'["server"] = wire["server"]
           /\ ServerSendsCookie =>
                /\ wire' \in [Roles -> Seq(Record)] /\ Read("server")
                /\ Behind("client", [type |-> "cookie", cookie |-> attempts["server"] + 1])
           /\ ServerSendsHello =>
                /\ wire' \in [Roles -> Seq(Record)] /\ Read("server")
                /\ Behind("client", ServerHelloRecord)
           /\ ServerPanics => /\ wire' \in [Roles -> Seq(Record)] /\ Read("server")
                              /\ wire'["client"] = wire["client"]
           /\ \A r \in Roles :
                /\ Refuse(r) => /\ wire' \in [Roles -> Seq(Record)] /\ Read(r)
                                /\ wire'[Other(r)] = wire[Other(r)]
                /\ SendBind(r) =>
                     \/ wire' = wire
                     \/ /\ wire' \in [Roles -> Seq(Record)] /\ wire'[r] = wire[r]
                        /\ Behind(Other(r), [type |-> "bind"])
  <1>w. wire \in [Roles -> Seq(Record)]
    BY DEF Typed
  <1>t. /\ hello \in 0 .. 4 /\ attempts \in [Roles -> 0 .. 4]
        /\ pc["client"] = "wait" => hello = attempts["client"] + 1 /\ attempts["client"] <= 3
        /\ pc["server"] = "wait" => attempts["server"] <= 3
    BY SMT DEF Typed, TypeOK, Counted
  <1>1. ASSUME SendHello
        PROVE  /\ wire' \in [Roles -> Seq(Record)] /\ wire'["client"] = wire["client"]
               /\ Behind("server", [type |-> "hello", n |-> 1, cookie |-> 0])
    <2>1. Exchange("client", FALSE, <<[type |-> "hello", n |-> 1, cookie |-> 0]>>)
      <3>1. Hello(0) = [type |-> "hello", n |-> 1, cookie |-> 0]
        BY <1>1 DEF SendHello, Hello
      <3>2. Exchange("client", FALSE, <<Hello(0)>>)
        BY <1>1 DEF SendHello
      <3> QED
        BY <3>1, <3>2, Zenon
    <2>2. [type |-> "hello", n |-> 1, cookie |-> 0] \in Record
      BY Records, SMT
    <2> QED
      BY <1>w, <2>1, <2>2, RolesApart, WriteOnly
  <1>2. ASSUME ClientGetsCookie
        PROVE  /\ wire' \in [Roles -> Seq(Record)] /\ Read("client")
               /\ \/ /\ attempts'["client"] > 3 /\ wire'["server"] = wire["server"]
                  \/ /\ attempts'["client"] <= 3
                     /\ Behind("server", [type |-> "hello", n |-> hello + 1,
                                          cookie |-> wire["client"][1].cookie])
    <2>1. /\ Reads("client") /\ wire["client"] # <<>>
          /\ Head(wire["client"]) = wire["client"][1] /\ Head(wire["client"]) \in Record
          /\ Head(wire["client"]).type = "cookie"
          /\ attempts'["client"] = attempts["client"] + 1
      BY <1>2, <1>t, HeadRead, RolesApart DEF ClientGetsCookie
    <2>2. CASE TooMany(attempts'["client"]) /\ Exchange("client", TRUE, <<>>)
      BY <1>w, <2>1, <2>2, RolesApart, ReadOnly DEF TooMany
    <2>3. CASE /\ ~ TooMany(attempts'["client"]) /\ hello' = hello + 1
               /\ Exchange("client", TRUE, <<NextHello(Head(wire["client"]))>>)
      <3> DEFINE m == [type |-> "hello", n |-> hello + 1, cookie |-> wire["client"][1].cookie]
      <3>1. Exchange("client", TRUE, <<m>>)
        <4>1. NextHello(Head(wire["client"])) = m
          BY <2>1, <2>3 DEF NextHello, Hello
        <4> QED
          BY <2>3, <4>1, Zenon
      <3>2. hello + 1 \in 1 .. 4 /\ attempts'["client"] <= 3
        BY <1>t, <2>1, <2>3, SMT DEF TooMany, Reads
      <3>3. wire["client"][1].cookie \in 0 .. 4
        BY <2>1, RecordTypes, SMT
      <3>4. m \in Record
        BY <3>2, <3>3, Records, SMT
      <3> HIDE DEF m
      <3>5. wire' \in [Roles -> Seq(Record)] /\ Read("client") /\ Behind("server", m)
        BY <1>w, <2>1, <3>1, <3>4, RolesApart, ReadAndAnswer
      <3> QED
        BY <3>2, <3>5 DEF m
    <2> QED
      BY <1>2, <2>2, <2>3 DEF ClientGetsCookie
  <1>3. ASSUME ClientGetsServerHello
        PROVE  /\ wire' \in [Roles -> Seq(Record)] /\ Read("client")
               /\ wire'["server"] = wire["server"]
    BY <1>3, <1>w, HeadRead, RolesApart, ReadOnly DEF ClientGetsServerHello
  <1>4. ASSUME ServerSendsCookie
        PROVE  /\ wire' \in [Roles -> Seq(Record)] /\ Read("server")
               /\ Behind("client", [type |-> "cookie", cookie |-> attempts["server"] + 1])
    <2> DEFINE m == [type |-> "cookie", cookie |-> attempts["server"] + 1]
    <2>1. Exchange("server", TRUE, <<m>>) /\ wire["server"] # <<>>
      BY <1>4, <1>t, RolesApart DEF ServerSendsCookie, Reads
    <2>2. attempts["server"] + 1 \in 1 .. 4
      BY <1>4, <1>t, RolesApart, SMT DEF ServerSendsCookie, Reads
    <2>3. m \in Record
      BY <2>2, Records, SMT
    <2> HIDE DEF m
    <2>4. wire' \in [Roles -> Seq(Record)] /\ Read("server") /\ Behind("client", m)
      BY <1>w, <2>1, <2>3, RolesApart, ReadAndAnswer
    <2> QED
      BY <2>4 DEF m
  <1>5. ASSUME ServerSendsHello
        PROVE  /\ wire' \in [Roles -> Seq(Record)] /\ Read("server")
               /\ Behind("client", ServerHelloRecord)
    <2>1. Exchange("server", TRUE, <<ServerHelloRecord>>) /\ wire["server"] # <<>>
      BY <1>5 DEF ServerSendsHello, ServerHello, Reads
    <2>2. ServerHelloRecord \in Record
      BY OptionTypes DEF Typed
    <2> QED
      BY <1>w, <2>1, <2>2, RolesApart, ReadAndAnswer
  <1>6. ASSUME ServerPanics
        PROVE  /\ wire' \in [Roles -> Seq(Record)] /\ Read("server")
               /\ wire'["client"] = wire["client"]
    BY <1>6, <1>w, HeadRead, RolesApart, ReadOnly DEF ServerPanics
  <1>7. ASSUME NEW r \in Roles, Refuse(r)
        PROVE  /\ wire' \in [Roles -> Seq(Record)] /\ Read(r)
               /\ wire'[Other(r)] = wire[Other(r)]
    BY <1>7, <1>w, HeadRead, ReadOnly DEF Refuse
  <1>8. ASSUME NEW r \in Roles, SendBind(r)
        PROVE  \/ wire' = wire
               \/ /\ wire' \in [Roles -> Seq(Record)] /\ wire'[r] = wire[r]
                  /\ Behind(Other(r), [type |-> "bind"])
    <2>1. CASE r \in closed
      <3>1. Exchange(r, FALSE, <<>>)
        BY <1>8, <2>1 DEF SendBind
      <3> QED
        BY <1>w, <3>1, WriteNothing
    <2>2. CASE r \notin closed
      <3>1. Exchange(r, FALSE, <<[type |-> "bind"]>>) /\ [type |-> "bind"] \in Record
        BY <1>8, <2>2, Records DEF SendBind
      <3> QED
        BY <1>w, <3>1, WriteOnly
    <2> QED
      BY <2>1, <2>2
  <1> QED
    BY <1>1, <1>2, <1>3, <1>4, <1>5, <1>6, <1>7, <1>8

(* Everything but the wires. *)
Others ==
    /\ network \in {"tcp", "udp"} /\ samePsk \in BOOLEAN
    /\ keepAlive \in KeepAlives /\ maxPadding \in Paddings
    /\ pc \in [Roles -> {"start", "wait", "bind", "done", "failed", "crashed"}]
    /\ hello \in 0 .. 4 /\ attempts \in [Roles -> 0 .. 4] /\ expired \in 0 .. 4
    /\ closed \subseteq Roles
    /\ agreed \in [Roles -> 0 .. 4] /\ params \in [Roles -> Parameters]
    /\ disturbances \in 0 .. MaxDisturbances /\ repeated \in BOOLEAN /\ hungUp \in BOOLEAN

LEMMA TypedParts == Typed <=> Others /\ wire \in [Roles -> Seq(Record)]
  <1>1. Typed => Others /\ wire \in [Roles -> Seq(Record)]
    BY DEF Typed, TypeOK, Others
  <1>2. ASSUME Others, wire \in [Roles -> Seq(Record)] PROVE Typed
    <2>1. \A r \in Roles : \A i \in DOMAIN wire[r] : wire[r][i] \in Record
      BY <1>2
    <2>2. keepAlive \in Nat /\ maxPadding \in 0 .. MaxUint8
      BY <1>2, OptionTypes DEF Others, Byte
    <2> QED
      BY <1>2, <2>1, <2>2 DEF Typed, TypeOK, Others
  <1> QED
    BY <1>1, <1>2

LEMMA TypingInit == Init => Typed
  <1> SUFFICES ASSUME Init PROVE Typed
    OBVIOUS
  <1>1. MaxDisturbances \in Nat /\ MaxUint8 \in Nat
    BY HandshakeAssumption DEF MaxUint8
  <1>2. wire \in [Roles -> Seq(Record)]
    BY DEF Init
  <1>3. params \in [Roles -> Parameters]
    BY <1>1 DEF Init, Parameters
  <1>4. pc \in [Roles -> {"start", "wait", "bind", "done", "failed", "crashed"}]
    BY DEF Init
  <1>5. /\ agreed \in [Roles -> 0 .. 4] /\ attempts \in [Roles -> 0 .. 4]
        /\ closed \subseteq Roles /\ hello \in 0 .. 4 /\ expired \in 0 .. 4
        /\ disturbances \in 0 .. MaxDisturbances
    BY <1>1 DEF Init
  <1>6. Others
    BY <1>3, <1>4, <1>5 DEF Init, Others
  <1> QED
    BY <1>2, <1>6, TypedParts

LEMMA Typing == Typed /\ Counted /\ [Next]_vars => Typed'
  <1> SUFFICES ASSUME Typed, Counted, [Next]_vars PROVE Typed'
    OBVIOUS
  <1>t. Others /\ wire \in [Roles -> Seq(Record)]
    BY TypedParts
  <1>c. /\ pc["client"] = "wait" => hello = attempts["client"] + 1 /\ attempts["client"] <= 3
        /\ pc["server"] = "wait" => attempts["server"] <= 3
        /\ MaxDisturbances \in Nat
    BY HandshakeAssumption DEF Counted
  <1>p. \A k \in Nat, b \in Byte : [keepAlive |-> k, maxPadding |-> b] \in Parameters
    BY SMT DEF Parameters, Byte
  <1>o. keepAlive \in Nat /\ maxPadding \in Byte
    BY <1>t, OptionTypes DEF Others
  <1>1. wire' \in [Roles -> Seq(Record)]
    <2>1. ASSUME NEW r \in Roles, Disturb(r) PROVE wire' \in [Roles -> Seq(Record)]
      BY <1>t, <2>1, Disturbed
    <2>2. CASE UNCHANGED wire
      BY <1>t, <2>2
    <2> QED
      BY <2>1, <2>2, WiresMove, RolesApart
         DEF Next, Client, Server, ReadFails, Expire, Hangup, vars
  <1>2. Others'
    <2>1. CASE SendHello
      BY <1>t, <2>1, RolesApart DEF SendHello, Others, options, history
    <2>2. CASE ClientGetsCookie
      <3>1. attempts' \in [Roles -> 0 .. 4]
        BY <1>t, <1>c, <2>2, RolesApart DEF ClientGetsCookie, Others, Reads
      <3>2. hello' \in 0 .. 4
        <4>1. CASE TooMany(attempts'["client"]) /\ Fail("client")
          BY <1>t, <4>1 DEF Fail, Others
        <4>2. CASE ~ TooMany(attempts'["client"]) /\ hello' = hello + 1
          <5>1. attempts'["client"] = attempts["client"] + 1 /\ attempts["client"] \in Nat
            BY <1>t, <2>2, RolesApart DEF ClientGetsCookie, Others
          <5>2. hello = attempts["client"] + 1 /\ attempts["client"] + 1 <= 3
            BY <1>c, <2>2, <4>2, <5>1 DEF ClientGetsCookie, Reads, TooMany
          <5> QED
            BY <4>2, <5>1, <5>2
        <4> QED
          BY <2>2, <4>1, <4>2 DEF ClientGetsCookie
      <3> QED
        BY <1>t, <2>2, <3>1, <3>2, RolesApart
           DEF ClientGetsCookie, Others, Fail, options, history
    <2>3. CASE ClientGetsServerHello
      <3>1. /\ Head(wire["client"]).keepAlive \in Nat /\ Head(wire["client"]).maxPadding \in Byte
        <4>1. Head(wire["client"]) \in Record /\ Head(wire["client"]).type = "serverHello"
          BY <2>3, HeadRead, RolesApart DEF ClientGetsServerHello
        <4> QED
          BY <4>1, RecordTypes, SMT DEF Word
      <3>2. params' \in [Roles -> Parameters]
        <4> DEFINE k == IF Head(wire["client"]).keepAlive = 0 THEN 15000
                        ELSE Head(wire["client"]).keepAlive
        <4>1. params' = [params EXCEPT !["client"] =
                           [keepAlive |-> k, maxPadding |-> Head(wire["client"]).maxPadding]]
          BY <2>3 DEF ClientGetsServerHello, Install
        <4>2. k \in Nat
          BY <3>1
        <4> HIDE DEF k
        <4> QED
          BY <1>t, <1>p, <3>1, <4>1, <4>2 DEF Others
      <3> QED
        BY <1>t, <2>3, <3>2, RolesApart
           DEF ClientGetsServerHello, Install, ClientTranscript, Others, options, history
    <2>4. CASE ServerSendsCookie
      <3>1. attempts' \in [Roles -> 0 .. 4]
        BY <1>t, <1>c, <2>4, RolesApart DEF ServerSendsCookie, Others, Reads
      <3> QED
        BY <1>t, <2>4, <3>1, RolesApart DEF ServerSendsCookie, Others, Fail, options, history
    <2>5. CASE ServerSendsHello
      <3>1. Head(wire["server"]).n \in 1 .. 4
        <4>1. Head(wire["server"]) \in Record /\ Head(wire["server"]).type = "hello"
          BY <2>5, HeadRead, RolesApart DEF ServerSendsHello, Expected
        <4> QED
          BY <4>1, RecordTypes, SMT
      <3>2. params' \in [Roles -> Parameters]
        <4> DEFINE k == IF keepAlive = 0 THEN 15000 ELSE keepAlive
        <4>1. params' = [params EXCEPT !["server"] = [keepAlive |-> k, maxPadding |-> maxPadding]]
          BY <2>5 DEF ServerSendsHello, Install
        <4>2. k \in Nat
          BY <1>o
        <4> HIDE DEF k
        <4> QED
          BY <1>t, <1>p, <1>o, <4>1, <4>2 DEF Others
      <3> QED
        BY <1>t, <2>5, <3>1, <3>2, RolesApart
           DEF ServerSendsHello, Install, Others, options, history
    <2>6. CASE ServerPanics
      BY <1>t, <2>6, RolesApart DEF ServerPanics, Others, options, history
    <2>7. ASSUME NEW r \in Roles, Refuse(r) \/ ReadFails(r) PROVE Others'
      BY <1>t, <2>7 DEF Refuse, ReadFails, Fail, Others, options, history
    <2>8. ASSUME NEW r \in Roles, SendBind(r) PROVE Others'
      BY <1>t, <2>8 DEF SendBind, Others, options, history
    <2>9. ASSUME NEW r \in Roles, Hangup(r) PROVE Others'
      BY <1>t, <2>9 DEF Hangup, Others, options
    <2>10. CASE Expire
      BY <1>t, <2>10, RolesApart DEF Expire, Others, options, history
    <2>11. ASSUME NEW r \in Roles, Disturb(r) PROVE Others'
      <3>1. disturbances' \in 0 .. MaxDisturbances
        BY <1>t, <1>c, <2>11 DEF Disturb, Others
      <3>2. repeated' \in BOOLEAN
        BY <1>t, <2>11 DEF Disturb, Others
      <3> QED
        BY <1>t, <2>11, <3>1, <3>2 DEF Disturb, Others, options
    <2>12. CASE UNCHANGED vars
      BY <1>t, <2>12 DEF vars, Others, options, history
    <2> QED
      BY <2>1, <2>2, <2>3, <2>4, <2>5, <2>6, <2>7, <2>8, <2>9, <2>10, <2>11, <2>12, RolesApart
         DEF Next, Client, Server
  <1>3. UNCHANGED options
    BY DEF Next, Client, Server, SendHello, ClientGetsCookie, ClientGetsServerHello,
           ServerSendsCookie, ServerSendsHello, ServerPanics, Refuse, SendBind, ReadFails,
           Fail, Expire, Hangup, Disturb, vars
  <1>4. keepAlive' \in Nat /\ maxPadding' \in 0 .. MaxUint8
    BY <1>3, <1>o DEF options, Byte
  <1>5. \A r \in Roles : \A i \in DOMAIN wire'[r] : wire'[r][i] \in Record
    BY <1>1
  <1> QED
    BY <1>1, <1>2, <1>4, <1>5 DEF Typed, TypeOK, Others

-----------------------------------------------------------------------------
(* The parts of the invariant *)

(* What readRecord finds is a record of the wire. *)
LEMMA HeadType ==
    ASSUME Typed, NEW r \in Roles, Reads(r)
    PROVE  /\ Head(wire[r]).type = "hello" => Head(wire[r]).n \in 1 .. 4
           /\ wire[r] # <<>>
  BY HeadRead, RecordTypes DEF Reads

LEMMA CountedStep == Typed /\ Counted /\ [Next]_vars => Counted'
  <1> SUFFICES ASSUME Typed, Counted, [Next]_vars PROVE Counted'
    OBVIOUS
  <1>t. /\ pc \in [Roles -> {"start", "wait", "bind", "done", "failed", "crashed"}]
        /\ hello \in 0 .. 4 /\ attempts \in [Roles -> 0 .. 4]
        /\ agreed \in [Roles -> 0 .. 4] /\ wire \in [Roles -> Seq(Record)]
    BY DEF Typed, TypeOK
  <1> USE RolesApart, <1>t DEF Counted, Installed
  <1>1. CASE SendHello
    BY <1>1 DEF SendHello
  <1>2. CASE ClientGetsCookie
    <2>0. /\ attempts' = [attempts EXCEPT !["client"] = @ + 1]
          /\ pc["client"] = "wait" /\ UNCHANGED agreed
          /\ \A r \in Roles : r # "client" => pc'[r] = pc[r]
      BY <1>2 DEF ClientGetsCookie, Reads, Fail
    <2>1. CASE TooMany(attempts'["client"]) /\ Fail("client")
      BY <2>0, <2>1 DEF Fail
    <2>2. CASE ~ TooMany(attempts'["client"]) /\ hello' = hello + 1 /\ UNCHANGED pc
      BY <2>0, <2>2 DEF TooMany
    <2> QED
      BY <1>2, <2>1, <2>2 DEF ClientGetsCookie
  <1>3. CASE ClientGetsServerHello
    <2>1. hello # 0 /\ pc["client"] = "wait"
      BY <1>3 DEF ClientGetsServerHello, Reads
    <2>2. /\ pc' = [pc EXCEPT !["client"] = "bind"] /\ UNCHANGED <<hello, attempts>>
          /\ agreed' = [agreed EXCEPT !["client"] = hello]
      BY <1>3 DEF ClientGetsServerHello, Install, ClientTranscript
    <2> QED
      BY <2>1, <2>2
  <1>4. CASE ServerSendsCookie
    <2>1. hello # 0 /\ pc["server"] = "wait" /\ UNCHANGED <<hello, agreed>>
      BY <1>4 DEF ServerSendsCookie, Reads, Fail
    <2>2. attempts' = [attempts EXCEPT !["server"] = @ + 1]
      BY <1>4 DEF ServerSendsCookie
    <2>3. CASE TooMany(attempts'["server"])
      BY <1>4, <2>1, <2>2, <2>3 DEF ServerSendsCookie, Fail
    <2>4. CASE ~ TooMany(attempts'["server"])
      BY <1>4, <2>1, <2>2, <2>4 DEF ServerSendsCookie, TooMany
    <2> QED
      BY <2>3, <2>4
  <1>5. CASE ServerSendsHello
    <2>1. Head(wire["server"]).n \in 1 .. 4 /\ hello # 0 /\ pc["server"] = "wait"
      BY <1>5, HeadType DEF ServerSendsHello, Expected, Reads
    <2>2. /\ pc' = [pc EXCEPT !["server"] = "bind"] /\ UNCHANGED <<hello, attempts>>
          /\ agreed' = [agreed EXCEPT !["server"] = Head(wire["server"]).n]
      BY <1>5 DEF ServerSendsHello, Install
    <2> QED
      BY <2>1, <2>2
  <1>6. CASE ServerPanics
    BY <1>6 DEF ServerPanics, Reads
  <1>7. ASSUME NEW r \in Roles, Refuse(r) PROVE Counted'
    BY <1>7 DEF Refuse, Fail, Reads
  <1>8. ASSUME NEW r \in Roles, SendBind(r) PROVE Counted'
    <2>1. hello # 0
      BY <1>8 DEF SendBind
    <2> QED
      BY <1>8, <2>1 DEF SendBind
  <1>9. ASSUME NEW r \in Roles, ReadFails(r) PROVE Counted'
    BY <1>9 DEF ReadFails, Fail
  <1>10. ASSUME NEW r \in Roles, Disturb(r) PROVE Counted'
    <2>1. hello # 0
      BY <1>10 DEF Disturb
    <2> QED
      BY <1>10, <2>1 DEF Disturb
  <1>11. CASE UNCHANGED <<pc, hello, attempts, agreed, wire>>
    BY <1>11
  <1> QED
    BY <1>1, <1>2, <1>3, <1>4, <1>5, <1>6, <1>7, <1>8, <1>9, <1>10, <1>11
       DEF Next, Client, Server, Expire, Hangup, vars

(* The fields of a server hello say what its server's options are. *)
LEMMA OptionsStay ==
    ASSUME [Next]_vars
    PROVE  /\ UNCHANGED options /\ ServerHelloRecord' = ServerHelloRecord
           /\ Milliseconds(keepAlive)' = Milliseconds(keepAlive)
  <1>1. UNCHANGED options
    BY DEF Next, Client, Server, SendHello, ClientGetsCookie, ClientGetsServerHello,
           ServerSendsCookie, ServerSendsHello, ServerPanics, Refuse, SendBind, ReadFails,
           Fail, Expire, Hangup, Disturb, vars
  <1> QED
    BY <1>1 DEF options, ServerHelloRecord, Milliseconds

(* The only steps that install a session. *)
LEMMA WhoInstalls ==
    ASSUME [Next]_vars
    PROVE  ServerSendsHello \/ ClientGetsServerHello \/ UNCHANGED <<agreed, params>>
  <1>1. SendHello \/ Expire \/ ServerPanics => UNCHANGED <<agreed, params>>
    BY DEF SendHello, Expire, ServerPanics
  <1>2. ClientGetsCookie => UNCHANGED <<agreed, params>>
    BY DEF ClientGetsCookie, Fail
  <1>3. ServerSendsCookie => UNCHANGED <<agreed, params>>
    BY DEF ServerSendsCookie, Fail
  <1>4. \A r \in Roles : Refuse(r) \/ ReadFails(r) => UNCHANGED <<agreed, params>>
    BY DEF Refuse, ReadFails, Fail
  <1>5. \A r \in Roles : SendBind(r) \/ Hangup(r) \/ Disturb(r) => UNCHANGED <<agreed, params>>
    BY DEF SendBind, Hangup, Disturb
  <1> QED
    BY <1>1, <1>2, <1>3, <1>4, <1>5, RolesApart DEF Next, Client, Server, vars

LEMMA AnsweredStep == Typed /\ Counted /\ Answered /\ [Next]_vars => Answered'
  <1> SUFFICES ASSUME Typed, Counted, Answered, [Next]_vars PROVE Answered'
    OBVIOUS
  <1>t. /\ pc \in [Roles -> {"start", "wait", "bind", "done", "failed", "crashed"}]
        /\ agreed \in [Roles -> 0 .. 4] /\ params \in [Roles -> Parameters]
        /\ wire \in [Roles -> Seq(Record)]
    BY DEF Typed, TypeOK
  <1>l. /\ Len(wire["client"]) \in Nat /\ Len(wire["server"]) \in Nat
        /\ \A r \in Roles : Len(wire[r]) \in Nat
    BY <1>t, RolesApart
  <1>i. \A r \in Roles : Installed(r) <=> pc[r] \in {"bind", "done"}
    BY DEF Counted
  <1>a. /\ \A r \in Roles : Installed(r) => samePsk /\ Installed("server")
        /\ Installed("server") =>
             params["server"] = [keepAlive |-> keepAlive, maxPadding |-> maxPadding]
        /\ Installed("client") =>
             params["client"] = [keepAlive |-> IF Milliseconds(keepAlive) = 0 THEN 15000
                                               ELSE Milliseconds(keepAlive),
                                 maxPadding |-> maxPadding]
    BY DEF Answered
  <1>w. \A i \in 1 .. Len(wire["client"]) : wire["client"][i].type = "serverHello" =>
          wire["client"][i] = ServerHelloRecord /\ Installed("server")
    BY DEF Answered
  <1>o. /\ UNCHANGED <<keepAlive, maxPadding, samePsk>>
        /\ ServerHelloRecord' = ServerHelloRecord
        /\ Milliseconds(keepAlive)' = Milliseconds(keepAlive)
    BY OptionsStay DEF options
  <1>g. Installed("server") => Installed("server")'
    <2>1. CASE ServerSendsHello
      BY <1>i, <2>1, RolesApart DEF ServerSendsHello, Reads
    <2>2. CASE ClientGetsServerHello
      BY <1>t, <2>2, RolesApart DEF ClientGetsServerHello, Install, Installed
    <2> QED
      BY <2>1, <2>2, WhoInstalls DEF Installed
  <1>1. \A i \in 1 .. Len(wire'["client"]) : wire'["client"][i].type = "serverHello" =>
          wire'["client"][i] = ServerHelloRecord /\ Installed("server")'
    <2>1. CASE wire'["client"] = wire["client"]
      BY <1>w, <1>g, <2>1
    <2>2. CASE Read("client")
      BY <1>w, <1>g, <1>l, <2>2 DEF Read
    <2>3. CASE ServerSendsHello
      <3>1. Installed("server")'
        <4>1. Head(wire["server"]).n \in 1 .. 4
          BY <2>3, HeadType, RolesApart DEF ServerSendsHello, Expected
        <4> QED
          BY <1>t, <2>3, <4>1, RolesApart DEF ServerSendsHello, Install, Installed
      <3>2. Behind("client", ServerHelloRecord)
        BY <2>3, WiresMove
      <3> QED
        BY <1>w, <1>l, <3>1, <3>2 DEF Behind
    <2>4. ASSUME NEW m, m.type # "serverHello", Behind("client", m)
          PROVE  \A i \in 1 .. Len(wire'["client"]) : wire'["client"][i].type = "serverHello" =>
                   wire'["client"][i] = ServerHelloRecord /\ Installed("server")'
      BY <1>w, <1>g, <1>l, <2>4 DEF Behind
    <2>5. CASE Disturb("client")
      <3>1. PICK i \in 1 .. Len(wire["client"]) :
              Lost("client", i) \/ Cut("client", i) \/ Repeated("client", i)
        BY <1>t, <2>5, Disturbed, RolesApart
      <3>2. CASE Lost("client", i)
        BY <1>w, <1>g, <1>l, <3>2 DEF Lost
      <3>3. CASE Cut("client", i)
        BY <1>w, <1>g, <1>l, <3>3 DEF Cut
      <3>4. CASE Repeated("client", i)
        BY <1>w, <1>g, <1>l, <3>4 DEF Repeated, Behind
      <3> QED
        BY <3>1, <3>2, <3>3, <3>4
    <2>6. CASE SendHello \/ ClientGetsCookie \/ ClientGetsServerHello \/ ServerPanics
      BY <2>1, <2>2, <2>6, WiresMove
    <2>7. CASE ServerSendsCookie
      BY <2>4, <2>7, WiresMove
    <2>8. ASSUME NEW r \in Roles, Refuse(r)
          PROVE  Read("client") \/ wire'["client"] = wire["client"]
      BY <2>8, WiresMove, RolesApart
    <2>9. ASSUME NEW r \in Roles, SendBind(r)
          PROVE  wire'["client"] = wire["client"] \/ Behind("client", [type |-> "bind"])
      BY <2>9, WiresMove, RolesApart
    <2>10. CASE Disturb("server")
      BY <1>t, <2>1, <2>10, Disturbed, RolesApart
    <2> QED
      BY <2>1, <2>2, <2>3, <2>4, <2>5, <2>6, <2>7, <2>8, <2>9, <2>10, RolesApart
         DEF Next, Client, Server, ReadFails, Expire, Hangup, vars
  <1>2. /\ \A r \in Roles : Installed(r)' => samePsk /\ Installed("server")'
        /\ Installed("server")' =>
             params'["server"] = [keepAlive |-> keepAlive, maxPadding |-> maxPadding]
        /\ Installed("client")' =>
             params'["client"] = [keepAlive |-> IF Milliseconds(keepAlive) = 0 THEN 15000
                                                ELSE Milliseconds(keepAlive),
                                  maxPadding |-> maxPadding]
    <2>1. CASE UNCHANGED <<agreed, params>>
      BY <1>a, <2>1 DEF Installed
    <2>2. CASE ServerSendsHello
      <3>1. keepAlive # 0
        BY OptionTypes DEF Typed
      <3>2. /\ params' = [params EXCEPT !["server"] =
                            [keepAlive |-> keepAlive, maxPadding |-> maxPadding]]
            /\ samePsk /\ agreed'["client"] = agreed["client"]
        BY <1>t, <2>2, <3>1, RolesApart DEF ServerSendsHello, Install, Expected, Verified
      <3>3. Installed("server")'
        <4>1. Head(wire["server"]).n \in 1 .. 4
          BY <2>2, HeadType, RolesApart DEF ServerSendsHello, Expected
        <4> QED
          BY <1>t, <2>2, <4>1, RolesApart DEF ServerSendsHello, Install, Installed
      <3> QED
        BY <1>t, <1>a, <3>2, <3>3, RolesApart DEF Installed
    <2>3. CASE ClientGetsServerHello
      <3>1. Head(wire["client"]) = ServerHelloRecord /\ Installed("server")
        BY <1>w, <2>3, HeadRead, RolesApart DEF ClientGetsServerHello
      <3>2. /\ params' = [params EXCEPT !["client"] =
                  [keepAlive |-> IF Milliseconds(keepAlive) = 0 THEN 15000
                                 ELSE Milliseconds(keepAlive),
                   maxPadding |-> maxPadding]]
            /\ samePsk /\ agreed'["server"] = agreed["server"]
        <4> DEFINE m == Head(wire["client"])
                   told == [keepAlive |-> IF m.keepAlive = 0 THEN 15000 ELSE m.keepAlive,
                            maxPadding |-> m.maxPadding]
        <4>1. m.keepAlive = Milliseconds(keepAlive) /\ m.maxPadding = maxPadding
          BY <3>1 DEF ServerHelloRecord
        <4>2. told = [keepAlive |-> IF Milliseconds(keepAlive) = 0 THEN 15000
                                    ELSE Milliseconds(keepAlive),
                      maxPadding |-> maxPadding]
          BY <4>1
        <4>3. params' = [params EXCEPT !["client"] = told]
          BY <2>3 DEF ClientGetsServerHello, Install
        <4>4. samePsk /\ agreed'["server"] = agreed["server"]
          BY <1>t, <2>3, RolesApart
             DEF ClientGetsServerHello, Install, Verified, ClientTranscript
        <4> HIDE DEF told
        <4> QED
          BY <4>2, <4>3, <4>4
      <3> QED
        BY <1>t, <1>a, <3>1, <3>2, RolesApart DEF Installed
    <2> QED
      BY <2>1, <2>2, <2>3, WhoInstalls
  <1> QED
    BY <1>1, <1>2, <1>o DEF Answered

(* A wire that is read, loses or cuts a record, or takes a bind frame, has no
   hello and no cookie that it had not before. *)
Thinned(r) ==
    \/ wire'[r] = wire[r]
    \/ Read(r)
    \/ \E i \in 1 .. Len(wire[r]) : Lost(r, i) \/ Cut(r, i)
    \/ Behind(r, [type |-> "bind"])

Sole(s, t) == \A i, j \in 1 .. Len(s) : s[i].type = t /\ s[j].type = t => i = j

LEMMA ThinnedKeeps ==
    ASSUME wire \in [Roles -> Seq(Record)], NEW r \in Roles, Thinned(r),
           NEW t \in {"hello", "cookie"}
    PROVE  /\ \A i \in 1 .. Len(wire'[r]) : wire'[r][i].type = t =>
                \E k \in 1 .. Len(wire[r]) : wire'[r][i] = wire[r][k]
           /\ Sole(wire[r], t) => Sole(wire'[r], t)
  <1>l. Len(wire[r]) \in Nat
    OBVIOUS
  <1>1. CASE wire'[r] = wire[r]
    BY <1>1
  <1>2. CASE Read(r)
    <2>1. \A j \in 1 .. Len(wire'[r]) :
            j + 1 \in 1 .. Len(wire[r]) /\ wire'[r][j] = wire[r][j + 1]
      BY <1>l, <1>2 DEF Read
    <2>2. ASSUME Sole(wire[r], t), NEW j \in 1 .. Len(wire'[r]), NEW k \in 1 .. Len(wire'[r]),
                 wire'[r][j].type = t, wire'[r][k].type = t
          PROVE  j = k
      <3>1. j + 1 = k + 1
        BY <2>1, <2>2 DEF Sole
      <3> QED
        BY <3>1
    <2> QED
      BY <2>1, <2>2 DEF Sole
  <1>3. ASSUME NEW i \in 1 .. Len(wire[r]), Lost(r, i)
        PROVE  /\ \A j \in 1 .. Len(wire'[r]) : wire'[r][j].type = t =>
                    \E k \in 1 .. Len(wire[r]) : wire'[r][j] = wire[r][k]
               /\ Sole(wire[r], t) => Sole(wire'[r], t)
    <2>1. \A j \in 1 .. Len(wire'[r]) :
            /\ j < i /\ j \in 1 .. Len(wire[r]) /\ wire'[r][j] = wire[r][j]
            \/ /\ j >= i /\ j + 1 \in 1 .. Len(wire[r]) /\ wire'[r][j] = wire[r][j + 1]
      BY <1>l, <1>3 DEF Lost
    <2>2. ASSUME Sole(wire[r], t), NEW j \in 1 .. Len(wire'[r]), NEW k \in 1 .. Len(wire'[r]),
                 wire'[r][j].type = t, wire'[r][k].type = t
          PROVE  j = k
      <3> DEFINE was(x) == IF x < i THEN x ELSE x + 1
      <3>1. /\ was(j) \in 1 .. Len(wire[r]) /\ wire[r][was(j)].type = t
            /\ was(k) \in 1 .. Len(wire[r]) /\ wire[r][was(k)].type = t
        BY <2>1, <2>2
      <3>2. was(j) = was(k)
        BY <2>2, <3>1 DEF Sole
      <3> QED
        BY <3>2
    <2> QED
      BY <2>1, <2>2 DEF Sole
  <1>4. ASSUME NEW i \in 1 .. Len(wire[r]), Cut(r, i)
        PROVE  /\ \A j \in 1 .. Len(wire'[r]) : wire'[r][j].type = t =>
                    \E k \in 1 .. Len(wire[r]) : wire'[r][j] = wire[r][k]
               /\ Sole(wire[r], t) => Sole(wire'[r], t)
    <2>1. \A j \in 1 .. Len(wire'[r]) : wire'[r][j].type = t =>
            j \in 1 .. Len(wire[r]) /\ wire'[r][j] = wire[r][j]
      BY <1>l, <1>4 DEF Cut
    <2> QED
      BY <2>1 DEF Sole
  <1>5. CASE Behind(r, [type |-> "bind"])
    <2>1. \A j \in 1 .. Len(wire'[r]) : wire'[r][j].type = t =>
            j \in 1 .. Len(wire[r]) /\ wire'[r][j] = wire[r][j]
      BY <1>l, <1>5 DEF Behind
    <2> QED
      BY <2>1 DEF Sole
  <1> QED
    BY <1>1, <1>2, <1>3, <1>4, <1>5 DEF Thinned

LEMMA NothingNew ==
    ASSUME Typed, InTurn, Thinned("client"), Thinned("server"),
           UNCHANGED <<hello, attempts, agreed>>, expired' \in Nat, expired' >= expired
    PROVE  InTurn'
  <1>t. /\ wire \in [Roles -> Seq(Record)]
        /\ attempts["server"] \in Nat /\ expired \in Nat
    BY RolesApart DEF Typed, TypeOK
  <1>1. /\ Sole(wire["server"], "hello") /\ Sole(wire["client"], "cookie")
        /\ \A i \in 1 .. Len(wire["server"]) : HelloAt(i) =>
             \A j \in 1 .. Len(wire["client"]) : ~ CookieAt(j)
    BY DEF InTurn, Sole, HelloAt, CookieAt
  <1>2. /\ \A i \in 1 .. Len(wire'["server"]) : HelloAt(i)' =>
             \E k \in 1 .. Len(wire["server"]) : HelloAt(k) /\ wire'["server"][i] = wire["server"][k]
        /\ Sole(wire'["server"], "hello")
    <2>1. /\ \A i \in 1 .. Len(wire'["server"]) : wire'["server"][i].type = "hello" =>
               \E k \in 1 .. Len(wire["server"]) : wire'["server"][i] = wire["server"][k]
          /\ Sole(wire'["server"], "hello")
      BY <1>t, <1>1, ThinnedKeeps, RolesApart
    <2> QED
      BY <2>1 DEF HelloAt
  <1>3. /\ \A i \in 1 .. Len(wire'["client"]) : CookieAt(i)' =>
             \E k \in 1 .. Len(wire["client"]) : CookieAt(k) /\ wire'["client"][i] = wire["client"][k]
        /\ Sole(wire'["client"], "cookie")
    <2>1. /\ \A i \in 1 .. Len(wire'["client"]) : wire'["client"][i].type = "cookie" =>
               \E k \in 1 .. Len(wire["client"]) : wire'["client"][i] = wire["client"][k]
          /\ Sole(wire'["client"], "cookie")
      BY <1>t, <1>1, ThinnedKeeps, RolesApart
    <2> QED
      BY <2>1 DEF CookieAt
  <1>4. /\ \A i \in 1 .. Len(wire["server"]) : HelloAt(i) =>
             /\ wire["server"][i].n = hello /\ wire["server"][i].cookie = attempts["server"]
             /\ attempts["client"] = attempts["server"] /\ ~ Installed("server")
        /\ \A i \in 1 .. Len(wire["client"]) : CookieAt(i) =>
             /\ attempts["server"] = attempts["client"] + 1 /\ ~ Installed("server")
             /\ wire["client"][i].cookie = attempts["server"]
        /\ \A r \in Roles : Installed(r) => agreed[r] = hello
        /\ attempts["server"] <= expired + 1
    BY DEF InTurn
  <1>5. \A r \in Roles : Installed(r)' <=> Installed(r)
    BY DEF Installed
  <1>6. \A i \in 1 .. Len(wire'["server"]) : HelloAt(i)' =>
          /\ wire'["server"][i].n = hello' /\ wire'["server"][i].cookie = attempts'["server"]
          /\ attempts'["client"] = attempts'["server"] /\ ~ Installed("server")'
          /\ \A j \in 1 .. Len(wire'["server"]) : HelloAt(j)' => j = i
          /\ \A j \in 1 .. Len(wire'["client"]) : ~ CookieAt(j)'
    <2>1. ASSUME NEW i \in 1 .. Len(wire'["server"]), HelloAt(i)'
          PROVE  \A j \in 1 .. Len(wire'["server"]) : HelloAt(j)' => j = i
      BY <1>2, <2>1 DEF Sole, HelloAt
    <2> QED
      BY <1>1, <1>2, <1>3, <1>4, <1>5, <2>1, RolesApart
  <1>7. \A i \in 1 .. Len(wire'["client"]) : CookieAt(i)' =>
          /\ attempts'["server"] = attempts'["client"] + 1 /\ ~ Installed("server")'
          /\ wire'["client"][i].cookie = attempts'["server"]
          /\ \A j \in 1 .. Len(wire'["client"]) : CookieAt(j)' => j = i
    <2>1. ASSUME NEW i \in 1 .. Len(wire'["client"]), CookieAt(i)'
          PROVE  \A j \in 1 .. Len(wire'["client"]) : CookieAt(j)' => j = i
      BY <1>3, <2>1 DEF Sole, CookieAt
    <2> QED
      BY <1>3, <1>4, <1>5, <2>1, RolesApart
  <1>8. attempts'["server"] <= expired' + 1
    BY <1>t, <1>4
  <1> QED
    BY <1>4, <1>5, <1>6, <1>7, <1>8 DEF InTurn

LEMMA InTurnStep ==
    ASSUME Typed, Counted, Answered, ~ repeated => InTurn, [Next]_vars, ~ repeated'
    PROVE  InTurn'
  <1>t. /\ pc \in [Roles -> {"start", "wait", "bind", "done", "failed", "crashed"}]
        /\ hello \in 0 .. 4 /\ attempts \in [Roles -> 0 .. 4] /\ expired \in 0 .. 4
        /\ agreed \in [Roles -> 0 .. 4] /\ wire \in [Roles -> Seq(Record)]
    BY DEF Typed, TypeOK
  <1>l. /\ Len(wire["client"]) \in Nat /\ Len(wire["server"]) \in Nat
        /\ attempts["client"] \in Nat /\ attempts["server"] \in Nat
    BY <1>t, RolesApart
  <1>r. InTurn
    BY DEF Next, Client, Server, SendHello, ClientGetsCookie, ClientGetsServerHello,
           ServerSendsCookie, ServerSendsHello, ServerPanics, Refuse, SendBind, ReadFails,
           Fail, Expire, Hangup, Disturb, vars, history
  <1>i. \A r \in Roles : Installed(r) <=> pc[r] \in {"bind", "done"}
    BY DEF Counted
  <1>a. \A r \in Roles : Installed(r) => Installed("server")
    BY DEF Answered
  <1>h. \A i \in 1 .. Len(wire["server"]) : HelloAt(i) =>
          /\ wire["server"][i].n = hello /\ wire["server"][i].cookie = attempts["server"]
          /\ attempts["client"] = attempts["server"] /\ ~ Installed("server")
          /\ \A j \in 1 .. Len(wire["server"]) : HelloAt(j) => j = i
          /\ \A j \in 1 .. Len(wire["client"]) : ~ CookieAt(j)
    BY <1>r DEF InTurn
  <1>c. \A i \in 1 .. Len(wire["client"]) : CookieAt(i) =>
          /\ attempts["server"] = attempts["client"] + 1 /\ ~ Installed("server")
          /\ wire["client"][i].cookie = attempts["server"]
          /\ \A j \in 1 .. Len(wire["client"]) : CookieAt(j) => j = i
    BY <1>r DEF InTurn
  <1>g. /\ \A r \in Roles : Installed(r) => agreed[r] = hello
        /\ attempts["server"] <= expired + 1
    BY <1>r DEF InTurn
  <1>1. CASE SendHello
    <2>1. hello = 0 /\ hello' = 1 /\ UNCHANGED <<attempts, agreed, expired>>
      BY <1>1 DEF SendHello, Counted
    <2>2. \A r \in Roles : wire[r] = <<>> /\ attempts[r] = 0 /\ ~ Installed(r)
      BY <2>1 DEF Counted
    <2>3. /\ wire'["client"] = <<>>
          /\ Len(wire'["server"]) = 1
          /\ wire'["server"][1] = [type |-> "hello", n |-> 1, cookie |-> 0]
      <3>1. /\ wire'["client"] = wire["client"]
            /\ Behind("server", [type |-> "hello", n |-> 1, cookie |-> 0])
        BY <1>1, WiresMove
      <3>2. wire["client"] = <<>> /\ Len(wire["server"]) = 0
        BY <2>2, RolesApart
      <3> QED
        BY <3>1, <3>2 DEF Behind
    <2>4. \A r \in Roles : ~ Installed(r)'
      BY <2>1, <2>2 DEF Installed
    <2> QED
      BY <1>t, <2>1, <2>2, <2>3, <2>4, RolesApart DEF InTurn, HelloAt, CookieAt
  <1>2. CASE ClientGetsCookie
    <2>1. /\ 1 \in 1 .. Len(wire["client"]) /\ CookieAt(1)
          /\ attempts' = [attempts EXCEPT !["client"] = @ + 1] /\ UNCHANGED <<agreed, expired>>
      BY <1>2, HeadRead, RolesApart DEF ClientGetsCookie, CookieAt, Fail
    <2>2. /\ \A i \in 1 .. Len(wire["server"]) : ~ HelloAt(i)
          /\ \A r \in Roles : ~ Installed(r)'
      BY <1>h, <1>c, <1>a, <2>1 DEF Installed
    <2>3. attempts'["client"] = attempts["server"] /\ attempts'["server"] = attempts["server"]
      BY <1>t, <1>c, <2>1, RolesApart
    <2>4. \A i \in 1 .. Len(wire'["client"]) : ~ CookieAt(i)'
      <3>1. Read("client")
        BY <1>2, WiresMove
      <3>2. ASSUME NEW i \in 1 .. Len(wire'["client"]), CookieAt(i)' PROVE FALSE
        <4>1. i + 1 \in 1 .. Len(wire["client"]) /\ CookieAt(i + 1)
          BY <1>l, <3>1, <3>2 DEF Read, CookieAt
        <4>2. i + 1 = 1
          BY <1>c, <2>1, <4>1
        <4> QED
          BY <4>2
      <3> QED
        BY <3>2
    <2>5. CASE wire'["server"] = wire["server"]
      BY <1>g, <2>1, <2>2, <2>3, <2>4, <2>5 DEF InTurn, HelloAt
    <2>6. CASE Behind("server", [type |-> "hello", n |-> hello + 1,
                                 cookie |-> wire["client"][1].cookie])
               /\ attempts'["client"] <= 3
      <3>1. hello' = hello + 1
        <4>1. ~ TooMany(attempts'["client"])
          BY <1>l, <2>3, <2>6 DEF TooMany
        <4> QED
          BY <1>2, <4>1 DEF ClientGetsCookie
      <3>2. wire["client"][1].cookie = attempts["server"]
        BY <1>c, <2>1
      <3>3. \A i \in 1 .. Len(wire'["server"]) : HelloAt(i)' =>
              /\ i = Len(wire["server"]) + 1
              /\ wire'["server"][i].n = hello + 1 /\ wire'["server"][i].cookie = attempts["server"]
        <4>1. /\ wire'["server"][Len(wire["server"]) + 1].n = hello + 1
              /\ wire'["server"][Len(wire["server"]) + 1].cookie = attempts["server"]
          BY <2>6, <3>2 DEF Behind
        <4>2. ASSUME NEW i \in 1 .. Len(wire'["server"]), HelloAt(i)'
              PROVE  i = Len(wire["server"]) + 1
          BY <1>l, <2>2, <2>6, <4>2 DEF Behind, HelloAt
        <4> QED
          BY <4>1, <4>2
      <3>4. \A i \in 1 .. Len(wire'["server"]) : HelloAt(i)' =>
              /\ wire'["server"][i].n = hello' /\ wire'["server"][i].cookie = attempts'["server"]
              /\ attempts'["client"] = attempts'["server"] /\ ~ Installed("server")'
              /\ \A j \in 1 .. Len(wire'["server"]) : HelloAt(j)' => j = i
              /\ \A j \in 1 .. Len(wire'["client"]) : ~ CookieAt(j)'
        BY <2>2, <2>3, <2>4, <3>1, <3>3, RolesApart
      <3>5. attempts'["server"] <= expired' + 1
        BY <1>g, <2>1, <2>3
      <3> QED
        BY <2>2, <2>4, <3>4, <3>5 DEF InTurn
    <2> QED
      BY <1>2, <2>5, <2>6, WiresMove
  <1>3. CASE ClientGetsServerHello
    <2>1. Installed("server")
      BY <1>3, HeadRead, RolesApart DEF ClientGetsServerHello, Answered
    <2>2. /\ \A i \in 1 .. Len(wire["server"]) : ~ HelloAt(i)
          /\ \A i \in 1 .. Len(wire["client"]) : ~ CookieAt(i)
      BY <1>h, <1>c, <2>1
    <2>3. Read("client") /\ wire'["server"] = wire["server"]
      BY <1>3, WiresMove
    <2>4. /\ \A i \in 1 .. Len(wire'["server"]) : ~ HelloAt(i)'
          /\ \A i \in 1 .. Len(wire'["client"]) : ~ CookieAt(i)'
      BY <1>l, <2>2, <2>3 DEF Read, HelloAt, CookieAt
    <2>5. agreed' = [agreed EXCEPT !["client"] = hello] /\ UNCHANGED <<hello, attempts, expired>>
      BY <1>3 DEF ClientGetsServerHello, Install, ClientTranscript
    <2>6. \A r \in Roles : Installed(r)' => agreed'[r] = hello'
      BY <1>t, <1>g, <2>5, RolesApart DEF Installed
    <2> QED
      BY <1>g, <2>4, <2>5, <2>6 DEF InTurn
  <1>4. CASE ServerSendsCookie
    <2>1. /\ 1 \in 1 .. Len(wire["server"]) /\ HelloAt(1)
          /\ attempts' = [attempts EXCEPT !["server"] = @ + 1]
          /\ UNCHANGED <<hello, agreed, expired>> /\ wire["server"][1].cookie <= expired
      <3>1. /\ 1 \in 1 .. Len(wire["server"]) /\ HelloAt(1)
            /\ Head(wire["server"]) = wire["server"][1] /\ wire["server"][1] \in Record
        BY <1>4, HeadRead, RolesApart DEF ServerSendsCookie, Expected, HelloAt
      <3>2. wire["server"][1].cookie \in 0 .. 4
        BY <3>1, RecordTypes DEF HelloAt
      <3>3. ~ (wire["server"][1].cookie > expired)
        BY <1>4, <3>1 DEF ServerSendsCookie, Fresh
      <3>4. /\ attempts' = [attempts EXCEPT !["server"] = @ + 1]
            /\ UNCHANGED <<hello, agreed, expired>>
        BY <1>4 DEF ServerSendsCookie, Fail
      <3> QED
        BY <1>t, <3>1, <3>2, <3>3, <3>4
    <2>2. /\ \A i \in 1 .. Len(wire["client"]) : ~ CookieAt(i)
          /\ ~ Installed("server") /\ attempts["client"] = attempts["server"]
          /\ attempts["server"] <= expired
      BY <1>h, <2>1
    <2>3. /\ \A r \in Roles : ~ Installed(r)'
          /\ attempts'["server"] = attempts["server"] + 1
          /\ attempts'["client"] = attempts["client"]
      BY <1>t, <1>a, <2>1, <2>2, RolesApart DEF Installed
    <2>4. \A i \in 1 .. Len(wire'["server"]) : ~ HelloAt(i)'
      <3>1. Read("server")
        BY <1>4, WiresMove
      <3>2. ASSUME NEW i \in 1 .. Len(wire'["server"]), HelloAt(i)' PROVE FALSE
        <4>1. i + 1 \in 1 .. Len(wire["server"]) /\ HelloAt(i + 1)
          BY <1>l, <3>1, <3>2 DEF Read, HelloAt
        <4>2. i + 1 = 1
          BY <1>h, <2>1, <4>1
        <4> QED
          BY <4>2
      <3> QED
        BY <3>2
    <2>5. \A i \in 1 .. Len(wire'["client"]) : CookieAt(i)' =>
            i = Len(wire["client"]) + 1 /\ wire'["client"][i].cookie = attempts["server"] + 1
      <3>1. Behind("client", [type |-> "cookie", cookie |-> attempts["server"] + 1])
        BY <1>4, WiresMove
      <3> QED
        BY <1>l, <2>2, <3>1 DEF Behind, CookieAt
    <2>6. attempts'["server"] <= expired' + 1
      BY <1>t, <1>l, <2>1, <2>2, <2>3
    <2> QED
      <3>1. \A i \in 1 .. Len(wire'["client"]) : CookieAt(i)' =>
              /\ attempts'["server"] = attempts'["client"] + 1 /\ ~ Installed("server")'
              /\ wire'["client"][i].cookie = attempts'["server"]
              /\ \A j \in 1 .. Len(wire'["client"]) : CookieAt(j)' => j = i
        BY <2>2, <2>3, <2>5, RolesApart
      <3> QED
        BY <2>3, <2>4, <2>6, <3>1 DEF InTurn
  <1>5. CASE ServerSendsHello
    <2>1. /\ 1 \in 1 .. Len(wire["server"]) /\ HelloAt(1)
          /\ agreed' = [agreed EXCEPT !["server"] = wire["server"][1].n]
          /\ UNCHANGED <<hello, attempts, expired>>
      BY <1>5, HeadRead, RolesApart DEF ServerSendsHello, Expected, HelloAt, Install
    <2>2. /\ \A i \in 1 .. Len(wire["client"]) : ~ CookieAt(i)
          /\ ~ Installed("server") /\ wire["server"][1].n = hello
      BY <1>h, <2>1
    <2>3. \A r \in Roles : Installed(r)' => agreed'[r] = hello'
      BY <1>t, <1>a, <2>1, <2>2, RolesApart DEF Installed
    <2>4. \A i \in 1 .. Len(wire'["server"]) : ~ HelloAt(i)'
      <3>1. Read("server")
        BY <1>5, WiresMove
      <3>2. ASSUME NEW i \in 1 .. Len(wire'["server"]), HelloAt(i)' PROVE FALSE
        <4>1. i + 1 \in 1 .. Len(wire["server"]) /\ HelloAt(i + 1)
          BY <1>l, <3>1, <3>2 DEF Read, HelloAt
        <4>2. i + 1 = 1
          BY <1>h, <2>1, <4>1
        <4> QED
          BY <4>2
      <3> QED
        BY <3>2
    <2>5. \A i \in 1 .. Len(wire'["client"]) : ~ CookieAt(i)'
      <3>1. Behind("client", ServerHelloRecord) /\ ServerHelloRecord.type = "serverHello"
        BY <1>5, WiresMove DEF ServerHelloRecord
      <3> QED
        BY <1>l, <2>2, <3>1 DEF Behind, CookieAt
    <2> QED
      BY <1>g, <2>1, <2>3, <2>4, <2>5 DEF InTurn
  <1>6. ASSUME Thinned("client"), Thinned("server"), UNCHANGED <<hello, attempts, agreed>>,
               expired' = expired \/ expired' = expired + 1
        PROVE  InTurn'
    <2>1. expired' \in Nat /\ expired' >= expired
      BY <1>t, <1>6
    <2> QED
      BY <1>r, <1>6, <2>1, NothingNew
  <1>7. CASE ServerPanics
    <2>1. Thinned("client") /\ Thinned("server")
      BY <1>7, WiresMove DEF Thinned
    <2> QED
      BY <1>6, <1>7, <2>1 DEF ServerPanics
  <1>8. ASSUME NEW r \in Roles, Refuse(r) PROVE InTurn'
    <2>1. Thinned("client") /\ Thinned("server")
      BY <1>8, WiresMove, RolesApart DEF Thinned
    <2> QED
      BY <1>6, <1>8, <2>1 DEF Refuse, Fail
  <1>9. ASSUME NEW r \in Roles, SendBind(r) PROVE InTurn'
    <2>1. Thinned("client") /\ Thinned("server")
      BY <1>9, WiresMove, RolesApart DEF Thinned
    <2> QED
      BY <1>6, <1>9, <2>1 DEF SendBind
  <1>10. ASSUME NEW r \in Roles, Disturb(r) PROVE InTurn'
    <2>1. Thinned("client") /\ Thinned("server")
      BY <1>10, <1>t, Disturbed, RolesApart DEF Thinned
    <2> QED
      BY <1>6, <1>10, <2>1 DEF Disturb
  <1>11. CASE UNCHANGED <<wire, hello, attempts, agreed>>
              /\ (expired' = expired \/ expired' = expired + 1)
    BY <1>6, <1>11 DEF Thinned
  <1>12. ASSUME NEW r \in Roles, ReadFails(r) \/ Hangup(r) PROVE InTurn'
    BY <1>11, <1>12 DEF ReadFails, Hangup, Fail
  <1>13. CASE Expire \/ UNCHANGED vars
    BY <1>11, <1>13 DEF Expire, vars
  <1> QED
    BY <1>1, <1>2, <1>3, <1>4, <1>5, <1>7, <1>8, <1>9, <1>10, <1>12, <1>13, RolesApart
       DEF Next, Client, Server

LEMMA OnTcpStep ==
    ASSUME Typed, Counted, Answered, network = "tcp", InTurn, OnTcp, [Next]_vars
    PROVE  OnTcp'
  <1>t. /\ pc \in [Roles -> {"start", "wait", "bind", "done", "failed", "crashed"}]
        /\ agreed \in [Roles -> 0 .. 4] /\ wire \in [Roles -> Seq(Record)]
    BY DEF Typed, TypeOK
  <1>l. Len(wire["client"]) \in Nat /\ Len(wire["server"]) \in Nat
    BY <1>t, RolesApart
  <1>i. \A r \in Roles : Installed(r) <=> pc[r] \in {"bind", "done"}
    BY DEF Counted
  <1>a. \A r \in Roles : Installed(r) => Installed("server")
    BY DEF Answered
  <1>h. /\ ~ Installed("server") => \A i \in 1 .. Len(wire["client"]) : CookieAt(i)
        /\ \A i \in 2 .. Len(wire["client"]) : wire["client"][i].type = "bind"
        /\ Installed("client") => \A i \in 1 .. Len(wire["client"]) : wire["client"][i].type = "bind"
        /\ Installed("server") /\ pc["client"] = "wait" =>
             wire["client"] # <<>> /\ wire["client"][1].type = "serverHello"
        /\ \A i \in 1 .. Len(wire["server"]) :
             HelloAt(i) \/ (wire["server"][i].type = "bind" /\ Installed("client"))
    BY DEF OnTcp
  <1>1. CASE SendHello
    <2>1. /\ \A r \in Roles : wire[r] = <<>> /\ ~ Installed(r)
          /\ UNCHANGED agreed
      BY <1>1 DEF SendHello, Counted
    <2>2. /\ wire'["client"] = <<>> /\ \A r \in Roles : ~ Installed(r)'
          /\ Behind("server", [type |-> "hello", n |-> 1, cookie |-> 0])
      BY <1>1, <2>1, WiresMove, RolesApart DEF Installed
    <2>3. \A i \in 1 .. Len(wire'["server"]) : HelloAt(i)'
      BY <1>h, <1>l, <2>1, <2>2, RolesApart DEF Behind, HelloAt
    <2> QED
      BY <2>2, <2>3, RolesApart DEF OnTcp
  <1>2. CASE ClientGetsCookie
    <2>1. 1 \in 1 .. Len(wire["client"]) /\ CookieAt(1) /\ UNCHANGED agreed /\ Read("client")
      BY <1>2, HeadRead, WiresMove, RolesApart DEF ClientGetsCookie, CookieAt, Fail
    <2>2. /\ ~ Installed("server") /\ \A r \in Roles : ~ Installed(r)'
      BY <1>a, <2>1 DEF InTurn, Installed
    <2>3. Len(wire["client"]) = 1
      <3>1. ASSUME Len(wire["client"]) >= 2 PROVE FALSE
        <4>1. 2 \in 1 .. Len(wire["client"]) /\ 2 \in 2 .. Len(wire["client"])
          BY <1>l, <3>1
        <4>2. CookieAt(2) /\ wire["client"][2].type = "bind"
          BY <1>h, <2>2, <4>1
        <4> QED
          BY <4>2 DEF CookieAt
      <3>2. Len(wire["client"]) >= 1
        BY <1>l, <2>1
      <3>3. ~ (Len(wire["client"]) >= 2)
        BY <3>1
      <3>4. \A n \in Nat : n >= 1 /\ ~ (n >= 2) => n = 1
        OBVIOUS
      <3> QED
        BY <1>l, <3>2, <3>3, <3>4
    <2>4. Len(wire'["client"]) = 0
      BY <2>1, <2>3 DEF Read
    <2>5. \A i \in 1 .. Len(wire'["server"]) : HelloAt(i)'
      <3>1. \A i \in 1 .. Len(wire["server"]) : HelloAt(i)
        BY <1>h, <1>a, <2>2, RolesApart
      <3>2. CASE wire'["server"] = wire["server"]
        BY <3>1, <3>2 DEF HelloAt
      <3>3. ASSUME NEW n, NEW c, Behind("server", [type |-> "hello", n |-> n, cookie |-> c])
            PROVE  \A i \in 1 .. Len(wire'["server"]) : HelloAt(i)'
        BY <1>l, <3>1, <3>3 DEF Behind, HelloAt
      <3> QED
        BY <1>2, <3>2, <3>3, WiresMove
    <2> QED
      BY <2>2, <2>4, <2>5, RolesApart DEF OnTcp
  <1>3. CASE ClientGetsServerHello
    <2>1. /\ Installed("server") /\ Read("client") /\ wire'["server"] = wire["server"]
          /\ pc'["client"] = "bind" /\ pc["client"] = "wait"
      <3>1. Installed("server")
        BY <1>3, HeadRead, RolesApart DEF ClientGetsServerHello, Answered
      <3>2. Read("client") /\ wire'["server"] = wire["server"]
        BY <1>3, WiresMove
      <3>3. pc'["client"] = "bind" /\ pc["client"] = "wait"
        BY <1>3, <1>t, RolesApart DEF ClientGetsServerHello, Install, Reads
      <3> QED
        BY <3>1, <3>2, <3>3
    <2>2. /\ agreed' = [agreed EXCEPT !["client"] = hello] /\ hello # 0
      BY <1>3, <2>1 DEF ClientGetsServerHello, Install, ClientTranscript, Counted, Typed, TypeOK, Roles
    <2>3. Installed("server")' /\ Installed("client")'
      BY <1>t, <2>1, <2>2, RolesApart DEF Installed
    <2>4. \A i \in 1 .. Len(wire'["client"]) : wire'["client"][i].type = "bind"
      BY <1>h, <1>l, <2>1 DEF Read
    <2>5. /\ \A i \in 2 .. Len(wire'["client"]) : wire'["client"][i].type = "bind"
          /\ \A i \in 1 .. Len(wire'["server"]) :
               HelloAt(i)' \/ (wire'["server"][i].type = "bind" /\ Installed("client")')
      BY <1>h, <2>1, <2>3, <2>4 DEF HelloAt
    <2> QED
      BY <2>1, <2>3, <2>4, <2>5 DEF OnTcp
  <1>4. CASE ServerSendsCookie \/ ServerSendsHello
    <2>1. 1 \in 1 .. Len(wire["server"]) /\ HelloAt(1) /\ Read("server")
      BY <1>4, HeadRead, WiresMove, RolesApart
         DEF ServerSendsCookie, ServerSendsHello, Expected, HelloAt
    <2>2. ~ Installed("server") /\ ~ Installed("client") /\ Len(wire["client"]) = 0
      <3>1. ~ Installed("server") /\ \A j \in 1 .. Len(wire["client"]) : ~ CookieAt(j)
        BY <2>1 DEF InTurn
      <3> QED
        BY <1>a, <1>h, <1>l, <3>1, RolesApart
    <2>3. \A i \in 1 .. Len(wire'["server"]) : HelloAt(i)'
      BY <1>h, <1>l, <2>1, <2>2 DEF Read, HelloAt
    <2>4. CASE ServerSendsCookie
      <3>1. Behind("client", [type |-> "cookie", cookie |-> attempts["server"] + 1])
        BY <2>4, WiresMove
      <3>2. ~ Installed("server")' /\ ~ Installed("client")'
        BY <2>2, <2>4 DEF ServerSendsCookie, Fail, Installed
      <3>3. Len(wire'["client"]) = 1 /\ wire'["client"][1].type = "cookie"
        BY <2>2, <3>1 DEF Behind
      <3> QED
        BY <2>3, <3>2, <3>3 DEF OnTcp, CookieAt
    <2>5. CASE ServerSendsHello
      <3>1. Behind("client", ServerHelloRecord) /\ ServerHelloRecord.type = "serverHello"
        BY <2>5, WiresMove DEF ServerHelloRecord
      <3>2. Installed("server")' /\ ~ Installed("client")'
        <4>1. Head(wire["server"]).n \in 1 .. 4
          BY <2>5, HeadType, RolesApart DEF ServerSendsHello, Expected
        <4> QED
          BY <1>t, <2>2, <2>5, <4>1, RolesApart DEF ServerSendsHello, Install, Installed
      <3>3. Len(wire'["client"]) = 1 /\ wire'["client"][1].type = "serverHello"
        BY <2>2, <3>1 DEF Behind
      <3>4. wire'["client"] # <<>>
        BY <3>3
      <3> QED
        BY <2>3, <3>2, <3>3, <3>4 DEF OnTcp
    <2> QED
      BY <1>4, <2>4, <2>5
  <1>5. ASSUME Read("client"), wire'["server"] = wire["server"], pc'["client"] = "failed",
               UNCHANGED agreed
        PROVE  OnTcp'
    <2>1. /\ \A i \in 1 .. Len(wire'["client"]) :
               /\ i + 1 \in 2 .. Len(wire["client"]) /\ i + 1 \in 1 .. Len(wire["client"])
               /\ wire'["client"][i] = wire["client"][i + 1]
      BY <1>l, <1>5 DEF Read
    <2>2. /\ ~ Installed("server") => \A i \in 1 .. Len(wire'["client"]) : CookieAt(i)'
          /\ \A i \in 1 .. Len(wire'["client"]) : wire'["client"][i].type = "bind"
      <3>1. ASSUME ~ Installed("server"), NEW i \in 1 .. Len(wire'["client"])
            PROVE  CookieAt(i)'
        <4>1. CookieAt(i + 1) /\ wire'["client"][i] = wire["client"][i + 1]
          BY <1>h, <2>1, <3>1
        <4> QED
          BY <4>1 DEF CookieAt
      <3>2. ASSUME NEW i \in 1 .. Len(wire'["client"]) PROVE wire'["client"][i].type = "bind"
        BY <1>h, <2>1
      <3> QED
        BY <3>1, <3>2
    <2>3. \A i \in 2 .. Len(wire'["client"]) : i \in 1 .. Len(wire'["client"])
      BY <1>l, <1>5 DEF Read
    <2>4. \A r \in Roles : Installed(r)' <=> Installed(r)
      BY <1>5 DEF Installed
    <2> QED
      BY <1>h, <1>5, <2>2, <2>3, <2>4, RolesApart DEF OnTcp, HelloAt
  <1>6. ASSUME Read("server"), wire'["client"] = wire["client"], pc'["client"] = pc["client"],
               UNCHANGED agreed
        PROVE  OnTcp'
    <2>1. \A i \in 1 .. Len(wire'["server"]) :
            i + 1 \in 1 .. Len(wire["server"]) /\ wire'["server"][i] = wire["server"][i + 1]
      BY <1>l, <1>6 DEF Read
    <2>2. \A r \in Roles : Installed(r)' <=> Installed(r)
      BY <1>6 DEF Installed
    <2>3. \A i \in 1 .. Len(wire'["server"]) :
            HelloAt(i)' \/ (wire'["server"][i].type = "bind" /\ Installed("client")')
      BY <1>h, <2>1, <2>2, RolesApart DEF HelloAt
    <2> QED
      BY <1>h, <1>6, <2>2, <2>3, RolesApart DEF OnTcp, CookieAt
  <1>7. CASE ServerPanics
    BY <1>6, <1>7, <1>t, WiresMove, RolesApart DEF ServerPanics
  <1>8. CASE Refuse("client")
    BY <1>5, <1>8, <1>t, WiresMove, RolesApart DEF Refuse, Fail
  <1>9. CASE Refuse("server")
    BY <1>6, <1>9, <1>t, WiresMove, RolesApart DEF Refuse, Fail
  <1>10. ASSUME UNCHANGED <<wire, agreed>>, pc'["client"] = "wait" => pc["client"] = "wait"
         PROVE  OnTcp'
    BY <1>h, <1>10 DEF OnTcp, Installed, HelloAt, CookieAt
  <1>11. CASE SendBind("client")
    <2>1. /\ Installed("client") /\ pc'["client"] = "done" /\ UNCHANGED agreed
          /\ wire'["client"] = wire["client"]
          /\ wire'["server"] = wire["server"] \/ Behind("server", [type |-> "bind"])
      BY <1>11, <1>t, <1>i, WiresMove, RolesApart DEF SendBind
    <2>2. \A r \in Roles : Installed(r)' <=> Installed(r)
      BY <2>1 DEF Installed
    <2>3. \A i \in 1 .. Len(wire'["server"]) :
            HelloAt(i)' \/ (wire'["server"][i].type = "bind" /\ Installed("client")')
      BY <1>h, <1>l, <2>1, <2>2, RolesApart DEF HelloAt, Behind
    <2> QED
      BY <1>h, <2>1, <2>2, <2>3, RolesApart DEF OnTcp, CookieAt
  <1>12. CASE SendBind("server")
    <2>1. /\ Installed("server") /\ pc'["client"] = pc["client"] /\ UNCHANGED agreed
          /\ wire'["server"] = wire["server"]
          /\ wire'["client"] = wire["client"] \/ Behind("client", [type |-> "bind"])
      BY <1>12, <1>t, <1>i, WiresMove, RolesApart DEF SendBind
    <2>2. \A r \in Roles : Installed(r)' <=> Installed(r)
      BY <2>1 DEF Installed
    <2>3. CASE wire'["client"] = wire["client"]
      BY <1>h, <2>1, <2>2, <2>3, RolesApart DEF OnTcp, HelloAt, CookieAt
    <2>4. CASE Behind("client", [type |-> "bind"])
      <3>1. \A i \in 1 .. Len(wire'["client"]) :
              wire'["client"][i].type = "bind"
              \/ (i \in 1 .. Len(wire["client"]) /\ wire'["client"][i] = wire["client"][i])
        BY <1>l, <2>4 DEF Behind
      <3>2. \A i \in 2 .. Len(wire'["client"]) : wire'["client"][i].type = "bind"
        <4>1. \A i \in 2 .. Len(wire'["client"]) : i \in 1 .. Len(wire'["client"])
          BY <1>l, <2>4 DEF Behind
        <4>2. \A i \in 1 .. Len(wire["client"]) : i >= 2 => i \in 2 .. Len(wire["client"])
          BY <1>l
        <4> QED
          BY <1>h, <3>1, <4>1, <4>2
      <3>3. pc["client"] = "wait" =>
              wire'["client"] # <<>> /\ wire'["client"][1].type = "serverHello"
        <4>1. pc["client"] = "wait" =>
                1 \in 1 .. Len(wire["client"]) /\ wire["client"][1].type = "serverHello"
          BY <1>h, <1>l, <1>t, <2>1, RolesApart
        <4>2. Len(wire'["client"]) # 0
          BY <1>l, <2>4 DEF Behind
        <4> QED
          BY <2>4, <4>1, <4>2 DEF Behind
      <3>4. Installed("client") =>
              \A i \in 1 .. Len(wire'["client"]) : wire'["client"][i].type = "bind"
        BY <1>h, <3>1
      <3> QED
        BY <1>h, <2>1, <2>2, <3>2, <3>3, <3>4, RolesApart DEF OnTcp, HelloAt
    <2> QED
      BY <2>1, <2>3, <2>4
  <1>13. ASSUME NEW r \in Roles, ReadFails(r) PROVE OnTcp'
    BY <1>10, <1>13, <1>t, RolesApart DEF ReadFails, Fail
  <1>14. ASSUME NEW r \in Roles, Hangup(r) \/ Disturb(r) PROVE OnTcp'
    BY <1>10, <1>14 DEF Hangup, Disturb
  <1>15. CASE Expire \/ UNCHANGED vars
    BY <1>10, <1>15 DEF Expire, vars
  <1> QED
    BY <1>1, <1>2, <1>3, <1>4, <1>7, <1>8, <1>9, <1>11, <1>12, <1>13, <1>14, <1>15, RolesApart
       DEF Next, Client, Server

LEMMA UnfailedStep ==
    ASSUME Typed, Counted, Answered, network = "tcp", InTurn, OnTcp,
           Undisturbed => Unfailed, [Next]_vars, Undisturbed'
    PROVE  Unfailed'
  <1>t. /\ pc \in [Roles -> {"start", "wait", "bind", "done", "failed", "crashed"}]
        /\ attempts \in [Roles -> 0 .. 4] /\ expired \in 0 .. 4
        /\ wire \in [Roles -> Seq(Record)]
    BY DEF Typed, TypeOK
  <1>i. \A r \in Roles : Installed(r) <=> pc[r] \in {"bind", "done"}
    BY DEF Counted
  <1>u. Undisturbed
    <2>1. samePsk
      BY OptionsStay DEF options, Undisturbed
    <2>2. CASE Expire
      <3>1. expired < 3
        BY <1>t, <2>2 DEF Expire, Undisturbed
      <3>2. ~ hungUp /\ pc["server"] # "crashed"
        BY <2>2 DEF Expire, Undisturbed, history
      <3> QED
        BY <2>1, <3>1, <3>2 DEF Undisturbed
    <2>3. ASSUME NEW r \in Roles, Hangup(r) PROVE Undisturbed
      BY <2>3 DEF Hangup, Undisturbed
    <2>4. ASSUME UNCHANGED <<expired, hungUp>>, pc["server"] = "crashed" => UNCHANGED pc["server"]
          PROVE  Undisturbed
      BY <2>1, <2>4 DEF Undisturbed
    <2>5. CASE SendHello
      BY <1>t, <2>4, <2>5, RolesApart DEF SendHello, history
    <2>11. CASE ClientGetsServerHello
      <3>1. UNCHANGED <<expired, hungUp>> /\ pc' = [pc EXCEPT !["client"] = "bind"]
        BY <2>11 DEF ClientGetsServerHello, Install, history
      <3> QED
        BY <1>t, <2>4, <3>1, RolesApart
    <2>12. CASE ServerSendsHello
      BY <2>4, <2>12 DEF ServerSendsHello, Reads, history
    <2>13. CASE ServerPanics
      BY <2>4, <2>13 DEF ServerPanics, Reads, history
    <2>6. CASE ClientGetsCookie
      BY <1>t, <2>4, <2>6, RolesApart DEF ClientGetsCookie, Fail, history
    <2>7. CASE ServerSendsCookie
      BY <1>t, <2>4, <2>7, RolesApart DEF ServerSendsCookie, Fail, Reads, history
    <2>8. ASSUME NEW r \in Roles, Refuse(r) \/ ReadFails(r) PROVE Undisturbed
      BY <1>t, <2>4, <2>8, RolesApart DEF Refuse, ReadFails, Reads, Fail, history
    <2>9. ASSUME NEW r \in Roles, SendBind(r) \/ Disturb(r) PROVE Undisturbed
      BY <1>t, <2>4, <2>9, RolesApart DEF SendBind, Disturb, history
    <2>10. CASE UNCHANGED vars
      BY <2>4, <2>10 DEF vars, history
    <2> QED
      BY <2>2, <2>3, <2>5, <2>6, <2>7, <2>8, <2>9, <2>10, <2>11, <2>12, <2>13, RolesApart
         DEF Next, Client, Server
  <1>f. /\ closed = {} /\ \A r \in Roles : pc[r] # "failed"
        /\ samePsk /\ expired < 3 /\ attempts["server"] <= expired + 1
    BY <1>u DEF Unfailed, Undisturbed, InTurn
  <1>1. ASSUME UNCHANGED closed, NEW r \in Roles,
               pc' = [pc EXCEPT ![r] = "wait"] \/ pc' = [pc EXCEPT ![r] = "bind"]
        PROVE  Unfailed'
    BY <1>f, <1>t, <1>1 DEF Unfailed
  <1>11. CASE SendHello
    BY <1>1, <1>11, RolesApart DEF SendHello
  <1>12. CASE ClientGetsServerHello
    BY <1>1, <1>12, RolesApart DEF ClientGetsServerHello, Install
  <1>13. CASE ServerSendsHello
    BY <1>1, <1>13, RolesApart DEF ServerSendsHello, Install
  <1>2. CASE ClientGetsCookie
    <2>1. attempts["server"] = attempts["client"] + 1
      BY <1>2, HeadRead, RolesApart DEF ClientGetsCookie, InTurn, CookieAt
    <2>2. attempts'["client"] <= 3
      BY <1>t, <1>f, <1>2, <2>1, RolesApart DEF ClientGetsCookie
    <2>3. ~ TooMany(attempts'["client"])
      BY <1>t, <1>2, <2>2, RolesApart DEF TooMany, ClientGetsCookie
    <2> QED
      BY <1>f, <1>2, <2>3 DEF ClientGetsCookie, Unfailed
  <1>3. CASE ServerSendsCookie
    <2>1. /\ HelloAt(1) /\ 1 \in 1 .. Len(wire["server"])
          /\ Head(wire["server"]) = wire["server"][1]
      BY <1>3, HeadRead, RolesApart DEF ServerSendsCookie, Expected, HelloAt
    <2>2. wire["server"][1].cookie = attempts["server"] /\ ~ (wire["server"][1].cookie > expired)
      BY <1>3, <2>1 DEF InTurn, ServerSendsCookie, Fresh
    <2>3. attempts'["server"] <= 3
      BY <1>t, <1>f, <1>3, <2>2, RolesApart DEF ServerSendsCookie
    <2>4. ~ TooMany(attempts'["server"])
      BY <1>t, <1>3, <2>3, RolesApart DEF TooMany, ServerSendsCookie
    <2> QED
      BY <1>f, <1>3, <2>4 DEF ServerSendsCookie, Unfailed
  <1>4. CASE ServerPanics
    BY <1>t, <1>4, RolesApart DEF ServerPanics, Undisturbed
  <1>5. CASE Refuse("client")
    <2>1. /\ 1 \in 1 .. Len(wire["client"]) /\ Head(wire["client"]) = wire["client"][1]
          /\ pc["client"] = "wait"
      BY <1>5, HeadRead, RolesApart DEF Refuse, Reads
    <2>2. wire["client"][1].type \in {"cookie", "serverHello"}
      BY <2>1 DEF OnTcp, CookieAt
    <2> QED
      BY <1>f, <1>5, <2>1, <2>2, RolesApart DEF Refuse, Expected, Verified
  <1>6. CASE Refuse("server")
    <2>1. /\ 1 \in 1 .. Len(wire["server"]) /\ Head(wire["server"]) = wire["server"][1]
          /\ ~ Installed("client")
      BY <1>i, <1>6, HeadRead, RolesApart DEF Refuse, Reads, Answered
    <2>2. wire["server"][1].type = "hello"
      BY <2>1 DEF OnTcp, HelloAt
    <2> QED
      BY <1>f, <1>6, <2>1, <2>2, RolesApart DEF Refuse, Expected, Verified
  <1>7. ASSUME NEW r \in Roles, ReadFails(r) PROVE Unfailed'
    BY <1>f, <1>7 DEF ReadFails
  <1>8. ASSUME NEW r \in Roles, Hangup(r) PROVE Unfailed'
    BY <1>8 DEF Hangup, Undisturbed
  <1>9. ASSUME NEW r \in Roles, SendBind(r) \/ Disturb(r) PROVE Unfailed'
    BY <1>f, <1>t, <1>9 DEF SendBind, Disturb, Unfailed
  <1>10. CASE Expire \/ UNCHANGED vars
    BY <1>f, <1>10 DEF Expire, vars, Unfailed
  <1> QED
    BY <1>2, <1>3, <1>4, <1>5, <1>6, <1>7, <1>8, <1>9, <1>10, <1>11, <1>12, <1>13, RolesApart
       DEF Next, Client, Server

LEMMA InvInductive == (Init => IInv) /\ (IInv /\ [Next]_vars => IInv')
  <1>1. Init => IInv
    <2> SUFFICES ASSUME Init PROVE IInv
      OBVIOUS
    <2>1. /\ hello = 0 /\ expired = 0 /\ closed = {} /\ ~ repeated
          /\ pc["client"] = "start" /\ pc["server"] = "wait"
          /\ \A r \in Roles : /\ wire[r] = <<>> /\ Len(wire[r]) = 0 /\ attempts[r] = 0
                              /\ agreed[r] = 0
      BY RolesApart DEF Init
    <2>2. Counted /\ Answered
      BY <2>1, RolesApart DEF Counted, Answered, Installed
    <2>3. InTurn /\ OnTcp
      BY <2>1, RolesApart DEF InTurn, OnTcp, Installed
    <2>4. Unfailed
      BY <2>1, RolesApart DEF Unfailed
    <2> QED
      BY <2>1, <2>2, <2>3, <2>4, TypingInit DEF IInv
  <1>2. ASSUME IInv, [Next]_vars PROVE IInv'
    <2>1. Typed' /\ Counted' /\ Answered'
      BY <1>2, Typing, CountedStep, AnsweredStep DEF IInv
    <2>2. ~ repeated' => InTurn'
      BY <1>2, InTurnStep DEF IInv
    <2>3. ASSUME network' = "tcp" PROVE ~ repeated' /\ OnTcp' /\ (Undisturbed' => Unfailed')
      <3>1. network = "tcp"
        BY <1>2, <2>3, OptionsStay DEF options
      <3>2. UNCHANGED repeated
        BY <1>2, <3>1
           DEF Next, Client, Server, SendHello, ClientGetsCookie, ClientGetsServerHello,
               ServerSendsCookie, ServerSendsHello, ServerPanics, Refuse, SendBind, ReadFails,
               Fail, Expire, Hangup, Disturb, vars, history
      <3>3. InTurn /\ OnTcp /\ (Undisturbed => Unfailed) /\ ~ repeated
        BY <1>2, <3>1 DEF IInv
      <3> QED
        BY <1>2, <3>1, <3>2, <3>3, OnTcpStep, UnfailedStep DEF IInv
    <2> QED
      BY <2>1, <2>2, <2>3 DEF IInv
  <1> QED
    BY <1>1, <1>2

LEMMA InvHolds == Spec => []IInv
  BY InvInductive, PTL DEF Spec

-----------------------------------------------------------------------------
(* The theorems *)

(* Every variable keeps its type (keyexchange.go): in particular no end sends a
   fifth hello or cookie, whatever the network does. *)
THEOREM HandshakeTypeCorrect == Spec => []TypeOK
  <1>1. IInv => TypeOK
    BY DEF IInv, Typed
  <1> QED
    BY <1>1, InvHolds, PTL

(* Two ends that both install a session derive it from the same transcript
   (clientHandshake, serverHandshake), unless the network repeats a record. *)
THEOREM EndsAgree == Spec => []Agreement
  <1>1. IInv => Agreement
    BY RolesApart DEF IInv, InTurn, Agreement
  <1> QED
    BY <1>1, InvHolds, PTL

(* No end installs a session with an end that has another pre-shared key, and
   the client none before the server, whatever is lost, cut or repeated. *)
THEOREM EndsAuthenticated == Spec => []Authenticated
  <1>1. IInv => Authenticated
    BY RolesApart DEF IInv, Answered, Authenticated
  <1> QED
    BY <1>1, InvHolds, PTL

(* The client installs the server's padding limit, and its keepalive interval up
   to the 16 bits of the server hello, for every interval and limit. *)
THEOREM ServerParametersInstalled == Spec => []ParametersAgree
  <1>1. ASSUME IInv PROVE ParametersAgree
    <2>1. SUFFICES ASSUME Installed("client")
                   PROVE  /\ params["client"].maxPadding = params["server"].maxPadding
                          /\ params["client"].keepAlive <= params["server"].keepAlive
                          /\ keepAlive < 65536 => params["client"] = params["server"]
      BY DEF ParametersAgree
    <2>2. /\ params["server"] = [keepAlive |-> keepAlive, maxPadding |-> maxPadding]
          /\ params["client"] = [keepAlive |-> IF Milliseconds(keepAlive) = 0 THEN 15000
                                               ELSE Milliseconds(keepAlive),
                                 maxPadding |-> maxPadding]
      BY <1>1, <2>1, RolesApart DEF IInv, Answered
    <2>3. /\ keepAlive \in Nat /\ keepAlive # 0
          /\ Milliseconds(keepAlive) <= keepAlive
          /\ keepAlive < 65536 => Milliseconds(keepAlive) = keepAlive
      BY <1>1, OptionTypes DEF IInv, Typed
    <2>4. Milliseconds(keepAlive) = 0 => 15000 <= keepAlive
      BY <2>3
    <2> QED
      BY <2>2, <2>3, <2>4
  <1> QED
    BY <1>1, InvHolds, PTL

(* On TCP an end that installed a session has read all of the handshake and
   nothing of the tunnel (readRecord, Device.Handshake). *)
THEOREM TunnelStartsClean == Spec => []CleanHandover
  <1>1. ASSUME IInv PROVE CleanHandover
    <2>1. SUFFICES ASSUME network = "tcp"
                   PROVE  \A r \in Roles : Installed(r) =>
                            \A i \in 1 .. Len(wire[r]) : wire[r][i].type = "bind"
      <3>1. \A r \in Roles : DOMAIN wire[r] = 1 .. Len(wire[r])
        BY <1>1 DEF IInv, Typed
      <3> QED
        BY <2>1, <3>1 DEF CleanHandover
    <2>2. OnTcp /\ InTurn
      BY <1>1, <2>1 DEF IInv
    <2>3. Installed("client") => \A i \in 1 .. Len(wire["client"]) : wire["client"][i].type = "bind"
      BY <2>2 DEF OnTcp
    <2>4. Installed("server") => \A i \in 1 .. Len(wire["server"]) : wire["server"][i].type = "bind"
      BY <2>2 DEF OnTcp, InTurn
    <2> QED
      BY <2>3, <2>4, RolesApart
  <1> QED
    BY <1>1, InvHolds, PTL

(* On TCP a handshake between ends with the same key fails only because an end
   was closed, the server crashed, or three cookies outlived their TTL. *)
THEOREM FailsForCause == Spec => []FailsOnlyForCause
  <1>1. IInv => FailsOnlyForCause
    <2>1. IInv => expired \in 0 .. 4
      BY DEF IInv, Typed, TypeOK
    <2>2. expired \in 0 .. 4 => (expired >= 3 <=> ~ (expired < 3))
      OBVIOUS
    <2> QED
      BY <2>1, <2>2 DEF IInv, Undisturbed, Unfailed, FailsOnlyForCause
  <1> QED
    BY <1>1, InvHolds, PTL
=============================================================================
