-------------------------------- MODULE Peers --------------------------------
(***************************************************************************)
(* The peers and routes of a device (device/device.go, peer/peer.go) while *)
(* its tunnel loop receives, its outbound pump sends and a reload calls    *)
(* UpdatePeers.  Peers are guarded by the device's mutex; the route table  *)
(* is replaced under it but read without it, so a lookup that meets the    *)
(* replacement may combine the old array with the new length, or the new   *)
(* array with the old length.  Epochs and times of the peers are left out: *)
(* as Device shows, no rekey ever succeeds, so broadcastRekey is not       *)
(* reached.                                                                *)
(***************************************************************************)
EXTENDS Naturals, Sequences, FiniteSets, SequencesExt

CONSTANTS
    Names,        \* of peers, as the configurations or the other end give them
    Addrs,        \* destination addresses
    Configs,      \* peer lists: sequences of [name, allowed]
    MaxUpdates    \* bound: reloads

VARIABLES
    plane,      \* "loopback", "udp" or "tun"
    config,     \* the peer list in force
    peers,      \* the names of the device's peers
    planePeers, \* the peers the dataplane knows
    tables,     \* the route tables made so far, the last one in force
    updating,   \* UpdatePeers is between its two stores, with the mutex
    loop, pump, \* the tunnel loop and the outbound pump: idle, or on a packet
    named,      \* history: names packets carried or lookups found since the last
                \* reload, and those the goroutines and the dataplane held then
    wild,       \* history: a lookup went beyond the end of its array
    dropped     \* history: names whose payload the dataplane refused

vars == <<plane, config, peers, planePeers, tables, updating, loop, pump,
          named, wild, dropped>>

Configured(cs) == {cs[i].name : i \in DOMAIN cs}
Idle == [pc |-> "idle", name |-> ""]
At(pc, n) == [pc |-> pc, name |-> n]

(* The routes of a list: one per peer and allowed address, in order. *)
Table(cs) == FlattenSeq([i \in DOMAIN cs |->
                [j \in DOMAIN cs[i].allowed |-> [addr |-> cs[i].allowed[j], name |-> cs[i].name]]])

TypeOK ==
    /\ plane \in {"loopback", "udp", "tun"} /\ config \in Configs
    /\ peers \subseteq Names
    /\ planePeers \subseteq Names /\ Len(tables) \in 1 .. MaxUpdates + 1
    /\ tables \in Seq(Seq([addr : Addrs, name : Names]))
    /\ updating \in BOOLEAN
    /\ loop \in {Idle} \cup [pc : {"ensure", "deliver"}, name : Names]
    /\ pump \in {Idle} \cup [pc : {"send"}, name : Names]
    /\ named \subseteq Names /\ dropped \subseteq Names /\ wild \in BOOLEAN

(* NewDevice and createDataplane. *)
Init ==
    /\ plane \in {"loopback", "udp", "tun"} /\ config \in Configs
    /\ peers = Configured(config)
    /\ planePeers = Configured(config) /\ tables = <<Table(config)>>
    /\ updating = FALSE /\ loop = Idle /\ pump = Idle
    /\ named = {} /\ wild = FALSE /\ dropped = {}

-----------------------------------------------------------------------------
(* lookupPeerByIP on an array and a length that may belong to different
   tables: what it finds, "" for nothing, or whatever lies behind the array. *)
Found(array, len, addr) ==
    LET hits == {i \in 1 .. Len(array) : i <= len /\ array[i].addr = addr}
    IN  IF hits # {} THEN array[CHOOSE i \in hits : \A j \in hits : i <= j].name
        ELSE IF len > Len(array) THEN "wild" ELSE ""

(* The slice headers a reader may see. *)
Headers ==
    LET new == Last(tables)
        seen == IF updating THEN {tables[Len(tables) - 1], new} ELSE {new}
    IN  {<<a, Len(b)>> : a \in seen, b \in seen}

lookupPeerByIP(addr) == {Found(h[1], h[2], addr) : h \in Headers}

\* mutant: a packet without a route goes on
HasAnyRoute(name) == TRUE
HasRoute(name) == name \in Names

(* handleData: a packet that names its peer, or one that needs a route. *)
HandleData(name) ==
    /\ loop = Idle /\ loop' = At("ensure", name) /\ named' = named \cup {name}
    /\ UNCHANGED <<plane, config, peers, planePeers, tables, updating, pump, wild, dropped>>

HandleRouted(addr) ==
    /\ loop = Idle
    /\ \E name \in lookupPeerByIP(addr) :
         /\ wild' = (wild \/ name = "wild")
         /\ loop' = IF HasRoute(name) THEN At("ensure", name) ELSE Idle
         /\ named' = named \cup ({name} \cap Names)
    /\ UNCHANGED <<plane, config, peers, planePeers, tables, updating, pump, dropped>>

(* ensurePeer, for a name the device may not have, or have no more. *)
EnsurePeer(name) ==
    /\ ~ updating
    /\ peers' = peers \cup {name}
    /\ planePeers' = IF name \notin peers /\ plane = "loopback"
                     THEN planePeers \cup {name} ELSE planePeers

LoopEnsures ==
    /\ loop.pc = "ensure" /\ EnsurePeer(loop.name) /\ loop' = At("deliver", loop.name)
    /\ UNCHANGED <<plane, config, tables, updating, pump, named, wild, dropped>>

(* A UDP bridge refuses a peer it was not made with; the others take all. *)
Deliver ==
    /\ loop.pc = "deliver" /\ loop' = Idle
    /\ dropped' = IF plane = "udp" /\ loop.name \notin planePeers
                  THEN dropped \cup {loop.name} ELSE dropped
    /\ UNCHANGED <<plane, config, peers, planePeers, tables, updating, pump, named, wild>>

-----------------------------------------------------------------------------
(* The pump sends a frame that has its peer, or finds the peer by address, and touches
   the peer after the send.  A UDP bridge names the peers it knows; whoever injects into
   a loopback names any peer, or none; the frames of a TUN name none. *)
PumpTakes(addr) ==
    /\ pump = Idle
    /\ \/ /\ plane # "tun"
          /\ \E n \in IF plane = "udp" THEN planePeers ELSE Names :
               pump' = At("send", n) /\ named' = named \cup {n}
          /\ UNCHANGED wild
       \/ /\ plane # "udp"
          /\ \E name \in lookupPeerByIP(addr) :
               /\ wild' = (wild \/ name = "wild")
               /\ pump' = IF HasRoute(name) THEN At("send", name) ELSE Idle
               /\ named' = named \cup ({name} \cap Names)
    /\ UNCHANGED <<plane, config, peers, planePeers, tables, updating, loop, dropped>>

PumpEnsures ==
    /\ pump # Idle /\ EnsurePeer(pump.name) /\ pump' = Idle
    /\ UNCHANGED <<plane, config, tables, updating, loop, named, wild, dropped>>

-----------------------------------------------------------------------------
(* UpdatePeers up to the first word of the new slice header ... *)
UpdatePeers(cs) ==
    /\ ~ updating /\ Len(tables) <= MaxUpdates /\ updating' = TRUE
    /\ config' = cs /\ tables' = Append(tables, Table(cs))
    /\ peers' = Configured(cs)
    /\ named' = ({loop.name, pump.name} \cup planePeers) \cap Names
    /\ UNCHANGED <<plane, planePeers, loop, pump, wild, dropped>>

(* ... and from the last word on; only a loopback learns of new peers, and no
   dataplane forgets one. *)
Updated ==
    /\ updating /\ updating' = FALSE
    /\ planePeers' = IF plane = "loopback" THEN planePeers \cup Configured(config) ELSE planePeers
    /\ UNCHANGED <<plane, config, peers, tables, loop, pump, named, wild, dropped>>

Next ==
    \/ \E n \in Names : HandleData(n)
    \/ \E a \in Addrs : HandleRouted(a) \/ PumpTakes(a)
    \/ LoopEnsures \/ Deliver \/ PumpEnsures
    \/ \E cs \in Configs : UpdatePeers(cs)
    \/ Updated

Spec == Init /\ [][Next]_vars

-----------------------------------------------------------------------------
(* The device has the configured peers, and no other but those a packet named
   or a goroutine or the dataplane still held when the reload removed them. *)
PeersForCause ==
    /\ Configured(config) \subseteq peers
    /\ peers \subseteq Configured(config) \cup named

(* Lookups stay within their table unless a reload changes its length; the
   payload of a configured peer is dropped only by a UDP bridge, and only
   after a reload, whose new peers it does not learn of. *)
LookupsForCause ==
    /\ wild => \E i \in 2 .. Len(tables) : Len(tables[i]) # Len(tables[i - 1])
    /\ dropped \cap Configured(config) # {} => plane = "udp" /\ Len(tables) > 1
=============================================================================
