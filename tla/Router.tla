-------------------------------- MODULE Router --------------------------------
(***************************************************************************)
(* Router and GeoIP (routing/router.go, routing/geoip.go): the first rule  *)
(* that matches a flow decides it.  LoadRules and ApplyPreset add their    *)
(* rules one critical section at a time, so loads, removals and decisions  *)
(* interleave, and a load that fails leaves what it had added.             *)
(***************************************************************************)
EXTENDS Integers, Sequences, FiniteSets, FiniteSetsExt

CONSTANTS
    Loaders,      \* goroutines that load rules
    V4,           \* the IPv4 addresses within the order of all addresses: <<first, last>>
    MaxIp,        \* bound: addresses are 0 .. MaxIp
    Entry,        \* the GeoIP entries there may be: [start, end, country]
    MaxEntries,   \* bound: GeoIP entries
    MaxRemovals   \* bound: rules removed or tables cleared

VARIABLES
    rules,      \* sequence of [type, pattern, action, of, nth]
    entries,    \* the GeoIP entries, in order; empty too while no database is set
    geoip,      \* SetGeoIP was called
    loader,     \* [Loaders -> [todo, nth, config, disturbed]]
    removals

vars == <<rules, entries, geoip, loader, removals>>

Local == [type |-> "ip-cidr", pattern |-> {3}, action |-> "direct"]
Ads == [type |-> "domain-keyword", pattern |-> {"ads.foreign"}, action |-> "block"]
Foreign == [type |-> "domain-suffix", pattern |-> {"ads.foreign", "foreign"}, action |-> "proxy"]
China == [type |-> "geoip", pattern |-> {"CN"}, action |-> "direct"]
Broken == [type |-> "ip-cidr", pattern |-> {}, action |-> "block"]   \* its CIDR does not parse

\* the preset "all" in its order, and a configuration with an error in the middle
All == <<Local, Ads, Foreign, China>>
Configured == <<China, Broken, Ads>>

Flow == [domain : {"ads.foreign", "foreign", "other"}, ip : -1 .. MaxIp]   \* -1: no address

IsV4(ip) == ip \in V4[1] .. V4[2]
Uint32(ip) == ip - V4[1]

TypeOK ==
    /\ \A i \in DOMAIN rules :
         rules[i].type \in {"ip-cidr", "domain-keyword", "domain-suffix", "geoip"}
           /\ rules[i].action \in {"direct", "block", "proxy"} /\ rules[i].of \in Loaders
           /\ rules[i].nth \in 1 .. 4
    /\ entries \in Seq(Entry) /\ Len(entries) <= MaxEntries /\ geoip \in BOOLEAN
    /\ \A l \in Loaders : loader[l].disturbed \in BOOLEAN /\ loader[l].nth \in 0 .. 4
    /\ removals \in 0 .. MaxRemovals

Init ==
    /\ rules = <<>> /\ entries = <<>> /\ geoip = FALSE /\ removals = 0
    /\ loader = [l \in Loaders |-> [todo |-> <<>>, nth |-> 0, config |-> <<>>, disturbed |-> FALSE]]

-----------------------------------------------------------------------------
(* GeoIP.AddEntry: the bounds that are not IPv4 leave 0 in the IPv4 fields. *)

AddEntry(e) ==
    /\ Len(entries) < MaxEntries
    /\ entries' = Append(entries, e)
    /\ UNCHANGED <<rules, geoip, loader, removals>>

Field(ip) == IF IsV4(ip) THEN Uint32(ip) ELSE 0

Holds(e, ip) ==
    IF IsV4(ip) THEN Field(e.start) <= Uint32(ip) /\ Uint32(ip) <= Field(e.end)
    ELSE e.start <= ip /\ ip <= e.end

Lookup(ip) ==
    LET hits == {i \in DOMAIN entries : Holds(entries[i], ip)}
    IN  IF hits = {} THEN "none" ELSE entries[Min(hits)].country

SetGeoIP ==
    /\ ~ geoip /\ geoip' = TRUE /\ UNCHANGED <<rules, entries, loader, removals>>

-----------------------------------------------------------------------------
(* Rules. *)

matchRule(rule, flow) ==
    \/ rule.type \in {"domain-suffix", "domain-keyword"} /\ flow.domain \in rule.pattern
    \/ rule.type = "ip-cidr" /\ flow.ip # -1 /\ flow.ip \in rule.pattern
    \/ rule.type = "geoip" /\ flow.ip # -1 /\ geoip /\ Lookup(flow.ip) \in rule.pattern

Decider(matching) == Min(matching)

BeginLoad(l, config) ==
    /\ loader[l].config = <<>>
    /\ loader' = [loader EXCEPT ![l] = [todo |-> config, nth |-> 0, config |-> config,
                                        disturbed |-> FALSE]]
    /\ UNCHANGED <<rules, entries, geoip, removals>>

(* AddRule compiles the pattern, and then appends with the lock held; the first rule
   that does not compile ends the load. *)
AddRule(l) ==
    /\ loader[l].todo # <<>>
    /\ IF Head(loader[l].todo) = Broken
       THEN loader' = [loader EXCEPT ![l].todo = <<>>] /\ UNCHANGED rules
       ELSE LET n == loader[l].nth + 1
                t == Head(loader[l].todo)
            IN  /\ rules' = Append(rules, [type |-> t.type, pattern |-> t.pattern,
                                           action |-> t.action, of |-> l, nth |-> n])
                /\ loader' = [loader EXCEPT ![l].todo = Tail(@), ![l].nth = n]
    /\ UNCHANGED <<entries, geoip, removals>>

\* a rule of l goes: what l's order promises is off
Disturbed(of) ==
    [l \in Loaders |-> IF l \in of THEN [loader[l] EXCEPT !.disturbed = TRUE] ELSE loader[l]]

RemoveRule(index) ==
    /\ removals < MaxRemovals /\ removals' = removals + 1
    /\ rules' = SubSeq(rules, 1, index - 1) \o SubSeq(rules, index + 1, Len(rules))
    /\ loader' = Disturbed({rules[index].of})
    /\ UNCHANGED <<entries, geoip>>

ClearRules ==
    /\ removals < MaxRemovals /\ rules # <<>> /\ removals' = removals + 1
    /\ rules' = <<>> /\ loader' = Disturbed({rules[i].of : i \in DOMAIN rules})
    /\ UNCHANGED <<entries, geoip>>

Next ==
    \/ \E e \in Entry : AddEntry(e)
    \/ SetGeoIP
    \/ \E l \in Loaders :
         AddRule(l) \/ \E config \in {All, Configured} : BeginLoad(l, config)
    \/ \E i \in DOMAIN rules : RemoveRule(i)
    \/ ClearRules

Spec == Init /\ [][Next]_vars

-----------------------------------------------------------------------------

Matching(flow) == {i \in DOMAIN rules : matchRule(rules[i], flow)}

(* At every moment of a load, finished or not, failed or not, and whatever other loads
   put between: no rule of a configuration decides a flow that an earlier rule of the
   same configuration matches, unless a rule of it was removed. *)
PriorityKept ==
    \A flow \in Flow :
       Matching(flow) # {} =>
          LET r == rules[Decider(Matching(flow))]
          IN  loader[r.of].disturbed
              \/ \A n \in 1 .. r.nth - 1 : ~ matchRule(loader[r.of].config[n], flow)

(* The country found is that of the first entry whose range holds the address, unless
   an entry ends beyond the IPv4 addresses, whose fields then stand for 0.0.0.0 alone
   (when it starts there too) or for less than it covers (when it starts at one); or one
   that starts beyond them and ends, before it starts, at one: AddEntry does not look,
   and its fields stand for all addresses up to its end. *)
LookupIsFirstRange ==
    \A ip \in 0 .. MaxIp :
       LET hits == {i \in DOMAIN entries : entries[i].start <= ip /\ ip <= entries[i].end}
           first == IF hits = {} THEN "none" ELSE entries[Min(hits)].country
       IN  \/ Lookup(ip) = first
           \/ /\ IsV4(ip)
              /\ \E i \in DOMAIN entries :
                    \/ ~ IsV4(entries[i].end) /\ (ip = V4[1] \/ entries[i].start <= ip)
                    \/ IsV4(entries[i].end) /\ ip <= entries[i].end /\ entries[i].start > V4[2]
=============================================================================
