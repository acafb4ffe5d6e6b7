---------------------------------- MODULE Acl ----------------------------------
(***************************************************************************)
(* ACLManager (auth/acl.go): the rules in the order they were added, the   *)
(* first that applies decides.  Rules are administered by name, but a name *)
(* need not be unique and an operation reaches only the first of its name. *)
(***************************************************************************)
EXTENDS Naturals, Sequences, FiniteSets, FiniteSetsExt

CONSTANTS
    Names,          \* rule names
    Ips,            \* client addresses
    Roles,          \* user roles
    MaxPermission,  \* the highest permission: PermissionNone is 0
    MaxRules        \* bound: rules at a time

VARIABLES
    rules,       \* sequence of [name, ipNet, permission, roles, enabled]
    defaultACL,
    wanted,      \* history: the names whose last operation meant them to decide
    doubled      \* history: the names that two rules bore at once

vars == <<rules, defaultACL, wanted, doubled>>

Permissions == 0 .. MaxPermission
Rule == [name : Names, ipNet : SUBSET Ips \ {{}}, permission : Permissions,
         roles : SUBSET Roles, enabled : BOOLEAN]

TypeOK ==
    /\ rules \in Seq(Rule) /\ Len(rules) <= MaxRules /\ defaultACL \in Permissions
    /\ wanted \subseteq Names /\ doubled \subseteq Names

Init == rules = <<>> /\ defaultACL \in Permissions /\ wanted = {} /\ doubled = {}

Bearing(name) == {i \in DOMAIN rules : rules[i].name = name}

-----------------------------------------------------------------------------

AddRule(rule) ==
    /\ Len(rules) < MaxRules /\ rules' = Append(rules, rule)
    /\ wanted' = wanted \cup {rule.name}
    /\ doubled' = IF Bearing(rule.name) = {} THEN doubled ELSE doubled \cup {rule.name}
    /\ UNCHANGED defaultACL

RemoveRule(name) ==
    /\ Bearing(name) # {}
    /\ LET i == Min(Bearing(name))
       IN  rules' = SubSeq(rules, 1, i - 1) \o SubSeq(rules, i + 1, Len(rules))
    /\ wanted' = wanted \ {name}
    /\ UNCHANGED <<defaultACL, doubled>>

EnableRule(name) ==
    /\ Bearing(name) # {} /\ rules' = [rules EXCEPT ![Min(Bearing(name))].enabled = TRUE]
    /\ wanted' = wanted \cup {name}
    /\ UNCHANGED <<defaultACL, doubled>>

DisableRule(name) ==
    /\ Bearing(name) # {} /\ rules' = [rules EXCEPT ![Min(Bearing(name))].enabled = FALSE]
    /\ wanted' = wanted \ {name}
    /\ UNCHANGED <<defaultACL, doubled>>

UpdateRule(name, permission, roles) ==
    /\ Bearing(name) # {}
    /\ rules' = [rules EXCEPT ![Min(Bearing(name))].permission = permission,
                              ![Min(Bearing(name))].roles = roles]
    /\ UNCHANGED <<defaultACL, wanted, doubled>>

SetDefaultPermission(permission) ==
    /\ defaultACL' = permission /\ UNCHANGED <<rules, wanted, doubled>>

Next ==
    \/ \E rule \in Rule : rule.enabled /\ AddRule(rule)
    \/ \E name \in Names :
         \/ RemoveRule(name) \/ EnableRule(name) \/ DisableRule(name)
         \/ \E p \in Permissions, r \in SUBSET Roles : UpdateRule(name, p, r)
    \/ \E p \in Permissions : SetDefaultPermission(p)

Spec == Init /\ [][Next]_vars

-----------------------------------------------------------------------------
(* The decisions. *)

Applies(rule, ip, given) ==
    /\ rule.enabled /\ ip \in rule.ipNet
    /\ rule.roles = {} \/ rule.roles \cap given # {}

\* the rules that would decide; CheckPermission asks for no role, which is to hold them all
Deciding(ip, given) == {i \in DOMAIN rules : Applies(rules[i], ip, given)}

Granted(ip, given) ==
    IF Deciding(ip, given) = {} THEN defaultACL
    ELSE rules[Min(Deciding(ip, given))].permission

(* A rule that was disabled or removed decides nothing: the decision is that of the
   rules whose names are wanted, unless a name was borne by two rules at once. *)
UnwantedDecidesOnlyIfDoubled ==
    \A ip \in Ips, given \in SUBSET Roles :
       \A i \in Deciding(ip, given) : rules[i].name \in wanted \cup doubled

(* Holding a further role, or an address that more rules name, never takes the
   decision away from an earlier rule: what changes it is an earlier rule that now
   applies and did not. *)
MoreRolesDecideEarlier ==
    \A ip \in Ips, given, more \in SUBSET Roles :
       (given \subseteq more /\ Granted(ip, given) # Granted(ip, more))
          => \E i \in Deciding(ip, more) \ Deciding(ip, given) :
               \A j \in Deciding(ip, given) : i < j
=============================================================================
