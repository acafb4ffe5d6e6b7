---------------------------- MODULE ServerProofs ----------------------------
(***************************************************************************)
(* What holds of Server for any sessions, configurations and number of     *)
(* reloads.  The argument follows a session's slot from the accept loop    *)
(* through the registry to its goroutine or the shutdown goroutine, and    *)
(* with it the limiter's count; then what is closed on the way, and which  *)
(* peer list each device works with while the watcher replaces it.         *)
(***************************************************************************)
EXTENDS Server, FiniteSetTheorems, TLAPS

Place == {"new", "waiting", "incoming", "running", "closing", "releasing", "gone"}

(* The accept loop has a session in its hands in three of its states. *)
InHand ==
    /\ incoming = None <=> acceptPc \notin {"allow", "device", "add"}
    /\ \A s \in Sessions : session[s] = "incoming" <=> incoming = s

(* The registry holds sessions whose goroutine has not yet removed them; what the
   shutdown took over is no longer in it. *)
Registered ==
    /\ \A s \in registry : session[s] \in {"running", "closing"} /\ s \notin doomed
    /\ \A s \in doomed : session[s] \in {"running", "closing", "gone"}
    /\ doomed # {} => shutdown = "forcing"
    /\ forced \in doomed \cup {None}

InCare(s) == \/ incoming = s /\ acceptPc \in {"device", "add"}
             \/ s \in registry \/ s \in doomed \/ session[s] = "releasing"

HoldersInCare == \A s \in Sessions : s \in holders <=> InCare(s)

Custody == TypeOK /\ InHand /\ Registered /\ HoldersInCare

-----------------------------------------------------------------------------
(* Types *)

LEMMA ConfigTypes ==
    ASSUME NEW c \in Configs
    PROVE  c.max \in Nat \ {0} /\ c.burst \in Nat /\ c.peers \in Seq(PeerConfig)
  BY ServerAssumption

(* The limiter's own methods keep its type. *)
LEMMA LimiterTyping ==
    ASSUME LimiterTypeOK,
           \/ Refill \/ Allow \/ Release \/ UNCHANGED limiterVars
           \/ \E c \in Configs : Update(c)
    PROVE  LimiterTypeOK'
  <1> USE DEF LimiterTypeOK
  <1>1. CASE Refill
    BY <1>1 DEF Refill
  <1>2. CASE Allow
    BY <1>2 DEF Allow, CanAllow
  <1>3. CASE Release
    BY <1>3 DEF Release
  <1>4. CASE UNCHANGED limiterVars
    BY <1>4 DEF limiterVars
  <1>5. ASSUME NEW c \in Configs, Update(c) PROVE LimiterTypeOK'
    BY <1>5, ConfigTypes DEF Update, Smaller
  <1> QED
    BY <1>1, <1>2, <1>3, <1>4, <1>5

(* Every step leaves the limiter alone or is one of its methods. *)
LEMMA LimiterSteps ==
    [Next]_vars => \/ Refill \/ Allow \/ Release \/ UNCHANGED limiterVars
                   \/ \E c \in Configs : Update(c)
  BY DEF Next, vars, AcceptLoop, Goroutine, Shutdown, Watcher, Connect, Accept,
         AcceptFails, Retry, Admit, Deny, BuildDevice, DeviceFails, Add, Return,
         SessionEnds, Remove, ReleaseSlot, Signal, CloseListener, Drained, Deadline,
         StartPump, FreePump, ForceClose, ForceStop, ForceWait, ForceRelease, Forced, Reload, UpdatePeers, StoreConfig, EarnToken

LEMMA InitTyping == Init => TypeOK
  <1> SUFFICES ASSUME Init PROVE TypeOK
    OBVIOUS
  <1>1. LimiterTypeOK
    BY ConfigTypes DEF Init, LimiterInit, LimiterTypeOK
  <1>2. reloads \in 0 .. MaxEvents
    BY ServerAssumption DEF Init
  <1>3. /\ session \in [Sessions -> {"new"}] /\ conn \in [Sessions -> {"none"}]
        /\ device \in [Sessions -> {"none"}] /\ peers \in [Sessions -> Seq(PeerConfig)]
    <2>1. <<>> \in Seq(PeerConfig)
      OBVIOUS
    <2> QED
      BY <2>1 DEF Init
  <1> QED
    BY <1>1, <1>2, <1>3 DEF Init, TypeOK, DeviceStates

LEMMA Typing == TypeOK /\ InHand /\ [Next]_vars => TypeOK'
  <1> SUFFICES ASSUME TypeOK, InHand, [Next]_vars PROVE TypeOK'
    OBVIOUS
  <1>0. LimiterTypeOK'
    BY LimiterTyping, LimiterSteps DEF TypeOK
  <1>h. acceptPc \in {"allow", "device", "add"} => incoming \in Sessions
    BY DEF InHand, TypeOK
  <1> USE <1>0 DEF TypeOK, DeviceStates
  <1>1. ASSUME NEW s \in Sessions, Connect(s) \/ Accept(s) PROVE TypeOK'
    <2>1. CASE Connect(s)
      BY <2>1 DEF Connect, acceptVars, shutdownVars, watcherVars
    <2>2. CASE Accept(s)
      BY <2>2 DEF Accept, acceptVars, shutdownVars, watcherVars
    <2> QED
      BY <1>1, <2>1, <2>2
  <1>2. CASE AcceptFails \/ Retry \/ Return
    BY <1>2 DEF AcceptFails, Retry, Return, shutdownVars, watcherVars
  <1>3. CASE Admit
    BY <1>3, <1>h DEF Admit, shutdownVars, watcherVars
  <1>4. CASE Deny \/ DeviceFails
    BY <1>4 DEF Deny, DeviceFails, Discard, shutdownVars, watcherVars
  <1>5. CASE BuildDevice
    BY <1>5, <1>h, ConfigTypes DEF BuildDevice, shutdownVars, watcherVars
  <1>6. CASE Add
    BY <1>6, <1>h DEF Add, shutdownVars, watcherVars
  <1>7. ASSUME NEW s \in Sessions, Goroutine(s) PROVE TypeOK'
    <2>1. CASE StartPump(s)
      BY <2>1 DEF StartPump, acceptVars, shutdownVars, watcherVars
    <2>2. CASE SessionEnds(s)
      BY <2>2 DEF SessionEnds, acceptVars, shutdownVars, watcherVars
    <2>3. CASE Remove(s)
      <3>1. Closed(device[s]) \in DeviceStates
        BY DEF Closed
      <3>2. device' \in [Sessions -> DeviceStates]
        BY <2>3, <3>1 DEF Remove
      <3>3. session' \in [Sessions -> Place] /\ registry' \subseteq Sessions
        BY <2>3 DEF Remove, Place
      <3> QED
        BY <2>3, <3>2, <3>3 DEF Remove, Place, acceptVars, shutdownVars, watcherVars
    <2>4. CASE ReleaseSlot(s)
      BY <2>4 DEF ReleaseSlot, acceptVars, shutdownVars, watcherVars
    <2> QED
      BY <1>7, <2>1, <2>2, <2>3, <2>4 DEF Goroutine
  <1>8. CASE Signal \/ Drained \/ Deadline \/ Forced
    BY <1>8 DEF Signal, Drained, Deadline, Forced, acceptVars, shutdownVars, watcherVars
  <1>9. CASE CloseListener
    BY <1>9 DEF CloseListener, acceptVars, watcherVars
  <1>10. ASSUME NEW s \in Sessions, ForceClose(s) PROVE TypeOK'
    BY <1>10 DEF ForceClose, acceptVars, watcherVars
  <1>15. CASE ForceStop \/ ForceWait
    <2>1. device' \in [Sessions -> DeviceStates]
      <3>1. CASE ForceStop
        BY <3>1 DEF ForceStop
      <3>2. CASE ForceWait
        BY <3>2 DEF ForceWait
      <3> QED
        BY <1>15, <3>1, <3>2
    <2> QED
      BY <1>15, <2>1 DEF ForceStop, ForceWait, acceptVars, shutdownVars, watcherVars
  <1>16. CASE ForceRelease
    BY <1>16 DEF ForceRelease, acceptVars, watcherVars
  <1>17. ASSUME NEW s \in Sessions, FreePump(s) PROVE TypeOK'
    BY <1>17 DEF FreePump, acceptVars, shutdownVars, watcherVars
  <1>11. ASSUME NEW c \in Configs, Reload(c) PROVE TypeOK'
    <2>1. reloads' \in 0 .. MaxEvents
      BY <1>11, ServerAssumption DEF Reload, Events, TypeOK
    <2> QED
      BY <1>11, <2>1, ServerAssumption DEF Reload, acceptVars, shutdownVars
  <1>12. CASE UpdatePeers
    BY <1>12, <1>h, ConfigTypes DEF UpdatePeers, acceptVars, shutdownVars
  <1>13. CASE StoreConfig \/ EarnToken
    BY <1>13 DEF StoreConfig, EarnToken, acceptVars, shutdownVars, watcherVars
  <1>14. CASE UNCHANGED vars
    BY <1>14 DEF vars, acceptVars, shutdownVars, watcherVars
  <1> QED
    BY <1>1, <1>2, <1>3, <1>4, <1>5, <1>6, <1>7, <1>8, <1>9, <1>10, <1>11, <1>12, <1>13,
       <1>14, <1>15, <1>16, <1>17 DEF Next, AcceptLoop, Shutdown, Watcher

-----------------------------------------------------------------------------
(* Custody of the slots *)

LEMMA HandStep == TypeOK /\ InHand /\ [Next]_vars => InHand'
  <1> SUFFICES ASSUME TypeOK, InHand, [Next]_vars PROVE InHand'
    OBVIOUS
  <1>h. /\ acceptPc \in {"allow", "device", "add"} => incoming \in Sessions
        /\ None \notin Sessions /\ session \in [Sessions -> Place]
    BY ServerAssumption DEF InHand, TypeOK, Place
  <1> USE <1>h DEF InHand
  <1>1. ASSUME NEW s \in Sessions, Connect(s) PROVE InHand'
    BY <1>1 DEF Connect, acceptVars
  <1>2. ASSUME NEW s \in Sessions, Accept(s) PROVE InHand'
    BY <1>2 DEF Accept
  <1>3. CASE AcceptFails \/ Retry \/ Admit \/ BuildDevice \/ Return
    BY <1>3 DEF AcceptFails, Retry, Admit, BuildDevice, Return
  <1>4. CASE Deny \/ DeviceFails
    BY <1>4 DEF Deny, DeviceFails, Discard
  <1>5. CASE Add
    BY <1>5 DEF Add
  <1>6. ASSUME NEW s \in Sessions, Goroutine(s) PROVE InHand'
    BY <1>6 DEF Goroutine, StartPump, SessionEnds, Remove, ReleaseSlot, acceptVars
  <1>7. CASE CloseListener
    BY <1>7 DEF CloseListener, acceptVars
  <1>8. CASE UNCHANGED <<acceptVars, session>>
    BY <1>8 DEF acceptVars
  <1> QED
    BY <1>1, <1>2, <1>3, <1>4, <1>5, <1>6, <1>7, <1>8
       DEF Next, AcceptLoop, Shutdown, Watcher, Signal, Drained, Deadline, FreePump, ForceClose,
           ForceStop, ForceWait, ForceRelease, Forced, Reload, UpdatePeers, StoreConfig, EarnToken, vars

LEMMA RegisteredStep == TypeOK /\ InHand /\ Registered /\ [Next]_vars => Registered'
  <1> SUFFICES ASSUME TypeOK, InHand, Registered, [Next]_vars PROVE Registered'
    OBVIOUS
  <1>h. /\ acceptPc \in {"allow", "device", "add"} =>
             incoming \in Sessions /\ session[incoming] = "incoming"
        /\ session \in [Sessions -> Place] /\ registry \subseteq Sessions
        /\ doomed \subseteq Sessions
    BY DEF InHand, TypeOK, Place
  <1> USE <1>h DEF Registered
  <1>1. ASSUME NEW s \in Sessions, Connect(s) PROVE Registered'
    BY <1>1 DEF Connect, shutdownVars
  <1>2. ASSUME NEW s \in Sessions, Accept(s) PROVE Registered'
    BY <1>2 DEF Accept, shutdownVars
  <1>3. CASE Deny \/ DeviceFails
    BY <1>3 DEF Deny, DeviceFails, Discard, shutdownVars
  <1>4. CASE Add
    BY <1>4 DEF Add, shutdownVars
  <1>5. ASSUME NEW s \in Sessions, Goroutine(s) PROVE Registered'
    <2>1. CASE SessionEnds(s)
      BY <1>5, <2>1 DEF SessionEnds, shutdownVars
    <2>2. CASE Remove(s)
      BY <1>5, <2>2 DEF Remove, shutdownVars
    <2>3. CASE ReleaseSlot(s)
      BY <1>5, <2>3 DEF ReleaseSlot, shutdownVars
    <2>4. CASE StartPump(s)
      BY <2>4 DEF StartPump, shutdownVars
    <2> QED
      BY <1>5, <2>1, <2>2, <2>3, <2>4 DEF Goroutine
  <1>6. CASE Signal \/ Drained \/ Forced
    BY <1>6 DEF Signal, Drained, Forced
  <1>7. CASE CloseListener
    BY <1>7 DEF CloseListener
  <1>8. CASE Deadline
    BY <1>8 DEF Deadline
  <1>9. ASSUME NEW s \in Sessions, ForceClose(s) PROVE Registered'
    BY <1>9 DEF ForceClose
  <1>10. CASE UNCHANGED <<session, registry, shutdownVars>>
    BY <1>10 DEF shutdownVars
  <1>11. CASE ForceRelease
    BY <1>11 DEF ForceRelease
  <1> QED
    BY <1>1, <1>2, <1>3, <1>4, <1>5, <1>6, <1>7, <1>8, <1>9, <1>10, <1>11
       DEF Next, AcceptLoop, Shutdown, Watcher, AcceptFails, Retry, Admit, BuildDevice,
           Return, FreePump, ForceStop, ForceWait, Reload, UpdatePeers, StoreConfig, EarnToken, vars, acceptVars

(* Whoever takes a slot over takes it from the party that had it. *)
LEMMA HoldersStep == Custody /\ [Next]_vars => HoldersInCare'
  <1> SUFFICES ASSUME Custody, [Next]_vars PROVE HoldersInCare'
    OBVIOUS
  <1>h. /\ acceptPc \in {"allow", "device", "add"} =>
             incoming \in Sessions /\ session[incoming] = "incoming"
        /\ session \in [Sessions -> Place] /\ registry \subseteq Sessions
        /\ doomed \subseteq Sessions /\ holders \subseteq Sessions
        /\ \A s \in Sessions : session[s] = "incoming" <=> incoming = s
        /\ None \notin Sessions
    BY ServerAssumption DEF Custody, InHand, TypeOK, Place
  <1>r. Registered
    BY DEF Custody
  <1>i. \A s \in Sessions : s \in holders <=> InCare(s)
    BY DEF Custody, HoldersInCare
  <1> USE <1>h, <1>i DEF HoldersInCare, InCare
  <1>1. ASSUME NEW s \in Sessions, Connect(s) PROVE HoldersInCare'
    BY <1>1 DEF Connect, acceptVars, shutdownVars
  <1>2. ASSUME NEW s \in Sessions, Accept(s) PROVE HoldersInCare'
    BY <1>2 DEF Accept, shutdownVars
  <1>3. CASE AcceptFails \/ Retry \/ Return
    BY <1>3 DEF AcceptFails, Retry, Return, shutdownVars
  <1>4. CASE Admit
    BY <1>4 DEF Admit, shutdownVars
  <1>5. CASE Deny
    BY <1>5, <1>r DEF Deny, Discard, shutdownVars
  <1>6. CASE BuildDevice
    BY <1>6 DEF BuildDevice, shutdownVars
  <1>7. CASE DeviceFails
    BY <1>7, <1>r DEF DeviceFails, Discard, shutdownVars, Registered
  <1>8. CASE Add
    BY <1>8 DEF Add, shutdownVars
  <1>9. ASSUME NEW s \in Sessions, SessionEnds(s) PROVE HoldersInCare'
    BY <1>9 DEF SessionEnds, acceptVars, shutdownVars
  <1>10. ASSUME NEW s \in Sessions, Remove(s) PROVE HoldersInCare'
    BY <1>10 DEF Remove, acceptVars, shutdownVars
  <1>11. ASSUME NEW s \in Sessions, ReleaseSlot(s) PROVE HoldersInCare'
    BY <1>11, <1>r DEF ReleaseSlot, acceptVars, shutdownVars, Registered
  <1>12. CASE CloseListener
    BY <1>12 DEF CloseListener, acceptVars
  <1>13. CASE Deadline
    BY <1>13, <1>r DEF Deadline, acceptVars, Registered
  <1>14. CASE ForceRelease
    BY <1>14, <1>r DEF ForceRelease, acceptVars, Registered
  <1>15. CASE UNCHANGED <<acceptVars, session, registry, doomed, holders>>
    BY <1>15 DEF acceptVars
  <1> QED
    BY <1>1, <1>2, <1>3, <1>4, <1>5, <1>6, <1>7, <1>8, <1>9, <1>10, <1>11, <1>12, <1>13,
       <1>14, <1>15
       DEF Next, AcceptLoop, Goroutine, Shutdown, Watcher, StartPump, FreePump, Signal, Drained,
           ForceClose, ForceStop, ForceWait, Forced, Reload, UpdatePeers, StoreConfig,
           EarnToken, vars, shutdownVars

LEMMA CustodyInductive ==
    /\ Init => Custody
    /\ Custody /\ [Next]_vars => Custody'
  <1>1. Init => Custody
    <2> SUFFICES ASSUME Init PROVE Custody
      OBVIOUS
    <2>1. InHand /\ Registered /\ HoldersInCare
      BY ServerAssumption DEF Init, InHand, Registered, HoldersInCare, InCare
    <2> QED
      BY <2>1, InitTyping DEF Custody
  <1>2. Custody /\ [Next]_vars => Custody'
    BY Typing, HandStep, RegisteredStep, HoldersStep DEF Custody
  <1> QED
    BY <1>1, <1>2

(* Every variable of Server keeps its type (main.go and ratelimit.go), the tokens
   within their burst included, for any sessions and reloads. *)
THEOREM ServerTypeCorrect == Spec => []TypeOK
  <1>1. Custody => TypeOK
    BY DEF Custody
  <1> QED
    BY <1>1, CustodyInductive, PTL DEF Spec

(* The four custodians of SlotInOneCare exclude one another. *)
LEMMA OneCustodian ==
    ASSUME Custody, NEW s \in Sessions
    PROVE  Cardinality(Custodians(s)) = IF s \in holders THEN 1 ELSE 0
  <1>h. /\ incoming = s => session[s] = "incoming"
        /\ s \in registry => session[s] \in {"running", "closing"} /\ s \notin doomed
        /\ s \in doomed => session[s] \in {"running", "closing", "gone"}
        /\ s \in holders <=> InCare(s)
    BY DEF Custody, InHand, Registered, HoldersInCare
  <1>1. CASE s \in holders
    <2>1. \E p : Custodians(s) = {p}
      <3>1. CASE incoming = s /\ acceptPc \in {"device", "add"}
        <4>1. Custodians(s) = {"accept"}
          BY <1>h, <3>1 DEF Custodians
        <4> QED
          BY <4>1
      <3>2. CASE s \in registry
        <4>1. Custodians(s) = {"registry"}
          BY <1>h, <3>2 DEF Custodians
        <4> QED
          BY <4>1
      <3>3. CASE s \in doomed
        <4>1. Custodians(s) = {"shutdown"}
          BY <1>h, <3>3 DEF Custodians
        <4> QED
          BY <4>1
      <3>4. CASE session[s] = "releasing"
        <4>1. Custodians(s) = {"goroutine"}
          BY <1>h, <3>4 DEF Custodians
        <4> QED
          BY <4>1
      <3> QED
        BY <1>h, <1>1, <3>1, <3>2, <3>3, <3>4 DEF InCare
    <2> QED
      BY <1>1, <2>1, FS_Singleton
  <1>2. CASE s \notin holders
    <2>1. Custodians(s) = {}
      BY <1>h, <1>2 DEF Custodians, InCare
    <2> QED
      BY <1>2, <2>1, FS_EmptySet
  <1> QED
    BY <1>1, <1>2

(* Every slot the limiter gave out is in the care of exactly one party, whatever
   the order of a session's end, the drain deadline and forceShutdown (main.go). *)
THEOREM SlotsInOneCare == Spec => []SlotInOneCare
  <1>1. Custody => SlotInOneCare
    BY OneCustodian DEF SlotInOneCare
  <1> QED
    BY <1>1, CustodyInductive, PTL DEF Spec

-----------------------------------------------------------------------------
(* The limiter's count *)

LEMMA HoldersFinite ==
    ASSUME TypeOK
    PROVE  IsFiniteSet(holders) /\ Cardinality(holders) \in Nat
  <1>1. IsFiniteSet(holders)
    BY ServerAssumption, FS_Subset DEF TypeOK
  <1> QED
    BY <1>1, FS_CardinalityType

(* A slot given back by its holder. *)
LEMMA ReleasedOnce ==
    ASSUME TypeOK, CountIsExact, NEW s \in holders, Release, holders' = holders \ {s},
           UNCHANGED clamped
    PROVE  CountIsExact'
  <1>1. /\ Cardinality(holders') = Cardinality(holders) - 1
        /\ Cardinality(holders) \in Nat /\ Cardinality(holders') \in Nat
    <2>1. IsFiniteSet(holders) /\ Cardinality(holders) \in Nat
      BY HoldersFinite
    <2>2. IsFiniteSet(holders') /\ Cardinality(holders') = Cardinality(holders) - 1
      BY <2>1, FS_RemoveElement
    <2> QED
      BY <2>1, <2>2, FS_CardinalityType
  <1> QED
    BY <1>1 DEF CountIsExact, Release, TypeOK, LimiterTypeOK

LEMMA CountStep == Custody /\ CountIsExact /\ [Next]_vars => CountIsExact'
  <1> SUFFICES ASSUME Custody, CountIsExact, [Next]_vars PROVE CountIsExact'
    OBVIOUS
  <1>t. TypeOK /\ LimiterTypeOK
    BY DEF Custody, TypeOK
  <1>1. CASE Admit
    <2>1. incoming \notin holders
      BY <1>1, ServerAssumption DEF Admit, Custody, TypeOK, InHand, Registered, HoldersInCare, InCare
    <2>2. /\ Cardinality(holders') = Cardinality(holders) + 1
          /\ Cardinality(holders) \in Nat
      <3>1. holders' = holders \cup {incoming}
        BY <1>1 DEF Admit
      <3> QED
        BY <1>t, <2>1, <3>1, HoldersFinite, FS_AddElement
    <2> QED
      BY <1>1, <1>t, <2>2 DEF Admit, Allow, CanAllow, CountIsExact, LimiterTypeOK
  <1>2. CASE DeviceFails
    <2>1. incoming \in holders
      BY <1>2 DEF DeviceFails, Custody, TypeOK, InHand, HoldersInCare, InCare
    <2> QED
      BY <1>2, <1>t, <2>1, ReleasedOnce DEF DeviceFails
  <1>3. ASSUME NEW s \in Sessions, ReleaseSlot(s) PROVE CountIsExact'
    <2>1. s \in holders
      BY <1>3 DEF ReleaseSlot, Custody, HoldersInCare, InCare
    <2> QED
      BY <1>3, <1>t, <2>1, ReleasedOnce DEF ReleaseSlot
  <1>4. CASE ForceRelease
    <2>1. forced \in holders
      BY <1>4 DEF ForceRelease, Custody, TypeOK, Registered, HoldersInCare, InCare
    <2> QED
      BY <1>4, <1>t, <2>1, ReleasedOnce DEF ForceRelease
  <1>5. ASSUME NEW c \in Configs, Reload(c) PROVE CountIsExact'
    <2>1. Cardinality(holders') = Cardinality(holders) /\ Cardinality(holders) \in Nat
      BY <1>5, <1>t, HoldersFinite DEF Reload
    <2>2. /\ currentCount' <= currentCount /\ currentCount' \in Nat
          /\ ~ clamped' => ~ clamped /\ currentCount' = currentCount
      <3>1. currentCount' <= currentCount /\ currentCount' \in Nat
        <4>1. CASE Update(c)
          BY <1>t, <4>1, ConfigTypes DEF Update, Smaller, LimiterTypeOK
        <4>2. CASE UNCHANGED limiterVars
          BY <1>t, <4>2 DEF limiterVars, LimiterTypeOK
        <4> QED
          BY <1>5, <4>1, <4>2 DEF Reload
      <3>2. clamped' <=> clamped \/ currentCount' < currentCount
        BY <1>5 DEF Reload
      <3>3. ~ (currentCount' < currentCount) => currentCount' = currentCount
        BY <1>t, <3>1 DEF LimiterTypeOK
      <3> QED
        BY <3>1, <3>2, <3>3
    <2>3. ~ clamped' => currentCount' <= maxConnections'
      <3>1. CASE Update(c)
        BY <1>t, <3>1, ConfigTypes DEF Update, Smaller, LimiterTypeOK
      <3>2. CASE UNCHANGED limiterVars
        BY <2>2, <3>2 DEF limiterVars, CountIsExact
      <3> QED
        BY <1>5, <3>1, <3>2 DEF Reload
    <2> QED
      BY <1>t, <2>1, <2>2, <2>3 DEF CountIsExact, LimiterTypeOK
  <1>6. CASE EarnToken
    BY <1>6 DEF EarnToken, Refill, CountIsExact
  <1>7. CASE UNCHANGED <<limiterVars, holders, clamped>>
    BY <1>7 DEF limiterVars, CountIsExact
  <1> QED
    BY <1>1, <1>2, <1>3, <1>4, <1>5, <1>6, <1>7
       DEF Next, AcceptLoop, Goroutine, Shutdown, Watcher, Connect, Accept, AcceptFails,
           Retry, Deny, BuildDevice, Add, Return, StartPump, SessionEnds, Remove, FreePump,
           Signal, CloseListener, Drained, Deadline, ForceClose, ForceStop, ForceWait,
           Forced, UpdatePeers, StoreConfig, vars

LEMMA CountInductive ==
    /\ Init => Custody /\ CountIsExact
    /\ Custody /\ CountIsExact /\ [Next]_vars => (Custody /\ CountIsExact)'
  <1>1. Init => CountIsExact
    <2> SUFFICES ASSUME Init PROVE CountIsExact
      OBVIOUS
    <2>1. currentCount = 0 /\ Cardinality(holders) = 0 /\ maxConnections \in Nat
      BY FS_EmptySet, ConfigTypes DEF Init, LimiterInit
    <2> QED
      BY <2>1 DEF CountIsExact
  <1> QED
    BY <1>1, CustodyInductive, CountStep

(* The limiter's count is the number of sessions that hold a slot until a reload
   cuts it, and never more than that (internal/ratelimit/ratelimit.go). *)
THEOREM CountExact == Spec => []CountIsExact
  BY CountInductive, PTL DEF Spec

(* The maximum of docs/protocol.md:70-71, "a configurable maximum concurrent session
   count", holds up to the first reload that cuts the count: until then a session is
   admitted only while fewer than maxConnections hold a slot.  The cut in Update
   (internal/ratelimit/ratelimit.go:95) is the only reason it fails. *)
THEOREM AdmissionRespectsMaxUntilCut ==
    Spec => [][\A s \in Sessions : s \in holders' \ holders /\ ~ clamped =>
                   Cardinality(holders) < maxConnections]_vars
  <1> DEFINE A == \A s \in Sessions : s \in holders' \ holders /\ ~ clamped =>
                      Cardinality(holders) < maxConnections
  <1>1. CountIsExact /\ [Next]_vars => [A]_vars
    <2> SUFFICES ASSUME CountIsExact, Next, NEW s \in Sessions, s \in holders' \ holders,
                        ~ clamped
                 PROVE  Cardinality(holders) < maxConnections
      BY DEF A
    <2>1. Admit
      BY DEF Next, AcceptLoop, Goroutine, Shutdown, Watcher, Connect, Accept, AcceptFails,
             Retry, Deny, BuildDevice, DeviceFails, Add, Return, SessionEnds, Remove,
             ReleaseSlot, StartPump, FreePump, Signal, CloseListener, Drained, Deadline,
             ForceClose, ForceStop, ForceWait, ForceRelease, Forced, Reload, UpdatePeers,
             StoreConfig, EarnToken
    <2> QED
      BY <2>1 DEF Admit, Allow, CanAllow, CountIsExact
  <1> QED
    BY <1>1, CountInductive, PTL DEF Spec

-----------------------------------------------------------------------------
(* What is closed on the way *)

(* A session has a device only from the accept loop's BuildDevice on; its goroutine
   closes the connection first and the device next, unless the shutdown goroutine, which
   is in one Device.Close at a time, has begun to. *)
ClosedInTurn ==
    \A s \in Sessions :
        /\ session[s] \in {"new", "waiting"} => device[s] = "none"
        /\ session[s] = "incoming" /\ acceptPc # "add" => device[s] = "none"
        /\ session[s] = "closing" => conn[s] = "closed"
        /\ device[s] \in {"ending", "stopping", "stranded"} => s = forced
        /\ session[s] \in {"releasing", "gone"} =>
              conn[s] = "closed" /\ device[s] \notin {"open", "pumping"}

LEMMA ClosedStep ==
    TypeOK /\ InHand /\ Registered /\ ClosedInTurn /\ [Next]_vars => ClosedInTurn'
  <1> SUFFICES ASSUME TypeOK, InHand, Registered, ClosedInTurn, [Next]_vars
               PROVE  ClosedInTurn'
    OBVIOUS
  <1>h. /\ acceptPc \in {"allow", "device", "add"} =>
             incoming \in Sessions /\ session[incoming] = "incoming"
        /\ \A s \in Sessions : session[s] = "incoming" =>
              incoming = s /\ acceptPc \in {"allow", "device", "add"}
        /\ session \in [Sessions -> Place]
        /\ conn \in [Sessions -> {"none", "open", "closed"}]
        /\ device \in [Sessions -> DeviceStates]
        /\ None \notin Sessions
    BY ServerAssumption DEF InHand, TypeOK, Place
  <1> USE <1>h DEF ClosedInTurn, shutdownVars
  <1>1. ASSUME NEW s \in Sessions, Connect(s) PROVE ClosedInTurn'
    BY <1>1 DEF Connect, acceptVars
  <1>2. ASSUME NEW s \in Sessions, Accept(s) PROVE ClosedInTurn'
    BY <1>2 DEF Accept
  <1>3. CASE AcceptFails \/ Retry \/ Admit \/ Return
    BY <1>3 DEF AcceptFails, Retry, Admit, Return
  <1>4. CASE Deny \/ DeviceFails
    BY <1>4 DEF Deny, DeviceFails, Discard
  <1>5. CASE BuildDevice
    BY <1>5 DEF BuildDevice
  <1>6. CASE Add
    BY <1>6 DEF Add
  <1>7. ASSUME NEW s \in Sessions, SessionEnds(s) PROVE ClosedInTurn'
    BY <1>7 DEF SessionEnds, acceptVars
  <1>8. ASSUME NEW s \in Sessions, Remove(s) PROVE ClosedInTurn'
    BY <1>8 DEF Remove, Closed, acceptVars
  <1>9. ASSUME NEW s \in Sessions, ReleaseSlot(s) PROVE ClosedInTurn'
    BY <1>9 DEF ReleaseSlot, acceptVars
  <1>10. CASE CloseListener
    <2> DEFINE dropped == IF network = "udp" THEN {s \in Sessions : conn[s] = "open"}
                          ELSE {s \in Sessions : session[s] = "waiting"}
    <2>1. /\ conn' = [s \in Sessions |-> IF s \in dropped THEN "closed" ELSE conn[s]]
          /\ UNCHANGED <<acceptPc, device, forced>>
      BY <1>10 DEF CloseListener, acceptVars
    <2>2. session' = [s \in Sessions |-> IF network = "tcp" /\ session[s] = "waiting"
                                         THEN "gone" ELSE session[s]]
      BY <1>10 DEF CloseListener
    <2>3. ASSUME NEW s \in Sessions
          PROVE  /\ session'[s] = session[s] \/ (s \in dropped /\ session[s] = "waiting"
                                                 /\ session'[s] = "gone")
                 /\ conn'[s] = "closed" \/ (conn'[s] = conn[s] /\ s \notin dropped)
      BY <2>1, <2>2
    <2> HIDE DEF dropped
    <2> QED
      BY <2>1, <2>3
  <1>11. ASSUME NEW s \in Sessions, ForceClose(s) PROVE ClosedInTurn'
    BY <1>11 DEF ForceClose, acceptVars
  <1>12. CASE UNCHANGED <<acceptPc, session, conn, device, forced>>
    BY <1>12
  <1>13. CASE ForceStop \/ ForceWait \/ ForceRelease
    <2>1. forced # None => session[forced] \in {"running", "closing", "gone"}
      BY DEF Registered
    <2>2. forced # None => forced \in Sessions
      BY DEF TypeOK
    <2>3. CASE ForceStop
      BY <2>1, <2>2, <2>3 DEF ForceStop, acceptVars
    <2>4. CASE ForceWait
      BY <2>1, <2>2, <2>4 DEF ForceWait, acceptVars
    <2>5. CASE ForceRelease
      BY <2>1, <2>2, <2>5 DEF ForceRelease, acceptVars
    <2> QED
      BY <1>13, <2>3, <2>4, <2>5
  <1>14. ASSUME NEW s \in Sessions, StartPump(s) PROVE ClosedInTurn'
    BY <1>14 DEF StartPump, acceptVars
  <1>15. ASSUME NEW s \in Sessions, FreePump(s) PROVE ClosedInTurn'
    BY <1>15 DEF FreePump, acceptVars
  <1> QED
    BY <1>1, <1>2, <1>3, <1>4, <1>5, <1>6, <1>7, <1>8, <1>9, <1>10, <1>11, <1>12, <1>13,
       <1>14, <1>15
       DEF Next, AcceptLoop, Goroutine, Shutdown, Watcher, Signal, Drained, Deadline, Forced,
           Reload, UpdatePeers, StoreConfig, EarnToken, vars, acceptVars

(* The connection and the device of a session nobody has in hand are closed, whether
   the limiter, NewDevice, the listener, the session or the shutdown ended it. *)
THEOREM NothingStaysOpen == Spec => []NothingLeftOpen
  <1>1. Init => ClosedInTurn
    BY DEF Init, ClosedInTurn
  <1>2. Custody /\ ClosedInTurn /\ [Next]_vars => ClosedInTurn'
    BY ClosedStep DEF Custody
  <1>3. Custody /\ ClosedInTurn => NothingLeftOpen
    BY ServerAssumption
       DEF ClosedInTurn, NothingLeftOpen, Custody, TypeOK, DeviceStates, Registered
  <1> QED
    BY <1>1, <1>2, <1>3, CustodyInductive, PTL DEF Spec

-----------------------------------------------------------------------------
(* The shutdown *)

(* What is registered once the registry was emptied came after the signal. *)
OnlyLate == shutdown \in {"forcing", "complete"} => registry \subseteq late

LEMMA LateStep == OnlyLate /\ [Next]_vars => OnlyLate'
  <1> SUFFICES ASSUME OnlyLate, [Next]_vars PROVE OnlyLate'
    OBVIOUS
  <1> USE DEF OnlyLate
  <1>1. CASE Add
    BY <1>1 DEF Add, shutdownVars
  <1>2. ASSUME NEW s \in Sessions, Remove(s) PROVE OnlyLate'
    BY <1>2 DEF Remove, shutdownVars
  <1>3. CASE Signal \/ CloseListener
    BY <1>3 DEF Signal, CloseListener
  <1>4. CASE Drained \/ Deadline \/ Forced
    BY <1>4 DEF Drained, Deadline, Forced
  <1>5. CASE UNCHANGED <<shutdown, registry, late>>
    BY <1>5
  <1> QED
    BY <1>1, <1>2, <1>3, <1>4, <1>5
       DEF Next, AcceptLoop, Goroutine, Shutdown, Watcher, Connect, Accept, AcceptFails,
           Retry, Admit, Deny, BuildDevice, DeviceFails, Return, StartPump, SessionEnds,
           ReleaseSlot, FreePump, ForceClose, ForceStop, ForceWait, ForceRelease, Reload,
           UpdatePeers, StoreConfig, EarnToken, vars, shutdownVars

(* A shutdown that reports completion leaves no session registered but those the
   accept loop added after the signal (main.go, forceShutdown and the drain). *)
THEOREM ShutdownLeavesOnlyLate == Spec => []ShutdownDrains
  <1>1. Init => OnlyLate
    BY DEF Init, OnlyLate
  <1>2. OnlyLate => ShutdownDrains
    BY DEF OnlyLate, ShutdownDrains
  <1> QED
    BY <1>1, <1>2, LateStep, PTL DEF Spec

-----------------------------------------------------------------------------
(* The peer lists *)

(* What peersChanged does not tell apart from a list that it does not tell apart from
   the first, it does not tell apart from the first either: no chain of reloads that pass
   unnoticed adds up to a change it would have seen. *)
LEMMA AgreesOnward ==
    ASSUME NEW list \in Seq(PeerConfig), NEW stored \in Seq(PeerConfig),
           NEW next \in Seq(PeerConfig),
           Agrees(list, stored), ~ PeersChanged(stored, next)
    PROVE  Agrees(list, next)
  <1>1. CASE list = stored
    BY <1>1 DEF Agrees
  <1>2. CASE list # stored
    <2>1. ~ PeersChanged(list, stored)
      BY <1>2 DEF Agrees
    <2>2. Len(list) = Len(next)
      BY <2>1 DEF PeersChanged
    <2>3. ASSUME NEW i \in DOMAIN next
          PROVE  \E k \in DOMAIN list : IsLastOf(list, k) /\ SamePeer(list[k], next[i])
      <3>1. PICK j \in DOMAIN stored : SamePeer(stored[j], next[i])
        BY <2>3 DEF PeersChanged
      <3>2. PICK k \in DOMAIN list : IsLastOf(list, k) /\ SamePeer(list[k], stored[j])
        BY <2>1 DEF PeersChanged
      <3>3. SamePeer(list[k], next[i])
        BY <3>1, <3>2 DEF SamePeer
      <3> QED
        BY <3>2, <3>3
    <2> QED
      BY <2>2, <2>3 DEF Agrees, PeersChanged
  <1> QED
    BY <1>1, <1>2

(* Until the new configuration is stored registered devices agree with the list of the
   one that was last passed on; so does the device in the accept loop's hands, unless the
   watcher came between its making and its registration. *)
FreshUpToStore ==
    LET list == IF watcher = "store" THEN loaded.peers ELSE cfg.peers
    IN  /\ \A s \in registry \ raced : Agrees(peers[s], list)
        /\ acceptPc = "add" /\ incoming \notin raced =>
              watcher # "store" /\ Agrees(peers[incoming], list)

LEMMA FreshStep == TypeOK /\ InHand /\ Registered /\ FreshUpToStore /\ [Next]_vars =>
                       FreshUpToStore'
  <1> SUFFICES ASSUME TypeOK, InHand, Registered, FreshUpToStore, [Next]_vars
               PROVE  FreshUpToStore'
    OBVIOUS
  <1>h. /\ acceptPc \in {"allow", "device", "add"} =>
             incoming \in Sessions /\ session[incoming] = "incoming"
        /\ peers \in [Sessions -> Seq(PeerConfig)] /\ registry \subseteq Sessions
        /\ watcher \in {"idle", "peers", "store"}
        /\ \A s \in registry : session[s] # "incoming"
    BY ServerAssumption DEF InHand, TypeOK, Registered
  <1> USE <1>h DEF FreshUpToStore
  <1>1. ASSUME NEW s \in Sessions, Accept(s) PROVE FreshUpToStore'
    BY <1>1 DEF Accept, watcherVars
  <1>2. CASE AcceptFails \/ Retry \/ Admit \/ Return
    BY <1>2 DEF AcceptFails, Retry, Admit, Return, watcherVars
  <1>3. CASE Deny \/ DeviceFails
    BY <1>3 DEF Deny, DeviceFails, Discard, watcherVars
  <1>4. CASE BuildDevice
    BY <1>4 DEF BuildDevice, Agrees, watcherVars
  <1>5. CASE Add
    BY <1>5 DEF Add, watcherVars
  <1>6. ASSUME NEW s \in Sessions, Remove(s) PROVE FreshUpToStore'
    BY <1>6 DEF Remove, acceptVars, watcherVars
  <1>7. CASE Deadline
    BY <1>7 DEF Deadline, acceptVars, watcherVars
  <1>8. ASSUME NEW c \in Configs, Reload(c) PROVE FreshUpToStore'
    BY <1>8 DEF Reload, acceptVars
  <1>9. CASE UpdatePeers
    <2>1. /\ cfg.peers \in Seq(PeerConfig) /\ loaded.peers \in Seq(PeerConfig)
          /\ watcher = "peers" /\ watcher' = "store" /\ UNCHANGED <<registry, loaded, acceptVars>>
          /\ raced \subseteq raced'
          /\ acceptPc = "add" => incoming \in raced'
      BY <1>9, ConfigTypes DEF UpdatePeers, TypeOK
    <2>2. ASSUME NEW s \in registry \ raced' PROVE Agrees(peers'[s], loaded.peers)
      <3>1. s \in Sessions /\ Agrees(peers[s], cfg.peers)
        BY <2>1, <2>2
      <3>2. CASE PeersChanged(cfg.peers, loaded.peers)
        <4>1. peers'[s] = loaded.peers
          BY <1>9, <2>2, <3>1, <3>2 DEF UpdatePeers
        <4> QED
          BY <4>1 DEF Agrees
      <3>3. CASE ~ PeersChanged(cfg.peers, loaded.peers)
        <4>1. peers'[s] = peers[s]
          BY <1>9, <2>2, <3>1, <3>3 DEF UpdatePeers
        <4>2. peers[s] \in Seq(PeerConfig)
          BY <3>1
        <4> QED
          BY <2>1, <3>1, <3>3, <4>1, <4>2, AgreesOnward
      <3> QED
        BY <3>2, <3>3
    <2> QED
      BY <2>1, <2>2 DEF acceptVars
  <1>10. CASE StoreConfig
    BY <1>10 DEF StoreConfig, acceptVars
  <1>11. CASE UNCHANGED <<acceptVars, peers, registry, watcherVars, raced>>
    BY <1>11 DEF acceptVars, watcherVars
  <1> QED
    BY <1>1, <1>2, <1>3, <1>4, <1>5, <1>6, <1>7, <1>8, <1>9, <1>10, <1>11
       DEF Next, AcceptLoop, Goroutine, Shutdown, Watcher, Connect, StartPump, SessionEnds,
           ReleaseSlot, FreePump, Signal, CloseListener, Drained, ForceClose, ForceStop,
           ForceWait, ForceRelease, Forced, EarnToken, vars

(* Between reloads every registered session works with the stored peer list or one that
   peersChanged (main.go) does not tell from it, through any number of reloads, unless
   its device was built while a reload was being applied. *)
THEOREM PeersStayFresh == Spec => []PeersFresh
  <1>1. Init => FreshUpToStore
    BY DEF Init, FreshUpToStore
  <1>2. Custody /\ FreshUpToStore /\ [Next]_vars => FreshUpToStore'
    BY FreshStep DEF Custody
  <1>3. FreshUpToStore => PeersFresh
    BY DEF FreshUpToStore, PeersFresh
  <1> QED
    BY <1>1, <1>2, <1>3, CustodyInductive, PTL DEF Spec
=============================================================================
