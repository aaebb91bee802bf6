---------------------------- MODULE PolicyReloadProofs ----------------------------
(***************************************************************************)
(* Hot reload, for any number of published versions: what is in force is   *)
(* never older than it was, and no event is forgotten.                     *)
(***************************************************************************)
EXTENDS PolicyReload, TLAPS

(* Versions only go forward, from the file over what the watcher loaded to *)
(* what is in force.                                                       *)
VersionsOrdered ==
    /\ newest <= published
    /\ file \in {published, Unreadable}
    /\ writing => published > 0
    /\ loaded \in Versions => newest <= loaded /\ loaded <= published
    /\ broker = "starting" => loaded = None
    /\ PolicyNeverReverts

(* What was completed under the watch is still announced, or loaded, or in *)
(* force.                                                                  *)
Announced ==
    /\ watched <= published
    /\ writing => watched < published
    /\ watched > 0 => broker = "watching"
    /\ ~writing /\ published > 0 => file = published
    /\ published > 0 /\ watched = published =>
          \/ events > 0
          \/ loaded = published
          \/ loaded = None /\ inForce = published

(* The policies that stand for no version are none.                        *)
LEMMA NoVersions ==
    /\ Versions \subseteq Nat
    /\ Unreadable \notin Versions /\ Fallback \notin Versions /\ None \notin Versions
    /\ Unreadable \notin Nat /\ Fallback \notin Nat /\ None \notin Nat
  BY ReloadAssumption DEF Versions

(* The larger of two versions.                                             *)
LEMMA MaxOfTwo ==
    ASSUME NEW a \in Int, NEW b \in Int
    PROVE  Max({a, b}) = IF a >= b THEN a ELSE b
  BY DEF Max

(* A stored policy that is no older than the newest becomes the newest.    *)
LEMMA NewestAfter ==
    ASSUME NEW p, newest \in Nat, p \in Versions => newest <= p
    PROVE  NewestWith(p) = IF p \in Versions THEN p ELSE newest
  BY MaxOfTwo DEF NewestWith, Versions

(* The file holds the version published last, if any can be read.          *)
LEMMA FileFacts ==
    ASSUME TypeOK, VersionsOrdered
    PROVE  /\ LoadPolicy(file) \in Versions \cup {Fallback}
           /\ LoadPolicy(file) \in Versions => LoadPolicy(file) = published /\ newest <= published
  BY ReloadAssumption DEF TypeOK, VersionsOrdered, LoadPolicy, Versions

LEMMA TypeStep == TypeOK /\ VersionsOrdered /\ [Next]_vars => TypeOK'
<1> SUFFICES ASSUME TypeOK, VersionsOrdered, [Next]_vars PROVE TypeOK'
  OBVIOUS
<1> USE ReloadAssumption DEF TypeOK
<1>1. CASE BeginWrite
  BY <1>1 DEF BeginWrite, Notify, Watched, Versions
<1>2. CASE EndWrite
  <2>1. published \in Versions
    BY <1>2 DEF EndWrite, VersionsOrdered, Versions
  <2>2. events' \in Nat
    BY <1>2 DEF EndWrite, Notify, Watched
  <2>3. file' = published /\ writing' = FALSE /\ watched' \in {published, watched}
    BY <1>2 DEF EndWrite, Watched
  <2>4. UNCHANGED <<named, dir, published, broker, loaded, inForce, newest>>
    BY <1>2 DEF EndWrite
  <2> QED BY <2>1, <2>2, <2>3, <2>4
<1>3. CASE SwapFile
  BY <1>3 DEF SwapFile, Notify, Watched, Versions
<1>4. CASE InitialLoad
  <2>1. NewestWith(LoadPolicy(file)) \in 0..MaxVersion
    BY FileFacts, NewestAfter DEF Versions
  <2> QED BY <1>4, <2>1, FileFacts DEF InitialLoad
<1>5. CASE RegisterWatch
  BY <1>5 DEF RegisterWatch
<1>6. CASE LoadOnEvent
  BY <1>6, FileFacts DEF LoadOnEvent
<1>7. CASE StoreLoaded
  <2>1. NewestWith(loaded) \in 0..MaxVersion
    BY NewestAfter DEF VersionsOrdered, Versions
  <2> QED BY <1>7, <2>1 DEF StoreLoaded
<1>8. CASE UNCHANGED vars
  BY <1>8 DEF vars
<1> QED BY <1>1, <1>2, <1>3, <1>4, <1>5, <1>6, <1>7, <1>8 DEF Next, BrokerStep

LEMMA OrderStep == TypeOK /\ VersionsOrdered /\ [Next]_vars => VersionsOrdered'
<1> SUFFICES ASSUME TypeOK, VersionsOrdered, [Next]_vars PROVE VersionsOrdered'
  OBVIOUS
<1> USE ReloadAssumption DEF TypeOK, VersionsOrdered, PolicyNeverReverts, Versions
<1>1. CASE BeginWrite
  BY <1>1 DEF BeginWrite
<1>2. CASE EndWrite
  BY <1>2 DEF EndWrite
<1>3. CASE SwapFile
  BY <1>3 DEF SwapFile
<1>4. CASE InitialLoad
  <2> DEFINE p == LoadPolicy(file)
  <2>1. newest' = IF p \in Versions THEN p ELSE newest
    BY <1>4, FileFacts, NewestAfter DEF InitialLoad
  <2>2. inForce' = p /\ UNCHANGED <<file, published, writing, loaded>>
    BY <1>4 DEF InitialLoad
  <2>3. p \in Versions => p = published /\ newest <= published
    BY FileFacts
  <2>4. p \in Versions \cup {Fallback}
    BY FileFacts
  <2>5. loaded = None
    BY <1>4 DEF InitialLoad
  <2> HIDE DEF p
  <2> QED BY <2>1, <2>2, <2>3, <2>4, <2>5, NoVersions
<1>5. CASE RegisterWatch
  BY <1>5 DEF RegisterWatch
<1>6. CASE LoadOnEvent
  BY <1>6, FileFacts DEF LoadOnEvent
<1>7. CASE StoreLoaded
  <2>1. newest' = IF loaded \in Versions THEN loaded ELSE newest
    BY <1>7, NewestAfter DEF StoreLoaded
  <2> QED BY <1>7, <2>1, NoVersions DEF StoreLoaded
<1>8. CASE UNCHANGED vars
  BY <1>8 DEF vars
<1> QED BY <1>1, <1>2, <1>3, <1>4, <1>5, <1>6, <1>7, <1>8 DEF Next, BrokerStep

LEMMA AnnouncedStep == TypeOK /\ VersionsOrdered /\ Announced /\ [Next]_vars => Announced'
<1> SUFFICES ASSUME TypeOK, VersionsOrdered, Announced, [Next]_vars PROVE Announced'
  OBVIOUS
<1> USE ReloadAssumption DEF TypeOK, Announced
<1>1. CASE BeginWrite
  BY <1>1 DEF BeginWrite, Notify, Watched
<1>2. CASE EndWrite
  BY <1>2 DEF EndWrite, Notify, Watched
<1>3. CASE SwapFile
  BY <1>3 DEF SwapFile, Notify, Watched
<1>4. CASE InitialLoad
  BY <1>4 DEF InitialLoad
<1>5. CASE RegisterWatch
  BY <1>5 DEF RegisterWatch
<1>6. CASE LoadOnEvent
  <2>1. watched = published /\ published > 0 => loaded' = published
    <3> SUFFICES ASSUME watched = published, published > 0 PROVE loaded' = published
      OBVIOUS
    <3>1. file = published
      OBVIOUS
    <3>2. published # Unreadable
      BY NoVersions
    <3> QED BY <1>6, <3>1, <3>2 DEF LoadOnEvent, LoadPolicy
  <2> QED BY <1>6, <2>1 DEF LoadOnEvent
<1>7. CASE StoreLoaded
  BY <1>7 DEF StoreLoaded
<1>8. CASE UNCHANGED vars
  BY <1>8 DEF vars
<1> QED BY <1>1, <1>2, <1>3, <1>4, <1>5, <1>6, <1>7, <1>8 DEF Next, BrokerStep

LEMMA InitOK == Init => TypeOK /\ VersionsOrdered /\ Announced
<1> SUFFICES ASSUME Init PROVE TypeOK /\ VersionsOrdered /\ Announced
  OBVIOUS
<1>1. TypeOK
  <2>1. 0 \in 0..MaxVersion /\ 0 \in Nat
    BY ReloadAssumption
  <2>2. Init => named \in BOOLEAN
    BY ReloadAssumption DEF Init
  <2> QED BY <2>1, <2>2, Zenon DEF Init, TypeOK
<1>2. VersionsOrdered
  BY NoVersions DEF Init, VersionsOrdered, PolicyNeverReverts
<1>3. Announced
  BY DEF Init, Announced
<1> QED BY <1>1, <1>2, <1>3

---------------------------------------------------------------------------------
(* The writer's, the watcher's and the broker's variables keep their types *)
(* (main.rs:67-104).                                                       *)
THEOREM TypeCorrect == Spec => []TypeOK
  BY InitOK, TypeStep, OrderStep, PTL DEF Spec

(* A superseded policy never comes back into force, however writes, events *)
(* and loads interleave (main.rs:89-99).                                   *)
THEOREM NeverReverts == Spec => []PolicyNeverReverts
<1>1. VersionsOrdered => PolicyNeverReverts
  BY DEF VersionsOrdered
<1> QED BY <1>1, InitOK, TypeStep, OrderStep, PTL DEF Spec

(* When no event waits and nothing is loaded, the published policy is the  *)
(* one in force: events that come during a load are not lost               *)
(* (main.rs:89-99).                                                        *)
THEOREM NothingForgotten == Spec => []NoReloadPending
<1>1. TypeOK /\ Announced => NoReloadPending
  BY ReloadAssumption DEF TypeOK, Announced, NoReloadPending
<1> QED BY <1>1, InitOK, TypeStep, OrderStep, AnnouncedStep, PTL DEF Spec
================================================================================
