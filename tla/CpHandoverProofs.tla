--------------------------- MODULE CpHandoverProofs ---------------------------
(***************************************************************************)
(* For every number of sessions and phones: the sessions that are to leave *)
(* for the cable run, on a phone that is on the cable, and can be found by *)
(* its UDID; and however far the core is behind, what it does on the       *)
(* manager's news is a behaviour of Sessions.  The second argument is      *)
(* about the queue: which news of a session may stand in it, in which      *)
(* order, given how far the core has heard.                                *)
(***************************************************************************)
EXTENDS CpHandover, FiniteSetTheorems, SequenceTheorems, WellFoundedInduction, TLAPS

(* What the steps below rest on besides: a session of the map has a number. *)
Known ==
  /\ born \in [CpLinks -> Nat] /\ DOMAIN ids = CpLinks
  /\ alive \subseteq {l \in CpLinks : born[l] # 0}

IInv == Known /\ LeavingIsOnCable

(* The session match_session() takes is one of those that match. *)
LEMMA LeastIsIn ==
  ASSUME born \in [CpLinks -> Nat], NEW X \in SUBSET CpLinks, X # {}
  PROVE  Least(X) \in X
<1> DEFINE N == {born[k] : k \in X}
           R == OpToRel(<, Nat)
<1>1. \A x, y \in Nat : x < y => <<x, y>> \in R  BY Zenon DEF OpToRel
<1>2. N \subseteq Nat /\ N # {}  OBVIOUS
<1>3. IsWellFoundedOn(R, Nat)  BY NatLessThanWellFounded
<1> HIDE DEF N, R
<1>4. PICK n \in N : \A m \in N : ~(<<m, n>> \in R)  BY <1>2, <1>3, WFMin, ZenonT(60)
<1>5. ASSUME NEW m \in N PROVE n <= m
  <2>1. n \in Nat /\ m \in Nat  BY <1>2
  <2>2. ~(m < n)  BY <1>1, <1>4, <2>1, Zenon
  <2> QED  BY <2>1, <2>2
<1>6. PICK l \in X : n = born[l]  BY <1>4 DEF N
<1>7. \A k \in X : born[l] <= born[k]  BY <1>5, <1>6 DEF N
<1> QED  BY <1>6, <1>7 DEF Least

(* A session that comes, or one that learns more of its phone, changes     *)
(* nothing for the others.                                                 *)
LEMMA LearningKeeps ==
  ASSUME IInv, NEW l \in CpLinks, NEW more,
         ids' = ids \/ ids' = [ids EXCEPT ![l] = ids[l] \cup more],
         alive' = alive \/ (alive' = alive \cup {l} /\ born'[l] # 0),
         born' \in [CpLinks -> Nat], \A k \in CpLinks : born[k] # 0 => born'[k] # 0,
         wired' = wired, cabled' = cabled
  PROVE  IInv'
<1>1. DOMAIN ids' = CpLinks  BY DEF IInv, Known
<1>2. \A k \in CpLinks : ids[k] \subseteq ids'[k]  BY DEF IInv, Known
<1>3. Known'  BY <1>1 DEF IInv, Known
<1>4. LeavingIsOnCable'  BY <1>2 DEF IInv, Known, LeavingIsOnCable
<1> QED  BY <1>3, <1>4 DEF IInv

(* Sessions end: their mark goes with them, and whatever else the step     *)
(* takes the mark from is out of the question.                             *)
LEMMA EndingKeeps ==
  ASSUME IInv, NEW X, NEW onCable, NEW leaving, NEW before, NEW after,
         CloseAll(X, onCable, leaving, before, after), leaving \subseteq cabled,
         \A l \in leaving \ X : PhoneOf[l] \in wired => PhoneOf[l] \in wired',
         DOMAIN ids' = CpLinks, \A k \in CpLinks : ids[k] \subseteq ids'[k], born' = born
  PROVE  IInv'
BY DEF IInv, Known, LeavingIsOnCable, CloseAll

LEMMA NewNumber ==
  ASSUME born \in [CpLinks -> Nat], NEW l \in CpLinks, Registers(l)
  PROVE  /\ born' \in [CpLinks -> Nat] /\ born'[l] # 0
         /\ \A k \in CpLinks : born[k] # 0 => born'[k] # 0
<1> DEFINE B == {k \in CpLinks : born[k] # 0}
<1>1. Cardinality(B) \in Nat
  BY CpLinksAssumption, FS_Subset, FS_CardinalityType
<1>2. born' = [born EXCEPT ![l] = Cardinality(B) + 1]  BY DEF Registers
<1> QED  BY <1>1, <1>2

-----------------------------------------------------------------------------
(* One lemma per action. *)

LEMMA SpawnKeeps == ASSUME IInv, NEW l \in CpLinks, Spawn(l) PROVE IInv'
<1>1. /\ born' \in [CpLinks -> Nat] /\ born'[l] # 0
      /\ \A k \in CpLinks : born[k] # 0 => born'[k] # 0
  BY NewNumber DEF Spawn, IInv, Known
<1> QED  BY <1>1, LearningKeeps DEF Spawn, Registers

LEMMA DeviceInfoKeeps == ASSUME IInv, NEW l \in CpLinks, DeviceInfo(l) PROVE IInv'
<1> DEFINE more == {"bt", "wifi"} \cup pending[PhoneOf[l]]
<1>1. ids' = [ids EXCEPT ![l] = ids[l] \cup more]  BY DEF DeviceInfo
<1> HIDE DEF more
<1> QED  BY <1>1, LearningKeeps DEF DeviceInfo, IInv, Known

LEMMA ActiveKeeps == ASSUME IInv, NEW l \in CpLinks, Active(l) PROVE IInv'
<1> DEFINE others == Matching(PhoneOf[l], {"controller"})
           news == <<[type |-> "active", link |-> l]>>
<1>1. CloseAll(others, wired, cabled \ others, <<>>, news)  BY DEF Active
<1>2. DOMAIN ids' = CpLinks /\ \A k \in CpLinks : ids[k] \subseteq ids'[k]
  BY DEF Active, IInv, Known
<1> HIDE DEF others, news
<1> QED  BY <1>1, <1>2, EndingKeeps DEF Active

LEMMA MainScreenReadyKeeps ==
  ASSUME IInv, NEW l \in CpLinks, MainScreenReady(l) PROVE IInv'
BY DEF MainScreenReady, IInv, Known, LeavingIsOnCable

LEMMA EndsKeeps == ASSUME IInv, NEW l \in CpLinks, Ends(l) PROVE IInv'
<1>1. DOMAIN ids' = CpLinks /\ \A k \in CpLinks : ids[k] \subseteq ids'[k]
  BY DEF Ends, IInv, Known
<1> QED  BY <1>1, EndingKeeps DEF Ends

LEMMA DropSessionsKeeps == ASSUME IInv, DropSessions PROVE IInv'
<1>1. DOMAIN ids' = CpLinks /\ \A k \in CpLinks : ids[k] \subseteq ids'[k]
  BY DEF DropSessions, IInv, Known
<1> QED  BY <1>1, EndingKeeps DEF DropSessions

LEMMA MetadataKeeps == ASSUME IInv, NEW l \in CpLinks, Metadata(l) PROVE IInv'
<1> DEFINE more == {"bt"} \cup (IF PhoneOf[l] \in wired THEN {"udid"} ELSE {})
                     \cup pending[PhoneOf[l]]
<1>1. l \notin alive /\ l \notin cabled
  BY DEF Metadata, Registers, IInv, Known, LeavingIsOnCable
<1>2. ids' = [ids EXCEPT ![l] = more]  BY DEF Metadata
<1>3. /\ born' \in [CpLinks -> Nat] /\ born'[l] # 0
      /\ \A k \in CpLinks : born[k] # 0 => born'[k] # 0
  BY NewNumber DEF Metadata, IInv, Known
<1> HIDE DEF more
<1>4. LeavingIsOnCable'
  BY <1>1, <1>2, SMTT(30) DEF Metadata, Registers, IInv, Known, LeavingIsOnCable
<1>5. DOMAIN ids' = CpLinks  BY <1>2 DEF IInv, Known
<1>6. alive' = alive \cup {l}  BY DEF Metadata, Registers
<1>7. alive' \subseteq {k \in CpLinks : born'[k] # 0}
  BY <1>3, <1>6 DEF IInv, Known
<1> QED  BY <1>3, <1>4, <1>5, <1>7 DEF IInv, Known

(* A session that is marked is the one the news was matched with, has a    *)
(* controller, and its phone is on the cable from now on.                  *)
LEMMA DeviceKeeps == ASSUME IInv, NEW p \in Phones, Device(p) PROVE IInv'
<1>1. PICK facets \in {{"bt"}, {"bt", "udid"}} :
        LET found == Matching(p, facets)
            l == Least(found)
            plugged == "udid" \in facets
        IN /\ wired' = IF plugged THEN wired \cup {p} ELSE wired
           /\ cabled' = IF plugged /\ p \notin wired /\ found # {} /\ "controller" \in ids[l]
                        THEN cabled \cup {l} ELSE cabled
           /\ IF found # {} THEN ids' = [ids EXCEPT ![l] = ids[l] \cup facets]
              ELSE ids' = ids
           /\ born' = born /\ alive' = alive
  BY DEF Device
<1> DEFINE found == Matching(p, facets)
           l == Least(found)
<1>2. found \subseteq alive \cap Of(p)  BY DEF Matching
<1>3. found # {} => l \in found  BY <1>2, LeastIsIn DEF IInv, Known
<1>4. found # {} => l \in CpLinks /\ l \in alive /\ PhoneOf[l] = p
  BY <1>2, <1>3 DEF Of, IInv, Known
<1> HIDE DEF found, l
<1>5. DOMAIN ids' = CpLinks /\ \A k \in CpLinks : ids[k] \subseteq ids'[k]
  BY <1>1, <1>4 DEF IInv, Known, found, l
<1>6. CASE cabled' = cabled
  BY <1>1, <1>5, <1>6 DEF IInv, Known, LeavingIsOnCable
<1>7. CASE cabled' # cabled
  <2>1. /\ "udid" \in facets /\ found # {} /\ "controller" \in ids[l]
        /\ cabled' = cabled \cup {l} /\ wired' = wired \cup {p}
        /\ ids' = [ids EXCEPT ![l] = ids[l] \cup facets]
    BY <1>1, <1>7 DEF found, l
  <2>2. {"udid", "controller"} \subseteq ids'[l]  BY <2>1, <1>4 DEF IInv, Known
  <2> QED  BY <1>1, <1>4, <1>5, <2>1, <2>2 DEF IInv, Known, LeavingIsOnCable
<1> QED  BY <1>6, <1>7

LEMMA CrowdedKeeps == ASSUME IInv, NEW p \in Phones, Crowded(p) PROVE IInv'
BY DEF Crowded, IInv, Known, LeavingIsOnCable

LEMMA WiredStartKeeps == ASSUME IInv, NEW p \in Phones, WiredStart(p) PROVE IInv'
<1>1. PICK facets \in {{"udid"}, {"udid", "bt"}} :
        CloseAll(cabled \cap Matching(p, facets), wired, cabled, <<>>, <<>>)
  BY DEF WiredStart
<1> DEFINE X == cabled \cap Matching(p, facets)
<1>2. DOMAIN ids' = CpLinks /\ \A k \in CpLinks : ids[k] \subseteq ids'[k]
  BY DEF WiredStart, IInv, Known
<1> HIDE DEF X
<1> QED  BY <1>1, <1>2, EndingKeeps DEF WiredStart, X

(* The pulled cable finds every marked session of the phone: that is what  *)
(* the UDID in the invariant is for.                                       *)
LEMMA DeviceGoneKeeps == ASSUME IInv, NEW p \in Phones, DeviceGone(p) PROVE IInv'
<1> DEFINE known == Matching(p, {"udid"})
           X == known \ cabled
           leaving == cabled \ known
           news == <<[type |-> "unplugged", phone |-> p]>>
<1>1. /\ CloseAll(X, wired \ {p}, leaving, news, <<>>)
      /\ wired' = wired \ {p} /\ ids' = ids /\ born' = born
  BY DEF DeviceGone
<1>2. \A l \in leaving : PhoneOf[l] # p
  BY DEF IInv, Known, LeavingIsOnCable, Matching, Of
<1>3. \A l \in leaving \ X : PhoneOf[l] \in wired => PhoneOf[l] \in wired'
  BY <1>1, <1>2
<1>4. leaving \subseteq cabled /\ DOMAIN ids' = CpLinks /\ \A k \in CpLinks : ids[k] \subseteq ids'[k]
  BY <1>1 DEF IInv, Known
<1> HIDE DEF known, X, leaving, news
<1> QED  BY <1>1, <1>3, <1>4, EndingKeeps

LEMMA LeftWifiKeeps == ASSUME IInv, NEW p \in Phones, LeftWifi(p) PROVE IInv'
<1> DEFINE X == {l \in Matching(p, {"wifi"}) : ~OnCable(l)}
           news == <<[type |-> "left", phone |-> p]>>
<1>1. CloseAll(X, wired, cabled, <<>>, news)  BY DEF LeftWifi
<1>2. DOMAIN ids' = CpLinks /\ \A k \in CpLinks : ids[k] \subseteq ids'[k]
  BY DEF LeftWifi, IInv, Known
<1> HIDE DEF X, news
<1> QED  BY <1>1, <1>2, EndingKeeps DEF LeftWifi

LEMMA LinkDownKeeps == ASSUME IInv, LinkDown PROVE IInv'
<1> DEFINE X == {l \in alive : ~OnCable(l)}
<1>1. CloseAll(X, wired, cabled, <<>>, <<>>)  BY DEF LinkDown
<1>2. DOMAIN ids' = CpLinks /\ \A k \in CpLinks : ids[k] \subseteq ids'[k]
  BY DEF LinkDown, IInv, Known
<1> HIDE DEF X
<1> QED  BY <1>1, <1>2, EndingKeeps DEF LinkDown

-----------------------------------------------------------------------------
(* A session that is to leave for the cable runs, its phone is on the      *)
(* cable, and "device-gone" and "wired-start" find it.                     *)
THEOREM AlwaysLeavingIsOnCable == Spec => []LeavingIsOnCable
<1>1. Init => IInv
  BY DEF Init, CpInit, IInv, Known, LeavingIsOnCable
<1>2. IInv /\ [Next]_vars => IInv'
  <2> SUFFICES ASSUME IInv, [Next]_vars PROVE IInv'  OBVIOUS
  <2>1. ASSUME UNCHANGED cpState PROVE IInv'
    BY <2>1 DEF cpState, IInv, Known, LeavingIsOnCable
  <2>2. CASE Reads  BY <2>1, <2>2 DEF Reads
  <2>3. CASE UNCHANGED vars  BY <2>1, <2>3 DEF vars, cpVars
  <2>4. ASSUME NEW l \in CpLinks,
               Spawn(l) \/ DeviceInfo(l) \/ Active(l) \/ MainScreenReady(l)
                 \/ Closed(l) \/ Metadata(l) \/ Close(l)
        PROVE  IInv'
    BY <2>4, SpawnKeeps, DeviceInfoKeeps, ActiveKeeps, MainScreenReadyKeeps, EndsKeeps,
       MetadataKeeps DEF Closed, Close
  <2>5. ASSUME NEW p \in Phones, Device(p) \/ Crowded(p) \/ WiredStart(p) \/ DeviceGone(p) \/ LeftWifi(p)
        PROVE  IInv'
    BY <2>5, DeviceKeeps, CrowdedKeeps, WiredStartKeeps, DeviceGoneKeeps, LeftWifiKeeps
  <2>6. CASE CpNext
    BY <2>4, <2>5, <2>6, LinkDownKeeps, DropSessionsKeeps DEF CpNext
  <2> QED  BY <2>2, <2>3, <2>6 DEF Next
<1>3. IInv => LeavingIsOnCable  BY DEF IInv
<1> QED  BY <1>1, <1>2, <1>3, PTL DEF Spec

-----------------------------------------------------------------------------
(* What the news in the queue look like. *)
Shaped(e) ==
  \/ /\ e.type = "presence" /\ e.link \in CpLinks
     /\ e.way = "usb" => e.link \notin AirLinks
     /\ e.way \in {"usb", "wifi"} /\ "bt" \in e.facets
     /\ e.facets \subseteq {"bt", "wifi", "udid"}
  \/ /\ e.type = "connected" /\ e.link \in CpLinks
     /\ e.way = "usb" => e.link \notin AirLinks
     /\ e.way \in {"usb", "wifi"} /\ e.facets \subseteq {"controller"}
  \/ e.type \in {"active", "disconnected"} /\ e.link \in CpLinks
  \/ e.type \in {"left", "unplugged"} /\ e.phone \in Phones

Is(e, type, l) == e.type = type /\ e.link = l
About(e, l) == \E type \in {"presence", "active", "connected", "disconnected"} : Is(e, type, l)

(* A session the core may still hear of. *)
Open(l) == l \in alive \/ born[l] = 0

Types ==
  /\ events \in Seq(Event) /\ \A i \in 1..Len(events) : Shaped(events[i])
  /\ heard \in [CpLinks -> {"none", "up", "shown", "gone"}]
  /\ pending \in [Phones -> SUBSET {"bt", "udid"}]
  /\ ids \in [CpLinks -> SUBSET CpFacets]

(* The end of a session comes last, and is the only one. *)
EndsLast ==
  \A l \in CpLinks :
    /\ heard[l] = "gone" => ~Open(l) /\ \A i \in 1..Len(events) : ~About(events[i], l)
    /\ \A i \in 1..Len(events) :
         Is(events[i], "disconnected", l) =>
           ~Open(l) /\ \A j \in 1..Len(events) : i < j => ~About(events[j], l)

(* The core hears once that a session is connected, after its name. *)
ConnectsOnce ==
  \A l \in CpLinks :
    /\ heard[l] = "shown" => l \in connected
    /\ \A i \in 1..Len(events) :
         Is(events[i], "connected", l) =>
           /\ l \in connected /\ heard[l] # "shown"
           /\ heard[l] = "none" => \E j \in 1..Len(events) : j < i /\ Is(events[j], "presence", l)
           /\ \A j \in 1..Len(events) : i < j => ~Is(events[j], "connected", l)

(* A session that knows its phone has told the core. *)
Names ==
  \A l \in CpLinks : ids[l] # {} =>
    /\ born[l] # 0
    /\ heard[l] # "none" \/ \E i \in 1..Len(events) : Is(events[i], "presence", l)

NamesFirst ==
  \A l \in CpLinks, i \in 1..Len(events) :
    Is(events[i], "active", l) /\ heard[l] = "none" =>
      \E j \in 1..Len(events) : j < i /\ Is(events[j], "presence", l)

(* Of a session that ended the core has read so, or will. *)
Ended ==
  \A l \in CpLinks : born[l] # 0 /\ l \notin alive /\ heard[l] # "gone" =>
    \E i \in 1..Len(events) : Is(events[i], "disconnected", l)

(* The core hears only of sessions that know their phone.                  *)
Said ==
  \A l \in CpLinks : ids[l] = {} =>
    heard[l] \in {"none", "gone"} /\ \A i \in 1..Len(events) : ~Is(events[i], "presence", l)

QInv == IInv /\ Types /\ EndsLast /\ ConnectsOnce /\ Names /\ NamesFirst /\ Ended /\ Said

-----------------------------------------------------------------------------
(* What a step of the manager may add to the queue. *)
Adds(new) ==
  /\ new \in Seq(Event) /\ \A k \in 1..Len(new) : Shaped(new[k])
  /\ \A l \in CpLinks : \A k \in 1..Len(new) :
       /\ About(new[k], l) => Open(l)
       /\ Is(new[k], "disconnected", l) =>
            /\ l \in alive /\ l \notin alive'
            /\ \A m \in 1..Len(new) : k < m => ~About(new[m], l)
       /\ Is(new[k], "active", l) => ids[l] # {}
       /\ Is(new[k], "presence", l) => ids'[l] # {}
       /\ Is(new[k], "connected", l) =>
            /\ l \in alive /\ ids[l] # {} /\ l \notin connected /\ l \in connected'
            /\ \A m \in 1..Len(new) : k < m => ~Is(new[m], "connected", l)

(* What it may do besides. *)
Moves(new) ==
  /\ heard' = heard /\ connected \subseteq connected'
  /\ \A l \in CpLinks : born[l] # 0 => born'[l] # 0
  /\ \A l \in alive' : l \in alive \/ born[l] = 0
  /\ \A l \in CpLinks : ids[l] # {} => ids'[l] # {}
  /\ \A l \in CpLinks : ids'[l] # {} =>
       \/ ids[l] # {}
       \/ born'[l] # 0 /\ \E k \in 1..Len(new) : Is(new[k], "presence", l)
  /\ ids' \in [CpLinks -> SUBSET CpFacets] /\ pending' \in [Phones -> SUBSET {"bt", "udid"}]
  /\ \A l \in CpLinks : born'[l] # 0 /\ l \notin alive' =>
       \/ born[l] # 0 /\ l \notin alive
       \/ \E k \in 1..Len(new) : Is(new[k], "disconnected", l)

LEMMA Enqueue ==
  ASSUME QInv, IInv', NEW new, Adds(new), Moves(new), events' = events \o new
  PROVE  QInv'
<1> DEFINE n == Len(events)
           m == Len(new)
<1>1. /\ events \in Seq(Event) /\ new \in Seq(Event) /\ n \in Nat /\ m \in Nat
  BY DEF QInv, Types, Adds
<1>2. /\ events' \in Seq(Event) /\ Len(events') = n + m
      /\ \A i \in 1..(n + m) : events'[i] = IF i <= n THEN events[i] ELSE new[i - n]
  BY <1>1, ConcatProperties
<1>3. \A i \in 1..n : i \in 1..(n + m) /\ events'[i] = events[i]
  BY <1>1, <1>2
<1>4. \A k \in 1..m : n + k \in 1..(n + m) /\ events'[n + k] = new[k]
  BY <1>1, <1>2
<1>5. \A i \in 1..(n + m) : i \in 1..n \/ (i - n \in 1..m /\ events'[i] = new[i - n])
  BY <1>1, <1>2
<1>6. Types'
  <2>1. \A i \in 1..(n + m) : Shaped(events'[i])
    BY <1>3, <1>5 DEF QInv, Types, Adds
  <2>2. \A i \in 1..Len(events') : Shaped(events[i])'
    BY <1>2, <2>1 DEF Shaped
  <2> QED  BY <1>2, <2>2 DEF QInv, Types, Moves
<1>7. \A l \in CpLinks : Open(l)' => Open(l)
  BY DEF Open, Moves, QInv, IInv, Known
<1>8. EndsLast'
  <2> SUFFICES ASSUME NEW l \in CpLinks
               PROVE  /\ heard'[l] = "gone" => ~Open(l)' /\ \A i \in 1..(n + m) : ~About(events'[i], l)
                      /\ \A i \in 1..(n + m) :
                           Is(events'[i], "disconnected", l) =>
                             ~Open(l)' /\ \A j \in 1..(n + m) : i < j => ~About(events'[j], l)
    BY <1>2 DEF EndsLast, About, Is
  <2>1. ASSUME heard[l] = "gone"
        PROVE  ~Open(l)' /\ \A i \in 1..(n + m) : ~About(events'[i], l)
    BY <2>1, <1>3, <1>5, <1>7 DEF QInv, EndsLast, Adds
  <2>2. ASSUME NEW i \in 1..n, Is(events[i], "disconnected", l)
        PROVE  ~Open(l)' /\ \A j \in 1..(n + m) : i < j => ~About(events'[j], l)
    BY <2>2, <1>3, <1>5, <1>7 DEF QInv, EndsLast, Adds
  <2>3. ASSUME NEW k \in 1..m, Is(new[k], "disconnected", l)
        PROVE  ~Open(l)' /\ \A j \in 1..(n + m) : n + k < j => ~About(events'[j], l)
    <3>1. ~Open(l)'  BY <2>3 DEF Adds, Moves, Open, QInv, IInv, Known
    <3>2. ASSUME NEW j \in 1..(n + m), n + k < j PROVE ~About(events'[j], l)
      <4>1. j - n \in 1..m /\ k < j - n /\ events'[j] = new[j - n]
        BY <3>2, <1>1, <1>2
      <4> QED  BY <4>1, <2>3 DEF Adds
    <3> QED  BY <3>1, <3>2
  <2>4. ASSUME NEW i \in 1..(n + m), Is(events'[i], "disconnected", l)
        PROVE  ~Open(l)' /\ \A j \in 1..(n + m) : i < j => ~About(events'[j], l)
    <3>1. CASE i \in 1..n  BY <3>1, <2>4, <2>2, <1>3
    <3>2. CASE i - n \in 1..m /\ events'[i] = new[i - n]
      <4>1. n + (i - n) = i  BY <1>1
      <4> QED  BY <3>2, <2>3, <2>4, <4>1
    <3> QED  BY <3>1, <3>2, <1>5
  <2> QED  BY <2>1, <2>4 DEF Moves
<1>9. ConnectsOnce'
  <2> SUFFICES ASSUME NEW l \in CpLinks
               PROVE  /\ heard'[l] = "shown" => l \in connected'
                      /\ \A i \in 1..(n + m) :
                           Is(events'[i], "connected", l) =>
                             /\ l \in connected' /\ heard'[l] # "shown"
                             /\ heard'[l] = "none" =>
                                  \E j \in 1..(n + m) : j < i /\ Is(events'[j], "presence", l)
                             /\ \A j \in 1..(n + m) : i < j => ~Is(events'[j], "connected", l)
    <3>1. Len(events') = n + m  BY <1>2
    <3> HIDE DEF n, m
    <3> QED  BY <3>1 DEF ConnectsOnce, Is
  <2>1. heard'[l] = "shown" => l \in connected'
    BY DEF QInv, ConnectsOnce, Moves
  <2>2. ASSUME NEW i \in 1..(n + m), Is(events'[i], "connected", l)
        PROVE  /\ l \in connected' /\ heard[l] # "shown"
               /\ heard[l] = "none" => \E j \in 1..(n + m) : j < i /\ Is(events'[j], "presence", l)
               /\ \A j \in 1..(n + m) : i < j => ~Is(events'[j], "connected", l)
    <3>1. CASE i \in 1..n
      BY <3>1, <2>2, <1>3, <1>5 DEF QInv, ConnectsOnce, Adds, Moves
    <3>2. CASE i - n \in 1..m /\ events'[i] = new[i - n]
      <4>1. /\ l \in alive /\ ids[l] # {} /\ l \notin connected /\ l \in connected'
            /\ \A k \in 1..m : i - n < k => ~Is(new[k], "connected", l)
        BY <3>2, <2>2 DEF Adds
      <4>2. heard[l] # "shown"  BY <4>1 DEF QInv, ConnectsOnce
      <4>3. heard[l] = "none" => \E j \in 1..(n + m) : j < i /\ Is(events'[j], "presence", l)
        <5>1. ASSUME heard[l] = "none" PROVE \E j \in 1..n : Is(events[j], "presence", l)
          BY <5>1, <4>1 DEF QInv, Names
        <5>2. \A j \in 1..n : j < i  BY <3>2, <1>1
        <5> QED  BY <5>1, <5>2, <1>3
      <4>4. ASSUME NEW j \in 1..(n + m), i < j PROVE ~Is(events'[j], "connected", l)
        <5>1. j - n \in 1..m /\ i - n < j - n /\ events'[j] = new[j - n]
          BY <4>4, <3>2, <1>1, <1>2
        <5> QED  BY <5>1, <4>1
      <4> QED  BY <4>1, <4>2, <4>3, <4>4
    <3> QED  BY <3>1, <3>2, <1>5
  <2> QED  BY <2>1, <2>2 DEF Moves
<1>10. Names'
  <2> SUFFICES ASSUME NEW l \in CpLinks, ids'[l] # {}
               PROVE  /\ born'[l] # 0
                      /\ heard[l] # "none" \/ \E i \in 1..(n + m) : Is(events'[i], "presence", l)
    BY <1>2 DEF Names, Moves, Is
  <2>1. CASE ids[l] # {}
    BY <2>1, <1>3 DEF QInv, Names, Moves
  <2>2. CASE born'[l] # 0 /\ \E k \in 1..m : Is(new[k], "presence", l)
    BY <2>2, <1>4
  <2> QED  BY <2>1, <2>2 DEF Moves
<1>11. NamesFirst'
  <2> SUFFICES ASSUME NEW l \in CpLinks, NEW i \in 1..(n + m), Is(events'[i], "active", l),
                      heard[l] = "none"
               PROVE  \E j \in 1..(n + m) : j < i /\ Is(events'[j], "presence", l)
    BY <1>2 DEF NamesFirst, Moves, Is
  <2>1. CASE i \in 1..n
    BY <2>1, <1>3 DEF QInv, NamesFirst
  <2>2. CASE i - n \in 1..m /\ events'[i] = new[i - n]
    <3>1. ids[l] # {}  BY <2>2 DEF Adds
    <3>2. \E j \in 1..n : Is(events[j], "presence", l)  BY <3>1 DEF QInv, Names
    <3>3. \A j \in 1..n : j < i  BY <2>2, <1>1
    <3> QED  BY <3>2, <3>3, <1>3
  <2> QED  BY <2>1, <2>2, <1>5
<1>12. Ended'
  <2> SUFFICES ASSUME NEW l \in CpLinks, born'[l] # 0, l \notin alive', heard[l] # "gone"
               PROVE  \E i \in 1..(n + m) : Is(events'[i], "disconnected", l)
    BY <1>2 DEF Ended, Moves, Is
  <2>1. CASE born[l] # 0 /\ l \notin alive
    BY <2>1, <1>3 DEF QInv, Ended
  <2>2. CASE \E k \in 1..m : Is(new[k], "disconnected", l)
    BY <2>2, <1>4
  <2> QED  BY <2>1, <2>2 DEF Moves
<1>13. Said'
  <2> SUFFICES ASSUME NEW l \in CpLinks, ids'[l] = {}
               PROVE  /\ heard[l] \in {"none", "gone"}
                      /\ \A i \in 1..(n + m) : ~Is(events'[i], "presence", l)
    BY <1>2 DEF Said, Moves, Is
  <2>1. ids[l] = {}  BY DEF Moves
  <2> QED  BY <2>1, <1>5 DEF QInv, Said, Adds
<1> QED  BY <1>6, <1>8, <1>9, <1>10, <1>11, <1>12, <1>13 DEF QInv

-----------------------------------------------------------------------------
(* News that are about no session, and those that at most make one active. *)
AboutNone(s) ==
  s \in Seq(Event) /\ \A k \in 1..Len(s) : Shaped(s[k]) /\ \A l \in CpLinks : ~About(s[k], l)

OnlyActive(s, L) ==
  /\ s \in Seq(Event)
  /\ \A k \in 1..Len(s) :
       /\ Shaped(s[k])
       /\ \A l \in CpLinks : About(s[k], l) => l \in L /\ ids[l] # {} /\ Is(s[k], "active", l)

LEMMA AboutNoneActive == ASSUME NEW s, AboutNone(s), NEW L PROVE OnlyActive(s, L)
BY DEF AboutNone, OnlyActive

LEMMA NothingIsAboutNone == AboutNone(<<>>)
BY DEF AboutNone

(* Sessions end: each end stands in the queue once, and nothing of the     *)
(* session after it.                                                       *)
LEMMA EndsAdd ==
  ASSUME QInv, NEW X \in SUBSET alive, alive' = alive \ X, NEW order \in Orders(X),
         NEW before, NEW after, AboutNone(before), OnlyActive(after, alive \ X)
  PROVE  Adds(before \o (Disconnects(order) \o after))
<1> USE DEF AboutNone, OnlyActive
<1> DEFINE D == Disconnects(order)
           new == before \o (D \o after)
           b == Len(before)
           d == Len(D)
           a == Len(after)
<1>1. X \in SUBSET CpLinks /\ Cardinality(X) \in Nat
  BY CpLinksAssumption, FS_Subset, FS_CardinalityType DEF QInv, IInv, Known
<1>2. /\ order \in [1..Cardinality(X) -> X]
      /\ \A i, j \in 1..Cardinality(X) : order[i] = order[j] => i = j
  BY DEF Orders
<1>3. /\ D \in Seq(Event) /\ d = Cardinality(X)
      /\ \A i \in 1..d : D[i] = [type |-> "disconnected", link |-> order[i]]
  BY <1>1, <1>2 DEF Disconnects, Event
<1>4. \A i \in 1..d : /\ order[i] \in X /\ order[i] \in CpLinks /\ Is(D[i], "disconnected", order[i])
                     /\ \A l \in CpLinks : About(D[i], l) => l = order[i]
  BY <1>1, <1>2, <1>3 DEF Is, About
<1> HIDE DEF D
<1>5. events \in Seq(Event) /\ b \in Nat /\ d \in Nat /\ a \in Nat
  BY <1>3 DEF QInv, Types
<1>7. /\ new \in Seq(Event) /\ Len(new) = b + d + a
      /\ \A k \in 1..(b + d + a) :
           \/ k \in 1..b /\ new[k] = before[k]
           \/ k - b \in 1..d /\ new[k] = D[k - b]
           \/ k - b - d \in 1..a /\ new[k] = after[k - b - d]
  <2>1. /\ D \o after \in Seq(Event) /\ Len(D \o after) = d + a
        /\ \A i \in 1..(d + a) : (D \o after)[i] = IF i <= d THEN D[i] ELSE after[i - d]
    BY <1>3, ConcatProperties
  <2>2. /\ new \in Seq(Event) /\ Len(new) = b + (d + a)
        /\ \A i \in 1..(b + (d + a)) : new[i] = IF i <= b THEN before[i] ELSE (D \o after)[i - b]
    BY <2>1, ConcatProperties
  <2> HIDE DEF new
  <2> QED  BY <1>5, <2>1, <2>2
<1> HIDE DEF new
<1>8. \A k \in 1..Len(new) : Shaped(new[k])
  <2> SUFFICES ASSUME NEW k \in 1..(b + d + a) PROVE Shaped(new[k])  BY <1>7
  <2>1. CASE k \in 1..b /\ new[k] = before[k]  BY <2>1
  <2>2. CASE k - b \in 1..d /\ new[k] = D[k - b]  BY <2>2, <1>4 DEF Shaped, Is
  <2>3. CASE k - b - d \in 1..a /\ new[k] = after[k - b - d]  BY <2>3
  <2> QED  BY <2>1, <2>2, <2>3, <1>7
<1>9. ASSUME NEW l \in CpLinks, NEW k \in 1..(b + d + a), About(new[k], l)
      PROVE  /\ l \in alive
             /\ ~Is(new[k], "connected", l) /\ ~Is(new[k], "presence", l)
             /\ Is(new[k], "active", l) => ids[l] # {}
             /\ Is(new[k], "disconnected", l) => k - b \in 1..d /\ l = order[k - b]
  <2>1. CASE k \in 1..b /\ new[k] = before[k]  BY <2>1, <1>9
  <2>2. CASE k - b \in 1..d /\ new[k] = D[k - b]  BY <2>2, <1>4, <1>9 DEF Is
  <2>3. CASE k - b - d \in 1..a /\ new[k] = after[k - b - d]  BY <2>3, <1>9 DEF Is
  <2> QED  BY <2>1, <2>2, <2>3, <1>7
<1>10. ASSUME NEW l \in CpLinks, NEW k \in 1..(b + d + a), Is(new[k], "disconnected", l),
              NEW m \in 1..(b + d + a), k < m, About(new[m], l)
       PROVE  FALSE
  <2>1. k - b \in 1..d /\ l = order[k - b]  BY <1>9, <1>10 DEF About
  <2>2. l \in X  BY <2>1, <1>4
  <2>3. CASE m \in 1..b  BY <2>3, <2>1, <1>10, <1>5
  <2>4. CASE m - b \in 1..d /\ new[m] = D[m - b]
    <3>1. l = order[m - b]  BY <2>4, <1>4, <1>10
    <3>2. m - b = k - b  BY <3>1, <2>1, <2>4, <1>2, <1>3
    <3> QED  BY <3>2, <1>10, <1>5
  <2>5. CASE m - b - d \in 1..a /\ new[m] = after[m - b - d]
    BY <2>5, <2>2, <1>10
  <2> QED  BY <2>3, <2>4, <2>5, <1>7
<1>11. Adds(new)
  <2> SUFFICES ASSUME NEW l \in CpLinks, NEW k \in 1..(b + d + a)
               PROVE  /\ About(new[k], l) => Open(l)
                      /\ Is(new[k], "disconnected", l) =>
                           /\ l \in alive /\ l \notin alive'
                           /\ \A m \in 1..(b + d + a) : k < m => ~About(new[m], l)
                      /\ Is(new[k], "active", l) => ids[l] # {}
                      /\ ~Is(new[k], "connected", l) /\ ~Is(new[k], "presence", l)
    BY <1>7, <1>8 DEF Adds
  <2>1. About(new[k], l) => Open(l)  BY <1>9 DEF Open
  <2>2. ASSUME Is(new[k], "disconnected", l) PROVE l \in alive /\ l \notin alive'
    <3>1. k - b \in 1..d /\ l = order[k - b]  BY <2>2, <1>9 DEF About
    <3> QED  BY <3>1, <1>4
  <2>3. /\ ~Is(new[k], "connected", l) /\ ~Is(new[k], "presence", l)
        /\ (Is(new[k], "active", l) => ids[l] # {})
    BY <1>9 DEF About
  <2> QED  BY <2>1, <2>2, <2>3, <1>10
<1> QED  BY <1>11 DEF D, new

(* No session that ends is left out. *)
LEMMA EveryEndIsSaid ==
  ASSUME QInv, NEW X \in SUBSET alive, NEW order \in Orders(X),
         NEW before \in Seq(Event), NEW after \in Seq(Event), NEW l \in X
  PROVE  LET new == before \o (Disconnects(order) \o after)
         IN  \E k \in 1..Len(new) : Is(new[k], "disconnected", l)
<1> DEFINE D == Disconnects(order)
           n == Cardinality(X)
           b == Len(before)
           new == before \o (D \o after)
<1>1. X \in SUBSET CpLinks /\ IsFiniteSet(X) /\ n \in Nat
  BY CpLinksAssumption, FS_Subset, FS_CardinalityType DEF QInv, IInv, Known
<1>2. order \in [1..n -> X] /\ \A i, j \in 1..n : order[i] = order[j] => i = j
  BY DEF Orders
<1>3. Cardinality(1..n) = n
  <2>1. 1 \in Int /\ n \in Int /\ (1 > n => n = 0) /\ n - 1 + 1 = n  BY <1>1
  <2> HIDE DEF n
  <2>2. Cardinality(1..n) = IF 1 > n THEN 0 ELSE n - 1 + 1  BY <2>1, FS_Interval
  <2> QED  BY <2>1, <2>2
<1>4. order \in Injection(1..n, X)
  BY <1>2 DEF Injection, IsInjective
<1>5. order \in Surjection(1..n, X)
  BY <1>1, <1>3, <1>4, FS_Injection
<1>6. PICK i \in 1..n : order[i] = l
  BY <1>5 DEF Surjection
<1> HIDE DEF n
<1>7. D \in Seq(Event) /\ Len(D) = n /\ Is(D[i], "disconnected", l)
  <2>1. D = [k \in 1..n |-> [type |-> "disconnected", link |-> order[k]]]
    BY <1>2 DEF Disconnects
  <2>2. \A k \in 1..n : [type |-> "disconnected", link |-> order[k]] \in Event
    BY <1>1, <1>2 DEF Event
  <2> HIDE DEF D
  <2>3. D \in [1..n -> Event]  BY <2>1, <2>2
  <2>4. D \in Seq(Event) /\ Len(D) = n  BY <1>1, <2>3
  <2>5. D[i] = [type |-> "disconnected", link |-> l]  BY <1>6, <2>1
  <2> QED  BY <2>4, <2>5 DEF Is
<1> HIDE DEF D
<1>8. /\ D \o after \in Seq(Event) /\ Len(D \o after) = n + Len(after)
      /\ (D \o after)[i] = D[i]
  <2>1. i \in 1..(n + Len(after)) /\ i <= n  BY <1>1
  <2> QED  BY <1>1, <1>7, <2>1, ConcatProperties
<1>9. /\ Len(new) = b + (n + Len(after)) /\ b \in Nat /\ Len(after) \in Nat
      /\ \A k \in 1..(b + (n + Len(after))) :
           new[k] = IF k <= b THEN before[k] ELSE (D \o after)[k - b]
  BY <1>8, ConcatProperties
<1>10. b + i \in 1..Len(new) /\ ~(b + i <= b) /\ (b + i) - b = i  BY <1>1, <1>9
<1>11. new[b + i] = D[i]  BY <1>8, <1>9, <1>10
<1> QED  BY <1>7, <1>10, <1>11 DEF D

LEMMA EndsConcat ==
  ASSUME QInv, NEW X \in SUBSET alive, NEW order \in Orders(X),
         NEW before \in Seq(Event), NEW after \in Seq(Event)
  PROVE  events \o before \o Disconnects(order) \o after
           = events \o (before \o (Disconnects(order) \o after))
<1> DEFINE D == Disconnects(order)
<1>1. X \in SUBSET CpLinks /\ Cardinality(X) \in Nat
  BY CpLinksAssumption, FS_Subset, FS_CardinalityType DEF QInv, IInv, Known
<1>2. order \in [1..Cardinality(X) -> X]  BY DEF Orders
<1>3. D \in Seq(Event)
  <2>1. D = [i \in 1..Cardinality(X) |-> [type |-> "disconnected", link |-> order[i]]]
    BY <1>2 DEF Disconnects
  <2>2. \A i \in 1..Cardinality(X) : [type |-> "disconnected", link |-> order[i]] \in Event
    BY <1>1, <1>2 DEF Event
  <2> QED  BY <1>1, <2>1, <2>2
<1> HIDE DEF D
<1>4. events \in Seq(Event)  BY DEF QInv, Types
<1>5. D \o after \in Seq(Event) /\ events \o before \in Seq(Event)
  BY <1>3, <1>4, ConcatProperties
<1>6. (events \o before) \o D \o after = (events \o before) \o (D \o after)
  BY ONLY <1>3, <1>4, <1>5, after \in Seq(Event), before \in Seq(Event), SMTT(60)
<1>7. (events \o before) \o (D \o after) = events \o (before \o (D \o after))
  BY ONLY <1>3, <1>4, <1>5, after \in Seq(Event), before \in Seq(Event), SMTT(60)
<1> QED  BY <1>6, <1>7 DEF D

LEMMA ClosingKeeps ==
  ASSUME QInv, IInv', NEW X, NEW onCable, NEW leaving,
         X \subseteq alive, NEW before, NEW after, AboutNone(before), OnlyActive(after, alive \ X),
         CloseAll(X, onCable, leaving, before, after),
         born' = born, connected' = connected, heard' = heard,
         ids' \in [CpLinks -> SUBSET CpFacets], \A l \in CpLinks : ids'[l] # {} <=> ids[l] # {},
         pending' \in [Phones -> SUBSET {"bt", "udid"}]
  PROVE  QInv'
<1>1. PICK order \in Orders(X) : events' = events \o before \o Disconnects(order) \o after
  BY DEF CloseAll
<1>2. alive' = alive \ X  BY DEF CloseAll
<1> DEFINE new == before \o (Disconnects(order) \o after)
<1>3. /\ QInv /\ X \in SUBSET alive /\ order \in Orders(X) /\ alive' = alive \ X
      /\ AboutNone(before) /\ OnlyActive(after, alive \ X)
      /\ before \in Seq(Event) /\ after \in Seq(Event)
  BY <1>1, <1>2 DEF AboutNone, OnlyActive
<1>4. Adds(new)  BY <1>3, EndsAdd, Zenon
<1>5. events \o before \o Disconnects(order) \o after = events \o new
  BY <1>3, EndsConcat, Zenon
<1>6. \A l \in X : \E k \in 1..Len(new) : Is(new[k], "disconnected", l)
  BY <1>3, EveryEndIsSaid
<1> HIDE DEF new
<1>7. Moves(new)  BY <1>2, <1>6 DEF Moves
<1> QED  BY <1>1, <1>4, <1>5, <1>7, Enqueue

(* News that only name a session the core may still hear of. *)
LEMMA NamingAdds ==
  ASSUME NEW l \in CpLinks, Open(l), ids'[l] # {}, NEW new \in Seq(Event),
         \A k \in 1..Len(new) : Shaped(new[k]) /\ Is(new[k], "presence", l)
  PROVE  Adds(new)
BY DEF Adds, About, Is

LEMMA NamedIsShaped ==
  ASSUME NEW l \in CpLinks, NEW known \in SUBSET CpFacets, "bt" \in known,
         NEW more \in SUBSET {"bt", "udid"}
  PROVE  /\ Named(l, known, more) \in Event /\ Shaped(Named(l, known, more))
         /\ Is(Named(l, known, more), "presence", l)
<1>1. Way(l, known) \in {"usb", "wifi"} /\ (Way(l, known) = "usb" => l \notin AirLinks)
  BY CpLinksAssumption DEF Way, IsWired, Connections
<1> QED  BY <1>1 DEF Named, Event, Shaped, Is, CpFacets

LEMMA AdoptedIsShaped ==
  ASSUME NEW l \in CpLinks, NEW known \in SUBSET CpFacets, "bt" \in known,
         PhoneOf[l] \in Phones, pending \in [Phones -> SUBSET {"bt", "udid"}]
  PROVE  /\ Adopted(l, known) \in Seq(Event)
         /\ \A k \in 1..Len(Adopted(l, known)) :
              Shaped(Adopted(l, known)[k]) /\ Is(Adopted(l, known)[k], "presence", l)
<1> DEFINE learnt == pending[PhoneOf[l]]
           e == Named(l, known \cup learnt, learnt)
<1>1. learnt \in SUBSET {"bt", "udid"} /\ known \cup learnt \in SUBSET CpFacets
  BY DEF CpFacets
<1>2. e \in Event /\ Shaped(e) /\ Is(e, "presence", l)
  <2> HIDE DEF learnt
  <2> QED  BY <1>1, NamedIsShaped
<1>3. Adopted(l, known) = <<>> \/ Adopted(l, known) = <<e>>  BY DEF Adopted
<1> HIDE DEF e
<1>4. CASE Adopted(l, known) = <<>>  BY <1>4
<1>5. CASE Adopted(l, known) = <<e>>
  <2>1. <<e>> \in Seq(Event) /\ Len(<<e>>) = 1 /\ <<e>>[1] = e  BY <1>2
  <2> QED  BY <1>2, <1>5, <2>1
<1> QED  BY <1>3, <1>4, <1>5

(* Nothing is said. *)
LEMMA SilentKeeps ==
  ASSUME QInv, IInv', Moves(<<>>), events' = events
  PROVE  QInv'
<1>1. Adds(<<>>)  BY DEF Adds
<1>2. events \o <<>> = events  BY ConcatEmptySeq DEF QInv, Types
<1> QED  BY <1>1, <1>2, Enqueue

-----------------------------------------------------------------------------
(* One lemma per action of the manager. *)

LEMMA SpawnSays == ASSUME QInv, heard' = heard, NEW l \in CpLinks, Spawn(l) PROVE QInv'
<1>1. IInv'  BY SpawnKeeps DEF QInv
<1>2. \A k \in CpLinks : born[k] # 0 => born'[k] # 0
  BY NewNumber DEF QInv, IInv, Known, Spawn
<1>3. Moves(<<>>)
  BY <1>2 DEF Moves, Spawn, Registers, QInv, Types, IInv, Known
<1> QED  BY <1>1, <1>3, SilentKeeps DEF Spawn

LEMMA DeviceInfoSays == ASSUME QInv, heard' = heard, NEW l \in CpLinks, DeviceInfo(l) PROVE QInv'
<1> DEFINE own == ids[l] \cup {"bt", "wifi"}
           known == own \cup pending[PhoneOf[l]]
           before == Adopted(l, own)
           e == Named(l, known, {})
           new == before \o <<e>>
<1>1. /\ PhoneOf[l] \in Phones /\ pending \in [Phones -> SUBSET {"bt", "udid"}]
      /\ own \in SUBSET CpFacets /\ known \in SUBSET CpFacets /\ "bt" \in own /\ "bt" \in known
      /\ Open(l) /\ born[l] # 0 /\ events \in Seq(Event)
  BY CpLinksAssumption DEF QInv, Types, IInv, Known, CpFacets, DeviceInfo, Open
<1>2. /\ ids' = [ids EXCEPT ![l] = known] /\ pending' = [pending EXCEPT ![PhoneOf[l]] = {}]
      /\ events' = events \o before \o <<e>>
      /\ UNCHANGED <<born, alive, connected>>
  BY DEF DeviceInfo, Took
<1> HIDE DEF own, known
<1>3. /\ before \in Seq(Event)
      /\ \A k \in 1..Len(before) : Shaped(before[k]) /\ Is(before[k], "presence", l)
  BY <1>1, AdoptedIsShaped
<1>4. e \in Event /\ Shaped(e) /\ Is(e, "presence", l)
  BY <1>1, NamedIsShaped
<1> HIDE DEF before, e
<1>5. /\ new \in Seq(Event) /\ Len(new) = Len(before) + 1
      /\ \A k \in 1..Len(new) : Shaped(new[k]) /\ Is(new[k], "presence", l)
  <2>1. <<e>> \in Seq(Event) /\ Len(<<e>>) = 1 /\ <<e>>[1] = e  BY <1>4
  <2>2. Len(before) \in Nat  BY <1>3
  <2>3. /\ new \in Seq(Event) /\ Len(new) = Len(before) + 1
        /\ \A k \in 1..(Len(before) + 1) :
             new[k] = IF k <= Len(before) THEN before[k] ELSE <<e>>[k - Len(before)]
    BY <1>3, <2>1, ConcatProperties
  <2> HIDE DEF new
  <2>4. \A k \in 1..(Len(before) + 1) : k \in 1..Len(before) \/ k - Len(before) = 1
    BY <2>2
  <2>5. \A k \in 1..(Len(before) + 1) : new[k] = e \/ (k \in 1..Len(before) /\ new[k] = before[k])
    BY <2>1, <2>2, <2>3, <2>4
  <2> QED  BY <1>3, <1>4, <2>3, <2>5
<1>6. events' = events \o new
  <2>1. <<e>> \in Seq(Event)  BY <1>4
  <2> QED  BY <1>1, <1>2, <1>3, <2>1, ConcatAssociative
<1> HIDE DEF new
<1>7. ids'[l] # {}  BY <1>1, <1>2 DEF QInv, Types
<1>0. Adds(new)  BY <1>1, <1>5, <1>7, NamingAdds
<1>8. Is(new[1], "presence", l) /\ 1 \in 1..Len(new)
  <2>1. Len(before) \in Nat  BY <1>3
  <2> QED  BY <1>5, <2>1
<1>9. Moves(new)
  BY <1>1, <1>2, <1>8 DEF Moves, QInv, Types
<1>10. IInv'  BY DeviceInfoKeeps DEF QInv
<1> QED  BY <1>6, <1>0, <1>9, <1>10, Enqueue

LEMMA ActiveSays == ASSUME QInv, heard' = heard, NEW l \in CpLinks, Active(l) PROVE QInv'
<1> DEFINE others == Matching(PhoneOf[l], {"controller"})
           e == [type |-> "active", link |-> l]
           after == <<e>>
<1>1. CloseAll(others, wired, cabled \ others, <<>>, after)  BY DEF Active
<1>2. others \subseteq alive /\ l \in alive \ others /\ ids[l] # {}  BY DEF Matching, Active
<1>3. e \in Event /\ Shaped(e) /\ \A k \in CpLinks : About(e, k) => k = l /\ Is(e, "active", k)
  BY DEF Event, Shaped, About, Is
<1> HIDE DEF e
<1>4. after \in Seq(Event) /\ Len(after) = 1 /\ after[1] = e  BY <1>3
<1> HIDE DEF after, others
<1>5. OnlyActive(after, alive \ others)
  BY <1>2, <1>3, <1>4 DEF OnlyActive
<1>6. /\ ids' \in [CpLinks -> SUBSET CpFacets]
      /\ \A k \in CpLinks : ids'[k] # {} <=> ids[k] # {}
      /\ pending' \in [Phones -> SUBSET {"bt", "udid"}]
  BY DEF Active, QInv, Types, CpFacets
<1>7. IInv'  BY ActiveKeeps DEF QInv
<1> QED  BY <1>1, <1>2, <1>5, <1>6, <1>7, NothingIsAboutNone, ClosingKeeps DEF Active

LEMMA MainScreenReadySays ==
  ASSUME QInv, heard' = heard, NEW l \in CpLinks, MainScreenReady(l) PROVE QInv'
<1> DEFINE e == [type |-> "connected", link |-> l, way |-> Way(l, ids[l]),
                 facets |-> ids[l] \cap {"controller"}]
           new == <<e>>
<1>1. Way(l, ids[l]) \in {"usb", "wifi"} /\ (Way(l, ids[l]) = "usb" => l \notin AirLinks)
  BY CpLinksAssumption DEF Way, IsWired, Connections
<1>2. e \in Event /\ Shaped(e) /\ \A k \in CpLinks : About(e, k) => k = l /\ Is(e, "connected", l)
  BY <1>1 DEF Event, Shaped, About, Is, CpFacets
<1>3. e.type = "connected"  OBVIOUS
<1>4. events' = events \o new
  <2>1. events' = Append(events, e)  BY DEF MainScreenReady
  <2> HIDE DEF e
  <2> QED  BY <1>2, <2>1, AppendIsConcat DEF QInv, Types
<1> HIDE DEF e
<1>5. new \in Seq(Event) /\ Len(new) = 1 /\ new[1] = e  BY <1>2
<1> HIDE DEF new
<1>6. /\ l \in alive /\ ids[l] # {} /\ l \notin connected /\ l \in connected'
  BY DEF MainScreenReady
<1>7. Adds(new)
  <2>1. \A k \in 1..Len(new) : k = 1  BY <1>5
  <2>2. ~Is(e, "disconnected", l) /\ \A k \in CpLinks : ~Is(e, "presence", k)
    BY <1>3 DEF Is
  <2> QED  BY <1>2, <1>5, <1>6, <2>1, <2>2 DEF Adds, About, Open
<1>8. Moves(new)
  BY DEF Moves, MainScreenReady, QInv, Types
<1>9. IInv'  BY MainScreenReadyKeeps DEF QInv
<1> QED  BY <1>4, <1>7, <1>8, <1>9, Enqueue

(* Ends that are not named with other news. *)
LEMMA OnlyEndsSay ==
  ASSUME QInv, IInv', NEW X, NEW onCable, NEW leaving, X \subseteq alive,
         CloseAll(X, onCable, leaving, <<>>, <<>>), UNCHANGED <<born, ids, connected, heard>>,
         pending' \in [Phones -> SUBSET {"bt", "udid"}]
  PROVE  QInv'
<1>1. AboutNone(<<>>) /\ OnlyActive(<<>>, alive \ X)  BY NothingIsAboutNone, AboutNoneActive
<1>2. ids' \in [CpLinks -> SUBSET CpFacets]  BY DEF QInv, Types
<1> QED  BY <1>1, <1>2, ClosingKeeps

LEMMA EndsSays == ASSUME QInv, heard' = heard, NEW l \in CpLinks, Ends(l) PROVE QInv'
<1>1. IInv'  BY EndsKeeps DEF QInv
<1>2. {l} \cap alive \subseteq alive /\ pending' \in [Phones -> SUBSET {"bt", "udid"}]
  BY DEF Ends, QInv, Types
<1> QED  BY <1>1, <1>2, OnlyEndsSay DEF Ends

LEMMA DropSessionsSays == ASSUME QInv, heard' = heard, DropSessions PROVE QInv'
<1>1. IInv'  BY DropSessionsKeeps DEF QInv
<1>2. pending' \in [Phones -> SUBSET {"bt", "udid"}]  BY DEF DropSessions, QInv, Types
<1> QED  BY <1>1, <1>2, OnlyEndsSay DEF DropSessions

LEMMA WiredStartSays == ASSUME QInv, heard' = heard, NEW p \in Phones, WiredStart(p) PROVE QInv'
<1>1. PICK facets \in {{"udid"}, {"udid", "bt"}} :
        CloseAll(cabled \cap Matching(p, facets), wired, cabled, <<>>, <<>>)
  BY DEF WiredStart
<1> DEFINE X == cabled \cap Matching(p, facets)
<1>2. X \subseteq alive  BY DEF Matching
<1>3. IInv'  BY WiredStartKeeps DEF QInv
<1>4. UNCHANGED <<born, ids, connected, pending>>  BY DEF WiredStart
<1>5. pending' \in [Phones -> SUBSET {"bt", "udid"}]  BY <1>4 DEF QInv, Types
<1> HIDE DEF X
<1> QED  BY <1>1, <1>2, <1>3, <1>4, <1>5, OnlyEndsSay DEF X

LEMMA LinkDownSays == ASSUME QInv, heard' = heard, LinkDown PROVE QInv'
<1> DEFINE X == {l \in alive : ~OnCable(l)}
<1>1. CloseAll(X, wired, cabled, <<>>, <<>>) /\ X \subseteq alive  BY DEF LinkDown
<1>2. IInv'  BY LinkDownKeeps DEF QInv
<1>3. pending' \in [Phones -> SUBSET {"bt", "udid"}]
  BY DEF LinkDown, QInv, Types
<1>4. UNCHANGED <<born, ids, connected>>  BY DEF LinkDown
<1> HIDE DEF X
<1> QED  BY <1>1, <1>2, <1>3, <1>4, OnlyEndsSay

LEMMA CrowdedSays == ASSUME QInv, heard' = heard, NEW p \in Phones, Crowded(p) PROVE QInv'
<1>1. IInv'  BY CrowdedKeeps DEF QInv
<1>2. Moves(<<>>)  BY DEF Crowded, Took, Moves, QInv, Types
<1> QED  BY <1>1, <1>2, SilentKeeps DEF Crowded

LEMMA LeftWifiSays == ASSUME QInv, heard' = heard, NEW p \in Phones, LeftWifi(p) PROVE QInv'
<1> DEFINE X == {l \in Matching(p, {"wifi"}) : ~OnCable(l)}
           e == [type |-> "left", phone |-> p]
           after == <<e>>
<1>1. CloseAll(X, wired, cabled, <<>>, after) /\ X \subseteq alive  BY DEF LeftWifi, Matching
<1>2. e \in Event /\ Shaped(e) /\ \A l \in CpLinks : ~About(e, l)
  BY DEF Event, Shaped, About, Is
<1> HIDE DEF e, X
<1>3. after \in Seq(Event) /\ Len(after) = 1 /\ after[1] = e  BY <1>2
<1> HIDE DEF after
<1>4. AboutNone(<<>>) /\ OnlyActive(after, alive \ X)
  <2>1. AboutNone(after)  BY <1>2, <1>3 DEF AboutNone
  <2> QED  BY <2>1, NothingIsAboutNone, AboutNoneActive
<1>5. /\ UNCHANGED <<born, ids, connected>> /\ ids' \in [CpLinks -> SUBSET CpFacets]
      /\ pending' \in [Phones -> SUBSET {"bt", "udid"}]
  BY DEF LeftWifi, QInv, Types
<1>6. IInv'  BY LeftWifiKeeps DEF QInv
<1> QED  BY <1>1, <1>4, <1>5, <1>6, ClosingKeeps

LEMMA DeviceGoneSays == ASSUME QInv, heard' = heard, NEW p \in Phones, DeviceGone(p) PROVE QInv'
<1> DEFINE known == Matching(p, {"udid"})
           X == known \ cabled
           leaving == cabled \ known
           e == [type |-> "unplugged", phone |-> p]
           before == <<e>>
<1>1. CloseAll(X, wired \ {p}, leaving, before, <<>>) /\ X \subseteq alive
  BY DEF DeviceGone, Matching
<1>2. e \in Event /\ Shaped(e) /\ \A l \in CpLinks : ~About(e, l)
  BY DEF Event, Shaped, About, Is
<1> HIDE DEF e, X, leaving, known
<1>3. before \in Seq(Event) /\ Len(before) = 1 /\ before[1] = e  BY <1>2
<1> HIDE DEF before
<1>4. AboutNone(before) /\ OnlyActive(<<>>, alive \ X)
  <2>1. AboutNone(before)  BY <1>2, <1>3 DEF AboutNone
  <2> QED  BY <2>1, NothingIsAboutNone, AboutNoneActive
<1>5. /\ UNCHANGED <<born, ids, connected>> /\ ids' \in [CpLinks -> SUBSET CpFacets]
      /\ pending' \in [Phones -> SUBSET {"bt", "udid"}]
  BY DEF DeviceGone, QInv, Types
<1>6. IInv'  BY DeviceGoneKeeps DEF QInv
<1> QED  BY <1>1, <1>4, <1>5, <1>6, ClosingKeeps

LEMMA MetadataSays == ASSUME QInv, heard' = heard, NEW l \in CpLinks, Metadata(l) PROVE QInv'
<1> DEFINE p == PhoneOf[l]
           own == {"bt"} \cup (IF p \in wired THEN {"udid"} ELSE {})
           known == own \cup pending[p]
           e == Named(l, own, own \ {"bt"})
           after == Adopted(l, own)
           new == <<e>> \o after
<1>1. /\ p \in Phones /\ pending \in [Phones -> SUBSET {"bt", "udid"}]
      /\ own \in SUBSET CpFacets /\ "bt" \in own /\ own \ {"bt"} \in SUBSET {"bt", "udid"}
      /\ known \in SUBSET CpFacets /\ events \in Seq(Event)
  BY CpLinksAssumption DEF QInv, Types, CpFacets
<1>2. /\ ids' = [ids EXCEPT ![l] = known] /\ pending' = [pending EXCEPT ![p] = {}]
      /\ events' = events \o <<e>> \o after
      /\ connected' = connected /\ alive' = alive \cup {l} /\ born[l] = 0 /\ Registers(l)
  BY DEF Metadata, Took, Registers
<1>3. \A k \in CpLinks : born[k] # 0 => born'[k] # 0
  BY <1>2, NewNumber DEF QInv, IInv, Known
<1>4. born'[l] # 0  BY <1>2, NewNumber DEF QInv, IInv, Known
<1>14. "bt" \in known  BY <1>1
<1> HIDE DEF own, known, p
<1>5. e \in Event /\ Shaped(e) /\ Is(e, "presence", l)
  BY <1>1, NamedIsShaped
<1>6. /\ after \in Seq(Event)
      /\ \A k \in 1..Len(after) : Shaped(after[k]) /\ Is(after[k], "presence", l)
  <2>1. PhoneOf[l] \in Phones  BY <1>1 DEF p
  <2> QED  BY <1>1, <2>1, AdoptedIsShaped
<1> HIDE DEF after, e
<1>7. <<e>> \in Seq(Event) /\ Len(<<e>>) = 1 /\ <<e>>[1] = e  BY <1>5
<1>8. /\ new \in Seq(Event) /\ Len(new) = 1 + Len(after) /\ new[1] = e
      /\ \A k \in 1..Len(new) : Shaped(new[k]) /\ Is(new[k], "presence", l)
  <2>1. Len(after) \in Nat  BY <1>6
  <2>2. /\ new \in Seq(Event) /\ Len(new) = 1 + Len(after)
        /\ \A k \in 1..(1 + Len(after)) : new[k] = IF k <= 1 THEN <<e>>[k] ELSE after[k - 1]
    BY <1>6, <1>7, ConcatProperties
  <2> HIDE DEF new
  <2>3. \A k \in 1..(1 + Len(after)) :
          (k = 1 /\ new[k] = e) \/ (k - 1 \in 1..Len(after) /\ new[k] = after[k - 1])
    BY <1>7, <2>1, <2>2
  <2>4. new[1] = e  BY <1>7, <2>1, <2>2
  <2> QED  BY <1>5, <1>6, <2>2, <2>3, <2>4
<1>9. events' = events \o new
  BY <1>1, <1>2, <1>6, <1>7, ConcatAssociative
<1> HIDE DEF new
<1>10. Adds(new)
  <2>1. Open(l) /\ ids'[l] # {}  BY <1>1, <1>2, <1>14 DEF Open, QInv, Types
  <2> QED  BY <1>8, <2>1, NamingAdds
<1>11. Is(new[1], "presence", l) /\ 1 \in 1..Len(new)
  <2>1. Len(after) \in Nat  BY <1>6
  <2> QED  BY <1>5, <1>8, <2>1
<1>12. Moves(new)
  <2>1. \A k \in CpLinks : born'[k] # 0 /\ k \notin alive' => born[k] # 0 /\ k \notin alive
    BY <1>2 DEF Registers, QInv, IInv, Known
  <2> QED  BY <1>1, <1>2, <1>3, <1>4, <1>11, <1>14, <2>1 DEF Moves, QInv, Types
<1>13. IInv'  BY MetadataKeeps DEF QInv
<1> QED  BY <1>9, <1>10, <1>12, <1>13, Enqueue

LEMMA DeviceSays == ASSUME QInv, heard' = heard, NEW p \in Phones, Device(p) PROVE QInv'
<1>1. IInv'  BY DeviceKeeps DEF QInv
<1>2. PICK facets \in {{"bt"}, {"bt", "udid"}} :
        LET found == Matching(p, facets)
            l == Least(found)
            known == ids[l] \cup facets
        IN /\ IF found # {}
              THEN /\ ids' = [ids EXCEPT ![l] = known]
                   /\ events' = Append(events, Named(l, known, facets \ {"bt"}))
                   /\ pending' = pending
              ELSE /\ pending' = [pending EXCEPT ![p] = pending[p] \cup facets]
                   /\ ids' = ids /\ events' = events
           /\ UNCHANGED <<born, alive, connected>>
  BY DEF Device
<1> DEFINE found == Matching(p, facets)
           l == Least(found)
           known == ids[l] \cup facets
           e == Named(l, known, facets \ {"bt"})
           new == <<e>>
<1>3. CASE found = {}
  <2>1. Moves(<<>>)  BY <1>2, <1>3 DEF Moves, QInv, Types
  <2>2. events' = events  BY <1>2, <1>3
  <2> QED  BY <1>1, <2>1, <2>2, SilentKeeps
<1>4. CASE found # {}
  <2>1. found \subseteq alive \cap Of(p)  BY DEF Matching
  <2>2. l \in found  BY <1>4, <2>1, LeastIsIn DEF QInv, IInv, Known
  <2>3. l \in CpLinks /\ l \in alive /\ born[l] # 0  BY <2>1, <2>2 DEF QInv, IInv, Known
  <2>4. ids[l] # {}  BY <2>2 DEF Matching
  <2>5. /\ ids' = [ids EXCEPT ![l] = known] /\ events' = Append(events, e)
        /\ UNCHANGED <<born, alive, connected, pending>>
    BY <1>2, <1>4
  <2>6. /\ facets \ {"bt"} \in SUBSET {"bt", "udid"} /\ "bt" \in facets
        /\ facets \in SUBSET CpFacets
    BY DEF CpFacets
  <2>7. ids \in [CpLinks -> SUBSET CpFacets]  BY DEF QInv, Types
  <2> HIDE DEF found, l
  <2>8. known \in SUBSET CpFacets /\ "bt" \in known
    BY <2>3, <2>6, <2>7
  <2> HIDE DEF known
  <2>9. e \in Event /\ Shaped(e) /\ Is(e, "presence", l)
    BY <2>3, <2>6, <2>8, NamedIsShaped
  <2> HIDE DEF e
  <2>10. events' = events \o new
    BY <2>5, <2>9, AppendIsConcat DEF QInv, Types
  <2>11. new \in Seq(Event) /\ Len(new) = 1 /\ new[1] = e  BY <2>9
  <2> HIDE DEF new
  <2>12. Adds(new)
    <3>1. Open(l) /\ ids'[l] # {}  BY <2>3, <2>5, <2>7, <2>8 DEF Open
    <3>2. \A k \in 1..Len(new) : Shaped(new[k]) /\ Is(new[k], "presence", l)
      BY <2>9, <2>11
    <3> QED  BY <2>3, <2>11, <3>1, <3>2, NamingAdds
  <2>13. Moves(new)
    BY <2>3, <2>4, <2>5, <2>8 DEF Moves, QInv, Types
  <2> QED  BY <1>1, <2>10, <2>12, <2>13, Enqueue
<1> QED  BY <1>3, <1>4

LEMMA ManagerSays == ASSUME QInv, CpNext, UNCHANGED coreState PROVE QInv'
<1>1. heard' = heard  BY DEF coreState
<1>2. ASSUME NEW l \in CpLinks,
             Spawn(l) \/ DeviceInfo(l) \/ Active(l) \/ MainScreenReady(l)
               \/ Closed(l) \/ Metadata(l) \/ Close(l)
      PROVE  QInv'
  BY <1>1, <1>2, SpawnSays, DeviceInfoSays, ActiveSays, MainScreenReadySays, EndsSays,
     MetadataSays DEF Closed, Close
<1>3. ASSUME NEW p \in Phones,
             Device(p) \/ Crowded(p) \/ WiredStart(p) \/ DeviceGone(p) \/ LeftWifi(p)
      PROVE  QInv'
  BY <1>1, <1>3, DeviceSays, CrowdedSays, WiredStartSays, DeviceGoneSays, LeftWifiSays
<1> QED  BY <1>1, <1>2, <1>3, LinkDownSays, DropSessionsSays DEF CpNext

-----------------------------------------------------------------------------
(* The core reads the next news. *)
LEMMA ReadsKeeps == ASSUME QInv, Reads PROVE QInv'
<1> DEFINE e == Head(events)
           n == Len(events)
<1>1. /\ events \in Seq(Event) /\ events # <<>> /\ events' = Tail(events)
      /\ UNCHANGED cpState
  BY DEF Reads, QInv, Types
<1>2. /\ n \in Nat /\ n > 0 /\ e = events[1] /\ 1 \in 1..n
      /\ events' \in Seq(Event) /\ Len(events') = n - 1
      /\ \A i \in 1..(n - 1) : i + 1 \in 1..n /\ events'[i] = events[i + 1]
  BY <1>1, HeadTailProperties
<1>3. Shaped(e)  BY <1>2 DEF QInv, Types
<1>4. IInv'  BY <1>1 DEF QInv, IInv, Known, LeavingIsOnCable, cpState
<1>5. \/ e.type = "presence" /\ Presence(e)
      \/ e.type = "active" /\ BecomesActive(e)
      \/ e.type = "connected" /\ Connected(e)
      \/ e.type = "disconnected" /\ Disconnected(e)
      \/ e.type \in {"left", "unplugged"} /\ HelperPresence(e)
  BY DEF Reads
<1> HIDE DEF e
(* How far the core has heard then.                                        *)
<1>6. \/ e.link \in CpLinks /\ Is(e, "presence", e.link)
         /\ heard' = [heard EXCEPT ![e.link] = IF heard[e.link] = "none" THEN "up" ELSE heard[e.link]]
      \/ e.link \in CpLinks /\ Is(e, "connected", e.link) /\ heard' = [heard EXCEPT ![e.link] = "shown"]
      \/ e.link \in CpLinks /\ Is(e, "disconnected", e.link) /\ heard' = [heard EXCEPT ![e.link] = "gone"]
      \/ heard' = heard /\ \A l \in CpLinks, type \in {"presence", "connected", "disconnected"} : ~Is(e, type, l)
  BY <1>3, <1>5 DEF Presence, BecomesActive, Connected, Disconnected, HelperPresence, Shaped, Is
<1>7. heard \in [CpLinks -> {"none", "up", "shown", "gone"}]  BY DEF QInv, Types
<1>8. UNCHANGED <<alive, born, ids, connected, pending>>  BY <1>1 DEF cpState
<1>9. Types'
  <2>1. heard' \in [CpLinks -> {"none", "up", "shown", "gone"}]  BY <1>6, <1>7
  <2>2. \A i \in 1..(n - 1) : Shaped(events'[i])  BY <1>2 DEF QInv, Types
  <2>3. \A i \in 1..Len(events') : Shaped(events[i])'  BY <1>2, <2>2 DEF Shaped
  <2> QED  BY <1>2, <1>8, <2>1, <2>3 DEF QInv, Types
<1>10. ASSUME NEW l \in CpLinks
       PROVE  /\ heard'[l] = "gone" => heard[l] = "gone" \/ Is(e, "disconnected", l)
              /\ heard'[l] = "shown" => heard[l] = "shown" \/ Is(e, "connected", l)
              /\ heard'[l] = "none" => heard[l] = "none" /\ ~Is(e, "presence", l)
  BY <1>6, <1>7 DEF Is
<1>11. EndsLast'
  <2> SUFFICES ASSUME NEW l \in CpLinks
               PROVE  /\ heard'[l] = "gone" => ~Open(l) /\ \A i \in 1..(n - 1) : ~About(events'[i], l)
                      /\ \A i \in 1..(n - 1) :
                           Is(events'[i], "disconnected", l) =>
                             ~Open(l) /\ \A j \in 1..(n - 1) : i < j => ~About(events'[j], l)
    BY <1>2, <1>8 DEF EndsLast, About, Is, Open
  <2>1. ASSUME heard'[l] = "gone"
        PROVE  ~Open(l) /\ \A i \in 1..(n - 1) : ~About(events'[i], l)
    <3>1. CASE heard[l] = "gone"
      BY <3>1, <1>2 DEF QInv, EndsLast
    <3>2. CASE Is(e, "disconnected", l)
      <4>1. ~Open(l) /\ \A j \in 1..n : 1 < j => ~About(events[j], l)
        BY <3>2, <1>2 DEF QInv, EndsLast
      <4>2. \A i \in 1..(n - 1) : 1 < i + 1  OBVIOUS
      <4> QED  BY <4>1, <4>2, <1>2
    <3> QED  BY <2>1, <3>1, <3>2, <1>10
  <2>2. ASSUME NEW i \in 1..(n - 1), Is(events'[i], "disconnected", l)
        PROVE  ~Open(l) /\ \A j \in 1..(n - 1) : i < j => ~About(events'[j], l)
    <3>1. ~Open(l) /\ \A j \in 1..n : i + 1 < j => ~About(events[j], l)
      BY <2>2, <1>2 DEF QInv, EndsLast
    <3>2. \A j \in 1..(n - 1) : i < j => i + 1 < j + 1  OBVIOUS
    <3> QED  BY <3>1, <3>2, <1>2
  <2> QED  BY <2>1, <2>2
<1>12. ConnectsOnce'
  <2> SUFFICES ASSUME NEW l \in CpLinks
               PROVE  /\ heard'[l] = "shown" => l \in connected
                      /\ \A i \in 1..(n - 1) :
                           Is(events'[i], "connected", l) =>
                             /\ l \in connected /\ heard'[l] # "shown"
                             /\ heard'[l] = "none" =>
                                  \E j \in 1..(n - 1) : j < i /\ Is(events'[j], "presence", l)
                             /\ \A j \in 1..(n - 1) : i < j => ~Is(events'[j], "connected", l)
    BY <1>2, <1>8 DEF ConnectsOnce, Is
  <2>1. heard'[l] = "shown" => l \in connected
    BY <1>10, <1>2 DEF QInv, ConnectsOnce
  <2>2. ASSUME NEW i \in 1..(n - 1), Is(events'[i], "connected", l)
        PROVE  /\ l \in connected /\ heard'[l] # "shown"
               /\ heard'[l] = "none" => \E j \in 1..(n - 1) : j < i /\ Is(events'[j], "presence", l)
               /\ \A j \in 1..(n - 1) : i < j => ~Is(events'[j], "connected", l)
    <3>1. /\ l \in connected /\ heard[l] # "shown"
          /\ heard[l] = "none" => \E j \in 1..n : j < i + 1 /\ Is(events[j], "presence", l)
          /\ \A j \in 1..n : i + 1 < j => ~Is(events[j], "connected", l)
      BY <2>2, <1>2 DEF QInv, ConnectsOnce
    <3>2. ~Is(e, "connected", l)
      <4>1. Is(e, "connected", l) => \A j \in 1..n : 1 < j => ~Is(events[j], "connected", l)
        BY <1>2 DEF QInv, ConnectsOnce
      <4>2. 1 < i + 1  OBVIOUS
      <4> QED  BY <4>1, <4>2, <2>2, <1>2
    <3>3. heard'[l] = "none" => \E j \in 1..(n - 1) : j < i /\ Is(events'[j], "presence", l)
      <4> SUFFICES ASSUME heard'[l] = "none"
                   PROVE  \E j \in 1..(n - 1) : j < i /\ Is(events'[j], "presence", l)
        OBVIOUS
      <4>1. heard[l] = "none" /\ ~Is(e, "presence", l)  BY <1>10
      <4>2. PICK j \in 1..n : j < i + 1 /\ Is(events[j], "presence", l)  BY <3>1, <4>1
      <4>3. j # 1  BY <4>1, <4>2, <1>2
      <4>4. j - 1 \in 1..(n - 1) /\ j - 1 < i /\ (j - 1) + 1 = j  BY <4>2, <4>3, <1>2
      <4>5. events'[j - 1] = events[j]  BY <4>4, <1>2
      <4> QED  BY <4>2, <4>4, <4>5
    <3>4. \A j \in 1..(n - 1) : i < j => i + 1 < j + 1  OBVIOUS
    <3> QED  BY <3>1, <3>2, <3>3, <3>4, <1>2, <1>10
  <2> QED  BY <2>1, <2>2
<1>13. Names'
  <2> SUFFICES ASSUME NEW l \in CpLinks, ids[l] # {}
               PROVE  /\ born[l] # 0
                      /\ heard'[l] # "none" \/ \E i \in 1..(n - 1) : Is(events'[i], "presence", l)
    BY <1>2, <1>8 DEF Names, Is
  <2>1. born[l] # 0 /\ (heard[l] # "none" \/ \E i \in 1..n : Is(events[i], "presence", l))
    BY DEF QInv, Names
  <2>2. ASSUME heard'[l] = "none" PROVE \E i \in 1..(n - 1) : Is(events'[i], "presence", l)
    <3>1. heard[l] = "none" /\ ~Is(e, "presence", l)  BY <1>10, <2>2
    <3>2. PICK i \in 1..n : Is(events[i], "presence", l)  BY <2>1, <3>1
    <3>3. i # 1  BY <3>1, <3>2, <1>2
    <3>4. i - 1 \in 1..(n - 1) /\ (i - 1) + 1 = i  BY <3>2, <3>3, <1>2
    <3>5. events'[i - 1] = events[i]  BY <3>4, <1>2
    <3> QED  BY <3>2, <3>4, <3>5
  <2> QED  BY <2>1, <2>2
<1>14. NamesFirst'
  <2> SUFFICES ASSUME NEW l \in CpLinks, NEW i \in 1..(n - 1), Is(events'[i], "active", l),
                      heard'[l] = "none"
               PROVE  \E j \in 1..(n - 1) : j < i /\ Is(events'[j], "presence", l)
    BY <1>2 DEF NamesFirst, Is
  <2>1. heard[l] = "none" /\ ~Is(e, "presence", l)  BY <1>10
  <2>2. PICK j \in 1..n : j < i + 1 /\ Is(events[j], "presence", l)
    BY <2>1, <1>2 DEF QInv, NamesFirst
  <2>3. j # 1  BY <2>1, <2>2, <1>2
  <2>4. j - 1 \in 1..(n - 1) /\ j - 1 < i /\ (j - 1) + 1 = j  BY <2>2, <2>3, <1>2
  <2>5. events'[j - 1] = events[j]  BY <2>4, <1>2
  <2> QED  BY <2>2, <2>4, <2>5
<1>15. Ended'
  <2> SUFFICES ASSUME NEW l \in CpLinks, born[l] # 0, l \notin alive, heard'[l] # "gone"
               PROVE  \E i \in 1..(n - 1) : Is(events'[i], "disconnected", l)
    BY <1>2, <1>8 DEF Ended, Is
  <2>1. ~Is(e, "disconnected", l)  BY <1>6, <1>7 DEF Is
  <2>2. heard[l] # "gone"
    <3>1. ASSUME heard[l] = "gone" PROVE ~About(e, l)
      BY <3>1, <1>2 DEF QInv, EndsLast
    <3>2. heard[l] = "gone" => heard'[l] = "gone"
      BY <3>1, <1>6, <1>7 DEF About, Is
    <3> QED  BY <3>2
  <2>3. PICK i \in 1..n : Is(events[i], "disconnected", l)  BY <2>2 DEF QInv, Ended
  <2>4. i # 1  BY <2>1, <2>3, <1>2
  <2>5. i - 1 \in 1..(n - 1) /\ (i - 1) + 1 = i  BY <2>3, <2>4, <1>2
  <2>6. events'[i - 1] = events[i]  BY <2>5, <1>2
  <2> QED  BY <2>3, <2>5, <2>6
<1>16. Said'
  <2> SUFFICES ASSUME NEW l \in CpLinks, ids[l] = {}
               PROVE  /\ heard'[l] \in {"none", "gone"}
                      /\ \A i \in 1..(n - 1) : ~Is(events'[i], "presence", l)
    BY <1>2, <1>8 DEF Said, Is
  <2>1. heard[l] \in {"none", "gone"} /\ \A i \in 1..n : ~Is(events[i], "presence", l)
    BY DEF QInv, Said
  <2>2. ~Is(e, "presence", l)  BY <2>1, <1>2
  <2>3. ~Is(e, "connected", l)
    <3>1. ASSUME Is(e, "connected", l) PROVE FALSE
      <4>1. heard[l] # "gone"  BY <3>1, <1>2 DEF QInv, EndsLast, About
      <4>2. PICK j \in 1..n : j < 1  BY <2>1, <3>1, <4>1, <1>2 DEF QInv, ConnectsOnce
      <4> QED  BY <4>2, <1>2
    <3> QED  BY <3>1
  <2> QED  BY <2>1, <2>2, <2>3, <1>2, <1>6, <1>7 DEF Is
<1> QED  BY <1>4, <1>9, <1>11, <1>12, <1>13, <1>14, <1>15, <1>16 DEF QInv

LEMMA StepKeeps == QInv /\ [Next]_vars => QInv'
<1>1. ASSUME QInv, UNCHANGED vars PROVE QInv'
  <2>1. UNCHANGED <<born, alive, ids, connected, wired, cabled, pending, events, heard>>
    BY <1>1 DEF vars, cpVars, cpState, coreState
  <2>2. IInv'  BY <1>1, <2>1 DEF QInv, IInv, Known, LeavingIsOnCable
  <2>3. Moves(<<>>)  BY <1>1, <2>1 DEF Moves, QInv, Types, Names
  <2> QED  BY <1>1, <2>1, <2>2, <2>3, SilentKeeps
<1> QED  BY <1>1, ManagerSays, ReadsKeeps DEF Next

LEMMA StartsTrue == Init => QInv
<1> SUFFICES ASSUME Init PROVE QInv  OBVIOUS
<1>1. IInv  BY DEF Init, CpInit, IInv, Known, LeavingIsOnCable
<1>2. events = <<>> /\ heard = [l \in CpLinks \cup {} |-> "none"]
  BY DEF Init, CpInit, S!Init, S!Links
<1>3. /\ ids = [l \in CpLinks |-> {}] /\ alive = {} /\ born = [l \in CpLinks |-> 0]
      /\ pending = [p \in Phones |-> {}]
  BY DEF Init, CpInit
<1>4. <<>> \in Seq(Event) /\ Len(<<>>) = 0  OBVIOUS
<1>5. Types  BY <1>2, <1>3, <1>4 DEF Types
<1> QED  BY <1>1, <1>2, <1>3, <1>4, <1>5 DEF QInv, EndsLast, ConnectsOnce, Names, NamesFirst, Ended, Said

-----------------------------------------------------------------------------
(* Each news the core reads is an event Sessions allows at that point.     *)
LEMMA ReadsRefines == ASSUME QInv, Reads PROVE SeesNothing \/ S!Next
<1> DEFINE e == Head(events)
<1>1. /\ events \in Seq(Event) /\ events # <<>> /\ Len(events) \in Nat /\ 1 \in 1..Len(events)
      /\ e = events[1]
  BY HeadTailProperties DEF Reads, QInv, Types
<1>2. Shaped(e)  BY <1>1 DEF QInv, Types
<1>3. heard \in [CpLinks -> {"none", "up", "shown", "gone"}]  BY DEF QInv, Types
<1>4. ASSUME NEW l \in CpLinks, About(e, l) PROVE heard[l] # "gone"
  BY <1>1, <1>4 DEF QInv, EndsLast
<1>5. \/ e.type = "presence" /\ Presence(e)
      \/ e.type = "active" /\ BecomesActive(e)
      \/ e.type = "connected" /\ Connected(e)
      \/ e.type = "disconnected" /\ Disconnected(e)
      \/ e.type \in {"left", "unplugged"} /\ HelperPresence(e)
  BY DEF Reads
<1> HIDE DEF e
<1>6. CASE e.type = "presence" /\ Presence(e)
  <2> DEFINE l == e.link
             known == {PhoneOf[l]} \X (e.facets \ (IF e.way = "usb" THEN {"wifi"} ELSE {}))
             more == (e.facets \ {"bt"}) \ (IF e.way = "usb" THEN {"wifi"} ELSE {})
  <2>1. /\ l \in CpLinks /\ e.way \in {"usb", "wifi"} /\ (e.way = "usb" => l \notin AirLinks)
        /\ "bt" \in e.facets /\ e.facets \subseteq {"bt", "wifi", "udid"} /\ heard[l] # "gone"
    BY <1>2, <1>4, <1>6 DEF Shaped, About, Is
  <2>2. e.way \in S!Ways(l)
    BY <2>1 DEF S!Ways, S!Transport, CpLinks, Connections
  <2>3. more \in SUBSET {"udid", "wifi"} /\ (e.way = "usb" => "wifi" \notin more)
    BY <2>1
  <2>4. known = S!Id(l, {"bt"} \cup more)
    BY <2>1 DEF S!Id
  <2>5. S!Lives(l, {"none", "up"}, "up") \/ S!Lives(l, {"shown"}, "shown")
    BY <2>1, <1>3, <1>6 DEF S!Lives, Presence
  <2>6. S!Becomes(S!Presence(S!T, l, e.way, known))
    BY <1>6 DEF Presence
  <2> HIDE DEF known, more, l
  <2>7. S!CpPresence(l)
    BY <2>2, <2>3, <2>4, <2>5, <2>6 DEF S!CpPresence
  <2> QED  BY <2>1, <2>7 DEF S!Next
<1>7. CASE e.type = "active" /\ BecomesActive(e)
  <2> DEFINE l == e.link
  <2>1. l \in CpLinks /\ heard[l] # "gone"
    BY <1>2, <1>4, <1>7 DEF Shaped, About, Is
  <2>2. CASE Entries(l) = {}
    BY <2>2, <1>7 DEF BecomesActive, SeesNothing, S!Becomes, S!T, coreState
  <2>3. CASE Entries(l) # {}
    <3>1. heard[l] # "none"
      <4>1. Is(events[1], "active", l)  BY <1>1, <1>7 DEF Is
      <4>2. \A j \in 1..Len(events) : ~(j < 1)  BY <1>1
      <4> QED  BY <1>1, <2>1, <4>1, <4>2 DEF QInv, NamesFirst
    <3>2. S!Lives(l, {"up"}, "up") \/ S!Lives(l, {"shown"}, "shown")
      BY <2>1, <3>1, <1>3, <1>7 DEF S!Lives, BecomesActive
    <3>3. S!ByLink(S!T, l) = Entries(l)
      BY DEF S!ByLink, S!Indexes, S!T, Entries
    <3>4. S!First(Entries(l)) = First(Entries(l))
      BY DEF S!First, First
    <3>5. S!Becomes(S!AutoActivate(S!T, S!First(S!ByLink(S!T, l))))
      BY <2>3, <3>3, <3>4, <1>7 DEF BecomesActive
    <3>6. S!CpActive(l)  BY <2>3, <3>2, <3>3, <3>5 DEF S!CpActive
    <3> QED  BY <2>1, <3>6 DEF S!Next
  <2> QED  BY <2>2, <2>3
<1>8. CASE e.type = "connected" /\ Connected(e)
  <2> DEFINE l == e.link
             known == {PhoneOf[l]} \X e.facets
  <2>1. /\ l \in CpLinks /\ e.way \in {"usb", "wifi"} /\ (e.way = "usb" => l \notin AirLinks)
        /\ e.facets \subseteq {"controller"}
    BY <1>2, <1>8 DEF Shaped
  <2>2. heard[l] = "up"
    BY <1>1, <1>2, <1>3, <1>4, <1>8 DEF Shaped, About, Is, QInv, ConnectsOnce
  <2>3. e.way \in S!Ways(l)
    BY <2>1 DEF S!Ways, S!Transport, CpLinks, Connections
  <2>4. known \in {{}, S!Id(l, {"controller"})}
    <3>1. e.facets = {} \/ e.facets = {"controller"}  BY <2>1
    <3> QED  BY <3>1 DEF S!Id
  <2>5. S!Lives(l, {"up"}, "shown")
    BY <2>1, <2>2, <1>8 DEF S!Lives, Connected
  <2>6. S!Becomes(S!Connect(S!T, l, e.way, known))
    BY <1>8 DEF Connected
  <2> HIDE DEF known, l
  <2>7. S!CpConnected(l)
    BY <2>1, <2>3, <2>4, <2>5, <2>6 DEF S!CpConnected
  <2> QED  BY <2>1, <2>7 DEF S!Next
<1>9. CASE e.type = "disconnected" /\ Disconnected(e)
  <2> DEFINE l == e.link
  <2>1. l \in CpLinks /\ heard[l] # "gone"
    BY <1>2, <1>4, <1>9 DEF Shaped, About, Is
  <2>2. S!Lives(l, {"none", "up", "shown"}, "gone")
    BY <2>1, <1>3, <1>9 DEF S!Lives, Disconnected
  <2>3. S!Disconnected(l)
    BY <2>2, <1>9 DEF S!Disconnected, Disconnected
  <2> QED  BY <2>1, <2>3 DEF S!Next, S!Links
<1>10. CASE e.type \in {"left", "unplugged"} /\ HelperPresence(e)
  <2>1. e.phone \in Phones  BY <1>2, <1>10 DEF Shaped
  <2>2. S!TransportGone(e.phone)
    BY <1>10 DEF S!TransportGone, HelperPresence
  <2> QED  BY <2>1, <2>2 DEF S!Next
<1> QED  BY <1>5, <1>6, <1>7, <1>8, <1>9, <1>10

(* The core's table, fed by the manager through a queue of any length,     *)
(* does what Sessions says: the session table's promises do not rest on    *)
(* the manager and the core being in step.                                 *)
THEOREM ManagerRefinesSessions == Spec => RefinesSessions
<1>1. ASSUME QInv, [Next]_vars PROVE [SeesNothing \/ S!Next]_(S!vars)
  <2>1. CASE CpNext /\ UNCHANGED coreState
    BY <2>1 DEF CpNext, SeesNothing, Spawn, DeviceInfo, Active, MainScreenReady, Closed, Metadata,
       Close, Ends, Device, Crowded, WiredStart, DeviceGone, LeftWifi, LinkDown, DropSessions
  <2>2. CASE Reads  BY <2>2, <1>1, ReadsRefines
  <2>3. CASE UNCHANGED vars
    BY <2>3 DEF vars, cpVars, coreState, SeesNothing
  <2> QED  BY <1>1, <2>1, <2>2, <2>3 DEF Next
<1>2. Init => S!Init  BY DEF Init
<1> QED  BY <1>1, <1>2, StartsTrue, StepKeeps, PTL DEF Spec, RefinesSessions

(* In the words of Sessions itself.                                        *)
COROLLARY ManagerImplementsSessions == Spec => S!Spec
<1>1. [SeesNothing \/ S!Next]_(S!vars) => [S!Next]_(S!vars)
  BY DEF SeesNothing, coreState, S!vars
<1> QED  BY <1>1, ManagerRefinesSessions, PTL DEF RefinesSessions, S!Spec

-----------------------------------------------------------------------------
LEMMA AlwaysQInv == Spec => []QInv
BY StartsTrue, StepKeeps, PTL DEF Spec

(* The core hears of the end of each session, and of nothing else that the *)
(* session said behind it.                                                 *)
THEOREM AlwaysEndsAreTold == Spec => []EndsAreTold
<1>1. QInv => EndsAreTold
  <2> SUFFICES ASSUME QInv, NEW l \in CpLinks, born[l] # 0, l \notin alive, heard[l] # "gone"
               PROVE  \E i \in DOMAIN events :
                        /\ events[i].type = "disconnected" /\ events[i].link = l
                        /\ \A j \in DOMAIN events :
                             j > i => events[j].type \in {"left", "unplugged"} \/ events[j].link # l
    BY DEF EndsAreTold
  <2>1. DOMAIN events = 1..Len(events)  BY DEF QInv, Types
  <2>2. PICK i \in 1..Len(events) : Is(events[i], "disconnected", l)  BY DEF QInv, Ended
  <2>3. ASSUME NEW j \in 1..Len(events), j > i, events[j].link = l
        PROVE  events[j].type \in {"left", "unplugged"}
    <3>1. ~About(events[j], l)  BY <2>2, <2>3 DEF QInv, EndsLast
    <3>2. Shaped(events[j])  BY DEF QInv, Types
    <3> QED  BY <2>3, <3>1, <3>2 DEF Shaped, About, Is
  <2> QED  BY <2>1, <2>2, <2>3 DEF Is
<1> QED  BY <1>1, AlwaysQInv, PTL

-----------------------------------------------------------------------------
(* The core's table as a value, and what its methods do to the entries.    *)
Row == [link : CpLinks, transport : {"usb", "wifi"}, device : SUBSET (Phones \X CpFacets),
        active : BOOLEAN, video : BOOLEAN, duck : S!Duck]

Tab(s, n, o, d, st, cl) ==
  [sessions |-> s, next |-> n, owner |-> o, duck |-> d, streams |-> st, closing |-> cl]

(* Entries of the manager's sessions, at indexes below the counter. *)
Own(t) ==
  /\ t = Tab(t.sessions, t.next, t.owner, t.duck, t.streams, t.closing)
  /\ t.sessions \in [DOMAIN t.sessions -> Row]
  /\ DOMAIN t.sessions \subseteq Nat \ {0} /\ t.next \in Nat \ {0}
  /\ \A i \in DOMAIN t.sessions : i < t.next
  /\ t.closing \subseteq CpLinks

SameRow(c, t, j) ==
  c.sessions[j].link = t.sessions[j].link /\ c.sessions[j].device = t.sessions[j].device

(* The same entries but for what is in front. *)
SameRows(c, t) ==
  /\ Own(c) /\ DOMAIN c.sessions = DOMAIN t.sessions /\ c.closing = t.closing
  /\ \A j \in DOMAIN t.sessions : SameRow(c, t, j)

(* Entry i is given to l, which brings more identifiers; who held it is    *)
(* told to close.                                                          *)
Turned(c, t, i, l, more) ==
  /\ Own(c) /\ DOMAIN c.sessions = DOMAIN t.sessions /\ i \in DOMAIN t.sessions
  /\ \A j \in DOMAIN t.sessions \ {i} : SameRow(c, t, j)
  /\ c.sessions[i].link = l /\ c.sessions[i].device = t.sessions[i].device \cup more
  /\ c.closing = t.closing \cup ({t.sessions[i].link} \ {l})

(* An entry for l comes behind all others. *)
Pushed(c, t, l, more) ==
  /\ Own(c) /\ c.closing = t.closing
  /\ t.next \notin DOMAIN t.sessions /\ DOMAIN c.sessions = DOMAIN t.sessions \cup {t.next}
  /\ \A j \in DOMAIN t.sessions : SameRow(c, t, j)
  /\ c.sessions[t.next].link = l /\ c.sessions[t.next].device = more

LEMMA FirstIn ==
  ASSUME NEW X, X \subseteq Nat, X # {}
  PROVE  S!First(X) \in X /\ \A j \in X : S!First(X) <= j
<1> DEFINE R == OpToRel(<, Nat)
<1>1. \A x, y \in Nat : x < y => <<x, y>> \in R  BY Zenon DEF OpToRel
<1>2. IsWellFoundedOn(R, Nat)  BY NatLessThanWellFounded
<1> HIDE DEF R
<1>3. PICK n \in X : \A m \in X : ~(<<m, n>> \in R)  BY <1>2, WFMin, ZenonT(60)
<1>4. ASSUME NEW m \in X PROVE n <= m
  <2>1. n \in Nat /\ m \in Nat  OBVIOUS
  <2>2. ~(m < n)  BY <1>1, <1>3, <2>1, Zenon
  <2> QED  BY <2>1, <2>2
<1> QED  BY <1>3, <1>4 DEF S!First

LEMMA TabOf ==
  ASSUME NEW s, NEW n, NEW o, NEW d, NEW st, NEW cl
  PROVE  LET c == Tab(s, n, o, d, st, cl)
         IN  /\ c.sessions = s /\ c.next = n /\ c.owner = o
             /\ c.duck = d /\ c.streams = st /\ c.closing = cl
BY DEF Tab

LEMMA OwnOf ==
  ASSUME NEW s, NEW n, NEW o, NEW d, NEW st, NEW cl,
         s \in [DOMAIN s -> Row], DOMAIN s \subseteq Nat \ {0}, n \in Nat \ {0},
         \A i \in DOMAIN s : i < n, cl \subseteq CpLinks
  PROVE  Own(Tab(s, n, o, d, st, cl))
<1> DEFINE c == Tab(s, n, o, d, st, cl)
<1>1. /\ c.sessions = s /\ c.next = n /\ c.owner = o
      /\ c.duck = d /\ c.streams = st /\ c.closing = cl
  BY TabOf
<1>2. c = Tab(c.sessions, c.next, c.owner, c.duck, c.streams, c.closing)  BY <1>1
<1> HIDE DEF c
<1>3. Own(c)  BY <1>1, <1>2 DEF Own
<1> QED  BY <1>3 DEF c

LEMMA ChangedRows ==
  ASSUME NEW t, Own(t)
  PROVE  /\ Own(S!Changed(t)) /\ S!Changed(t).sessions = t.sessions
         /\ S!Changed(t).closing = t.closing
<1> DEFINE owner == S!ActiveLink(t)
           st == (t.streams \ {t.owner}) \cup ({owner} \ {S!NoLink})
           c == Tab(t.sessions, t.next, owner, t.duck, st, t.closing)
<1>1. CASE owner = t.owner  BY <1>1 DEF S!Changed
<1>2. CASE owner # t.owner
  <2>1. S!Changed(t) = [t EXCEPT !.streams = st, !.owner = owner]
    BY <1>2 DEF S!Changed
  <2> HIDE DEF owner, st
  <2>2. S!Changed(t) = c  BY <2>1 DEF Own, Tab
  <2>3. Own(c)  BY OwnOf DEF Own
  <2> QED  BY <2>2, <2>3, TabOf
<1> QED  BY <1>1, <1>2

LEMMA ChangedSame ==
  ASSUME NEW t, Own(t)
  PROVE  /\ SameRows(S!Changed(t), t)
         /\ \A u, i, l, more : Turned(t, u, i, l, more) => Turned(S!Changed(t), u, i, l, more)
         /\ \A u, l, more : Pushed(t, u, l, more) => Pushed(S!Changed(t), u, l, more)
BY ChangedRows DEF SameRows, SameRow, Turned, Pushed

(* Bringing an entry to the front. *)
LEMMA ActivateRows ==
  ASSUME NEW t, Own(t), NEW i
  PROVE  SameRows(S!Activate(t, i), t)
<1> DEFINE prev == S!Active(t)
           a(j) == j = i \/ (t.sessions[j].active /\ j # S!First(prev))
           s == [j \in DOMAIN t.sessions |-> [t.sessions[j] EXCEPT !.active = a(j)]]
           d == S!DuckOf(t, i, prev # {})
           c == Tab(s, t.next, t.owner, d, t.streams, t.closing)
<1>1. CASE i \notin S!Indexes(t) \/ i \in S!Active(t)
  BY <1>1 DEF S!Activate, SameRows, SameRow, Own
<1>2. CASE ~(i \notin S!Indexes(t) \/ i \in S!Active(t))
  <2>1. S!Activate(t, i) = S!Changed([t EXCEPT !.sessions = s, !.duck = d])
    BY <1>2, Zenon DEF S!Activate, S!Indexes
  <2>2. \A j \in DOMAIN t.sessions : t.sessions[j] \in Row  BY DEF Own
  <2>3. \A j \in DOMAIN t.sessions :
          /\ s[j] \in Row /\ s[j].link = t.sessions[j].link
          /\ s[j].device = t.sessions[j].device
    <3> SUFFICES ASSUME NEW j \in DOMAIN t.sessions
                 PROVE  /\ s[j] \in Row /\ s[j].link = t.sessions[j].link
                        /\ s[j].device = t.sessions[j].device
      OBVIOUS
    <3>1. a(j) \in BOOLEAN  BY <2>2 DEF Row
    <3>2. s[j] = [t.sessions[j] EXCEPT !.active = a(j)]  OBVIOUS
    <3> HIDE DEF s, a
    <3> QED  BY <2>2, <3>1, <3>2 DEF Row
  <2>4. DOMAIN s = DOMAIN t.sessions  OBVIOUS
  <2> HIDE DEF s, d
  <2>5. [t EXCEPT !.sessions = s, !.duck = d] = c
    <3>1. [t EXCEPT !.sessions = s] = Tab(s, t.next, t.owner, t.duck, t.streams, t.closing)
      BY DEF Own, Tab
    <3>2. [Tab(s, t.next, t.owner, t.duck, t.streams, t.closing) EXCEPT !.duck = d] = c
      BY DEF Tab
    <3> QED  BY <3>1, <3>2
  <2>6. s \in [DOMAIN s -> Row]
    <3>1. s = [j \in DOMAIN t.sessions |-> s[j]]  BY DEF s
    <3> QED  BY <2>3, <2>4, <3>1
  <2>7. Own(c)  BY <2>4, <2>6, OwnOf DEF Own
  <2>8. c.sessions = s /\ c.closing = t.closing  BY TabOf
  <2> HIDE DEF c
  <2>9. /\ Own(S!Changed(c)) /\ S!Changed(c).sessions = s /\ S!Changed(c).closing = t.closing
    BY <2>7, <2>8, ChangedRows
  <2> QED  BY <2>1, <2>3, <2>4, <2>5, <2>9 DEF SameRows, SameRow
<1> QED  BY <1>1, <1>2

LEMMA AutoActivateSame ==
  ASSUME NEW t, Own(t), NEW k
  PROVE  /\ SameRows(S!AutoActivate(t, k), t)
         /\ \A u, i, l, more : Turned(t, u, i, l, more) => Turned(S!AutoActivate(t, k), u, i, l, more)
         /\ \A u, l, more : Pushed(t, u, l, more) => Pushed(S!AutoActivate(t, k), u, l, more)
<1> DEFINE c == S!AutoActivate(t, k)
<1>1. SameRows(t, t)  BY DEF SameRows, SameRow
<1>2. SameRows(c, t)  BY <1>1, ActivateRows DEF S!AutoActivate
<1> HIDE DEF c
<1>3. ASSUME NEW u, NEW i, NEW l, NEW more, Turned(t, u, i, l, more)
      PROVE  Turned(c, u, i, l, more)
  BY <1>2, <1>3 DEF SameRows, SameRow, Turned
<1>4. ASSUME NEW u, NEW l, NEW more, Pushed(t, u, l, more)
      PROVE  Pushed(c, u, l, more)
  BY <1>2, <1>4 DEF SameRows, SameRow, Pushed
<1> QED  BY <1>2, <1>3, <1>4 DEF c

(* One entry rewritten, and perhaps a link told to close. *)
LEMMA RewriteTurns ==
  ASSUME NEW t, Own(t), NEW i \in DOMAIN t.sessions, NEW e \in Row, NEW more,
         e.device = t.sessions[i].device \cup more,
         NEW cl, cl = t.closing \cup ({t.sessions[i].link} \ {e.link})
  PROVE  Turned(Tab([t.sessions EXCEPT ![i] = e], t.next, t.owner, t.duck, t.streams, cl),
                t, i, e.link, more)
<1> DEFINE s == [t.sessions EXCEPT ![i] = e]
           c == Tab(s, t.next, t.owner, t.duck, t.streams, cl)
<1>1. t.sessions[i].link \in CpLinks  BY DEF Own, Row
<1>2. s \in [DOMAIN s -> Row] /\ DOMAIN s = DOMAIN t.sessions /\ s[i] = e  BY DEF Own
<1>3. \A j \in DOMAIN t.sessions \ {i} : s[j] = t.sessions[j]  BY DEF Own
<1> HIDE DEF s
<1>4. /\ cl \subseteq CpLinks /\ DOMAIN s \subseteq Nat \ {0} /\ t.next \in Nat \ {0}
      /\ \A j \in DOMAIN s : j < t.next
  BY <1>1, <1>2 DEF Own
<1>5. Own(c)  BY <1>2, <1>4, OwnOf
<1>6. c.sessions = s /\ c.closing = cl  BY TabOf
<1> HIDE DEF c
<1>7. Turned(c, t, i, e.link, more)  BY <1>2, <1>3, <1>5, <1>6 DEF Turned, SameRow
<1> QED  BY <1>7 DEF c, s

LEMMA UpdateTurns ==
  ASSUME NEW t, Own(t), NEW i \in DOMAIN t.sessions, NEW l \in CpLinks,
         NEW tr \in {"usb", "wifi"}, NEW ids0 \in SUBSET (Phones \X CpFacets)
  PROVE  \/ Turned(S!Update(t, i, l, tr, ids0), t, i, l, ids0)
         \/ Turned(S!Update(t, i, l, tr, ids0), t, i, t.sessions[i].link, ids0)
<1> DEFINE s == t.sessions[i]
           supersedes == s.link # l /\ tr = "usb" /\ s.transport # "usb"
           e == [s EXCEPT !.link = IF supersedes THEN l ELSE @,
                          !.transport = tr, !.device = @ \cup ids0]
           cl == IF supersedes THEN t.closing \cup {s.link} ELSE t.closing
           c == Tab([t.sessions EXCEPT ![i] = e], t.next, t.owner, t.duck, t.streams, t.closing)
           told == Tab([t.sessions EXCEPT ![i] = e], t.next, t.owner, t.duck, t.streams, cl)
<1>1. s \in Row  BY DEF Own
<1>2. /\ e \in Row /\ e.device = s.device \cup ids0
      /\ e.link = IF supersedes THEN l ELSE s.link
  BY <1>1 DEF Row
<1>3. S!Update(t, i, l, tr, ids0) =
        IF supersedes THEN S!Told([t EXCEPT !.sessions[i] = e], s.link)
        ELSE [t EXCEPT !.sessions[i] = e]
  BY DEF S!Update
<1>4. cl = t.closing \cup ({s.link} \ {e.link})
  BY <1>2
<1> HIDE DEF e, supersedes, s
<1>5. [t EXCEPT !.sessions[i] = e] = c  BY DEF Own, Tab
<1>6. S!Told(c, s.link) = Tab([t.sessions EXCEPT ![i] = e], t.next, t.owner, t.duck, t.streams,
                              t.closing \cup {s.link})
  BY DEF S!Told, Tab
<1>7. S!Update(t, i, l, tr, ids0) = told
  BY <1>3, <1>5, <1>6
<1> HIDE DEF cl
<1>8. Turned(told, t, i, e.link, ids0)
  BY <1>2, <1>4, RewriteTurns DEF s
<1> HIDE DEF told
<1>9. e.link = l \/ e.link = t.sessions[i].link  BY <1>2 DEF s
<1> QED  BY <1>7, <1>8, <1>9

LEMMA PushPushes ==
  ASSUME NEW t, Own(t), NEW l \in CpLinks,
         NEW tr \in {"usb", "wifi"}, NEW ids0 \in SUBSET (Phones \X CpFacets)
  PROVE  Pushed(S!Push(t, l, tr, ids0), t, l, ids0)
<1> DEFINE new == [link |-> l, transport |-> tr, device |-> ids0,
                   active |-> FALSE, video |-> FALSE, duck |-> "full"]
           s == [i \in DOMAIN t.sessions \cup {t.next} |-> IF i = t.next THEN new ELSE t.sessions[i]]
           c == Tab(s, t.next + 1, t.owner, t.duck, t.streams, t.closing)
<1>1. S!Push(t, l, tr, ids0) = [t EXCEPT !.sessions = s, !.next = t.next + 1]
  BY DEF S!Push, S!Indexes
<1>2. new \in Row /\ new.link = l /\ new.device = ids0  BY DEF Row, S!Duck
<1>3. t.next \notin DOMAIN t.sessions /\ t.next \in Nat \ {0}  BY DEF Own
<1> HIDE DEF new
<1>4. /\ DOMAIN s = DOMAIN t.sessions \cup {t.next} /\ s[t.next] = new
      /\ \A j \in DOMAIN t.sessions : s[j] = t.sessions[j]
      /\ s = [j \in DOMAIN s |-> s[j]]
  BY <1>3
<1> HIDE DEF s
<1>5. s \in [DOMAIN s -> Row]  BY <1>2, <1>4 DEF Own
<1>6. /\ DOMAIN s \subseteq Nat \ {0} /\ t.next + 1 \in Nat \ {0}
      /\ \A j \in DOMAIN s : j < t.next + 1
  BY <1>3, <1>4 DEF Own
<1>7. Own(c)  BY <1>5, <1>6, OwnOf DEF Own
<1>8. [t EXCEPT !.sessions = s, !.next = t.next + 1] = c
  <2>1. [t EXCEPT !.sessions = s] = Tab(s, t.next, t.owner, t.duck, t.streams, t.closing)
    BY DEF Own, Tab
  <2>2. [Tab(s, t.next, t.owner, t.duck, t.streams, t.closing) EXCEPT !.next = t.next + 1] = c
    BY DEF Tab
  <2> QED  BY <2>1, <2>2
<1>9. c.sessions = s /\ c.closing = t.closing  BY TabOf
<1> HIDE DEF c
<1> QED  BY <1>1, <1>2, <1>3, <1>4, <1>7, <1>8, <1>9 DEF Pushed, SameRow

LEMMA TakeOverTurns ==
  ASSUME NEW t, Own(t), NEW l \in CpLinks, NEW ids0, S!ByIdentity(t, ids0) # {}
  PROVE  LET i == S!First(S!ByIdentity(t, ids0))
         IN  i \in S!ByIdentity(t, ids0) /\ Turned(S!TakeOver(t, l, ids0), t, i, l, {})
<1> DEFINE i == S!First(S!ByIdentity(t, ids0))
           s == t.sessions[i]
           e == [s EXCEPT !.link = l]
           c == Tab([t.sessions EXCEPT ![i] = e], t.next, t.owner, t.duck, t.streams,
                    t.closing \cup {s.link})
<1>1. i \in S!ByIdentity(t, ids0)
  <2>1. S!ByIdentity(t, ids0) \subseteq Nat  BY DEF S!ByIdentity, S!Indexes, Own
  <2> QED  BY <2>1, FirstIn
<1>2. i \in DOMAIN t.sessions  BY <1>1 DEF S!ByIdentity, S!Indexes
<1>3. CASE s.link = l
  <2>1. S!TakeOver(t, l, ids0) = t  BY <1>3 DEF S!TakeOver
  <2> HIDE DEF i
  <2>2. Turned(t, t, i, l, {})  BY <1>2, <1>3 DEF Turned, SameRow
  <2> QED  BY <1>1, <2>1, <2>2 DEF i
<1>4. CASE s.link # l
  <2>1. S!TakeOver(t, l, ids0) = S!Changed(S!Told([t EXCEPT !.sessions[i].link = l], s.link))
    BY <1>4 DEF S!TakeOver
  <2> HIDE DEF i
  <2>2. s \in Row /\ s.link \in CpLinks  BY <1>2 DEF Own, Row
  <2>3. e \in Row /\ e.link = l /\ e.device = s.device \cup {}  BY <2>2 DEF Row
  <2> HIDE DEF e
  <2>4. [t EXCEPT !.sessions[i].link = l]
          = Tab([t.sessions EXCEPT ![i] = e], t.next, t.owner, t.duck, t.streams, t.closing)
    BY DEF Own, Tab, e
  <2>5. S!Told([t EXCEPT !.sessions[i].link = l], s.link) = c
    <3> DEFINE b == Tab([t.sessions EXCEPT ![i] = e], t.next, t.owner, t.duck, t.streams, t.closing)
    <3>1. S!Told(b, s.link) = c  BY DEF S!Told, Tab
    <3> QED  BY <2>4, <3>1
  <2>6. t.closing \cup {s.link} = t.closing \cup ({s.link} \ {e.link})  BY <1>4, <2>3
  <2>7. Turned(c, t, i, e.link, {})
    BY <1>2, <2>3, <2>6, RewriteTurns
  <2> HIDE DEF c
  <2>8. Turned(c, t, i, l, {}) /\ Own(c)  BY <2>3, <2>7 DEF Turned
  <2>9. Turned(S!Changed(c), t, i, l, {})  BY <2>8, ChangedSame
  <2> QED  BY <1>1, <2>1, <2>5, <2>9 DEF i
<1> QED  BY <1>3, <1>4

(* upsert() updates the entry it found, or pushes one. *)
LEMMA UpsertRows ==
  ASSUME NEW t, Own(t), NEW l \in CpLinks,
         NEW tr \in {"usb", "wifi"}, NEW ids0 \in SUBSET (Phones \X CpFacets)
  PROVE  LET X == S!Found(t, l, tr, ids0)
             i == S!First(X)
             c == S!Connect(t, l, tr, ids0)
         IN  /\ X # {} => /\ i \in X
                          /\ \/ Turned(c, t, i, l, ids0)
                             \/ Turned(c, t, i, t.sessions[i].link, ids0)
             /\ X = {} => Pushed(c, t, l, ids0)
<1> DEFINE X == S!Found(t, l, tr, ids0)
           i == S!First(X)
           k == S!EntryFor(t, l, tr, ids0)
           u == S!Update(t, i, l, tr, ids0)
           p == S!Push(t, l, tr, ids0)
           v == S!Upsert(t, l, tr, ids0)
<1>1. S!Connect(t, l, tr, ids0) = S!AutoActivate(v, k)  BY DEF S!Connect
<1>2. CASE X # {}
  <2>1. X \subseteq DOMAIN t.sessions /\ X \subseteq Nat
    BY DEF S!Found, S!ByIdentity, S!ByLink, S!Indexes, Own
  <2>2. i \in X  BY <1>2, <2>1, FirstIn
  <2>3. i \in DOMAIN t.sessions  BY <2>1, <2>2
  <2>4. v = S!Changed(u)  BY <1>2 DEF S!Upsert, S!EntryFor
  <2> HIDE DEF X, i, k, v
  <2>5. PICK m \in {l, t.sessions[i].link} : Turned(u, t, i, m, ids0)
    BY <2>3, UpdateTurns
  <2> HIDE DEF u
  <2>a. Own(u)  BY <2>5 DEF Turned
  <2>6. Turned(v, t, i, m, ids0)  BY <2>3, <2>4, <2>5, <2>a, ChangedSame
  <2>7. Own(v)  BY <2>6 DEF Turned
  <2>8. Turned(S!AutoActivate(v, k), t, i, m, ids0)  BY <2>6, <2>7, AutoActivateSame
  <2> QED  BY <1>1, <1>2, <2>2, <2>5, <2>8 DEF X, i
<1>3. CASE X = {}
  <2>1. v = S!Changed(p)  BY <1>3 DEF S!Upsert
  <2>2. Pushed(p, t, l, ids0)  BY PushPushes
  <2> HIDE DEF X, i, k, v, p
  <2>3. Own(p)  BY <2>2 DEF Pushed
  <2>4. Pushed(v, t, l, ids0)  BY <2>1, <2>2, <2>3, ChangedSame
  <2>5. Own(v)  BY <2>4 DEF Pushed
  <2>6. Pushed(S!AutoActivate(v, k), t, l, ids0)  BY <2>4, <2>5, AutoActivateSame
  <2> QED  BY <1>1, <1>3, <2>6 DEF X
<1> QED  BY <1>2, <1>3

(* A session's presence: its phone's entry is the session's then, or, if   *)
(* the phone has none, the entry the session has, or a new one.            *)
LEMMA PresenceRows ==
  ASSUME NEW t, Own(t), NEW l \in CpLinks,
         NEW tr \in {"usb", "wifi"}, NEW ids0 \in SUBSET (Phones \X CpFacets)
  PROVE  LET c == S!Presence(t, l, tr, ids0)
         IN  \/ \E i \in S!ByIdentity(t, ids0) : Turned(c, t, i, l, ids0)
             \/ /\ S!ByIdentity(t, ids0) = {}
                /\ \/ \E i \in S!ByLink(t, l) : Turned(c, t, i, l, ids0)
                   \/ Pushed(c, t, l, ids0)
<1> DEFINE X == S!ByIdentity(t, ids0)
           i == S!First(X)
           u == S!TakeOver(t, l, ids0)
           c == S!Presence(t, l, tr, ids0)
<1>1. c = S!Connect(u, l, tr, ids0)  BY DEF S!Presence
<1>2. CASE X = {}
  <2>1. u = t  BY <1>2 DEF S!TakeOver
  <2>2. S!Found(t, l, tr, ids0) = S!ByLink(t, l)  BY <1>2 DEF S!Found
  <2>3. \A j \in S!ByLink(t, l) : t.sessions[j].link = l  BY DEF S!ByLink
  <2> HIDE DEF X, u, c, i
  <2> QED  BY <1>1, <1>2, <2>1, <2>2, <2>3, UpsertRows DEF X, c
<1>3. CASE X # {}
  <2>1. i \in X /\ Turned(u, t, i, l, {})  BY <1>3, TakeOverTurns
  <2> HIDE DEF u, i, c
  <2>2. Own(u) /\ DOMAIN u.sessions = DOMAIN t.sessions
    BY <2>1 DEF Turned
  <2>3. \A j \in DOMAIN t.sessions : u.sessions[j].device = t.sessions[j].device
    BY <2>1 DEF Turned, SameRow
  <2>4. S!ByIdentity(u, ids0) = X
    BY <2>2, <2>3 DEF S!ByIdentity, S!Indexes
  <2>5. u.sessions[i].link = l  BY <2>1 DEF Turned
  <2>6. S!Found(u, l, tr, ids0) = X
    <3>1. S!First(S!ByIdentity(u, ids0)) = i  BY <2>4 DEF i
    <3>2. ~S!StealsWired(u, l, tr, ids0)  BY <2>5, <3>1 DEF S!StealsWired
    <3> QED  BY <1>3, <2>4, <3>2 DEF S!Found
  <2> HIDE DEF X
  <2>7. Turned(c, u, i, l, ids0)
    BY <1>1, <1>3, <2>2, <2>5, <2>6, UpsertRows DEF i
  <2>8. Turned(c, t, i, l, ids0)
    BY <2>1, <2>5, <2>7 DEF Turned, SameRow
  <2> QED  BY <2>1, <2>8 DEF X, c
<1> QED  BY <1>2, <1>3

(* That it is connected: an entry that a shared identifier or the link     *)
(* leads to, or a new one if the link has none.                            *)
LEMMA ConnectRows ==
  ASSUME NEW t, Own(t), NEW l \in CpLinks,
         NEW tr \in {"usb", "wifi"}, NEW ids0 \in SUBSET (Phones \X CpFacets)
  PROVE  LET c == S!Connect(t, l, tr, ids0)
         IN  \/ \E i \in S!ByIdentity(t, ids0) \cup S!ByLink(t, l) :
                  Turned(c, t, i, l, ids0) \/ Turned(c, t, i, t.sessions[i].link, ids0)
             \/ Pushed(c, t, l, ids0)
<1> DEFINE X == S!Found(t, l, tr, ids0)
           c == S!Connect(t, l, tr, ids0)
<1>1. X \subseteq S!ByIdentity(t, ids0) \cup S!ByLink(t, l)  BY DEF S!Found
<1> HIDE DEF X, c
<1>2. CASE X = {}  BY <1>2, UpsertRows DEF X, c
<1>3. CASE X # {}
  <2> DEFINE i == S!First(X)
  <2>1. i \in X /\ (Turned(c, t, i, l, ids0) \/ Turned(c, t, i, t.sessions[i].link, ids0))
    BY <1>3, UpsertRows DEF X, c
  <2> HIDE DEF i
  <2> QED  BY <1>1, <2>1 DEF c
<1> QED  BY <1>2, <1>3

(* The first entry of a link goes. *)
LEMMA CloseByLinkRows ==
  ASSUME NEW t, Own(t), NEW l
  PROVE  LET c == S!CloseByLink(t, l)
         IN  /\ Own(c) /\ c.closing = t.closing
             /\ DOMAIN c.sessions \subseteq DOMAIN t.sessions
             /\ \A j \in DOMAIN c.sessions : SameRow(c, t, j)
             /\ \A j \in DOMAIN t.sessions : t.sessions[j].link # l => j \in DOMAIN c.sessions
<1> DEFINE gone0 == S!First(S!ByLink(t, l))
           left == [i \in DOMAIN t.sessions \ {gone0} |-> t.sessions[i]]
           idle == {i \in DOMAIN left : ~left[i].active}
           up == S!First(idle)
           n == IF DOMAIN left = {} THEN 1 ELSE t.next
           full == [left EXCEPT ![up].active = TRUE]
           rest == Tab(left, n, t.owner, t.duck, t.streams, t.closing)
           quiet == Tab(left, n, t.owner, "full", t.streams, t.closing)
           front == Tab(full, n, t.owner, left[up].duck, t.streams, t.closing)
           c == S!CloseByLink(t, l)
<1>1. CASE S!ByLink(t, l) = {}
  BY <1>1 DEF S!CloseByLink, SameRow
<1>2. CASE S!ByLink(t, l) # {}
  <2>1. gone0 \in DOMAIN t.sessions /\ t.sessions[gone0].link = l
    <3>1. S!ByLink(t, l) \subseteq Nat  BY DEF S!ByLink, S!Indexes, Own
    <3>2. gone0 \in S!ByLink(t, l)  BY <1>2, <3>1, FirstIn
    <3> QED  BY <3>2 DEF S!ByLink, S!Indexes
  <2>2. c = S!Changed(IF ~t.sessions[gone0].active
                      THEN [t EXCEPT !.sessions = left, !.next = n]
                      ELSE IF idle = {}
                      THEN [[t EXCEPT !.sessions = left, !.next = n] EXCEPT !.duck = "full"]
                      ELSE [[t EXCEPT !.sessions = left, !.next = n]
                              EXCEPT !.sessions = full, !.duck = left[up].duck])
    BY <1>2 DEF S!CloseByLink, S!Indexes
  <2> HIDE DEF gone0, c
  <2>3. /\ DOMAIN left = DOMAIN t.sessions \ {gone0}
        /\ \A j \in DOMAIN left : left[j] = t.sessions[j] /\ left[j] \in Row
        /\ left = [j \in DOMAIN left |-> left[j]]
    BY DEF Own
  <2> HIDE DEF left
  <2>4. left \in [DOMAIN left -> Row]  BY <2>3
  <2>5. /\ DOMAIN full = DOMAIN left /\ full \in [DOMAIN left -> Row]
        /\ \A j \in DOMAIN left : full[j].link = left[j].link /\ full[j].device = left[j].device
    <3>1. ASSUME NEW j \in DOMAIN left
          PROVE  full[j] \in Row /\ full[j].link = left[j].link /\ full[j].device = left[j].device
      <4>1. full[j] = IF j = up THEN [left[j] EXCEPT !.active = TRUE] ELSE left[j]
        BY <2>4
      <4>2. left[j] \in Row  BY <2>3
      <4> HIDE DEF full
      <4> QED  BY <4>1, <4>2 DEF Row
    <3>2. DOMAIN full = DOMAIN left /\ full = [j \in DOMAIN left |-> full[j]]  BY <2>4
    <3> HIDE DEF full
    <3> QED  BY <3>1, <3>2
  <2>6. n \in Nat \ {0} /\ (\A j \in DOMAIN left : j < n) /\ DOMAIN left \subseteq Nat \ {0}
        /\ t.closing \subseteq CpLinks
    BY <2>3 DEF Own
  <2> HIDE DEF n, full
  <2>7. [t EXCEPT !.sessions = left, !.next = n] = rest
    <3>1. [t EXCEPT !.sessions = left] = Tab(left, t.next, t.owner, t.duck, t.streams, t.closing)
      BY DEF Own, Tab
    <3>2. [Tab(left, t.next, t.owner, t.duck, t.streams, t.closing) EXCEPT !.next = n] = rest
      BY DEF Tab
    <3> QED  BY <3>1, <3>2
  <2>8. [rest EXCEPT !.duck = "full"] = quiet  BY DEF Tab
  <2>9. [rest EXCEPT !.sessions = full, !.duck = left[up].duck] = front
    <3>1. [rest EXCEPT !.sessions = full] = Tab(full, n, t.owner, t.duck, t.streams, t.closing)
      BY DEF Tab
    <3>2. [Tab(full, n, t.owner, t.duck, t.streams, t.closing) EXCEPT !.duck = left[up].duck] = front
      BY DEF Tab
    <3> QED  BY <3>1, <3>2
  <2>10. Own(rest) /\ Own(quiet) /\ Own(front)
    BY <2>4, <2>5, <2>6, OwnOf
  <2>11. /\ rest.sessions = left /\ quiet.sessions = left /\ front.sessions = full
         /\ rest.closing = t.closing /\ quiet.closing = t.closing /\ front.closing = t.closing
    BY TabOf
  <2>12. PICK r : r \in {rest, quiet, front} /\ c = S!Changed(r)
    <3> HIDE DEF rest, quiet, front, idle, up
    <3> QED  BY <2>2, <2>7, <2>8, <2>9
  <2> HIDE DEF rest, quiet, front, idle, up
  <2>13. /\ Own(r) /\ r.closing = t.closing /\ DOMAIN r.sessions = DOMAIN left
         /\ \A j \in DOMAIN left : SameRow(r, t, j)
    BY <2>3, <2>5, <2>10, <2>11, <2>12 DEF SameRow
  <2>14. /\ Own(c) /\ c.closing = t.closing /\ DOMAIN c.sessions = DOMAIN left
         /\ \A j \in DOMAIN left : SameRow(c, t, j)
    BY <2>12, <2>13, ChangedRows DEF SameRow
  <2> QED  BY <2>1, <2>3, <2>14 DEF c
<1> QED  BY <1>1, <1>2

-----------------------------------------------------------------------------
(* What the entries say while the core reads.  Entry i knows the Bluetooth *)
(* address of its phone:                                                   *)
Bt(t, i) == <<PhoneOf[t.sessions[i].link], "bt">> \in t.sessions[i].device

(* An entry is of one phone, and of a phone one entry has the Bluetooth    *)
(* address, so that the phone's presence leads to no other.                *)
Tidy(t) ==
  /\ \A i \in DOMAIN t.sessions :
       /\ t.sessions[i].device \subseteq {PhoneOf[t.sessions[i].link]} \X CpFacets
       /\ \A f \in {"wifi", "udid"} :
            <<PhoneOf[t.sessions[i].link], f>> \in t.sessions[i].device => Bt(t, i)
  /\ \A i, j \in DOMAIN t.sessions :
       Bt(t, i) /\ Bt(t, j) /\ PhoneOf[t.sessions[i].link] = PhoneOf[t.sessions[j].link] => i = j

HasRow(t, l) == \E i \in DOMAIN t.sessions : t.sessions[i].link = l /\ Bt(t, i)

(* An entry is of a session heard of; one that was heard of has its entry, *)
(* or was told to close.                                                   *)
Listing(t, h) ==
  /\ \A i \in DOMAIN t.sessions : h[t.sessions[i].link] # "none"
  /\ \A l \in CpLinks : h[l] \in {"up", "shown"} /\ l \notin t.closing => HasRow(t, l)

RowsOK == Own(S!T) /\ Tidy(S!T) /\ Listing(S!T, heard)

(* What news of l may do to the entries.                                   *)
Goes(c, t, l) ==
  /\ Own(c) /\ Tidy(c) /\ t.closing \subseteq c.closing
  /\ \A k \in CpLinks : HasRow(t, k) => HasRow(c, k) \/ k \in c.closing
  /\ \A i \in DOMAIN c.sessions :
       c.sessions[i].link = l \/ \E j \in DOMAIN t.sessions : t.sessions[j].link = c.sessions[i].link

LEMMA GoesLists ==
  ASSUME NEW c, NEW t, NEW l, NEW h, NEW h2, Listing(t, h), Goes(c, t, l),
         h2[l] # "none", h2[l] \in {"up", "shown"} /\ l \notin c.closing => HasRow(c, l),
         \A k : k # l => h2[k] = h[k]
  PROVE  Listing(c, h2)
<1>1. ASSUME NEW i \in DOMAIN c.sessions PROVE h2[c.sessions[i].link] # "none"
  BY DEF Listing, Goes
<1>2. ASSUME NEW k \in CpLinks, h2[k] \in {"up", "shown"}, k \notin c.closing PROVE HasRow(c, k)
  BY <1>2 DEF Listing, Goes
<1> QED  BY <1>1, <1>2 DEF Listing

(* The same entries, and perhaps one more told to close.                   *)
LEMMA SameLists ==
  ASSUME NEW c, NEW t, NEW h, Own(c), Tidy(t), Listing(t, h), t.closing \subseteq c.closing,
         DOMAIN c.sessions = DOMAIN t.sessions, \A j \in DOMAIN t.sessions : SameRow(c, t, j)
  PROVE  Tidy(c) /\ Listing(c, h)
<1>1. \A j \in DOMAIN t.sessions : Bt(c, j) <=> Bt(t, j)  BY DEF SameRow, Bt
<1>2. Tidy(c)  BY <1>1 DEF Tidy, SameRow
<1>3. \A l \in CpLinks : HasRow(t, l) => HasRow(c, l)  BY <1>1 DEF HasRow, SameRow
<1>4. Listing(c, h)  BY <1>3 DEF Listing, SameRow
<1> QED  BY <1>2, <1>4

(* Facets of a phone with which news come.                                 *)
Naming(F) == F \in SUBSET CpFacets /\ ("wifi" \in F \/ "udid" \in F => "bt" \in F)

LEMMA TurnedGoes ==
  ASSUME NEW t, NEW c, Own(t), Tidy(t), NEW l \in CpLinks, NEW i \in DOMAIN t.sessions,
         PhoneOf[t.sessions[i].link] = PhoneOf[l], NEW F, Naming(F),
         Turned(c, t, i, l, {PhoneOf[l]} \X F),
         "bt" \in F => \A j \in DOMAIN t.sessions \ {i} :
                         Bt(t, j) => PhoneOf[t.sessions[j].link] # PhoneOf[l]
  PROVE  Goes(c, t, l) /\ ("bt" \in F => HasRow(c, l))
<1> DEFINE p == PhoneOf[l]
<1>1. /\ DOMAIN c.sessions = DOMAIN t.sessions /\ Own(c)
      /\ c.sessions[i].link = l /\ c.sessions[i].device = t.sessions[i].device \cup ({p} \X F)
      /\ c.closing = t.closing \cup ({t.sessions[i].link} \ {l})
  BY DEF Turned
<1>2. \A j \in DOMAIN t.sessions \ {i} :
        c.sessions[j].link = t.sessions[j].link /\ c.sessions[j].device = t.sessions[j].device
  BY DEF Turned, SameRow
<1>3. \A f : <<p, f>> \in c.sessions[i].device <=> <<p, f>> \in t.sessions[i].device \/ f \in F
  BY <1>1
<1>4. Bt(c, i) <=> Bt(t, i) \/ "bt" \in F  BY <1>1, <1>3 DEF Bt
<1>5. \A j \in DOMAIN t.sessions \ {i} : Bt(c, j) <=> Bt(t, j)  BY <1>2 DEF Bt
<1>6. ASSUME NEW j \in DOMAIN t.sessions
      PROVE  /\ c.sessions[j].device \subseteq {PhoneOf[c.sessions[j].link]} \X CpFacets
             /\ \A f \in {"wifi", "udid"} :
                  <<PhoneOf[c.sessions[j].link], f>> \in c.sessions[j].device => Bt(c, j)
             /\ PhoneOf[c.sessions[j].link] = PhoneOf[t.sessions[j].link]
  <2>1. CASE j = i
    <3>1. t.sessions[i].device \subseteq {p} \X CpFacets  BY DEF Tidy
    <3>2. {p} \X F \subseteq {p} \X CpFacets  BY DEF Naming
    <3>3. ASSUME NEW f \in {"wifi", "udid"}, <<p, f>> \in c.sessions[i].device PROVE Bt(c, i)
      <4>1. CASE <<p, f>> \in t.sessions[i].device  BY <4>1, <1>4 DEF Tidy
      <4>2. CASE f \in F  BY <4>2, <1>4 DEF Naming
      <4> QED  BY <3>3, <4>1, <4>2, <1>3
    <3> QED  BY <2>1, <3>1, <3>2, <3>3, <1>1
  <2>2. CASE j # i  BY <2>2, <1>2, <1>5 DEF Tidy
  <2> QED  BY <2>1, <2>2
<1>7. ASSUME NEW j \in DOMAIN t.sessions, NEW k \in DOMAIN t.sessions, Bt(c, j), Bt(c, k),
             PhoneOf[c.sessions[j].link] = PhoneOf[c.sessions[k].link]
      PROVE  j = k
  <2>1. PhoneOf[t.sessions[j].link] = PhoneOf[t.sessions[k].link]  BY <1>6, <1>7
  <2>2. CASE Bt(t, j) /\ Bt(t, k)  BY <2>1, <2>2 DEF Tidy
  <2>3. CASE ~(Bt(t, j) /\ Bt(t, k))
    <3>1. "bt" \in F /\ (j = i \/ k = i)  BY <1>4, <1>5, <1>7, <2>3
    <3>2. ~(j # i /\ Bt(t, j) /\ k = i) /\ ~(k # i /\ Bt(t, k) /\ j = i)  BY <2>1, <3>1
    <3> QED  BY <1>5, <1>7, <3>1, <3>2
  <2> QED  BY <2>2, <2>3
<1>8. Tidy(c)  BY <1>1, <1>6, <1>7 DEF Tidy
<1>9. ASSUME NEW k \in CpLinks, HasRow(t, k) PROVE HasRow(c, k) \/ k \in c.closing
  <2>1. PICK j \in DOMAIN t.sessions : t.sessions[j].link = k /\ Bt(t, j)  BY <1>9 DEF HasRow
  <2>2. CASE j # i  BY <2>1, <2>2, <1>1, <1>2, <1>5 DEF HasRow
  <2>3. CASE j = i  BY <2>1, <2>3, <1>1, <1>4 DEF HasRow
  <2> QED  BY <2>2, <2>3
<1>10. \A j \in DOMAIN c.sessions :
         c.sessions[j].link = l \/ \E k \in DOMAIN t.sessions : t.sessions[k].link = c.sessions[j].link
  BY <1>1, <1>2
<1>11. "bt" \in F => HasRow(c, l)  BY <1>1, <1>4 DEF HasRow
<1> QED  BY <1>1, <1>8, <1>9, <1>10, <1>11 DEF Goes

LEMMA PushedGoes ==
  ASSUME NEW t, NEW c, Own(t), Tidy(t), NEW l \in CpLinks, NEW F, Naming(F),
         Pushed(c, t, l, {PhoneOf[l]} \X F),
         "bt" \in F => \A j \in DOMAIN t.sessions :
                         Bt(t, j) => PhoneOf[t.sessions[j].link] # PhoneOf[l]
  PROVE  Goes(c, t, l) /\ ("bt" \in F => HasRow(c, l))
<1> DEFINE p == PhoneOf[l]
           n == t.next
<1>1. /\ Own(c) /\ c.closing = t.closing /\ n \notin DOMAIN t.sessions
      /\ DOMAIN c.sessions = DOMAIN t.sessions \cup {n}
      /\ c.sessions[n].link = l /\ c.sessions[n].device = {p} \X F
  BY DEF Pushed
<1>2. \A j \in DOMAIN t.sessions :
        c.sessions[j].link = t.sessions[j].link /\ c.sessions[j].device = t.sessions[j].device
  BY DEF Pushed, SameRow
<1> HIDE DEF n
<1>3. \A f : <<p, f>> \in c.sessions[n].device <=> f \in F  BY <1>1
<1>4. Bt(c, n) <=> "bt" \in F  BY <1>1, <1>3 DEF Bt
<1>5. \A j \in DOMAIN t.sessions : Bt(c, j) <=> Bt(t, j)  BY <1>2 DEF Bt
<1>6. ASSUME NEW j \in DOMAIN c.sessions
      PROVE  /\ c.sessions[j].device \subseteq {PhoneOf[c.sessions[j].link]} \X CpFacets
             /\ \A f \in {"wifi", "udid"} :
                  <<PhoneOf[c.sessions[j].link], f>> \in c.sessions[j].device => Bt(c, j)
  <2>1. CASE j = n
    <3>1. {p} \X F \subseteq {p} \X CpFacets  BY DEF Naming
    <3>2. \A f \in {"wifi", "udid"} : <<p, f>> \in c.sessions[n].device => Bt(c, n)
      BY <1>3, <1>4 DEF Naming
    <3> QED  BY <2>1, <3>1, <3>2, <1>1
  <2>2. CASE j \in DOMAIN t.sessions  BY <2>2, <1>2, <1>5 DEF Tidy
  <2> QED  BY <2>1, <2>2, <1>1
<1>7. ASSUME NEW j \in DOMAIN c.sessions, NEW k \in DOMAIN c.sessions, Bt(c, j), Bt(c, k),
             PhoneOf[c.sessions[j].link] = PhoneOf[c.sessions[k].link]
      PROVE  j = k
  <2>1. CASE j \in DOMAIN t.sessions /\ k \in DOMAIN t.sessions
    BY <2>1, <1>2, <1>5, <1>7 DEF Tidy
  <2>2. CASE j = n /\ k \in DOMAIN t.sessions  BY <2>2, <1>1, <1>2, <1>4, <1>5, <1>7
  <2>3. CASE k = n /\ j \in DOMAIN t.sessions  BY <2>3, <1>1, <1>2, <1>4, <1>5, <1>7
  <2> QED  BY <2>1, <2>2, <2>3, <1>1
<1>8. Tidy(c)  BY <1>6, <1>7 DEF Tidy
<1>9. \A k \in CpLinks : HasRow(t, k) => HasRow(c, k)  BY <1>1, <1>2, <1>5 DEF HasRow
<1>10. \A j \in DOMAIN c.sessions :
         c.sessions[j].link = l \/ \E k \in DOMAIN t.sessions : t.sessions[k].link = c.sessions[j].link
  BY <1>1, <1>2
<1>11. "bt" \in F => HasRow(c, l)  BY <1>1, <1>4 DEF HasRow
<1> QED  BY <1>1, <1>8, <1>9, <1>10, <1>11 DEF Goes

(* An entry that a phone's identifiers lead to is the phone's.             *)
LEMMA FoundIsOfPhone ==
  ASSUME NEW t, Own(t), Tidy(t), NEW p, NEW F, NEW i \in S!ByIdentity(t, {p} \X F)
  PROVE  i \in DOMAIN t.sessions /\ PhoneOf[t.sessions[i].link] = p
         /\ \E f \in F : <<p, f>> \in t.sessions[i].device
<1>1. i \in DOMAIN t.sessions /\ t.sessions[i].device \cap ({p} \X F) # {}
  BY DEF S!ByIdentity, S!Indexes
<1>2. t.sessions[i].device \subseteq {PhoneOf[t.sessions[i].link]} \X CpFacets
  BY <1>1 DEF Tidy
<1>3. PICK x \in {p} \X F : x \in t.sessions[i].device  BY <1>1
<1>4. PICK f \in F : x = <<p, f>>  BY <1>3
<1>5. <<p, f>> \in {PhoneOf[t.sessions[i].link]} \X CpFacets  BY <1>2, <1>3, <1>4
<1>6. p = PhoneOf[t.sessions[i].link]  BY <1>5
<1> QED  BY <1>1, <1>3, <1>4, <1>6

LEMMA PresenceGoes ==
  ASSUME NEW t, Own(t), Tidy(t), NEW l \in CpLinks, NEW tr \in {"usb", "wifi"},
         NEW F \in SUBSET {"bt", "wifi", "udid"}, "bt" \in F
  PROVE  LET c == S!Presence(t, l, tr, {PhoneOf[l]} \X F)
         IN  Goes(c, t, l) /\ HasRow(c, l)
<1> DEFINE p == PhoneOf[l]
           ids0 == {p} \X F
           c == S!Presence(t, l, tr, ids0)
<1>1. p \in Phones /\ Naming(F)  BY CpLinksAssumption DEF Naming, CpFacets
<1>2. ids0 \in SUBSET (Phones \X CpFacets)  BY <1>1 DEF Naming
<1>3. \/ \E i \in S!ByIdentity(t, ids0) : Turned(c, t, i, l, ids0)
      \/ /\ S!ByIdentity(t, ids0) = {}
         /\ \/ \E i \in S!ByLink(t, l) : Turned(c, t, i, l, ids0)
            \/ Pushed(c, t, l, ids0)
  <2> HIDE DEF ids0
  <2> QED  BY <1>2, PresenceRows
<1> HIDE DEF c
<1>4. ASSUME NEW i \in S!ByIdentity(t, ids0), Turned(c, t, i, l, ids0)
      PROVE  Goes(c, t, l) /\ HasRow(c, l)
  <2>1. /\ i \in DOMAIN t.sessions /\ PhoneOf[t.sessions[i].link] = p
        /\ \E f \in F : <<p, f>> \in t.sessions[i].device
    BY FoundIsOfPhone
  <2>2. Bt(t, i)  BY <2>1 DEF Tidy, Bt
  <2>3. \A j \in DOMAIN t.sessions \ {i} : Bt(t, j) => PhoneOf[t.sessions[j].link] # p
    BY <2>1, <2>2 DEF Tidy
  <2> QED  BY <1>1, <1>4, <2>1, <2>3, TurnedGoes
<1>5. CASE S!ByIdentity(t, ids0) = {}
  <2>1. ASSUME NEW j \in DOMAIN t.sessions, Bt(t, j) PROVE PhoneOf[t.sessions[j].link] # p
    <3>1. t.sessions[j].device \cap ids0 = {}  BY <1>5 DEF S!ByIdentity, S!Indexes
    <3>2. <<p, "bt">> \in ids0  OBVIOUS
    <3> QED  BY <2>1, <3>1, <3>2 DEF Bt
  <2>2. ASSUME NEW i \in S!ByLink(t, l), Turned(c, t, i, l, ids0)
        PROVE  Goes(c, t, l) /\ HasRow(c, l)
    <3>1. i \in DOMAIN t.sessions /\ t.sessions[i].link = l  BY DEF S!ByLink, S!Indexes
    <3> QED  BY <1>1, <2>1, <2>2, <3>1, TurnedGoes
  <2>3. Pushed(c, t, l, ids0) => Goes(c, t, l) /\ HasRow(c, l)
    BY <1>1, <2>1, PushedGoes
  <2> QED  BY <1>3, <1>4, <2>2, <2>3 DEF c
<1> QED  BY <1>3, <1>4, <1>5 DEF c

LEMMA ConnectGoes ==
  ASSUME NEW t, Own(t), Tidy(t), NEW l \in CpLinks, NEW tr \in {"usb", "wifi"},
         NEW F \in SUBSET {"controller"}
  PROVE  Goes(S!Connect(t, l, tr, {PhoneOf[l]} \X F), t, l)
<1> DEFINE p == PhoneOf[l]
           ids0 == {p} \X F
           c == S!Connect(t, l, tr, ids0)
<1>1. p \in Phones /\ Naming(F) /\ "bt" \notin F  BY CpLinksAssumption DEF Naming, CpFacets
<1>2. ids0 \in SUBSET (Phones \X CpFacets)  BY <1>1 DEF Naming
<1>3. \/ \E i \in S!ByIdentity(t, ids0) \cup S!ByLink(t, l) :
           Turned(c, t, i, l, ids0) \/ Turned(c, t, i, t.sessions[i].link, ids0)
      \/ Pushed(c, t, l, ids0)
  <2> HIDE DEF ids0
  <2> QED  BY <1>2, ConnectRows
<1> HIDE DEF c
<1>6. ASSUME NEW i \in S!ByIdentity(t, ids0)
      PROVE  i \in DOMAIN t.sessions /\ PhoneOf[t.sessions[i].link] = p
  <2>1. i \in DOMAIN t.sessions /\ t.sessions[i].device \cap ids0 # {}
    BY <1>6 DEF S!ByIdentity, S!Indexes
  <2>2. t.sessions[i].device \subseteq {PhoneOf[t.sessions[i].link]} \X CpFacets
    BY <2>1 DEF Tidy
  <2> QED  BY <2>1, <2>2
<1>4. ASSUME NEW i \in S!ByIdentity(t, ids0) \cup S!ByLink(t, l),
             Turned(c, t, i, l, ids0) \/ Turned(c, t, i, t.sessions[i].link, ids0)
      PROVE  Goes(c, t, l)
  <2>1. i \in DOMAIN t.sessions /\ PhoneOf[t.sessions[i].link] = p
    <3>2. CASE i \in S!ByLink(t, l)  BY <3>2 DEF S!ByLink, S!Indexes
    <3> QED  BY <1>6, <3>2
  <2>2. CASE Turned(c, t, i, l, ids0)  BY <1>1, <2>1, <2>2, TurnedGoes
  <2>3. CASE Turned(c, t, i, t.sessions[i].link, ids0)
    <3> DEFINE k == t.sessions[i].link
    <3>1. k \in CpLinks /\ PhoneOf[k] = p  BY <2>1 DEF Own, Row
    <3>2. Turned(c, t, i, k, {PhoneOf[k]} \X F)  BY <2>3, <3>1
    <3>3. Goes(c, t, k)  BY <1>1, <2>1, <3>1, <3>2, TurnedGoes
    <3> QED  BY <2>1, <3>3 DEF Goes
  <2> QED  BY <1>4, <2>2, <2>3
<1>5. Pushed(c, t, l, ids0) => Goes(c, t, l)  BY <1>1, PushedGoes
<1> QED  BY <1>3, <1>4, <1>5 DEF c

(* The first entry of a session that is gone for the core goes.            *)
LEMMA CloseLists ==
  ASSUME NEW t, Own(t), Tidy(t), NEW l \in CpLinks, NEW h, NEW h2, Listing(t, h),
         h2[l] = "gone", \A k : k # l => h2[k] = h[k]
  PROVE  LET c == S!CloseByLink(t, l) IN Own(c) /\ Tidy(c) /\ Listing(c, h2)
<1> DEFINE c == S!CloseByLink(t, l)
<1>1. /\ Own(c) /\ c.closing = t.closing /\ DOMAIN c.sessions \subseteq DOMAIN t.sessions
      /\ \A j \in DOMAIN c.sessions : SameRow(c, t, j)
      /\ \A j \in DOMAIN t.sessions : t.sessions[j].link # l => j \in DOMAIN c.sessions
  BY CloseByLinkRows
<1> HIDE DEF c
<1>2. \A j \in DOMAIN c.sessions : Bt(c, j) <=> Bt(t, j)  BY <1>1 DEF SameRow, Bt
<1>3. Tidy(c)  BY <1>1, <1>2 DEF Tidy, SameRow
<1>4. ASSUME NEW k \in CpLinks, k # l, HasRow(t, k) PROVE HasRow(c, k)
  <2>1. PICK j \in DOMAIN t.sessions : t.sessions[j].link = k /\ Bt(t, j)  BY <1>4 DEF HasRow
  <2> QED  BY <1>1, <1>2, <1>4, <2>1 DEF HasRow, SameRow
<1>5. Listing(c, h2)
  <2>1. ASSUME NEW j \in DOMAIN c.sessions PROVE h2[c.sessions[j].link] # "none"
    BY <1>1 DEF SameRow, Listing
  <2>2. ASSUME NEW k \in CpLinks, h2[k] \in {"up", "shown"}, k \notin c.closing PROVE HasRow(c, k)
    BY <1>1, <1>4, <2>2 DEF Listing
  <2> QED  BY <2>1, <2>2 DEF Listing
<1> QED  BY <1>1, <1>3, <1>5 DEF c

LEMMA TransportLists ==
  ASSUME NEW t, Own(t), Tidy(t), NEW h, Listing(t, h), NEW ids0, NEW tr
  PROVE  LET c == S!CloseOnTransport(t, ids0, tr) IN Own(c) /\ Tidy(c) /\ Listing(c, h)
<1> DEFINE X == S!ByIdentity(t, ids0)
           i == S!First(X)
           l == t.sessions[i].link
           c == S!CloseOnTransport(t, ids0, tr)
           d == Tab(t.sessions, t.next, t.owner, t.duck, t.streams, t.closing \cup {l})
<1>1. CASE X = {} \/ t.sessions[i].transport # tr
  <2>1. c = t  BY <1>1 DEF S!CloseOnTransport
  <2> QED  BY <2>1
<1>2. CASE X # {} /\ t.sessions[i].transport = tr
  <2>1. c = S!Told(t, l)  BY <1>2 DEF S!CloseOnTransport
  <2>2. X \subseteq DOMAIN t.sessions /\ X \subseteq Nat  BY DEF S!ByIdentity, S!Indexes, Own
  <2>3. i \in X  BY <1>2, <2>2, FirstIn
  <2> HIDE DEF X, i, c
  <2>4. l \in CpLinks  BY <2>2, <2>3 DEF Own, Row
  <2> HIDE DEF l
  <2>5. S!Told(t, l) = d  BY DEF S!Told, Own, Tab
  <2>6. Own(d)
    <3>1. t.closing \cup {l} \subseteq CpLinks  BY <2>4 DEF Own
    <3>2. /\ t.sessions \in [DOMAIN t.sessions -> Row] /\ DOMAIN t.sessions \subseteq Nat \ {0}
          /\ t.next \in Nat \ {0} /\ \A j \in DOMAIN t.sessions : j < t.next
      BY DEF Own
    <3> QED  BY <3>1, <3>2, OwnOf
  <2>7. d.sessions = t.sessions /\ d.closing = t.closing \cup {l}  BY TabOf
  <2> HIDE DEF d
  <2>8. Tidy(d) /\ Listing(d, h)
    <3>1. \A j \in DOMAIN t.sessions : SameRow(d, t, j)  BY <2>7 DEF SameRow
    <3> QED  BY <2>6, <2>7, <3>1, SameLists
  <2> QED  BY <2>1, <2>5, <2>6, <2>8 DEF c
<1> QED  BY <1>1, <1>2

(* The table after a step is the one the step says it becomes.             *)
LEMMA RowsAfter ==
  ASSUME NEW c, Own(c), Tidy(c), Listing(c, heard'), S!Becomes(c)
  PROVE  RowsOK'
<1>1. S!T' = c  BY DEF S!T, S!Becomes, Own, Tab
<1>2. Own(S!T)'  BY <1>1 DEF Own, Tab
<1>3. Tidy(S!T)'  BY <1>1 DEF Tidy, Bt
<1>4. Listing(S!T, heard)'  BY <1>1 DEF Listing, HasRow, Bt
<1> QED  BY <1>2, <1>3, <1>4 DEF RowsOK

LEMMA RowsStay ==
  ASSUME RowsOK, UNCHANGED <<coreState, closing>> PROVE RowsOK'
<1>1. S!Becomes(S!T) /\ heard' = heard  BY DEF S!Becomes, S!T, coreState
<1> QED  BY <1>1, RowsAfter DEF RowsOK

LEMMA ReadsRows == ASSUME QInv, RowsOK, Reads PROVE RowsOK'
<1> DEFINE e == Head(events)
           t == S!T
<1>1. /\ events \in Seq(Event) /\ events # <<>> /\ Len(events) \in Nat /\ 1 \in 1..Len(events)
      /\ e = events[1]
  BY HeadTailProperties DEF Reads, QInv, Types
<1>2. Shaped(e)  BY <1>1 DEF QInv, Types
<1>3. heard \in [CpLinks -> {"none", "up", "shown", "gone"}]  BY DEF QInv, Types
<1>4. Own(t) /\ Tidy(t) /\ Listing(t, heard)  BY DEF RowsOK
<1>5. \/ e.type = "presence" /\ Presence(e)
      \/ e.type = "active" /\ BecomesActive(e)
      \/ e.type = "connected" /\ Connected(e)
      \/ e.type = "disconnected" /\ Disconnected(e)
      \/ e.type \in {"left", "unplugged"} /\ HelperPresence(e)
  BY DEF Reads
<1> HIDE DEF e, t
<1>6. CASE e.type = "presence" /\ Presence(e)
  <2> DEFINE l == e.link
             F == e.facets \ (IF e.way = "usb" THEN {"wifi"} ELSE {})
             c == S!Presence(t, l, e.way, {PhoneOf[l]} \X F)
  <2>1. /\ l \in CpLinks /\ e.way \in {"usb", "wifi"}
        /\ F \in SUBSET {"bt", "wifi", "udid"} /\ "bt" \in F
    BY <1>2, <1>6 DEF Shaped
  <2>2. S!Becomes(c)  BY <1>6 DEF Presence, t
  <2>3. heard' = [heard EXCEPT ![l] = IF heard[l] = "none" THEN "up" ELSE heard[l]]
    BY <1>6 DEF Presence
  <2>a. e.way \in {"usb", "wifi"}  BY <2>1
  <2> HIDE DEF F, l
  <2>4. Goes(c, t, l) /\ HasRow(c, l)  BY <1>4, <2>1, <2>a, PresenceGoes
  <2> HIDE DEF c
  <2>5. heard'[l] # "none" /\ \A k : k # l => heard'[k] = heard[k]
    BY <2>1, <2>3, <1>3
  <2>6. Listing(c, heard')  BY <1>4, <2>4, <2>5, GoesLists
  <2> QED  BY <2>2, <2>4, <2>6, RowsAfter DEF Goes
<1>7. CASE e.type = "active" /\ BecomesActive(e)
  <2>1. CASE Entries(e.link) = {}
    BY <1>7, <2>1, RowsStay DEF BecomesActive, S!Becomes, S!T, coreState
  <2>2. CASE Entries(e.link) # {}
    <3> DEFINE k == First(Entries(e.link))
               c == S!AutoActivate(t, k)
    <3>1. S!Becomes(c) /\ heard' = heard  BY <1>7, <2>2 DEF BecomesActive, t
    <3> HIDE DEF k
    <3>2. SameRows(c, t)  BY <1>4, AutoActivateSame
    <3> HIDE DEF c
    <3>3. Own(c) /\ Tidy(c) /\ Listing(c, heard)
      BY <1>4, <3>2, SameLists DEF SameRows
    <3> QED  BY <3>1, <3>3, RowsAfter
  <2> QED  BY <2>1, <2>2
<1>8. CASE e.type = "connected" /\ Connected(e)
  <2> DEFINE l == e.link
             F == e.facets
             c == S!Connect(t, l, e.way, {PhoneOf[l]} \X F)
  <2>1. l \in CpLinks /\ e.way \in {"usb", "wifi"} /\ F \in SUBSET {"controller"}
    BY <1>2, <1>8 DEF Shaped
  <2>2. heard[l] = "up"
    <3>1. Is(events[1], "connected", l)  BY <1>1, <1>8 DEF Is
    <3>2. heard[l] # "gone"  BY <1>1, <2>1, <3>1 DEF QInv, EndsLast, About
    <3>3. heard[l] # "shown" /\ heard[l] # "none"
      BY <1>1, <2>1, <3>1 DEF QInv, ConnectsOnce
    <3> QED  BY <1>3, <2>1, <3>2, <3>3
  <2>3. S!Becomes(c) /\ heard' = [heard EXCEPT ![l] = "shown"]
    BY <1>8 DEF Connected, t
  <2>a. e.way \in {"usb", "wifi"}  BY <2>1
  <2> HIDE DEF F, l
  <2>4. Goes(c, t, l)  BY <1>4, <2>1, <2>a, ConnectGoes
  <2> HIDE DEF c
  <2>5. heard'[l] # "none" /\ \A k : k # l => heard'[k] = heard[k]
    BY <2>1, <2>3, <1>3
  <2>6. l \notin c.closing => HasRow(c, l)
    <3>1. l \notin t.closing => HasRow(t, l)  BY <1>4, <2>1, <2>2 DEF Listing
    <3> QED  BY <2>1, <2>4, <3>1 DEF Goes
  <2>7. Listing(c, heard')  BY <1>4, <2>4, <2>5, <2>6, GoesLists
  <2> QED  BY <2>3, <2>4, <2>7, RowsAfter DEF Goes
<1>9. CASE e.type = "disconnected" /\ Disconnected(e)
  <2> DEFINE l == e.link
             c == S!CloseByLink(t, l)
  <2>1. l \in CpLinks  BY <1>2, <1>9 DEF Shaped
  <2>2. S!Becomes(c) /\ heard' = [heard EXCEPT ![l] = "gone"]
    BY <1>9 DEF Disconnected, t
  <2> HIDE DEF l
  <2>3. heard'[l] = "gone" /\ \A k : k # l => heard'[k] = heard[k]
    BY <2>1, <2>2, <1>3
  <2>4. Own(c) /\ Tidy(c) /\ Listing(c, heard')  BY <1>4, <2>1, <2>3, CloseLists
  <2> HIDE DEF c
  <2> QED  BY <2>2, <2>4, RowsAfter
<1>10. CASE e.type \in {"left", "unplugged"} /\ HelperPresence(e)
  <2>1. PICK ids0, tr : S!Becomes(S!CloseOnTransport(t, ids0, tr)) /\ heard' = heard
    BY <1>10 DEF HelperPresence, t
  <2> DEFINE c == S!CloseOnTransport(t, ids0, tr)
  <2>2. Own(c) /\ Tidy(c) /\ Listing(c, heard)  BY <1>4, TransportLists
  <2>3. S!Becomes(c) /\ heard' = heard  BY <2>1
  <2> HIDE DEF c
  <2> QED  BY <2>2, <2>3, RowsAfter
<1> QED  BY <1>5, <1>6, <1>7, <1>8, <1>9, <1>10

LEMMA AlwaysRows == Spec => []RowsOK
<1>1. Init => RowsOK
  <2> SUFFICES ASSUME Init PROVE RowsOK  OBVIOUS
  <2>1. /\ sessions = [i \in {} |-> S!NoLink] /\ nextIndex = 1 /\ closing = {}
        /\ heard = [l \in CpLinks \cup {} |-> "none"]
    BY DEF Init, S!Init, S!NoSessions, S!Links
  <2>2. DOMAIN sessions = {} /\ sessions \in [DOMAIN sessions -> Row]  BY <2>1
  <2>3. /\ S!T = Tab(sessions, nextIndex, videoOwner, duckLevel, streams, closing)
        /\ S!T.sessions = sessions /\ S!T.closing = closing
    BY DEF S!T, Tab
  <2>4. Own(S!T)
    <3>1. /\ DOMAIN sessions \subseteq Nat \ {0} /\ nextIndex \in Nat \ {0} /\ closing \subseteq CpLinks
          /\ \A i \in DOMAIN sessions : i < nextIndex
      BY <2>1, <2>2
    <3>2. Own(Tab(sessions, nextIndex, videoOwner, duckLevel, streams, closing))
      BY <2>2, <3>1, OwnOf
    <3> QED  BY <2>3, <3>2
  <2>5. Tidy(S!T)  BY <2>2, <2>3 DEF Tidy
  <2>6. Listing(S!T, heard)  BY <2>1, <2>2, <2>3 DEF Listing
  <2> QED  BY <2>4, <2>5, <2>6 DEF RowsOK
<1>2. ASSUME QInv, RowsOK, [Next]_vars PROVE RowsOK'
  <2>1. CASE CpNext /\ UNCHANGED coreState
    <3>1. UNCHANGED closing
      BY <2>1 DEF CpNext, Spawn, DeviceInfo, Active, MainScreenReady, Closed, Metadata,
         Close, Ends, Device, Crowded, WiredStart, DeviceGone, LeftWifi, LinkDown, DropSessions
    <3> QED  BY <1>2, <2>1, <3>1, RowsStay
  <2>2. CASE Reads  BY <1>2, <2>2, ReadsRows
  <2>3. CASE UNCHANGED vars
    BY <1>2, <2>3, RowsStay DEF vars, cpVars, coreState
  <2> QED  BY <1>2, <2>1, <2>2, <2>3 DEF Next
<1> QED  BY <1>1, <1>2, AlwaysQInv, PTL DEF Spec

(* The core and the manager agree once what each told the other has been   *)
(* read.                                                                   *)
THEOREM AlwaysAgreeAtRest == Spec => []AgreeAtRest
<1>1. QInv /\ RowsOK => AgreeAtRest
  <2> SUFFICES ASSUME QInv, RowsOK, events = <<>>, closing \cap alive = {}
               PROVE  /\ Listed \cap alive = {l \in alive : ids[l] # {}}
                      /\ \A l, k \in Listed \cap alive : PhoneOf[l] = PhoneOf[k] => l = k
    BY DEF AgreeAtRest, AtRest
  <2>1. Len(events) = 0 /\ alive \subseteq CpLinks  BY DEF QInv, IInv, Known
  <2>2. heard \in [CpLinks -> {"none", "up", "shown", "gone"}]  BY DEF QInv, Types
  <2>3. S!T.sessions = sessions /\ S!T.closing = closing  BY DEF S!T
  <2>4. ASSUME NEW l \in alive PROVE heard[l] # "gone"
    BY <2>1 DEF QInv, EndsLast, Open
  <2>5. ASSUME NEW l \in Listed \cap alive PROVE ids[l] # {} /\ heard[l] \in {"up", "shown"}
    <3>1. heard[l] # "none"  BY <2>3 DEF RowsOK, Listing, Listed
    <3>2. heard[l] \in {"up", "shown"}  BY <2>1, <2>2, <2>4, <3>1
    <3> QED  BY <2>1, <3>2 DEF QInv, Said
  <2>6. ASSUME NEW l \in alive, heard[l] \in {"up", "shown"}
        PROVE  \E i \in DOMAIN sessions : sessions[i].link = l /\ Bt(S!T, i)
    <3>1. HasRow(S!T, l)  BY <2>1, <2>3, <2>6 DEF RowsOK, Listing
    <3> QED  BY <2>3, <3>1 DEF HasRow
  <2>7. ASSUME NEW l \in alive, ids[l] # {} PROVE l \in Listed
    <3>1. heard[l] # "none"  BY <2>1, <2>7 DEF QInv, Names
    <3>2. heard[l] \in {"up", "shown"}  BY <2>1, <2>2, <2>4, <3>1
    <3> QED  BY <2>6, <3>2 DEF Listed
  <2>8. ASSUME NEW l \in Listed \cap alive, NEW k \in Listed \cap alive, PhoneOf[l] = PhoneOf[k]
        PROVE  l = k
    <3>1. PICK i \in DOMAIN sessions : sessions[i].link = l /\ Bt(S!T, i)  BY <2>5, <2>6
    <3>2. PICK j \in DOMAIN sessions : sessions[j].link = k /\ Bt(S!T, j)  BY <2>5, <2>6
    <3>3. i = j  BY <2>3, <2>8, <3>1, <3>2 DEF RowsOK, Tidy
    <3> QED  BY <3>1, <3>2, <3>3
  <2> QED  BY <2>5, <2>7, <2>8
<1> QED  BY <1>1, AlwaysQInv, AlwaysRows, PTL

-----------------------------------------------------------------------------
(* Where what the manager keeps can be.  The newest session is looked for  *)
(* among finitely many numbers.                                            *)
Places ==
  /\ \A l \in CpLinks : born[l] <= MaxSessions
  /\ connected \subseteq CpLinks /\ live \in alive \cup {Nobody}
  /\ wired \subseteq Phones /\ addrs \subseteq Phones /\ gone \subseteq Phones

LEMMA NewestIsIn ==
  ASSUME born \in [CpLinks -> Nat], \A l \in CpLinks : born[l] <= MaxSessions,
         NEW X \in SUBSET CpLinks, X # {}
  PROVE  Newest(X) \in X
<1> DEFINE N == {MaxSessions - born[k] : k \in X}
           R == OpToRel(<, Nat)
<1>1. \A x, y \in Nat : x < y => <<x, y>> \in R  BY Zenon DEF OpToRel
<1>2. N \subseteq Nat /\ N # {}  BY CpLinksAssumption
<1>3. IsWellFoundedOn(R, Nat)  BY NatLessThanWellFounded
<1> HIDE DEF N, R
<1>4. PICK n \in N : \A m \in N : ~(<<m, n>> \in R)  BY <1>2, <1>3, WFMin, ZenonT(60)
<1>5. ASSUME NEW m \in N PROVE n <= m
  <2>1. n \in Nat /\ m \in Nat  BY <1>2
  <2>2. ~(m < n)  BY <1>1, <1>4, <2>1, Zenon
  <2> QED  BY <2>1, <2>2
<1>6. PICK l \in X : n = MaxSessions - born[l]  BY <1>4 DEF N
<1>7. ASSUME NEW k \in X PROVE born[k] <= born[l]
  <2>1. n <= MaxSessions - born[k]  BY <1>5 DEF N
  <2>2. born[k] \in Nat /\ born[l] \in Nat /\ MaxSessions \in Nat  BY CpLinksAssumption
  <2> QED  BY <1>6, <2>1, <2>2
<1> QED  BY <1>6, <1>7 DEF Newest

LEMMA EndingPlaces ==
  ASSUME IInv, Places, NEW X, NEW onCable, NEW leaving, NEW before, NEW after,
         CloseAll(X, onCable, leaving, before, after), X \subseteq alive,
         UNCHANGED <<born, connected>>, wired' \subseteq Phones, addrs' \subseteq Phones
  PROVE  Places'
<1>1. born \in [CpLinks -> Nat] /\ alive \subseteq CpLinks  BY DEF IInv, Known
<1>2. alive' = alive \ X  BY DEF CloseAll
<1>3. live' \in alive' \cup {Nobody}
  <2>1. CASE live \notin X  BY <1>2, <2>1 DEF CloseAll, Places
  <2>2. CASE live \in X
    <3>1. live' = Newest(alive \ X)  BY <2>2 DEF CloseAll
    <3>2. CASE alive \ X = {}  BY <3>1, <3>2 DEF Newest
    <3>3. CASE alive \ X # {}
      <4>1. Newest(alive \ X) \in alive \ X  BY <1>1, <3>3, NewestIsIn DEF Places
      <4> QED  BY <1>2, <3>1, <4>1
    <3> QED  BY <3>2, <3>3
  <2> QED  BY <2>1, <2>2
<1>4. gone' \subseteq Phones
  BY <1>1, CpLinksAssumption DEF CloseAll, Places
<1> QED  BY <1>3, <1>4 DEF Places

LEMMA RegistersPlaces ==
  ASSUME IInv, Places, NEW l \in CpLinks, Registers(l),
         UNCHANGED <<connected, live, wired, addrs, gone>>
  PROVE  Places'
<1> DEFINE n == Cardinality({k \in CpLinks : born[k] # 0})
<1>1. n \in Nat  BY CpLinksAssumption, FS_Subset, FS_CardinalityType
<1>2. n < MaxSessions /\ born' = [born EXCEPT ![l] = n + 1] /\ alive' = alive \cup {l}
  BY DEF Registers
<1> HIDE DEF n
<1>3. n + 1 <= MaxSessions  BY <1>1, <1>2, CpLinksAssumption
<1>4. \A k \in CpLinks : born'[k] <= MaxSessions  BY <1>2, <1>3 DEF Places, IInv, Known
<1> QED  BY <1>2, <1>4 DEF Places

LEMMA AlwaysPlaces == Spec => []Places
<1>1. Init => Places  BY CpLinksAssumption DEF Init, CpInit, Places
<1>2. ASSUME IInv, Places, [Next]_vars PROVE Places'
  <2> USE <1>2
  <2>1. ASSUME NEW l \in CpLinks, Spawn(l) PROVE Places'
    BY <2>1, RegistersPlaces DEF Spawn
  <2>2. ASSUME NEW l \in CpLinks, DeviceInfo(l) PROVE Places'
    BY <2>2 DEF DeviceInfo, Places
  <2>3. ASSUME NEW l \in CpLinks, Active(l) PROVE Places'
    <3> DEFINE others == Matching(PhoneOf[l], {"controller"})
               news == <<[type |-> "active", link |-> l]>>
    <3>1. CloseAll(others, wired, cabled \ others, <<>>, news)  BY <2>3 DEF Active
    <3>2. others \subseteq alive  BY DEF Matching
    <3> HIDE DEF others, news
    <3> QED  BY <2>3, <3>1, <3>2, EndingPlaces DEF Active, Places
  <2>4. ASSUME NEW l \in CpLinks, MainScreenReady(l) PROVE Places'
    BY <2>4 DEF MainScreenReady, Places
  <2>5. ASSUME NEW l \in CpLinks, Ends(l) PROVE Places'
    BY <2>5, EndingPlaces DEF Ends, Places
  <2>6. ASSUME NEW l \in CpLinks, Metadata(l) PROVE Places'
    BY <2>6, RegistersPlaces DEF Metadata
  <2>7. ASSUME NEW p \in Phones, Device(p) PROVE Places'
    BY <2>7 DEF Device, Places
  <2>8. ASSUME NEW p \in Phones, Crowded(p) PROVE Places'
    BY <2>8 DEF Crowded, Places
  <2>9. ASSUME NEW p \in Phones, WiredStart(p) PROVE Places'
    <3>1. PICK facets : CloseAll(cabled \cap Matching(p, facets), wired, cabled, <<>>, <<>>)
      BY <2>9 DEF WiredStart
    <3> DEFINE X == cabled \cap Matching(p, facets)
    <3>2. X \subseteq alive  BY DEF Matching
    <3>3. UNCHANGED <<born, connected, wired>> /\ addrs' = addrs \cup {p}  BY <2>9 DEF WiredStart
    <3> HIDE DEF X
    <3> QED  BY <3>1, <3>2, <3>3, EndingPlaces DEF X, Places
  <2>10. ASSUME NEW p \in Phones, DeviceGone(p) PROVE Places'
    <3> DEFINE known == Matching(p, {"udid"})
               X == known \ cabled
               leaving == cabled \ known
               before == <<[type |-> "unplugged", phone |-> p]>>
    <3>1. CloseAll(X, wired \ {p}, leaving, before, <<>>) /\ X \subseteq alive
      BY <2>10 DEF DeviceGone, Matching
    <3> HIDE DEF X, leaving, before
    <3> QED  BY <2>10, <3>1, EndingPlaces DEF DeviceGone, Places
  <2>11. ASSUME NEW p \in Phones, LeftWifi(p) PROVE Places'
    <3> DEFINE X == {l \in Matching(p, {"wifi"}) : ~OnCable(l)}
               after == <<[type |-> "left", phone |-> p]>>
    <3>1. CloseAll(X, wired, cabled, <<>>, after) /\ X \subseteq alive
      BY <2>11 DEF LeftWifi, Matching
    <3> HIDE DEF X, after
    <3> QED  BY <2>11, <3>1, EndingPlaces DEF LeftWifi, Places
  <2>12. ASSUME LinkDown PROVE Places'
    <3> DEFINE X == {l \in alive : ~OnCable(l)}
    <3>1. CloseAll(X, wired, cabled, <<>>, <<>>) /\ X \subseteq alive  BY <2>12 DEF LinkDown
    <3> HIDE DEF X
    <3> QED  BY <2>12, <3>1, EndingPlaces DEF LinkDown, Places
  <2>13. ASSUME DropSessions PROVE Places'
    BY <2>13, EndingPlaces DEF DropSessions, Places
  <2>14. CASE Reads \/ UNCHANGED vars
    BY <2>14 DEF Reads, vars, cpVars, cpState, Places
  <2> QED
    BY <2>1, <2>2, <2>3, <2>4, <2>5, <2>6, <2>7, <2>8, <2>9, <2>10, <2>11, <2>12, <2>13, <2>14
    DEF Next, CpNext, Closed, Close
<1> QED  BY <1>1, <1>2, AlwaysQInv, PTL DEF Spec, QInv

(* The types of the manager's state.                                       *)
THEOREM TypeCorrect == Spec => []TypeOK
<1>1. QInv /\ RowsOK /\ Places => TypeOK
  <2> SUFFICES ASSUME QInv, RowsOK, Places PROVE TypeOK  OBVIOUS
  <2>1. born \in [CpLinks -> Nat] /\ alive \subseteq CpLinks  BY DEF QInv, IInv, Known
  <2>2. cabled \subseteq CpLinks  BY <2>1 DEF QInv, IInv, LeavingIsOnCable
  <2>3. closing \subseteq CpLinks
    <3>1. S!T.closing = closing  BY DEF S!T
    <3> QED  BY <3>1 DEF RowsOK, Own
  <2> QED  BY <2>1, <2>2, <2>3 DEF TypeOK, QInv, Types, Places
<1> QED  BY <1>1, AlwaysQInv, AlwaysRows, AlwaysPlaces, PTL
=============================================================================
