------------------------------ MODULE CpManager ------------------------------
(***************************************************************************)
(* The CarPlay manager (livi-cp/src/manager.rs): one task that serves the  *)
(* control connections of the phones, the helper's events about Bluetooth, *)
(* the access point and the cable, and the core's commands, and that tells *)
(* the core what became of each session, in one queue and in order.        *)
(*                                                                         *)
(* Sessions are the members of CpLinks, each used once; the number the     *)
(* manager gives it stands in born, as the manager looks for the session   *)
(* of least number.  A session knows its phone by facets, as in Sessions.  *)
(* What the helper reports may come in any order and at any time: it hears *)
(* of Bluetooth, the access point and the cable from separate tasks.  Its  *)
(* "device" events name the phone's Bluetooth address (message 0x4E0E of   *)
(* iAP2), those of the cable the UDID as well.  The timers that repeat the *)
(* start over the cable are in CableStart.                                 *)
(***************************************************************************)
EXTENDS Integers, Sequences, FiniteSets

CONSTANTS AirLinks,    \* control connections over the access point
          CableLinks,  \* control connections over USB
          Metas,       \* sessions without a connection, for early metadata
          Phones,
          PhoneOf,     \* the phone a session runs with
          MaxSessions, \* bound: sessions that come
          MaxQueue     \* bound: news the core is behind

Connections == AirLinks \cup CableLinks
CpLinks == Connections \cup Metas

ASSUME CpLinksAssumption ==
  /\ AirLinks \cap CableLinks = {} /\ Connections \cap Metas = {} /\ IsFiniteSet(CpLinks)
  /\ PhoneOf \in [CpLinks -> Phones]
  /\ MaxSessions \in Nat /\ MaxQueue \in Nat

Nobody == "none"
ASSUME NobodyAssumption == Nobody \notin CpLinks

CpFacets == {"bt", "wifi", "udid", "controller"}

VARIABLES born,       \* the number of each session, 0 before it exists
          alive,      \* the sessions of the map
          ids,        \* the facets each session knows of its phone
          connected,  \* sessions whose main screen was set up
          live,       \* the session metadata without a name goes to
          wired,      \* phones the helper has named together with their UDID
          addrs,      \* phones whose cable has an address
          cabled,     \* sessions of the air whose phone was plugged in
          pending,    \* what was named of each phone before its session came
          gone,       \* phones whose session ended
          events,     \* the queue to the core
          closing     \* sessions the core told to close

cpState == <<born, alive, ids, connected, live, wired, addrs, cabled, pending, gone>>
cpVars == <<cpState, events, closing>>

-----------------------------------------------------------------------------
Event ==
  [type : {"presence", "connected"}, link : CpLinks, way : {"usb", "wifi"},
   facets : SUBSET CpFacets]
  \cup [type : {"active", "disconnected"}, link : CpLinks]
  \cup [type : {"left", "unplugged"}, phone : Phones]

Of(p) == {l \in CpLinks : PhoneOf[l] = p}

Least(S) == CHOOSE l \in S : \A k \in S : born[l] <= born[k]
Newest(S) == IF S = {} THEN Nobody ELSE CHOOSE l \in S : \A k \in S : born[k] <= born[l]

Matching(p, facets) == {l \in alive \cap Of(p) : ids[l] \cap facets # {}}

IsWired(l, known) ==
  IF l \in Metas THEN "udid" \in known ELSE l \in CableLinks /\ PhoneOf[l] \in addrs

(* On the cable for the helper's news: not the session that is to leave. *)
OnCable(l) == PhoneOf[l] \in wired /\ "bt" \in ids[l] /\ l \notin cabled

Way(l, known) == IF IsWired(l, known) THEN "usb" ELSE "wifi"

(* A session's name for the core: its own addresses, and the UDID when the *)
(* helper just named it.                                                   *)
Named(l, known, more) ==
  [type |-> "presence", link |-> l, way |-> Way(l, known),
   facets |-> (known \cap {"bt", "wifi"}) \cup more]

Disconnects(order) ==
  [i \in DOMAIN order |-> [type |-> "disconnected", link |-> order[i]]]

(* The orders in which the sessions of a map may come.                     *)
Orders(S) == {o \in [1..Cardinality(S) -> S] : \A i, j \in DOMAIN o : o[i] = o[j] => i = j}

(* Mutant: the session leaves the map without a word to the core. *)
CloseAllSilently(S, onCable, leaving, before, after) ==
  /\ alive' = alive \ S /\ cabled' = leaving \ S
  /\ gone' = gone \cup ({PhoneOf[l] : l \in {k \in S : "bt" \in ids[k]}} \ onCable)
  /\ live' = IF live \in S THEN Newest(alive \ S) ELSE live
  /\ events' = events \o before \o after

(* Mutant: what metadata goes to is not looked at when a session ends. *)
CloseAllKeepsLive(S, onCable, leaving, before, after) ==
  /\ alive' = alive \ S /\ cabled' = leaving \ S /\ live' = live
  /\ gone' = gone \cup ({PhoneOf[l] : l \in {k \in S : "bt" \in ids[k]}} \ onCable)
  /\ \E order \in Orders(S) : events' = events \o before \o Disconnects(order) \o after

(* Mutant: the mark of a session that ends stays. *)
CloseAllKeepsMark(S, onCable, leaving, before, after) ==
  /\ alive' = alive \ S /\ cabled' = leaving
  /\ gone' = gone \cup ({PhoneOf[l] : l \in {k \in S : "bt" \in ids[k]}} \ onCable)
  /\ live' = IF live \in S THEN Newest(alive \ S) ELSE live
  /\ \E order \in Orders(S) : events' = events \o before \o Disconnects(order) \o after

(* Every session of S ends, while the phones onCable are on the cable and  *)
(* the sessions leaving wait to leave for it: the core hears of each end   *)
(* between what it hears before and after.                                 *)
CloseAll(S, onCable, leaving, before, after) ==
  /\ alive' = alive \ S /\ cabled' = leaving \ S
  /\ gone' = gone \cup ({PhoneOf[l] : l \in {k \in S : "bt" \in ids[k]}} \ onCable)
  /\ live' = IF live \in S THEN Newest(alive \ S) ELSE live
  /\ \E order \in Orders(S) : events' = events \o before \o Disconnects(order) \o after

-----------------------------------------------------------------------------
CpInit ==
  /\ born = [l \in CpLinks |-> 0] /\ alive = {} /\ ids = [l \in CpLinks |-> {}]
  /\ connected = {} /\ live = Nobody
  /\ wired = {} /\ addrs = {} /\ cabled = {} /\ gone = {}
  /\ pending = [p \in Phones |-> {}]
  /\ events = <<>> /\ closing = {}

Registers(l) ==
  LET before == Cardinality({k \in CpLinks : born[k] # 0})
  IN /\ born[l] = 0 /\ before < MaxSessions
     /\ born' = [born EXCEPT ![l] = before + 1]
     /\ alive' = alive \cup {l}

(* What a session learns from the device that waited for it. *)
Adopted(l, known) ==
  LET learnt == pending[PhoneOf[l]]
  IN IF learnt = {} THEN <<>> ELSE <<Named(l, known \cup learnt, learnt)>>

Took(p) == pending' = [pending EXCEPT ![p] = {}]

(* A control connection is accepted. *)
Spawn(l) ==
  /\ l \in Connections /\ Registers(l)
  /\ UNCHANGED <<ids, connected, live, wired, addrs, cabled, pending, gone,
                 events, closing>>

(* SETUP of the session: the phone names itself. *)
DeviceInfo(l) ==
  LET own == ids[l] \cup {"bt", "wifi"}
      known == own \cup pending[PhoneOf[l]]
  IN /\ l \in alive \cap Connections /\ "wifi" \notin ids[l]
     /\ ids' = [ids EXCEPT ![l] = known]
     /\ Took(PhoneOf[l])
     /\ events' = events \o Adopted(l, own) \o <<Named(l, known, {})>>
     /\ UNCHANGED <<born, alive, connected, live, wired, addrs, cabled, gone,
                    closing>>

(* RECORD: the controller is known, and every other session of the same    *)
(* controller makes room.                                                  *)
Active(l) ==
  /\ l \in alive /\ "wifi" \in ids[l] /\ "controller" \notin ids[l]
  /\ ids' = [ids EXCEPT ![l] = @ \cup {"controller"}]
  /\ LET others == Matching(PhoneOf[l], {"controller"})
     IN CloseAll(others, wired, cabled \ others, <<>>, <<[type |-> "active", link |-> l]>>)
  /\ UNCHANGED <<born, connected, wired, addrs, pending, closing>>

(* Mutant: every main screen that is set up counts. *)
MainScreenEach(l) ==
  /\ l \in alive /\ "wifi" \in ids[l]
  /\ connected' = connected \cup {l} /\ live' = l
  /\ events' = Append(events, [type |-> "connected", link |-> l, way |-> Way(l, ids[l]),
                               facets |-> ids[l] \cap {"controller"}])
  /\ UNCHANGED <<born, alive, ids, wired, addrs, cabled, pending, gone, closing>>

(* SETUP of the main screen, counted once. *)
MainScreenReady(l) ==
  /\ l \in alive /\ "wifi" \in ids[l] /\ l \notin connected
  /\ connected' = connected \cup {l} /\ live' = l
  /\ events' = Append(events, [type |-> "connected", link |-> l, way |-> Way(l, ids[l]),
                               facets |-> ids[l] \cap {"controller"}])
  /\ UNCHANGED <<born, alive, ids, wired, addrs, cabled, pending, gone, closing>>

Ends(l) ==
  /\ CloseAll({l} \cap alive, wired, cabled, <<>>, <<>>)
  /\ UNCHANGED <<born, ids, connected, wired, addrs, pending, closing>>

(* The connection ended by itself. *)
Closed(l) == l \in alive \cap Connections /\ Ends(l)

(* The core's word is read.  For a session that is gone it means nothing.  *)
Close(l) == l \in closing \cap alive /\ Ends(l)

(* The core starts over (a new configuration of the access point). *)
DropSessions ==
  /\ CloseAll(alive, wired, cabled, <<>>, <<>>)
  /\ UNCHANGED <<born, ids, connected, wired, addrs, pending, closing>>

-----------------------------------------------------------------------------
(* Events of the helper. *)

(* The session that metadata without a session of its own goes to. *)
MetadataTarget ==
  IF live \in alive THEN live
  ELSE IF Cardinality(alive) = 1 THEN Least(alive) ELSE Nobody

(* Metadata of a phone that no session knows opens a session for it. *)
Metadata(m) ==
  LET p == PhoneOf[m]
      own == {"bt"} \cup (IF p \in wired THEN {"udid"} ELSE {})
      fallback == MetadataTarget
  IN /\ m \in Metas /\ Matching(p, {"bt"}) = {} /\ p \notin gone
     /\ fallback # Nobody => "bt" \in ids[fallback]
     /\ Registers(m)
     /\ ids' = [ids EXCEPT ![m] = own \cup pending[p]]
     /\ Took(p)
     /\ events' = events \o <<Named(m, own, own \ {"bt"})>> \o Adopted(m, own)
     /\ UNCHANGED <<connected, live, wired, addrs, cabled, gone, closing>>

(* The helper names a phone, over the cable with its UDID. *)
Device(p) ==
  \E facets \in {{"bt"}, {"bt", "udid"}} :
    LET found == Matching(p, facets)
        l == Least(found)
        known == ids[l] \cup facets
        plugged == "udid" \in facets
    IN /\ gone' = gone \ {p}
       /\ wired' = IF plugged THEN wired \cup {p} ELSE wired
       /\ cabled' = IF plugged /\ p \notin wired /\ found # {} /\ "controller" \in ids[l]
                    THEN cabled \cup {l} ELSE cabled
       /\ IF found # {}
          THEN /\ ids' = [ids EXCEPT ![l] = known]
               /\ events' = Append(events, Named(l, known, facets \ {"bt"}))
               /\ UNCHANGED pending
          ELSE pending' = [pending EXCEPT ![p] = @ \cup facets] /\ UNCHANGED <<ids, events>>
       /\ UNCHANGED <<born, alive, connected, live, addrs, closing>>

(* PENDING_MAX other phones without a session were named since this one.    *)
Crowded(p) ==
  /\ pending[p] # {} /\ Took(p)
  /\ UNCHANGED <<born, alive, ids, connected, live, wired, addrs, cabled, gone, events, closing>>

(* The phone got the start over its cable; the session of the air that was *)
(* to leave for it ends.                                                   *)
WiredStart(p) ==
  \E facets \in {{"udid"}, {"udid", "bt"}} :
    /\ addrs' = addrs \cup {p}
    /\ CloseAll(cabled \cap Matching(p, facets), wired, cabled, <<>>, <<>>)
    /\ UNCHANGED <<born, ids, connected, wired, pending, closing>>

(* The cable is pulled: the session of the air that was to leave stays. *)
DeviceGone(p) ==
  LET known == Matching(p, {"udid"})
  IN /\ wired' = wired \ {p} /\ addrs' = addrs \ {p}
     /\ CloseAll(known \ cabled, wired \ {p}, cabled \ known,
                 <<[type |-> "unplugged", phone |-> p]>>, <<>>)
     /\ pending' = IF "udid" \in pending[p] THEN [pending EXCEPT ![p] = {}] ELSE pending
     /\ UNCHANGED <<born, ids, connected, closing>>

(* A phone leaves the access point. *)
LeftWifi(p) ==
  /\ CloseAll({l \in Matching(p, {"wifi"}) : ~OnCable(l)}, wired, cabled,
              <<>>, <<[type |-> "left", phone |-> p]>>)
  /\ UNCHANGED <<born, ids, connected, wired, addrs, pending, closing>>

(* The access point is gone. *)
LinkDown ==
  /\ CloseAll({l \in alive : ~OnCable(l)}, wired, cabled, <<>>, <<>>)
  /\ pending' = [p \in Phones |-> IF "udid" \in pending[p] THEN pending[p] ELSE {}]
  /\ UNCHANGED <<born, ids, connected, wired, addrs, closing>>

CpNext ==
  /\ \/ \E l \in CpLinks : Spawn(l) \/ DeviceInfo(l) \/ Active(l) \/ MainScreenReady(l)
                           \/ Closed(l) \/ Metadata(l) \/ Close(l)
     \/ \E p \in Phones : Device(p) \/ Crowded(p) \/ WiredStart(p) \/ DeviceGone(p) \/ LeftWifi(p)
     \/ LinkDown \/ DropSessions
  /\ Len(events') <= MaxQueue
=============================================================================
