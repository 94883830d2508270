------------------------------ MODULE Sessions ------------------------------
(***************************************************************************)
(* The session table of LIVI's core (livi-core/src/projection.rs and       *)
(* projection/sessions.rs): one entry per projected phone, fed by the      *)
(* events of the CarPlay manager and of the Android Auto manager, which    *)
(* run as tasks of their own.                                              *)
(*                                                                         *)
(* The vector of entries is kept here as a function from an entry's index  *)
(* to the entry.  Entries are pushed with growing indexes and the counter  *)
(* starts over only when the vector is empty, so the order of the vector   *)
(* is the order of the indexes, and "the first entry that ..." of the code *)
(* is the one of least index.                                              *)
(*                                                                         *)
(* A phone's identifiers (Bluetooth and Wi-Fi address, UDID, serial,       *)
(* instance, controller) are pairs <<phone, facet>>.  A facet has one      *)
(* value per phone, so two sets of identifiers overlap when they share a   *)
(* pair, and merging them is their union.                                  *)
(***************************************************************************)
EXTENDS Integers, FiniteSets

CONSTANTS CpLinks,   \* session ids the CarPlay manager hands out
          AaLinks,   \* session ids the Android Auto manager hands out
          Phones,
          PhoneOf,   \* the phone a session runs with
          Cable,     \* the sessions that run over USB
          Scenes,    \* bound: which sessions come in one run
          Outrun,    \* the CarPlay sessions whose Connected may be read after
                     \* another session of the phone took their entry
          Forgettable \* bound: sessions whose device the user may remove

Links == CpLinks \cup AaLinks

ASSUME LinksAssumption ==
  /\ CpLinks \cap AaLinks = {}
  /\ PhoneOf \in [Links -> Phones]
  /\ Cable \subseteq Links /\ Scenes \subseteq SUBSET Links
  /\ Outrun \subseteq CpLinks /\ Forgettable \subseteq Links

NoLink == "none"
ASSUME NoLinkAssumption == NoLink \notin Links

Facets == {"bt", "wifi", "udid", "serial", "instance", "controller"}
Ids == Phones \X Facets
Id(l, facets) == {PhoneOf[l]} \X facets

Transport(l) == IF l \in Cable THEN "usb" ELSE "wifi"
Duck == {"full", "quiet"}   \* the level media plays at while the phone speaks

Entry == [link : Links, transport : {"usb", "wifi"}, device : SUBSET Ids,
          active : BOOLEAN, video : BOOLEAN, duck : Duck]

VARIABLES sessions,     \* index -> entry
          nextIndex,
          videoOwner,   \* the link that was last told to stream
          duckLevel,    \* the level the core applies to media
          streams,      \* links whose last VideoActive was true
          closing,      \* links told Close or PowerDown
          bye,          \* "no", "asked" or "answered"
          forgets,      \* links to close when the grace time of a forgotten device is over
          life,         \* how far each link's manager has come with its events
          named         \* Android phones whose Bluetooth address and serial are known

table == <<sessions, nextIndex, videoOwner, duckLevel, streams, closing>>
vars == <<sessions, nextIndex, videoOwner, duckLevel, streams, closing,
          bye, forgets, life, named>>

(***************************************************************************)
(* The table as a value, for the methods that work on it.                  *)
(***************************************************************************)
T == [sessions |-> sessions, next |-> nextIndex, owner |-> videoOwner,
      duck |-> duckLevel, streams |-> streams, closing |-> closing]

Becomes(t) ==
  /\ sessions' = t.sessions /\ nextIndex' = t.next /\ videoOwner' = t.owner
  /\ duckLevel' = t.duck /\ streams' = t.streams /\ closing' = t.closing

NoSessions == [i \in {} |-> NoLink]

First(S) == CHOOSE i \in S : \A j \in S : i <= j

Indexes(t) == DOMAIN t.sessions
Active(t) == {i \in Indexes(t) : t.sessions[i].active}
ByLink(t, l) == {i \in Indexes(t) : t.sessions[i].link = l}
ByIdentity(t, ids) == {i \in Indexes(t) : t.sessions[i].device \cap ids # {}}

ActiveLink(t) ==
  IF Active(t) = {} THEN NoLink ELSE t.sessions[First(Active(t))].link
IsActive(t, l) == l # NoLink /\ ActiveLink(t) = l

Told(t, l) == [t EXCEPT !.closing = @ \cup {l}]

(* Mutant: the old owner is not stopped. *)
ChangedKeepsOld(t) ==
  [t EXCEPT !.streams = @ \cup ({ActiveLink(t)} \ {NoLink}), !.owner = ActiveLink(t)]

(* A new owner of the video: the old one stops streaming, the new one starts. *)
Changed(t) ==
  LET owner == ActiveLink(t)
  IN IF owner = t.owner THEN t
     ELSE [t EXCEPT !.streams = (@ \ {t.owner}) \cup ({owner} \ {NoLink}),
                    !.owner = owner]

(* The level of the new entry in front, unless nothing was in front before. *)
DuckOf(t, i, hadPrev) == IF hadPrev THEN t.sessions[i].duck ELSE "full"

(* Mutant: the entry that was in front is left there. *)
ActivateKeepsPrev(t, i) ==
  IF i \notin Indexes(t) THEN t
  ELSE Changed([t EXCEPT !.sessions[i].active = TRUE, !.duck = t.sessions[i].duck])

Activate(t, i) ==
  IF i \notin Indexes(t) \/ i \in Active(t) THEN t
  ELSE LET prev == Active(t)
       IN Changed([t EXCEPT
            !.sessions = [j \in Indexes(t) |-> [t.sessions[j] EXCEPT !.active =
                            j = i \/ (@ /\ j # First(prev))]],
            !.duck = DuckOf(t, i, prev # {})])

AutoActivate(t, i) == IF Active(t) = {} THEN Activate(t, i) ELSE t

ActivateNext(t) ==
  IF Cardinality(Indexes(t)) <= 1 THEN t
  ELSE LET after == {i \in Indexes(t) : \A a \in Active(t) : i > a}
       IN Activate(t, First(IF Active(t) = {} \/ after = {} THEN Indexes(t) ELSE after))

(* A wireless connection does not take the entry of a wired one. *)
StealsWired(t, l, transport, ids) ==
  /\ ByIdentity(t, ids) # {}
  /\ LET s == t.sessions[First(ByIdentity(t, ids))]
     IN s.link # l /\ s.transport = "usb" /\ transport # "usb"

(* Mutant: an entry is only found by its identifiers. *)
FoundByIdentityOnly(t, l, transport, ids) ==
  IF StealsWired(t, l, transport, ids) THEN {} ELSE ByIdentity(t, ids)

Found(t, l, transport, ids) ==
  IF ByIdentity(t, ids) # {} /\ ~StealsWired(t, l, transport, ids)
  THEN ByIdentity(t, ids) ELSE ByLink(t, l)

(* The index that upsert returns. *)
EntryFor(t, l, transport, ids) ==
  IF Found(t, l, transport, ids) = {} THEN t.next ELSE First(Found(t, l, transport, ids))

(* Mutant: the superseded link is not closed. *)
UpdateSilently(t, i, l, transport, ids) ==
  LET s == t.sessions[i]
      supersedes == s.link # l /\ transport = "usb" /\ s.transport # "usb"
  IN [t EXCEPT !.sessions[i] =
        [s EXCEPT !.link = IF supersedes THEN l ELSE @,
                  !.transport = transport, !.device = @ \cup ids]]

Update(t, i, l, transport, ids) ==
  LET s == t.sessions[i]
      supersedes == s.link # l /\ transport = "usb" /\ s.transport # "usb"
      kept == [t EXCEPT !.sessions[i] =
                 [s EXCEPT !.link = IF supersedes THEN l ELSE @,
                           !.transport = transport, !.device = @ \cup ids]]
  IN IF supersedes THEN Told(kept, s.link) ELSE kept

Push(t, l, transport, ids) ==
  LET new == [link |-> l, transport |-> transport, device |-> ids,
              active |-> FALSE, video |-> FALSE, duck |-> "full"]
  IN [t EXCEPT !.sessions = [i \in Indexes(t) \cup {t.next} |->
                               IF i = t.next THEN new ELSE t.sessions[i]],
               !.next = @ + 1]

Upsert(t, l, transport, ids) ==
  Changed(IF Found(t, l, transport, ids) = {} THEN Push(t, l, transport, ids)
          ELSE Update(t, EntryFor(t, l, transport, ids), l, transport, ids))

(* What a manager's news of a phone does: its entry, in front if nothing is. *)
Connect(t, l, transport, ids) ==
  AutoActivate(Upsert(t, l, transport, ids), EntryFor(t, l, transport, ids))

(* Mutant: the link that held the entry is not closed. *)
TakeOverSilently(t, l, ids) ==
  IF ByIdentity(t, ids) = {} THEN t
  ELSE Changed([t EXCEPT !.sessions[First(ByIdentity(t, ids))].link = l])

(* A CarPlay connection takes the entry its identifiers lead to, and the   *)
(* link that held it before is closed.                                     *)
TakeOver(t, l, ids) ==
  LET i == First(ByIdentity(t, ids))
  IN IF ByIdentity(t, ids) = {} \/ t.sessions[i].link = l THEN t
     ELSE Changed(Told([t EXCEPT !.sessions[i].link = l], t.sessions[i].link))

Presence(t, l, transport, ids) == Connect(TakeOver(t, l, ids), l, transport, ids)

CloseByLink(t, l) ==
  IF ByLink(t, l) = {} THEN t
  ELSE LET gone == First(ByLink(t, l))
           left == [i \in Indexes(t) \ {gone} |-> t.sessions[i]]
           idle == {i \in DOMAIN left : ~left[i].active}
           up == First(idle)
           rest == [t EXCEPT !.sessions = left,
                             !.next = IF DOMAIN left = {} THEN 1 ELSE @]
       IN Changed(IF ~t.sessions[gone].active THEN rest
                  ELSE IF idle = {} THEN [rest EXCEPT !.duck = "full"]
                  ELSE [rest EXCEPT !.sessions = [left EXCEPT ![up].active = TRUE],
                                    !.duck = left[up].duck])

CloseOnTransport(t, ids, transport) ==
  LET i == First(ByIdentity(t, ids))
  IN IF ByIdentity(t, ids) # {} /\ t.sessions[i].transport = transport
     THEN Told(t, t.sessions[i].link) ELSE t

VideoUp(t, l) ==
  IF ByLink(t, l) = {} THEN t
  ELSE [t EXCEPT !.sessions[First(ByLink(t, l))].video = TRUE]

(* Mutant: a session behind ducks the media of the one in front. *)
OnDuckAnyone(t, l, level) ==
  IF ByLink(t, l) = {} THEN t
  ELSE [t EXCEPT !.sessions[First(ByLink(t, l))].duck = level, !.duck = level]

OnDuck(t, l, level) ==
  IF ByLink(t, l) = {} THEN t
  ELSE [t EXCEPT !.sessions[First(ByLink(t, l))].duck = level,
                 !.duck = IF IsActive(t, l) THEN level ELSE @]

-----------------------------------------------------------------------------
Init ==
  /\ sessions = NoSessions /\ nextIndex = 1 /\ videoOwner = NoLink
  /\ duckLevel = "full" /\ streams = {} /\ closing = {}
  /\ bye = "no" /\ forgets = {}
  /\ \E scene \in Scenes : life = [l \in Links |-> IF l \in scene THEN "none" ELSE "gone"]
  /\ named = {}

(* News of a session may come late: it is read while the Close that the    *)
(* core sent still waits in the manager's queue.                           *)
Lives(l, from, to) == life[l] \in from /\ life' = [life EXCEPT ![l] = to]

(* A session of the cable counts as one of the air once the helper withdrew *)
(* the cable's address.                                                    *)
Ways(l) == {Transport(l), "wifi"}

(***************************************************************************)
(* Events of the CarPlay manager.  It names a session's phone (SETUP)      *)
(* before it announces the codec and the connection (stream SETUP), and    *)
(* may name it again whenever the helper hears of the phone, also on a     *)
(* session of the air after the cable was plugged in (the UDID).           *)
(***************************************************************************)
CpPresence(l) ==
  \E way \in Ways(l), more \in SUBSET {"udid", "wifi"} :
    /\ way = "usb" => "wifi" \notin more
    /\ Lives(l, {"none", "up"}, "up") \/ Lives(l, {"shown"}, "shown")
    /\ Becomes(Presence(T, l, way, Id(l, {"bt"} \cup more)))
    /\ UNCHANGED <<bye, forgets, named>>

CpActive(l) ==
  /\ Lives(l, {"up"}, "up") \/ Lives(l, {"shown"}, "shown")
  /\ ByLink(T, l) # {}
  /\ Becomes(AutoActivate(T, First(ByLink(T, l))))
  /\ UNCHANGED <<bye, forgets, named>>

CpConnected(l) ==
  \E way \in Ways(l), ids \in {{}, Id(l, {"controller"})} :
    /\ Lives(l, {"up"}, "shown")
    /\ ByLink(T, l) = {} => l \in Outrun
    /\ Becomes(Connect(T, l, way, ids))
    /\ UNCHANGED <<bye, forgets, named>>

(***************************************************************************)
(* Events of the Android Auto manager: the session's driver names the      *)
(* phone, announces the codec, then the connection.  The helper may have   *)
(* named the phone's Bluetooth address and serial before.                  *)
(***************************************************************************)
AaHelperNames(p) ==
  /\ p \notin named
  /\ \E l \in AaLinks : PhoneOf[l] = p
  /\ named' = named \cup {p}
  /\ UNCHANGED <<table, bye, forgets, life>>

AaIds(l) ==
  Id(l, {"instance"} \cup (IF l \in Cable THEN {"serial"} ELSE {})
        \cup (IF PhoneOf[l] \notin named THEN {}
              ELSE IF l \in Cable THEN {"serial"} ELSE {"bt", "serial"}))

AaDevice(l) ==
  /\ Lives(l, {"none"}, "up")
  /\ Becomes(Connect(T, l, Transport(l), AaIds(l)))
  /\ UNCHANGED <<bye, forgets, named>>

AaConnected(l) ==
  /\ Lives(l, {"up"}, "shown")
  /\ Becomes(Connect(T, l, Transport(l), IF l \in Cable THEN Id(l, {"serial"}) ELSE {}))
  /\ UNCHANGED <<bye, forgets, named>>

(* Events both managers have. *)
VideoCodec(l) ==
  /\ Lives(l, {"up"}, "up") \/ Lives(l, {"shown"}, "shown")
  /\ Becomes(VideoUp(T, l))
  /\ UNCHANGED <<bye, forgets, named>>

Ducks(l, level) ==
  /\ Lives(l, {"shown"}, "shown")
  /\ Becomes(OnDuck(T, l, level))
  /\ UNCHANGED <<bye, forgets, named>>

Disconnected(l) ==
  /\ Lives(l, {"none", "up", "shown"}, "gone")
  /\ Becomes(CloseByLink(T, l))
  /\ bye' = IF bye = "asked" /\ ByLink(T, l) # {} /\ DOMAIN sessions' = {}
            THEN "answered" ELSE bye
  /\ UNCHANGED <<forgets, named>>

(* The helper saw a phone leave the access point or the cable. *)
TransportGone(p) ==
  /\ \/ Becomes(CloseOnTransport(T, {<<p, "wifi">>}, "wifi"))
     \/ Becomes(CloseOnTransport(T, {<<p, "udid">>}, "usb"))
  /\ UNCHANGED <<bye, forgets, life, named>>

(* What the user asks.  The registry keeps all of a device's identifiers   *)
(* but the controller's.                                                   *)
KnownOf(p) == {p} \X (Facets \ {"controller"})

NextDevice ==
  /\ Becomes(ActivateNext(T))
  /\ UNCHANGED <<bye, forgets, life, named>>

SelectDevice(p) ==
  LET found == ByIdentity(T, KnownOf(p))
  IN /\ found # {}
     /\ Becomes(Activate(T, First(found)))
     /\ UNCHANGED <<bye, forgets, life, named>>

ForgetDevice(p) ==
  LET found == ByIdentity(T, KnownOf(p))
  IN /\ found # {} /\ sessions[First(found)].link \in Forgettable
     /\ forgets' = forgets \cup {sessions[First(found)].link}
     /\ UNCHANGED <<table, bye, life, named>>

ForgetGraceOver ==
  \E l \in forgets :
    /\ forgets' = forgets \ {l}
    /\ Becomes(Told(T, l))
    /\ UNCHANGED <<bye, life, named>>

Goodbye ==
  /\ bye = "no"
  /\ bye' = IF DOMAIN sessions = {} THEN "answered" ELSE "asked"
  /\ closing' = closing \cup {sessions[i].link : i \in DOMAIN sessions}
  /\ UNCHANGED <<sessions, nextIndex, videoOwner, duckLevel, streams, forgets, life, named>>

Next ==
  \/ \E l \in CpLinks : CpPresence(l) \/ CpActive(l) \/ CpConnected(l)
  \/ \E p \in Phones : AaHelperNames(p)
  \/ \E l \in AaLinks : AaDevice(l) \/ AaConnected(l)
  \/ \E l \in Links : VideoCodec(l) \/ (\E d \in Duck : Ducks(l, d)) \/ Disconnected(l)
  \/ \E p \in Phones : TransportGone(p) \/ SelectDevice(p) \/ ForgetDevice(p)
  \/ NextDevice \/ ForgetGraceOver \/ Goodbye

Spec == Init /\ [][Next]_vars

-----------------------------------------------------------------------------
TypeOK ==
  /\ DOMAIN sessions \subseteq Nat \ {0}
  /\ sessions \in [DOMAIN sessions -> Entry]
  /\ nextIndex \in Nat \ {0}
  /\ videoOwner \in Links \cup {NoLink}
  /\ duckLevel \in Duck
  /\ streams \subseteq Links /\ closing \subseteq Links
  /\ bye \in {"no", "asked", "answered"}
  /\ forgets \subseteq Links
  /\ life \in [Links -> {"none", "up", "shown", "gone"}]
  /\ named \subseteq Phones

(* Whenever a phone is connected, one session and no other is in front:    *)
(* the end of a session, a handover and a switch never leave none or two.  *)
OneInFront ==
  /\ \A i, j \in Active(T) : i = j
  /\ DOMAIN sessions # {} => Active(T) # {}

(* Only the phone in front sends video: of all the links that were ever    *)
(* told to stream, exactly the one of the entry in front was not told to   *)
(* stop, also after its link was replaced under it.                        *)
OnlyTheFrontStreams == streams = {ActiveLink(T)} \ {NoLink}

(* No session of its phone is outrun.                                      *)
Clear(l) == \A k \in Outrun : PhoneOf[k] # PhoneOf[l]

(* Media plays at the level the session in front asked for, whatever other *)
(* sessions asked for while they were behind.                              *)
DuckFollowsFront ==
  IF Active(T) = {} THEN duckLevel = "full"
  ELSE Clear(ActiveLink(T)) => duckLevel = sessions[First(Active(T))].duck

(* A manager's session has at most one entry, and an entry always stands   *)
(* for a session that still runs: a session that ended leaves no entry     *)
(* behind that nothing would ever remove.  Only an outrun Connected can    *)
(* break that, and only for its own phone.                                 *)
NoGhosts ==
  \A i \in DOMAIN sessions : Clear(sessions[i].link) =>
    /\ \A j \in DOMAIN sessions : sessions[i].link = sessions[j].link => i = j
    /\ life[sessions[i].link] \in {"up", "shown"}

(* A connection that was announced and not told to close is in the table:  *)
(* the user can switch to it and forget it.                                *)
AnnouncedIsListed ==
  \A l \in Links :
    Clear(l) /\ life[l] = "shown" /\ l \notin closing => ByLink(T, l) # {}

(* Removing a device ends its session: once the grace time is over, no     *)
(* entry of that phone runs on without having been told to close.          *)
ForgottenEnds ==
  [][\A l \in forgets \ forgets', i \in DOMAIN sessions :
        PhoneOf[sessions[i].link] = PhoneOf[l] => sessions[i].link \in closing']_vars
=============================================================================
