------------------------------ MODULE CpHandover ------------------------------
(***************************************************************************)
(* The CarPlay manager and the core's session table at work together: the  *)
(* manager's news wait in a queue until the core reads them, and the       *)
(* core's Close waits until the manager reads it (closing is what the core *)
(* sent, its part in alive what the manager has still to read; a second    *)
(* Close of a session means nothing).  So each acts on what the other has  *)
(* long left behind.                                                       *)
(***************************************************************************)
EXTENDS CpManager

VARIABLES sessions, nextIndex, videoOwner, duckLevel, streams,
          heard   \* how far the core has heard each session's news

coreState == <<sessions, nextIndex, videoOwner, duckLevel, streams, heard>>
vars == <<cpVars, coreState>>

(* The core's table, as Sessions describes it for the sessions of this     *)
(* manager; what a session may still say is what the core has not heard.   *)
S == INSTANCE Sessions WITH
       AaLinks <- {}, Cable <- CableLinks \cup Metas, Scenes <- {CpLinks},
       Outrun <- CpLinks, Forgettable <- {},
       life <- heard, named <- {}, forgets <- {}, bye <- "no"

Init == CpInit /\ S!Init

Listed == {sessions[i].link : i \in DOMAIN sessions}
Entries(l) == {i \in DOMAIN sessions : sessions[i].link = l}
First(X) == CHOOSE i \in X : \A j \in X : i <= j

(* The core reads the next news. *)
Presence(e) ==
  /\ S!Becomes(S!Presence(S!T, e.link, e.way,
       {PhoneOf[e.link]} \X (e.facets \ (IF e.way = "usb" THEN {"wifi"} ELSE {}))))
  /\ heard' = [heard EXCEPT ![e.link] = IF @ = "none" THEN "up" ELSE @]

BecomesActive(e) ==
  /\ IF Entries(e.link) = {} THEN S!Becomes(S!T)
     ELSE S!Becomes(S!AutoActivate(S!T, First(Entries(e.link))))
  /\ UNCHANGED heard

Connected(e) ==
  /\ S!Becomes(S!Connect(S!T, e.link, e.way, {PhoneOf[e.link]} \X e.facets))
  /\ heard' = [heard EXCEPT ![e.link] = "shown"]

Disconnected(e) ==
  /\ S!Becomes(S!CloseByLink(S!T, e.link))
  /\ heard' = [heard EXCEPT ![e.link] = "gone"]

HelperPresence(e) ==
  /\ IF e.type = "left"
     THEN S!Becomes(S!CloseOnTransport(S!T, {<<e.phone, "wifi">>}, "wifi"))
     ELSE S!Becomes(S!CloseOnTransport(S!T, {<<e.phone, "udid">>}, "usb"))
  /\ UNCHANGED heard

Reads ==
  LET e == Head(events)
  IN /\ events # <<>> /\ events' = Tail(events)
     /\ \/ e.type = "presence" /\ Presence(e)
        \/ e.type = "active" /\ BecomesActive(e)
        \/ e.type = "connected" /\ Connected(e)
        \/ e.type = "disconnected" /\ Disconnected(e)
        \/ e.type \in {"left", "unplugged"} /\ HelperPresence(e)
     /\ UNCHANGED cpState

Next == (CpNext /\ UNCHANGED coreState) \/ Reads

Spec == Init /\ [][Next]_vars

-----------------------------------------------------------------------------
TypeOK ==
  /\ born \in [CpLinks -> Nat] /\ alive \subseteq CpLinks
  /\ ids \in [CpLinks -> SUBSET CpFacets] /\ connected \subseteq CpLinks
  /\ live \in alive \cup {Nobody}
  /\ wired \subseteq Phones /\ addrs \subseteq Phones /\ cabled \subseteq CpLinks
  /\ pending \in [Phones -> SUBSET {"bt", "udid"}]
  /\ gone \subseteq Phones /\ events \in Seq(Event) /\ closing \subseteq CpLinks

(* The start is repeated for the sessions that are to leave for the cable:  *)
(* each of them runs, its phone is on the cable, and a pulled cable finds   *)
(* it, in whatever order the helper's reports, the phone's sessions and     *)
(* their ends came.                                                         *)
LeavingIsOnCable ==
  \A l \in cabled :
    l \in alive /\ PhoneOf[l] \in wired /\ {"udid", "controller"} \subseteq ids[l]

(* What the core's table promises does not depend on how late the news and *)
(* the commands come: every run of the two is one of Sessions.  (S!Spec;   *)
(* the manager's steps, which Sessions does not see, are told apart first.) *)
SeesNothing == UNCHANGED <<coreState, closing>>
RefinesSessions == S!Init /\ [][SeesNothing \/ S!Next]_(S!vars)

(* The core hears of each end, after all else it hears of the session: of  *)
(* one that ended and whose end it has not read the news is on its way,    *)
(* and nothing about the session comes behind it, however the manager came *)
(* to end it (by itself, superseded, left, unplugged, told to close).      *)
EndsAreTold ==
  \A l \in CpLinks : born[l] # 0 /\ l \notin alive /\ heard[l] # "gone" =>
    \E i \in DOMAIN events :
      /\ events[i].type = "disconnected" /\ events[i].link = l
      /\ \A j \in DOMAIN events :
           j > i => events[j].type \in {"left", "unplugged"} \/ events[j].link # l

AtRest == events = <<>> /\ closing \cap alive = {}

(* Once everything sent has been read, the two agree: the table lists      *)
(* every session that named its phone, and no phone has two of them.       *)
AgreeAtRest ==
  AtRest =>
    /\ Listed \cap alive = {l \in alive : ids[l] # {}}
    /\ \A l, k \in Listed \cap alive : PhoneOf[l] = PhoneOf[k] => l = k

(* README: "live switching between connected phones" - once everything     *)
(* sent has been read, each entry the user can switch to is of a session   *)
(* that runs.                                                              *)
NoGhosts == AtRest => Listed \subseteq alive

=============================================================================
