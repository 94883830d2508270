------------------------------ MODULE Screens ------------------------------
(***************************************************************************)
(* What is in front on the main screen.  The core decides                  *)
(* (livi-core/src/projection/screens.rs): a reversing camera, else a phone *)
(* that wants attention for a call or its assistant, else what the UI      *)
(* asked for.  The UI is a process of its own (livi-ui): it follows what   *)
(* the core publishes by changing its page, and reports every page it      *)
(* shows back to the core.  Patches of the core's state and the UI's       *)
(* requests cross on a socket; the core keeps only the last request.       *)
(***************************************************************************)
EXTENDS Integers, Sequences

CONSTANTS CpPhones,   \* iPhones, which report calls and Siri in their session
          AaPhones,   \* Android phones, whose calls the Bluetooth helper reports
          MaxHasty,   \* bound: how often phones, camera and user do something,
          MaxPatient  \* and how often when they wait for UI and core to be at rest

Phones == CpPhones \cup AaPhones
NoPhone == "none"

ASSUME ScreensAssumption ==
  /\ CpPhones \cap AaPhones = {} /\ NoPhone \notin Phones
  /\ MaxHasty \in Nat /\ MaxPatient \in Nat

Front == {"projection", "livi", "cluster", "camera"}
Kinds == {"call", "siri"}
Quiet == [kind |-> "none", back |-> "livi"]     \* no phone wants attention
Attention == {Quiet} \cup [kind : Kinds, back : Front]

(* Pages of the UI, and what the UI asks for when it shows them. *)
Asks == [media |-> "livi", map |-> "cluster", camera |-> "camera",
         projection |-> "projection"]
Pages == DOMAIN Asks

VARIABLES connected, video, front,    \* phones, those that stream, the one in front
          calls,                      \* {<<phone, kind>>}: calls and assistants going on
          sco,                        \* the phone whose call the helper reported
          camera,                     \* is the reversing camera in front?
          wants, asked, attention,    \* the core's projection
          shown,                      \* the front in the core's published state
          toUi, toCore, watch, dirty, \* patches, requests, the last request, is it new?
          page,                       \* the UI
          patient,                    \* do phones and user wait in this run?
          left                        \* events left

phone == <<connected, video, front>>
core == <<wants, asked, attention>>
requests == <<toCore, watch, dirty>>
vars == <<connected, video, front, calls, sco, camera, wants, asked, attention,
          shown, toUi, toCore, watch, dirty, page, patient, left>>

FrontMain ==
  LET wanted == IF attention # Quiet THEN "projection" ELSE wants
  IN IF camera THEN "camera"
     ELSE IF wanted # "projection" THEN wanted
     ELSE IF front \in video THEN "projection" ELSE "livi"

(* The core publishes; only a change goes out as a patch. *)
Publish ==
  /\ shown' = FrontMain'
  /\ toUi' = IF shown' = shown THEN toUi ELSE Append(toUi, shown')

AtRest == toUi = <<>> /\ toCore = <<>> /\ ~dirty

(* Something from outside happens. *)
Event == left > 0 /\ left' = left - 1 /\ UNCHANGED patient /\ (patient => AtRest)

Init ==
  /\ connected = {} /\ video = {} /\ front = NoPhone /\ calls = {} /\ sco = NoPhone
  /\ camera = FALSE /\ wants = "livi" /\ asked = "livi" /\ attention = Quiet
  /\ shown = "livi" /\ toUi = <<>> /\ toCore = <<>> /\ watch = "livi" /\ dirty = FALSE
  /\ page = "media" /\ patient \in BOOLEAN
  /\ left = IF patient THEN MaxPatient ELSE MaxHasty

(***************************************************************************)
(* The session table, as far as the screen depends on it.  Another phone   *)
(* in front ends the attention.                                            *)
(***************************************************************************)
(* Mutant: the attention of the phone that was in front stays. *)
InFrontKeeps(p) == front' = p /\ UNCHANGED attention

InFront(p) ==
  /\ front' = p
  /\ attention' = IF p = front THEN attention ELSE Quiet

Connects(p) ==
  /\ p \notin connected /\ Event
  /\ connected' = connected \cup {p}
  /\ InFront(IF front = NoPhone THEN p ELSE front)
  /\ UNCHANGED <<video, calls, sco, camera, wants, asked, requests, page>>
  /\ Publish

Streams(p) ==
  /\ p \in connected \ video /\ Event
  /\ video' = video \cup {p}
  /\ UNCHANGED <<connected, front, calls, sco, camera, core, requests, page>>
  /\ IF p = front THEN Publish ELSE UNCHANGED <<shown, toUi>>

Leaves(p) ==
  /\ p \in connected /\ Event
  /\ connected' = connected \ {p} /\ video' = video \ {p}
  /\ calls' = {c \in calls : c[1] # p}
  /\ \E next \in IF p # front THEN {front}
                 ELSE IF connected' = {} THEN {NoPhone} ELSE connected' : InFront(next)
  /\ UNCHANGED <<sco, camera, wants, asked, requests, page>>
  /\ Publish

Selects(p) ==
  /\ p \in connected \ {front} /\ Event
  /\ InFront(p)
  /\ UNCHANGED <<connected, video, calls, sco, camera, wants, asked, requests, page>>
  /\ Publish

(***************************************************************************)
(* Attention: the projection comes forward and goes back to where it was.  *)
(***************************************************************************)
Attend(kind, active) ==
  \/ /\ active /\ FrontMain = "projection"
     /\ attention' = IF attention = Quiet THEN Quiet ELSE [attention EXCEPT !.kind = kind]
     /\ UNCHANGED <<wants, shown, toUi>>
  \/ /\ active /\ FrontMain # "projection"
     /\ attention' = [kind |-> kind, back |-> wants] /\ UNCHANGED wants
     /\ Publish
  \/ /\ ~active /\ attention.kind = kind
     /\ attention' = Quiet /\ wants' = attention.back
     /\ Publish
  \/ /\ ~active /\ attention.kind # kind
     /\ UNCHANGED <<attention, wants, shown, toUi>>

(* An iPhone's call (its phases and its audio) or Siri starts, goes on or  *)
(* ends; only the phone in front is heard.                                 *)
Reports(p, kind, active) ==
  /\ p \in connected /\ Event
  /\ active \/ <<p, kind>> \in calls
  /\ calls' = IF active THEN calls \cup {<<p, kind>>} ELSE calls \ {<<p, kind>>}
  /\ UNCHANGED <<phone, sco, camera, asked, requests, page>>
  /\ IF p = front THEN Attend(kind, active)
                  ELSE UNCHANGED <<attention, wants, shown, toUi>>

(* The helper hears the call audio of an Android phone start or end. *)
CallAudio(p) ==
  /\ sco \in {NoPhone, p} /\ Event
  /\ sco' = IF sco = NoPhone THEN p ELSE NoPhone
  /\ UNCHANGED <<phone, calls, camera, asked, requests, page>>
  /\ Attend("call", sco = NoPhone)

(* Mutant: nobody is told. *)
HostUiSilently ==
  /\ front # NoPhone /\ Event
  /\ attention' = Quiet
  /\ wants' = IF wants = "projection" THEN "livi" ELSE wants
  /\ UNCHANGED <<phone, calls, sco, camera, asked, requests, page, shown, toUi>>

(* The phone in front asks for the car's own UI. *)
HostUi ==
  /\ front # NoPhone /\ Event
  /\ attention' = Quiet
  /\ wants' = IF wants = "projection" THEN "livi" ELSE wants
  /\ UNCHANGED <<phone, calls, sco, camera, asked, requests, page>>
  /\ Publish

(* Reverse gear, or the camera itself, comes or goes. *)
CameraFollows ==
  /\ Event
  /\ camera' = ~camera
  /\ UNCHANGED <<phone, calls, sco, core, requests, page>>
  /\ Publish

(***************************************************************************)
(* The UI and the way back to the core.                                    *)
(***************************************************************************)
Choose(p) == page' = p /\ toCore' = Append(toCore, Asks[p])

UserChooses(p) ==
  /\ Event
  /\ Choose(p)
  /\ UNCHANGED <<phone, calls, sco, camera, core, shown, toUi, watch, dirty>>

(* Mutants: the page the UI leaves is reported; the camera page stays. *)
UiReportsTheOldPage ==
  /\ toUi # <<>>
  /\ toUi' = Tail(toUi)
  /\ IF (Head(toUi) = "projection") = (page = "projection")
     THEN UNCHANGED <<page, toCore>>
     ELSE /\ page' = IF page = "projection" THEN "media" ELSE "projection"
          /\ toCore' = Append(toCore, Asks[page])
  /\ UNCHANGED <<phone, calls, sco, camera, core, shown, watch, dirty, patient, left>>

UiStaysWithTheCamera ==
  /\ toUi # <<>>
  /\ toUi' = Tail(toUi)
  /\ IF page = "camera" \/ (Head(toUi) = "projection") = (page = "projection")
     THEN UNCHANGED <<page, toCore>>
     ELSE Choose(IF page = "projection" THEN "media" ELSE "projection")
  /\ UNCHANGED <<phone, calls, sco, camera, core, shown, watch, dirty, patient, left>>

UiFollows ==
  /\ toUi # <<>>
  /\ toUi' = Tail(toUi)
  /\ IF (Head(toUi) = "projection") = (page = "projection")
     THEN UNCHANGED <<page, toCore>>
     ELSE Choose(IF page = "projection" THEN "media" ELSE "projection")
  /\ UNCHANGED <<phone, calls, sco, camera, core, shown, watch, dirty, patient, left>>

(* The server keeps the last request for the core. *)
Relay ==
  /\ toCore # <<>>
  /\ toCore' = Tail(toCore) /\ watch' = Head(toCore) /\ dirty' = TRUE
  /\ UNCHANGED <<phone, calls, sco, camera, core, shown, toUi, page, patient, left>>

(* What the core makes of the last request: nothing, if it repeats the one *)
(* before; while the camera is in front it is only remembered.             *)
Asked ==
  /\ dirty /\ dirty' = FALSE
  /\ asked' = watch
  /\ LET new == watch # asked /\ ~camera
     IN /\ wants' = IF new THEN watch ELSE wants
        /\ attention' = IF new /\ watch # "projection" THEN Quiet ELSE attention
  /\ UNCHANGED <<phone, calls, sco, camera, toCore, watch, page, patient, left>>
  /\ Publish

Next ==
  \/ \E p \in Phones : Connects(p) \/ Streams(p) \/ Leaves(p) \/ Selects(p)
  \/ \E p \in CpPhones, kind \in Kinds, active \in BOOLEAN : Reports(p, kind, active)
  \/ \E p \in AaPhones : CallAudio(p)
  \/ \E p \in Pages : UserChooses(p)
  \/ HostUi \/ CameraFollows
  \/ UiFollows \/ Relay \/ Asked

(* Messages on a socket arrive, and the core's loop takes its turns at     *)
(* random between its channels.                                            *)
Fairness == WF_vars(UiFollows) /\ WF_vars(Relay) /\ WF_vars(Asked)
Spec == Init /\ [][Next]_vars /\ Fairness

-----------------------------------------------------------------------------
TypeOK ==
  /\ connected \subseteq Phones /\ video \subseteq connected
  /\ front \in connected \cup {NoPhone}
  /\ calls \subseteq CpPhones \X Kinds /\ sco \in AaPhones \cup {NoPhone}
  /\ camera \in BOOLEAN /\ dirty \in BOOLEAN
  /\ {wants, asked, shown, watch} \subseteq Front /\ attention \in Attention
  /\ toUi \in Seq(Front) /\ toCore \in Seq(Front)
  /\ page \in Pages /\ patient \in BOOLEAN /\ left \in Nat

(* The published front is always the one the core's state calls for: no    *)
(* handler changes what is wanted, the attention, the phone in front or    *)
(* the camera without telling the displays.                                *)
ShownIsFrontMain == shown = FrontMain

(* No attention outlives its cause: what brought the projection forward is *)
(* a call or an assistant of the phone in front, or a call the helper      *)
(* reported, and it still goes on.                                         *)
AttentionHasCause ==
  attention # Quiet => \/ <<front, attention.kind>> \in calls
                       \/ attention.kind = "call" /\ sco # NoPhone

(* When nothing happens before UI and core are at rest, the page is then   *)
(* the projection's whenever the projection is in front: its video is      *)
(* never hidden behind another page.                                       *)
AgreeAtRest == patient /\ AtRest /\ shown = "projection" => page = "projection"

(* What the UI asks for in answer to a change of the core's front does not *)
(* go round and round: after a single change, UI and core come to rest.    *)
Settles == patient => []<>AtRest

(* Nor does it after several: the last request wins. *)
LastRequestWins == []<>AtRest
=============================================================================
