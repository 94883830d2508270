--------------------------- MODULE ScreensProofs ---------------------------
(***************************************************************************)
(* For any phones, and however requests and patches race: what the core    *)
(* publishes is what its state calls for, and no attention outlives the    *)
(* call or the assistant that asked for it.                                *)
(***************************************************************************)
EXTENDS Screens, TLAPS

IInv == TypeOK /\ ShownIsFrontMain /\ AttentionHasCause

(* Publishing keeps the published front and the patches in order.          *)
LEMMA PublishInv ==
  ASSUME TypeOK, Publish, FrontMain' \in Front
  PROVE  ShownIsFrontMain' /\ shown' \in Front /\ toUi' \in Seq(Front)
BY DEF TypeOK, Publish, ShownIsFrontMain

LEMMA FrontMainType ==
  ASSUME wants \in Front, attention \in Attention
  PROVE  FrontMain \in Front
BY DEF FrontMain, Front

(* The attention after an event of a phone in front or of the helper.      *)
LEMMA AttendInv ==
  ASSUME IInv, NEW kind \in Kinds, NEW active \in BOOLEAN, Attend(kind, active),
         UNCHANGED <<phone, camera>>
  PROVE  /\ wants' \in Front /\ attention' \in Attention
         /\ ShownIsFrontMain' /\ shown' \in Front /\ toUi' \in Seq(Front)
         /\ attention' # Quiet =>
              \/ active /\ attention'.kind = kind
              \/ attention' = attention /\ (active \/ attention.kind # kind)
<1>1. wants' \in Front /\ attention' \in Attention
  BY DEF IInv, TypeOK, Attend, Attention, Quiet, Front
<1>2. FrontMain' \in Front
  BY <1>1 DEF FrontMain, Front, Attention
<1>3. CASE active /\ FrontMain = "projection" /\ UNCHANGED <<wants, shown, toUi>>
           /\ attention' = (IF attention = Quiet THEN Quiet ELSE [attention EXCEPT !.kind = kind])
  <2>1. attention' # Quiet <=> attention # Quiet
    BY <1>3 DEF IInv, TypeOK, Attention, Quiet, Kinds
  <2>2. FrontMain' = FrontMain
    BY <1>3, <2>1 DEF FrontMain, phone
  <2>3. attention' # Quiet => attention'.kind = kind
    BY <1>3, <2>1 DEF IInv, TypeOK, Attention, Quiet
  <2> QED BY <1>1, <1>3, <2>2, <2>3 DEF IInv, TypeOK, ShownIsFrontMain
<1>4. CASE active /\ attention' = [kind |-> kind, back |-> wants] /\ UNCHANGED wants /\ Publish
  BY <1>1, <1>2, <1>4, PublishInv DEF IInv
<1>5. CASE ~active /\ attention' = Quiet /\ Publish
  BY <1>1, <1>2, <1>5, PublishInv DEF IInv
<1>6. CASE ~active /\ attention.kind # kind /\ UNCHANGED <<attention, wants, shown, toUi>>
  <2>1. FrontMain' = FrontMain
    BY <1>6 DEF FrontMain, phone
  <2> QED BY <1>1, <1>6, <2>1 DEF IInv, TypeOK, ShownIsFrontMain
<1> QED BY <1>3, <1>4, <1>5, <1>6 DEF Attend

LEMMA InitIInv == Init => IInv
<1> SUFFICES ASSUME Init PROVE IInv
  OBVIOUS
<1> USE DEF Init
<1>1. "media" \in Pages /\ "livi" \in Front
  BY DEF Pages, Asks, Front
<1>2. patient \in BOOLEAN /\ left \in Nat
  BY ScreensAssumption
<1>3. toUi \in Seq(Front) /\ toCore \in Seq(Front)
  OBVIOUS
<1>4. attention \in Attention
  BY DEF Attention
<1>5. {wants, asked, shown, watch} \subseteq Front
  BY <1>1
<1>6. TypeOK
  BY <1>1, <1>2, <1>3, <1>4, <1>5 DEF TypeOK
<1>7. ShownIsFrontMain
  BY DEF ShownIsFrontMain, FrontMain
<1> QED BY <1>6, <1>7 DEF IInv, AttentionHasCause

LEMMA NextIInv == IInv /\ [Next]_vars => IInv'
<1> SUFFICES ASSUME IInv, [Next]_vars PROVE IInv'
  OBVIOUS
<1>0. TypeOK /\ ShownIsFrontMain /\ AttentionHasCause
  BY DEF IInv
<1>a. Quiet \in Attention /\ "livi" \in Front /\ "projection" \in Front
  BY DEF Attention, Front
<1>b. ASSUME Event PROVE patient' \in BOOLEAN /\ left' \in Nat
  BY <1>0, <1>b DEF Event, TypeOK
<1>c. ASSUME wants' \in Front, attention' \in Attention, Publish
      PROVE  ShownIsFrontMain' /\ shown' \in Front /\ toUi' \in Seq(Front)
  <2>1. FrontMain' \in Front
    BY <1>c DEF FrontMain, Front
  <2> QED BY <1>0, <1>c, <2>1, PublishInv
<1>1. ASSUME NEW p \in Phones, Connects(p) PROVE IInv'
  <2> USE <1>1 DEF Connects, InFront, requests
  <2>1. /\ wants' \in Front /\ attention' \in Attention
        /\ front' \in connected' \cup {NoPhone} /\ video' \subseteq connected'
    BY <1>0, <1>a DEF TypeOK
  <2>2. ShownIsFrontMain' /\ shown' \in Front /\ toUi' \in Seq(Front)
    BY <1>c, <2>1
  <2>3. TypeOK'
    BY <1>0, <1>b, <2>1, <2>2 DEF TypeOK
  <2>4. AttentionHasCause'
    BY <1>0 DEF AttentionHasCause
  <2> QED BY <2>2, <2>3, <2>4 DEF IInv
<1>2. ASSUME NEW p \in Phones, Streams(p) PROVE IInv'
  <2> USE <1>2 DEF Streams, core, requests
  <2>1. wants' \in Front /\ attention' \in Attention
    BY <1>0 DEF TypeOK
  <2>2. ShownIsFrontMain' /\ shown' \in Front /\ toUi' \in Seq(Front)
    <3>1. CASE p = front
      BY <1>c, <2>1, <3>1
    <3>2. CASE p # front
      <4>1. FrontMain' = FrontMain
        BY <3>2 DEF FrontMain
      <4> QED BY <1>0, <3>2, <4>1 DEF TypeOK, ShownIsFrontMain
    <3> QED BY <3>1, <3>2
  <2>3. TypeOK'
    BY <1>0, <1>b, <2>1, <2>2 DEF TypeOK
  <2>4. AttentionHasCause'
    BY <1>0 DEF AttentionHasCause
  <2> QED BY <2>2, <2>3, <2>4 DEF IInv
<1>3. ASSUME NEW p \in Phones, Leaves(p) PROVE IInv'
  <2> USE <1>3 DEF Leaves, InFront, requests
  <2>1. /\ wants' \in Front /\ attention' \in Attention
        /\ front' \in connected' \cup {NoPhone} /\ video' \subseteq connected'
        /\ p = front => front' # front
    BY <1>0, <1>a, ScreensAssumption DEF TypeOK
  <2>2. ShownIsFrontMain' /\ shown' \in Front /\ toUi' \in Seq(Front)
    BY <1>c, <2>1
  <2>3. TypeOK'
    BY <1>0, <1>b, <2>1, <2>2 DEF TypeOK
  <2>4. AttentionHasCause'
    <3>1. CASE p = front
      BY <2>1, <3>1 DEF AttentionHasCause
    <3>2. CASE p # front
      <4>1. UNCHANGED <<front, attention, sco>>
        BY <3>2
      <4>2. \A k : <<front, k>> \in calls => <<front, k>> \in calls'
        BY <3>2
      <4> QED BY <1>0, <4>1, <4>2 DEF AttentionHasCause
    <3> QED BY <3>1, <3>2
  <2> QED BY <2>2, <2>3, <2>4 DEF IInv
<1>4. ASSUME NEW p \in Phones, Selects(p) PROVE IInv'
  <2> USE <1>4 DEF Selects, InFront, requests
  <2>1. /\ wants' \in Front /\ attention' \in Attention
        /\ front' \in connected' \cup {NoPhone}
    BY <1>0, <1>a DEF TypeOK
  <2>2. ShownIsFrontMain' /\ shown' \in Front /\ toUi' \in Seq(Front)
    BY <1>c, <2>1
  <2>3. TypeOK'
    BY <1>0, <1>b, <2>1, <2>2 DEF TypeOK
  <2>4. AttentionHasCause'
    BY DEF AttentionHasCause
  <2> QED BY <2>2, <2>3, <2>4 DEF IInv
<1>5. ASSUME NEW p \in CpPhones, NEW kind \in Kinds, NEW active \in BOOLEAN,
             Reports(p, kind, active)
      PROVE  IInv'
  <2> USE <1>5 DEF Reports, phone, requests
  <2>1. CASE p = front
    <3>1. /\ wants' \in Front /\ attention' \in Attention
          /\ ShownIsFrontMain' /\ shown' \in Front /\ toUi' \in Seq(Front)
          /\ attention' # Quiet =>
               \/ active /\ attention'.kind = kind
               \/ attention' = attention /\ (active \/ attention.kind # kind)
      BY <2>1, AttendInv
    <3>2. TypeOK'
      BY <1>0, <1>b, <3>1 DEF TypeOK
    <3>3. AttentionHasCause'
      <4>1. \A k : <<front, k>> \in calls /\ (active \/ k # kind) => <<front, k>> \in calls'
        OBVIOUS
      <4>2. active => <<front, kind>> \in calls'
        BY <2>1
      <4>3. UNCHANGED <<front, sco>>
        OBVIOUS
      <4> QED BY <1>0, <3>1, <4>1, <4>2, <4>3, Zenon DEF AttentionHasCause
    <3> QED BY <3>1, <3>2, <3>3 DEF IInv
  <2>2. CASE p # front
    <3>1. FrontMain' = FrontMain
      BY <2>2 DEF FrontMain
    <3>2. TypeOK' /\ ShownIsFrontMain'
      BY <1>0, <1>b, <2>2, <3>1 DEF TypeOK, ShownIsFrontMain
    <3>3. \A k : <<front, k>> \in calls => <<front, k>> \in calls'
      BY <2>2
    <3>4. AttentionHasCause'
      BY <1>0, <2>2, <3>3 DEF AttentionHasCause
    <3> QED BY <3>2, <3>4 DEF IInv
  <2> QED BY <2>1, <2>2
<1>6. ASSUME NEW p \in AaPhones, CallAudio(p) PROVE IInv'
  <2> USE <1>6 DEF CallAudio, phone, requests
  <2>1. /\ wants' \in Front /\ attention' \in Attention
        /\ ShownIsFrontMain' /\ shown' \in Front /\ toUi' \in Seq(Front)
        /\ attention' # Quiet =>
             \/ sco = NoPhone /\ attention'.kind = "call"
             \/ attention' = attention /\ (sco = NoPhone \/ attention.kind # "call")
    <3>1. "call" \in Kinds /\ (sco = NoPhone) \in BOOLEAN
      BY DEF Kinds
    <3> QED BY <3>1, AttendInv
  <2>2. TypeOK'
    BY <1>0, <1>b, <2>1, ScreensAssumption DEF TypeOK
  <2>3. sco = NoPhone => sco' # NoPhone
    BY ScreensAssumption DEF Phones
  <2>4. AttentionHasCause'
    BY <1>0, <2>1, <2>3 DEF AttentionHasCause
  <2> QED BY <2>1, <2>2, <2>4 DEF IInv
<1>7. ASSUME NEW p \in Pages, UserChooses(p) PROVE IInv'
  <2> USE <1>7 DEF UserChooses, Choose, phone, core
  <2>1. FrontMain' = FrontMain
    BY DEF FrontMain
  <2>2. Asks[p] \in Front
    BY DEF Asks, Pages, Front
  <2>3. TypeOK'
    BY <1>0, <1>b, <2>2 DEF TypeOK
  <2> QED BY <1>0, <2>1, <2>3 DEF IInv, ShownIsFrontMain, AttentionHasCause
<1>8. ASSUME HostUi PROVE IInv'
  <2> USE <1>8 DEF HostUi, phone, requests
  <2>1. wants' \in Front /\ attention' \in Attention
    BY <1>0, <1>a DEF TypeOK
  <2>2. ShownIsFrontMain' /\ shown' \in Front /\ toUi' \in Seq(Front)
    BY <1>c, <2>1
  <2>3. TypeOK'
    BY <1>0, <1>b, <2>1, <2>2 DEF TypeOK
  <2> QED BY <2>2, <2>3 DEF IInv, AttentionHasCause
<1>9. ASSUME CameraFollows PROVE IInv'
  <2> USE <1>9 DEF CameraFollows, phone, requests, core
  <2>1. wants' \in Front /\ attention' \in Attention
    BY <1>0 DEF TypeOK
  <2>2. ShownIsFrontMain' /\ shown' \in Front /\ toUi' \in Seq(Front)
    BY <1>c, <2>1
  <2>3. TypeOK'
    BY <1>0, <1>b, <2>1, <2>2 DEF TypeOK
  <2> QED BY <1>0, <2>2, <2>3 DEF IInv, AttentionHasCause
<1>10. ASSUME UiFollows PROVE IInv'
  <2>1. FrontMain' = FrontMain
    BY <1>10 DEF UiFollows, FrontMain, phone, core
  <2>2. \A p \in Pages : Asks[p] \in Front
    BY DEF Asks, Pages, Front
  <2>3. "media" \in Pages /\ "projection" \in Pages
    BY DEF Asks, Pages
  <2>4. page \in Pages /\ toCore \in Seq(Front) /\ toUi \in Seq(Front) /\ toUi # <<>>
    BY <1>0, <1>10 DEF TypeOK, UiFollows
  <2>5. toUi' \in Seq(Front)
    BY <1>10, <2>4 DEF UiFollows
  <2>6. \/ page' = page /\ toCore' = toCore
        \/ \E p \in Pages : page' = p /\ toCore' = Append(toCore, Asks[p])
    BY <1>10, <2>3 DEF UiFollows, Choose
  <2>7. page' \in Pages /\ toCore' \in Seq(Front)
    <3>1. ASSUME NEW p \in Pages, page' = p, toCore' = Append(toCore, Asks[p])
          PROVE  page' \in Pages /\ toCore' \in Seq(Front)
      <4>1. Asks[p] \in Front
        BY <2>2
      <4>2. Append(toCore, Asks[p]) \in Seq(Front)
        BY <2>4, <4>1
      <4> QED BY <3>1, <4>2
    <3> QED BY <2>4, <2>6, <3>1
  <2>8. TypeOK'
    BY <1>0, <1>10, <2>5, <2>7 DEF TypeOK, UiFollows, phone, core
  <2> QED BY <1>0, <1>10, <2>1, <2>8
      DEF IInv, ShownIsFrontMain, AttentionHasCause, UiFollows, phone, core
<1>11. ASSUME Relay PROVE IInv'
  <2> USE <1>11 DEF Relay, phone, core
  <2>1. FrontMain' = FrontMain
    BY DEF FrontMain
  <2>2. TypeOK'
    BY <1>0 DEF TypeOK
  <2> QED BY <1>0, <2>1, <2>2 DEF IInv, ShownIsFrontMain, AttentionHasCause
<1>12. ASSUME Asked PROVE IInv'
  <2> USE <1>12 DEF Asked, phone
  <2>1. wants' \in Front /\ attention' \in Attention /\ asked' \in Front
    BY <1>0, <1>a DEF TypeOK
  <2>2. ShownIsFrontMain' /\ shown' \in Front /\ toUi' \in Seq(Front)
    BY <1>c, <2>1
  <2>3. TypeOK'
    BY <1>0, <2>1, <2>2 DEF TypeOK
  <2>4. AttentionHasCause'
    BY <1>0 DEF AttentionHasCause
  <2> QED BY <2>2, <2>3, <2>4 DEF IInv
<1>13. CASE UNCHANGED vars
  <2>1. FrontMain' = FrontMain
    BY <1>13 DEF FrontMain, vars
  <2> QED BY <1>0, <1>13, <2>1 DEF IInv, vars, TypeOK, ShownIsFrontMain, AttentionHasCause
<1> QED
  BY <1>1, <1>2, <1>3, <1>4, <1>5, <1>6, <1>7, <1>8, <1>9, <1>10, <1>11, <1>12, <1>13 DEF Next

LEMMA AlwaysIInv == Spec => []IInv
BY InitIInv, NextIInv, PTL DEF Spec

(* The state of the core, the UI and the channels between them is well typed. *)
THEOREM TypeCorrect == Spec => []TypeOK
<1>1. IInv => TypeOK
  BY DEF IInv
<1> QED BY <1>1, AlwaysIInv, PTL

(* The core never changes what should be in front without publishing it.   *)
THEOREM AlwaysShownIsFrontMain == Spec => []ShownIsFrontMain
<1>1. IInv => ShownIsFrontMain
  BY DEF IInv
<1> QED BY <1>1, AlwaysIInv, PTL

(* Whatever brought the projection forward still goes on.                  *)
THEOREM AlwaysAttentionHasCause == Spec => []AttentionHasCause
<1>1. IInv => AttentionHasCause
  BY DEF IInv
<1> QED BY <1>1, AlwaysIInv, PTL

-----------------------------------------------------------------------------
(***************************************************************************)
(* When phones and user wait: one patch, one request or nothing is under   *)
(* way.  Whatever the core still has to read is the page the UI shows, and *)
(* only a request the core has not acted on may still hide the projection. *)
(***************************************************************************)
Reported ==
  /\ ~dirty /\ toCore = <<>> /\ asked = Asks[page]
  /\ \/ toUi = <<shown>>
     \/ toUi = <<>> /\ (shown = "projection" => page = "projection")

UnderWay ==
  /\ toUi = <<>>
  /\ \/ toCore = <<Asks[page]>> /\ ~dirty
     \/ toCore = <<>> /\ dirty /\ watch = Asks[page]
  /\ shown = "projection" /\ page # "projection" => asked # Asks[page]

OneAtATime == patient => Reported \/ UnderWay

LEMMA AsksApart ==
  /\ Asks["projection"] = "projection" /\ Asks["media"] = "livi"
  /\ \A p \in Pages : Asks[p] = "projection" => p = "projection"
  /\ "media" \in Pages /\ "projection" \in Pages
BY DEF Asks, Pages

(* An event from outside finds nothing under way and leaves one patch.     *)
LEMMA EventKeeps ==
  ASSUME OneAtATime, Event, UNCHANGED <<page, asked, toCore, dirty>>,
         Publish \/ UNCHANGED <<shown, toUi>>
  PROVE  OneAtATime'
<1> SUFFICES ASSUME patient PROVE Reported'
  BY DEF OneAtATime, Event
<1>1. toUi = <<>> /\ toCore = <<>> /\ ~dirty /\ asked = Asks[page]
      /\ (shown = "projection" => page = "projection")
  BY DEF OneAtATime, Event, AtRest, Reported, UnderWay
<1>2. CASE UNCHANGED <<shown, toUi>>
  BY <1>1, <1>2 DEF Reported
<1>3. CASE Publish
  <2>1. CASE shown' = shown
    BY <1>1, <1>3, <2>1 DEF Reported, Publish
  <2>2. CASE shown' # shown
    <3>1. toUi' = <<shown'>>
      BY <1>1, <1>3, <2>2 DEF Publish
    <3> QED BY <1>1, <3>1 DEF Reported
  <2> QED BY <2>1, <2>2
<1> QED BY <1>2, <1>3

LEMMA AttendTells ==
  ASSUME NEW kind, NEW active, Attend(kind, active)
  PROVE  Publish \/ UNCHANGED <<shown, toUi>>
BY DEF Attend

(* The user leaves a page only when the core knows of it: what is asked    *)
(* for then is new.                                                        *)
LEMMA UserChoosesKeeps ==
  ASSUME TypeOK, OneAtATime, NEW p \in Pages, UserChooses(p)
  PROVE  OneAtATime'
<1> SUFFICES ASSUME patient PROVE UnderWay'
  BY DEF OneAtATime, UserChooses, Event
<1>1. toUi = <<>> /\ toCore = <<>> /\ ~dirty /\ asked = Asks[page]
      /\ (shown = "projection" => page = "projection")
  BY DEF OneAtATime, UserChooses, Event, AtRest, Reported, UnderWay
<1>2. page' = p /\ toCore' = <<Asks[page']>> /\ UNCHANGED <<toUi, dirty, shown, asked>>
  BY <1>1 DEF UserChooses, Choose, core
<1>3. shown = "projection" /\ p # "projection" => asked # Asks[p]
  BY <1>1, AsksApart
<1> QED BY <1>1, <1>2, <1>3 DEF UnderWay

LEMMA UiFollowsKeeps ==
  ASSUME TypeOK, OneAtATime, UiFollows PROVE OneAtATime'
<1> SUFFICES ASSUME patient PROVE Reported' \/ UnderWay'
  BY DEF OneAtATime, UiFollows
<1>1. toUi = <<shown>> /\ ~dirty /\ toCore = <<>> /\ asked = Asks[page]
  BY DEF OneAtATime, Reported, UnderWay, UiFollows
<1>2. Head(toUi) = shown /\ toUi' = <<>> /\ UNCHANGED <<shown, asked, dirty>>
  BY <1>1 DEF UiFollows, core
<1>3. CASE UNCHANGED <<page, toCore>> /\ (shown = "projection") = (page = "projection")
  BY <1>1, <1>2, <1>3 DEF Reported
<1>4. CASE /\ Choose(IF page = "projection" THEN "media" ELSE "projection")
           /\ (shown = "projection") # (page = "projection")
  <2>1. toCore' = <<Asks[page']>>
    BY <1>1, <1>4 DEF Choose
  <2>2. shown = "projection" => page' = "projection"
    BY <1>4 DEF Choose
  <2> QED BY <1>1, <1>2, <2>1, <2>2 DEF UnderWay
<1> QED BY <1>2, <1>3, <1>4 DEF UiFollows

LEMMA RelayKeeps == ASSUME TypeOK, OneAtATime, Relay PROVE OneAtATime'
<1> SUFFICES ASSUME patient PROVE UnderWay'
  BY DEF OneAtATime, Relay
<1>1. /\ toUi = <<>> /\ toCore = <<Asks[page]>>
      /\ shown = "projection" /\ page # "projection" => asked # Asks[page]
  BY DEF OneAtATime, Reported, UnderWay, Relay
<1>2. /\ toCore' = <<>> /\ watch' = Asks[page] /\ dirty'
      /\ UNCHANGED <<toUi, page, shown, asked>>
  BY <1>1 DEF Relay, core
<1> QED BY <1>1, <1>2 DEF UnderWay

(* A new request that is not for the projection ends the attention too:    *)
(* the projection is not in front after it.                                *)
LEMMA AskedKeeps == ASSUME IInv, OneAtATime, Asked PROVE OneAtATime'
<1> SUFFICES ASSUME patient PROVE Reported'
  BY DEF OneAtATime, Asked
<1>1. /\ toUi = <<>> /\ toCore = <<>> /\ watch = Asks[page] /\ page \in Pages
      /\ shown = "projection" /\ page # "projection" => asked # Asks[page]
  BY DEF OneAtATime, Reported, UnderWay, Asked, IInv, TypeOK
<1>2. ~dirty' /\ toCore' = <<>> /\ asked' = Asks[page'] /\ page' = page
  BY <1>1 DEF Asked
<1>3. CASE shown' # shown
  <2>1. toUi' = <<shown'>>
    BY <1>1, <1>3 DEF Asked, Publish
  <2> QED BY <1>2, <2>1 DEF Reported
<1>4. CASE shown' = shown
  <2>1. toUi' = <<>>
    BY <1>1, <1>4 DEF Asked, Publish
  <2>2. ASSUME shown = "projection", page # "projection" PROVE FALSE
    <3>1. ~camera
      BY <2>2 DEF IInv, ShownIsFrontMain, FrontMain
    <3>2. watch # asked /\ watch # "projection"
      BY <1>1, <2>2, AsksApart
    <3>3. wants' = watch /\ attention' = Quiet /\ ~camera'
      BY <3>1, <3>2 DEF Asked
    <3>4. FrontMain' # "projection"
      BY <3>2, <3>3 DEF FrontMain, Asked
    <3> QED BY <1>4, <2>2, <3>4 DEF Asked, Publish
  <2> QED BY <1>2, <1>4, <2>1, <2>2 DEF Reported
<1> QED BY <1>3, <1>4

LEMMA NextOneAtATime == IInv /\ OneAtATime /\ [Next]_vars => OneAtATime'
<1> SUFFICES ASSUME IInv, OneAtATime, [Next]_vars PROVE OneAtATime'
  OBVIOUS
<1>0. TypeOK  BY DEF IInv
<1>1. ASSUME NEW p \in Phones, Connects(p) \/ Streams(p) \/ Leaves(p) \/ Selects(p)
      PROVE  OneAtATime'
  BY <1>1, EventKeeps DEF Connects, Streams, Leaves, Selects, core, requests
<1>2. ASSUME NEW p \in CpPhones, NEW kind \in Kinds, NEW active \in BOOLEAN,
             Reports(p, kind, active)
      PROVE  OneAtATime'
  BY <1>2, EventKeeps, AttendTells DEF Reports, requests
<1>3. ASSUME NEW p \in AaPhones, CallAudio(p) PROVE OneAtATime'
  BY <1>3, EventKeeps, AttendTells DEF CallAudio, requests
<1>4. ASSUME NEW p \in Pages, UserChooses(p) PROVE OneAtATime'
  BY <1>0, <1>4, UserChoosesKeeps
<1>5. CASE HostUi
  BY <1>5, EventKeeps DEF HostUi, requests
<1>6. CASE CameraFollows
  BY <1>6, EventKeeps DEF CameraFollows, core, requests
<1>7. CASE UiFollows
  BY <1>0, <1>7, UiFollowsKeeps
<1>8. CASE Relay
  BY <1>0, <1>8, RelayKeeps
<1>9. CASE Asked
  BY <1>9, AskedKeeps
<1>10. CASE UNCHANGED vars
  BY <1>10 DEF vars, OneAtATime, Reported, UnderWay
<1> QED
  BY <1>1, <1>2, <1>3, <1>4, <1>5, <1>6, <1>7, <1>8, <1>9, <1>10 DEF Next

(* When nothing happens before UI and core are at rest, the projection's   *)
(* video is never left behind another page.                                *)
THEOREM AlwaysAgreeAtRest == Spec => []AgreeAtRest
<1>1. Init => OneAtATime
  BY DEF Init, OneAtATime, Reported, Asks
<1>2. OneAtATime => AgreeAtRest
  BY DEF OneAtATime, AgreeAtRest, AtRest, Reported, UnderWay
<1> QED BY <1>1, <1>2, AlwaysIInv, NextOneAtATime, PTL DEF Spec
=============================================================================
