-------------------------- MODULE AaSessionProofs --------------------------
(***************************************************************************)
(* Proofs about AaSession, for every budget.  A turn of the driver is      *)
(* cut in two: what the handler makes of the record (Mid) and what the end *)
(* of the turn makes of that (Good), which touches neither the picture nor *)
(* what was said.  So a handler has only to be looked at for what it does  *)
(* itself.                                                                 *)
(***************************************************************************)
EXTENDS AaSession, TLAPS

(* What the manager heard agrees with what the session has now.            *)
Told(s) ==
  /\ s.said \in Seq(News)
  /\ \A i \in At(s.said, "gone") : i = Len(s.said)
  /\ \A i, j \in At(s.said, "connected") : i = j
  /\ ~ s.down => /\ At(s.said, "gone") = {}
                 /\ ~ s.up => At(s.said, "connected") = {}
  /\ s.down => At(s.said, "gone") # {} /\ ~ s.tap
  /\ ~ s.tap => Ended(s.said, "micOn", "micOff")
  /\ s.down \/ ~ s.focus => Ended(s.said, "focusOn", "focusOff")

Counts(s) == /\ s.waiting \in Nat /\ s.bye \in Nat
             /\ s.mainFollowUp \in Nat /\ s.clusterFollowUp \in Nat

Whole(s) ==
  /\ s \in Session /\ Told(s)
  /\ s.disc <=> s.state = "Closed"
  /\ s.closed <=> s.closing

(* Before the end of a turn. *)
Pre(s) ==
  /\ Whole(s) /\ ~ s.over
  /\ s.pend => s.state = "Closed" /\ s.down
  /\ ~ s.pend => (s.down <=> s.closed) /\ (s.state = "Closed" => s.closed)
  /\ s.done => s.state = "Closed"

Mid(s) == Pre(s) /\ (s.done \/ s.waiting = s.bye)

(* Between two turns. *)
Good(s) ==
  /\ Whole(s) /\ ~ s.pend
  /\ s.down <=> s.closed
  /\ s.state = "Closed" => s.closed
  /\ s.done <=> s.over
  /\ s.over => s.state = "Closed"
  /\ s.over \/ s.waiting = s.bye

(* What PictureFollows needs to know of the time before the main picture.  *)
Pictures(s, p) ==
  /\ s.seen => s.state \in {"Running", "Closed"}
  /\ s.cluster = "projected" => s.state \in {"Running", "Closed"}
  /\ s.state \in Early \cup {"Running"} =>
       (p.cluster /\ s.wanted /\ ~ s.seen => s.pending)
  /\ s.state = "Running" =>
       /\ s.cluster = "projected" => s.wanted
       /\ s.wanted /\ s.seen /\ p.cluster /\ s.clusterFollowUp = 0
            => s.cluster \in {"projected", "granted"}
       /\ s.mainFollowUp = 0 => s.main = "projected"

Around ==
  /\ phone \in [is : {"here", "away", "left", "gone"}, cluster : BOOLEAN]
  /\ left \in [{"talk", "cmds"} -> Nat]

IInv == Good(aa) /\ Pictures(aa, phone) /\ Around

-----------------------------------------------------------------------------
(* Words that are appended. *)

LEMMA AppendWord ==
  ASSUME NEW q \in Seq(News), NEW e \in News
  PROVE  /\ Append(q, e) \in Seq(News)
         /\ Len(Append(q, e)) = Len(q) + 1
         /\ Len(q) \in Nat
         /\ DOMAIN q = 1 .. Len(q) /\ DOMAIN Append(q, e) = 1 .. Len(q) + 1
         /\ \A i \in 1 .. Len(q) : Append(q, e)[i] = q[i]
         /\ Append(q, e)[Len(q) + 1] = e
  OBVIOUS

(* An appended word adds its own place and no other. *)
LEMMA AtAppend ==
  ASSUME NEW q \in Seq(News), NEW e \in News, NEW x \in News
  PROVE  /\ At(Append(q, e), x) = IF x = e THEN At(q, x) \cup {Len(q) + 1} ELSE At(q, x)
         /\ \A i \in At(q, x) : i \in Int /\ i < Len(q) + 1
  <1> DEFINE r == Append(q, e)
  <1>1. /\ Len(q) \in Nat /\ DOMAIN q = 1 .. Len(q) /\ DOMAIN r = 1 .. Len(q) + 1
        /\ \A i \in 1 .. Len(q) : r[i] = q[i]
        /\ r[Len(q) + 1] = e
    BY AppendWord, Zenon
  <1> HIDE DEF r
  <1>2. \A i \in At(q, x) : i \in Int /\ i < Len(q) + 1
    BY <1>1 DEF At
  <1>3. At(r, x) = IF x = e THEN At(q, x) \cup {Len(q) + 1} ELSE At(q, x)
    BY <1>1 DEF At
  <1> QED BY <1>2, <1>3 DEF r

LEMMA EndedAppend ==
  ASSUME NEW q \in Seq(News), NEW e \in News, NEW on \in News, NEW off \in News,
         on # off, e = off \/ (e # on /\ Ended(q, on, off))
  PROVE  Ended(Append(q, e), on, off)
  <1>1. \A x \in News :
          /\ At(Append(q, e), x) = IF x = e THEN At(q, x) \cup {Len(q) + 1} ELSE At(q, x)
          /\ \A i \in At(q, x) : i \in Int /\ i < Len(q) + 1
    BY AtAppend, Zenon
  <1> DEFINE r == Append(q, e)
  <1> HIDE DEF r
  <1>2. \A x \in News :
          /\ At(r, x) = IF x = e THEN At(q, x) \cup {Len(q) + 1} ELSE At(q, x)
          /\ \A i \in At(q, x) : i \in Int /\ i < Len(q) + 1
    BY <1>1 DEF r
  <1>3. CASE e = off
    <2>1. At(r, on) = At(q, on) /\ Len(q) + 1 \in At(r, off)
      BY <1>2, <1>3
    <2>2. \A i \in At(q, on) : i < Len(q) + 1
      BY <1>2
    <2> QED BY <2>1, <2>2 DEF Ended, r
  <1>4. CASE e # on /\ e # off /\ Ended(q, on, off)
    <2>1. At(r, on) = At(q, on) /\ At(r, off) = At(q, off)
      BY <1>2, <1>4
    <2> QED BY <2>1, <1>4 DEF Ended, r
  <1> QED BY <1>3, <1>4

-----------------------------------------------------------------------------
(* The driver's operators. *)

(* What neither the driver's bookkeeping nor the end of a turn touches.    *)
SamePicture(t, s) ==
  /\ t.wanted = s.wanted /\ t.seen = s.seen /\ t.pending = s.pending
  /\ t.main = s.main /\ t.cluster = s.cluster
  /\ t.mainFollowUp = s.mainFollowUp /\ t.clusterFollowUp = s.clusterFollowUp

SameCounts(t, s) == t.waiting = s.waiting /\ t.bye = s.bye

LEMMA SayTold ==
  ASSUME NEW q \in Seq(News), NEW when \in BOOLEAN, NEW e \in {"focusOff", "micOff"}
  PROVE  /\ Say(q, when, e) \in Seq(News)
         /\ At(Say(q, when, e), "gone") = At(q, "gone")
         /\ At(Say(q, when, e), "connected") = At(q, "connected")
         /\ Ended(q, "micOn", "micOff") \/ (when /\ e = "micOff")
              => Ended(Say(q, when, e), "micOn", "micOff")
         /\ Ended(q, "focusOn", "focusOff") \/ (when /\ e = "focusOff")
              => Ended(Say(q, when, e), "focusOn", "focusOff")
  <1>1. CASE ~ when
    BY <1>1 DEF Say
  <1>2. CASE when
    <2>0. e \in News /\ {"gone", "connected", "micOn", "micOff", "focusOn", "focusOff"} = News
      BY DEF News
    <2>1. Say(q, when, e) = Append(q, e)
      BY <1>2 DEF Say
    <2>2. Append(q, e) \in Seq(News)
      BY AppendWord, <2>0, Zenon
    <2>3. At(Append(q, e), "gone") = At(q, "gone")
      BY AtAppend, <2>0
    <2>4. At(Append(q, e), "connected") = At(q, "connected")
      BY AtAppend, <2>0
    <2>5. Ended(q, "micOn", "micOff") \/ e = "micOff" => Ended(Append(q, e), "micOn", "micOff")
      BY EndedAppend, <2>0
    <2>6. Ended(q, "focusOn", "focusOff") \/ e = "focusOff"
            => Ended(Append(q, e), "focusOn", "focusOff")
      BY EndedAppend, <2>0
    <2> QED BY <1>2, <2>1, <2>2, <2>3, <2>4, <2>5, <2>6
  <1> QED BY <1>1, <1>2

LEMMA EmitDownTold ==
  ASSUME NEW s \in Session, Told(s)
  PROVE  /\ EmitDown(s) \in Session /\ Told(EmitDown(s)) /\ EmitDown(s).down
         /\ s.down => EmitDown(s) = s
  <1>1. CASE s.down
    BY <1>1 DEF EmitDown
  <1>2. CASE ~ s.down
    <2> DEFINE q1 == Say(s.said, s.focus, "focusOff")
               q2 == Say(q1, s.tap, "micOff")
               r == Append(q2, "gone")
               t == EmitDown(s)
    <2>0. s.focus \in BOOLEAN /\ s.tap \in BOOLEAN /\ s.said \in Seq(News)
      BY DEF Session
    <2>1. /\ q1 \in Seq(News) /\ At(q1, "gone") = {}
          /\ \A i, j \in At(q1, "connected") : i = j
          /\ Ended(q1, "focusOn", "focusOff")
          /\ ~ s.tap => Ended(q1, "micOn", "micOff")
      BY <1>2, <2>0, SayTold DEF Told
    <2> HIDE DEF q1
    <2>2. /\ q2 \in Seq(News) /\ At(q2, "gone") = {}
          /\ \A i, j \in At(q2, "connected") : i = j
          /\ Ended(q2, "focusOn", "focusOff") /\ Ended(q2, "micOn", "micOff")
      BY <2>0, <2>1, SayTold
    <2> HIDE DEF q2
    <2>3. r \in Seq(News) /\ Len(r) = Len(q2) + 1
      BY <2>2, AppendWord DEF News
    <2>4. At(r, "gone") = {Len(q2) + 1} /\ At(r, "connected") = At(q2, "connected")
      BY <2>2, AtAppend DEF News
    <2>5. Ended(r, "focusOn", "focusOff") /\ Ended(r, "micOn", "micOff")
      BY <2>2, EndedAppend DEF News
    <2> HIDE DEF r
    <2>6. t = [s EXCEPT !.up = FALSE, !.focus = FALSE, !.tap = FALSE,
                        !.down = TRUE, !.said = r]
      BY <1>2 DEF EmitDown, r, q2, q1
    <2> HIDE DEF t
    <2>7. t \in Session
      BY <2>6, <2>3, ZenonT(60) DEF Session
    <2>8. t.said = r /\ t.down /\ ~ t.tap /\ ~ t.focus
      BY <2>6 DEF Session
    <2>9. Told(t)
      BY <2>2, <2>3, <2>4, <2>5, <2>8 DEF Told
    <2> QED BY <1>2, <2>7, <2>8, <2>9 DEF t
  <1> QED BY <1>1, <1>2

(* It touches nothing else. *)
LEMMA EmitDownRest ==
  ASSUME NEW s \in Session
  PROVE  /\ SamePicture(EmitDown(s), s) /\ SameCounts(EmitDown(s), s)
         /\ EmitDown(s).state = s.state /\ EmitDown(s).disc = s.disc
         /\ EmitDown(s).closed = s.closed /\ EmitDown(s).closing = s.closing
         /\ EmitDown(s).done = s.done /\ EmitDown(s).over = s.over
         /\ EmitDown(s).pend = s.pend
  BY DEF EmitDown, Session, SamePicture, SameCounts

(* A change that keeps these fields keeps what was said true.              *)
LEMMA ToldRests ==
  ASSUME NEW s, NEW t, Told(s), t.said = s.said, t.down = s.down, t.up = s.up,
         t.tap = s.tap, t.focus = s.focus
  PROVE  Told(t)
  BY DEF Told

LEMMA ClosesPre ==
  ASSUME NEW s, Pre(s)
  PROVE  /\ Pre(Closes(s)) /\ Closes(s).state = "Closed"
         /\ SamePicture(Closes(s), s) /\ SameCounts(Closes(s), s)
         /\ Closes(s).done = s.done
  <1> DEFINE c == [s EXCEPT !.state = "Closed", !.ping = FALSE]
             d == [c EXCEPT !.disc = TRUE]
             e == EmitDown(d)
             t == [e EXCEPT !.focus = FALSE, !.pend = TRUE]
  <1>0. s \in Session /\ Told(s)
    BY DEF Pre, Whole
  <1>1. c \in Session /\ Told(c)
    <2>1. c \in Session
      BY <1>0 DEF Session, States, Early
    <2>2. /\ c.said = s.said /\ c.down = s.down /\ c.up = s.up
          /\ c.tap = s.tap /\ c.focus = s.focus
      BY <1>0 DEF Session
    <2> QED BY <1>0, <2>1, <2>2, ToldRests, Zenon
  <1>2. CASE s.disc
    <2>1. Closes(s) = c
      BY <1>0, <1>2 DEF Closes, Session
    <2>2. Pre(c)
      BY <1>0, <1>1, <1>2 DEF Pre, Whole, Session
    <2>3. /\ c.state = "Closed" /\ SamePicture(c, s) /\ SameCounts(c, s)
          /\ c.done = s.done
      BY <1>0 DEF Session, SamePicture, SameCounts
    <2> QED BY <2>1, <2>2, <2>3
  <1>3. CASE ~ s.disc
    <2>1. Closes(s) = t
      BY <1>0, <1>3 DEF Closes, OnDisconnected, Session
    <2>2. d \in Session /\ Told(d)
      <3>1. d \in Session
        BY <1>1 DEF Session
      <3>2. /\ d.said = c.said /\ d.down = c.down /\ d.up = c.up
            /\ d.tap = c.tap /\ d.focus = c.focus
        BY <1>1 DEF Session
      <3> QED BY <1>1, <3>1, <3>2, ToldRests, Zenon
    <2>3. /\ d.state = "Closed" /\ d.disc /\ SamePicture(d, s) /\ SameCounts(d, s)
          /\ d.done = s.done /\ d.closed = s.closed /\ d.closing = s.closing
          /\ d.over = s.over
      BY <1>0 DEF Session, SamePicture, SameCounts
    <2> HIDE DEF d
    <2>4. e \in Session /\ Told(e) /\ e.down
      BY <2>2, EmitDownTold, Zenon
    <2>5. /\ SamePicture(e, d) /\ SameCounts(e, d) /\ e.state = d.state
          /\ e.disc = d.disc /\ e.closed = d.closed /\ e.closing = d.closing
          /\ e.done = d.done /\ e.over = d.over
      BY <2>2, EmitDownRest, Zenon
    <2> HIDE DEF e
    <2>6. t \in Session
      BY <2>4 DEF Session
    <2>7. /\ t.said = e.said /\ t.down = e.down /\ t.tap = e.tap /\ t.up = e.up
          /\ ~ t.focus /\ t.pend
          /\ t.disc = e.disc /\ t.closed = e.closed /\ t.closing = e.closing
          /\ t.done = e.done /\ t.over = e.over /\ t.state = e.state
          /\ SamePicture(t, e) /\ SameCounts(t, e)
      BY <2>4 DEF Session, SamePicture, SameCounts
    <2> HIDE DEF t
    <2>8. Told(t)
      BY <2>4, <2>7 DEF Told
    <2>9. Pre(t)
      BY <2>3, <2>4, <2>5, <2>6, <2>7, <2>8 DEF Pre, Whole
    <2>10. t.state = "Closed" /\ SamePicture(t, s) /\ SameCounts(t, s) /\ t.done = s.done
      BY <2>3, <2>5, <2>7 DEF SamePicture, SameCounts
    <2> QED BY <2>1, <2>9, <2>10
  <1>4. s.disc \in BOOLEAN
    BY <1>0 DEF Session
  <1> QED BY <1>2, <1>3, <1>4

(* The end of a turn. *)
LEMMA TurnGood ==
  ASSUME NEW s, Mid(s), Turn(s)
  PROVE  Good(aa') /\ SamePicture(aa', s) /\ aa'.state = s.state
  <1> DEFINE u == [s EXCEPT !.pend = FALSE]
             v == [u EXCEPT !.closed = TRUE]
             w == [v EXCEPT !.closing = TRUE, !.done = FALSE]
             c == IF s.pend THEN BeginClose(u) ELSE s
  <1>0. s \in Session /\ Told(s)
    BY DEF Mid, Pre, Whole
  <1>1. aa' = IF c.closing /\ c.done
              THEN [Closes(c) EXCEPT !.pend = FALSE, !.over = TRUE] ELSE c
    BY DEF Turn
  <1>2. /\ Whole(c) /\ ~ c.pend /\ ~ c.over /\ c.state = s.state /\ SamePicture(c, s)
        /\ (c.down <=> c.closed) /\ (c.state = "Closed" => c.closed)
        /\ (c.done => c.state = "Closed") /\ (c.done \/ c.waiting = c.bye)
    <2>1. CASE ~ s.pend
      BY <2>1 DEF Mid, Pre, SamePicture
    <2>2. CASE s.pend /\ s.closed
      <3>1. c = u
        BY <2>2, <1>0 DEF BeginClose, Session
      <3>2. u \in Session
        BY <1>0 DEF Session
      <3>3. /\ u.said = s.said /\ u.down = s.down /\ u.up = s.up /\ u.tap = s.tap
            /\ u.focus = s.focus /\ u.closed = s.closed /\ u.closing = s.closing
            /\ u.done = s.done /\ u.over = s.over /\ u.state = s.state
            /\ u.disc = s.disc /\ ~ u.pend /\ SamePicture(u, s) /\ SameCounts(u, s)
        BY <1>0 DEF Session, SamePicture, SameCounts
      <3> HIDE DEF u
      <3>4. Told(u)
        BY <1>0, <3>3, ToldRests, Zenon
      <3> HIDE DEF c
      <3> QED BY <2>2, <3>1, <3>2, <3>3, <3>4 DEF Mid, Pre, Whole, SameCounts
    <2>3. CASE s.pend /\ ~ s.closed
      <3>1. s.state = "Closed" /\ s.down
        BY <2>3 DEF Mid, Pre
      <3>2. c = [w EXCEPT !.done = TRUE]
        BY <2>3, <3>1, <1>0 DEF BeginClose, EmitDown, RequestShutdown, Session
      <3> HIDE DEF c
      <3>3. c \in Session
        BY <3>2, <1>0 DEF Session
      <3>4. /\ c.said = s.said /\ c.down = s.down /\ c.up = s.up /\ c.tap = s.tap
            /\ c.focus = s.focus /\ c.closed /\ c.closing /\ c.done
            /\ c.over = s.over /\ c.state = s.state
            /\ c.disc = s.disc /\ ~ c.pend /\ SamePicture(c, s)
        BY <3>2, <1>0 DEF Session, SamePicture
      <3>5. Told(c)
        BY <1>0, <3>4, ToldRests, Zenon
      <3> QED BY <3>1, <3>3, <3>4, <3>5 DEF Mid, Pre, Whole
    <2>4. s.pend \in BOOLEAN /\ s.closed \in BOOLEAN
      BY <1>0 DEF Session
    <2> QED BY <2>1, <2>2, <2>3, <2>4
  <1> HIDE DEF c
  <1>3. CASE ~ (c.closing /\ c.done)
    <2>1. aa' = c
      BY <1>1, <1>3
    <2>2. ~ c.done
      BY <1>2, <1>3 DEF Whole
    <2> QED BY <1>2, <2>1, <2>2 DEF Good
  <1>4. CASE c.closing /\ c.done
    <2> DEFINE e == Closes(c)
               t == [e EXCEPT !.pend = FALSE, !.over = TRUE]
    <2>1. aa' = t
      BY <1>1, <1>4
    <2>2. Pre(c)
      BY <1>2 DEF Pre
    <2>3. Pre(e) /\ e.state = "Closed" /\ SamePicture(e, c) /\ e.done = c.done
      BY <2>2, ClosesPre, Zenon
    <2>4. c.disc /\ c.state = "Closed"
      BY <1>2, <1>4 DEF Whole
    <2>5. e.closed /\ e.down
      BY <1>2, <1>4, <2>4 DEF Closes, Whole, Session
    <2> HIDE DEF e
    <2>6. e \in Session /\ Told(e)
      BY <2>3 DEF Pre, Whole
    <2>7. t \in Session
      BY <2>6 DEF Session
    <2>8. /\ t.said = e.said /\ t.down = e.down /\ t.up = e.up /\ t.tap = e.tap
          /\ t.focus = e.focus /\ t.closed = e.closed /\ t.closing = e.closing
          /\ t.done = e.done /\ t.over /\ t.state = e.state
          /\ t.disc = e.disc /\ ~ t.pend /\ SamePicture(t, e)
      BY <2>6 DEF Session, SamePicture
    <2> HIDE DEF t
    <2>9. Told(t)
      BY <2>6, <2>8, ToldRests, Zenon
    <2>10. Good(t)
      BY <1>4, <2>3, <2>5, <2>7, <2>8, <2>9 DEF Good, Pre, Whole
    <2>11. SamePicture(t, s) /\ t.state = s.state
      BY <1>2, <2>3, <2>4, <2>8 DEF SamePicture
    <2> QED BY <2>1, <2>10, <2>11
  <1> QED BY <1>3, <1>4

(* What the handlers do with what is said. *)

LEMMA EmitTold ==
  ASSUME NEW q \in Seq(News), NEW e \in {"connected", "focusOn", "micOn", "micOff"}
  PROVE  /\ Append(q, e) \in Seq(News)
         /\ At(Append(q, e), "gone") = At(q, "gone")
         /\ e # "connected" => At(Append(q, e), "connected") = At(q, "connected")
         /\ At(q, "connected") = {} =>
              \A i, j \in At(Append(q, e), "connected") : i = j
         /\ e # "micOn" /\ (Ended(q, "micOn", "micOff") \/ e = "micOff")
              => Ended(Append(q, e), "micOn", "micOff")
         /\ e # "focusOn" /\ Ended(q, "focusOn", "focusOff")
              => Ended(Append(q, e), "focusOn", "focusOff")
  <1>0. e \in News /\ {"gone", "connected", "micOn", "micOff", "focusOn", "focusOff"} = News
    BY DEF News
  <1>1. Append(q, e) \in Seq(News)
    BY AppendWord, <1>0, Zenon
  <1>2. At(Append(q, e), "gone") = At(q, "gone")
    BY AtAppend, <1>0
  <1>3. At(Append(q, e), "connected") =
          IF e = "connected" THEN At(q, "connected") \cup {Len(q) + 1}
          ELSE At(q, "connected")
    BY AtAppend, <1>0
  <1>4. e # "micOn" /\ (Ended(q, "micOn", "micOff") \/ e = "micOff")
          => Ended(Append(q, e), "micOn", "micOff")
    BY EndedAppend, <1>0
  <1>5. e # "focusOn" /\ Ended(q, "focusOn", "focusOff")
          => Ended(Append(q, e), "focusOn", "focusOff")
    BY EndedAppend, <1>0
  <1> QED BY <1>1, <1>2, <1>3, <1>4, <1>5

(* Everything but what the manager hears. *)
SameRest(t, s) ==
  /\ SamePicture(t, s) /\ SameCounts(t, s) /\ t.state = s.state /\ t.disc = s.disc
  /\ t.closed = s.closed /\ t.closing = s.closing /\ t.done = s.done
  /\ t.over = s.over /\ t.pend = s.pend /\ t.down = s.down

LEMMA RestMid ==
  ASSUME NEW s, NEW t, Mid(s), t \in Session, Told(t), SameRest(t, s)
  PROVE  Mid(t)
  BY DEF Mid, Pre, Whole, SameRest, SameCounts

LEMMA MicMid ==
  ASSUME NEW s, Mid(s), NEW captured \in BOOLEAN
  PROVE  /\ Mid(StartMic(s, captured)) /\ SameRest(StartMic(s, captured), s)
         /\ Mid(DropMicTap(s)) /\ SameRest(DropMicTap(s), s)
  <1>0. s \in Session /\ Told(s) /\ s.said \in Seq(News) /\ s.down \in BOOLEAN
    BY DEF Mid, Pre, Whole, Session
  <1>1. SameRest(s, s)
    BY DEF SameRest, SamePicture, SameCounts
  <1>2. Mid(StartMic(s, captured)) /\ SameRest(StartMic(s, captured), s)
    <2>1. CASE s.tap \/ s.down \/ ~ s.mic \/ ~ captured
      BY <2>1, <1>1 DEF StartMic
    <2>2. CASE ~ (s.tap \/ s.down \/ ~ s.mic \/ ~ captured)
      <3> DEFINE r == Append(s.said, "micOn")
                 t == [s EXCEPT !.tap = TRUE, !.said = r]
      <3>1. StartMic(s, captured) = t
        BY <2>2, <1>0 DEF StartMic, Emit, Say, Session
      <3>2. /\ r \in Seq(News) /\ At(r, "gone") = At(s.said, "gone")
            /\ At(r, "connected") = At(s.said, "connected")
            /\ Ended(s.said, "focusOn", "focusOff") => Ended(r, "focusOn", "focusOff")
        BY <1>0, EmitTold
      <3> HIDE DEF r
      <3>3. t \in Session /\ SameRest(t, s)
        BY <1>0, <3>2 DEF Session, SameRest, SamePicture, SameCounts
      <3>4. /\ t.said = r /\ t.tap /\ t.up = s.up /\ t.down = s.down
            /\ t.focus = s.focus
        BY <1>0 DEF Session
      <3> HIDE DEF t
      <3>5. Told(t)
        BY <1>0, <2>2, <3>2, <3>4 DEF Told
      <3> QED BY <3>1, <3>3, <3>5, RestMid
    <2> QED BY <2>1, <2>2
  <1>3. Mid(DropMicTap(s)) /\ SameRest(DropMicTap(s), s)
    <2>1. CASE ~ s.tap
      BY <2>1, <1>1 DEF DropMicTap
    <2>2. CASE s.tap
      <3> DEFINE r == Append(s.said, "micOff")
                 t == [s EXCEPT !.tap = FALSE, !.said = r]
      <3>0. ~ s.down
        BY <1>0, <2>2 DEF Told
      <3>1. DropMicTap(s) = t
        BY <2>2, <3>0, <1>0 DEF DropMicTap, Emit, Say, Session
      <3>2. /\ r \in Seq(News) /\ At(r, "gone") = At(s.said, "gone")
            /\ At(r, "connected") = At(s.said, "connected")
            /\ Ended(r, "micOn", "micOff")
            /\ Ended(s.said, "focusOn", "focusOff") => Ended(r, "focusOn", "focusOff")
        BY <1>0, EmitTold
      <3> HIDE DEF r
      <3>3. t \in Session /\ SameRest(t, s)
        BY <1>0, <3>2 DEF Session, SameRest, SamePicture, SameCounts
      <3>4. /\ t.said = r /\ ~ t.tap /\ t.up = s.up /\ t.down = s.down
            /\ t.focus = s.focus
        BY <1>0 DEF Session
      <3> HIDE DEF t
      <3>5. Told(t)
        BY <1>0, <3>0, <3>2, <3>4 DEF Told
      <3> QED BY <3>1, <3>3, <3>5, RestMid
    <2> QED BY <2>1, <2>2
  <1> QED BY <1>2, <1>3

LEMMA ProjectedMid ==
  ASSUME NEW s, Mid(s)
  PROVE  Mid(OnProjected(s)) /\ SameRest(OnProjected(s), s)
  <1>0. s \in Session /\ Told(s) /\ s.said \in Seq(News) /\ s.down \in BOOLEAN
    BY DEF Mid, Pre, Whole, Session
  <1> DEFINE r == Say(s.said, ~ s.down, "focusOn")
             t == [s EXCEPT !.focus = TRUE, !.said = r]
  <1>1. OnProjected(s) = t
    BY <1>0 DEF OnProjected, Emit, Session
  <1>2. /\ r \in Seq(News) /\ At(r, "gone") = At(s.said, "gone")
        /\ At(r, "connected") = At(s.said, "connected")
        /\ Ended(s.said, "micOn", "micOff") => Ended(r, "micOn", "micOff")
        /\ s.down => r = s.said
    <2>1. CASE s.down
      BY <2>1, <1>0 DEF Say
    <2>2. CASE ~ s.down
      BY <2>2, <1>0, EmitTold DEF Say
    <2> QED BY <2>1, <2>2
  <1> HIDE DEF r
  <1>3. t \in Session /\ SameRest(t, s)
    BY <1>0, <1>2 DEF Session, SameRest, SamePicture, SameCounts
  <1>4. t.said = r /\ t.tap = s.tap /\ t.up = s.up /\ t.down = s.down /\ t.focus
    BY <1>0 DEF Session
  <1> HIDE DEF t
  <1>5. Told(t)
    BY <1>0, <1>2, <1>4 DEF Told
  <1> QED BY <1>1, <1>3, <1>5, RestMid

LEMMA ConnectedMid ==
  ASSUME NEW s, Mid(s)
  PROVE  Mid(OnConnected(s)) /\ SameRest(OnConnected(s), s)
  <1>0. /\ s \in Session /\ Told(s) /\ s.said \in Seq(News) /\ s.down \in BOOLEAN
        /\ s.up \in BOOLEAN
    BY DEF Mid, Pre, Whole, Session
  <1>1. CASE s.up
    BY <1>1 DEF OnConnected, SameRest, SamePicture, SameCounts
  <1>2. CASE ~ s.up
    <2> DEFINE r == Say(s.said, ~ s.down, "connected")
               t == [s EXCEPT !.up = TRUE, !.said = r]
    <2>1. OnConnected(s) = t
      BY <1>0, <1>2 DEF OnConnected, Emit, Session
    <2>2. /\ r \in Seq(News) /\ At(r, "gone") = At(s.said, "gone")
          /\ \A i, j \in At(r, "connected") : i = j
          /\ Ended(s.said, "micOn", "micOff") => Ended(r, "micOn", "micOff")
          /\ Ended(s.said, "focusOn", "focusOff") => Ended(r, "focusOn", "focusOff")
          /\ s.down => r = s.said
      <3>1. CASE s.down
        BY <3>1, <1>0 DEF Say, Told
      <3>2. CASE ~ s.down
        <4>1. At(s.said, "connected") = {}
          BY <3>2, <1>0, <1>2 DEF Told
        <4> QED BY <3>2, <4>1, <1>0, EmitTold DEF Say
      <3> QED BY <3>1, <3>2
    <2> HIDE DEF r
    <2>3. t \in Session /\ SameRest(t, s)
      BY <1>0, <2>2 DEF Session, SameRest, SamePicture, SameCounts
    <2>4. t.said = r /\ t.tap = s.tap /\ t.up /\ t.down = s.down /\ t.focus = s.focus
      BY <1>0 DEF Session
    <2> HIDE DEF t
    <2>5. Told(t)
      BY <1>0, <2>2, <2>4 DEF Told
    <2> QED BY <2>1, <2>3, <2>5, RestMid
  <1> QED BY <1>1, <1>2, <1>0

-----------------------------------------------------------------------------
(* Handlers that touch the protocol only. *)

SameDriver(t, s) ==
  /\ t.said = s.said /\ t.down = s.down /\ t.up = s.up /\ t.tap = s.tap
  /\ t.focus = s.focus /\ t.closed = s.closed /\ t.closing = s.closing
  /\ t.done = s.done /\ t.over = s.over /\ t.pend = s.pend /\ t.disc = s.disc
  /\ (t.state = "Closed" <=> s.state = "Closed")

LEMMA DriverPre ==
  ASSUME NEW s, NEW t, Pre(s), t \in Session, SameDriver(t, s)
  PROVE  Pre(t)
  <1>1. Told(t)
    BY ToldRests, Zenon DEF Pre, Whole, SameDriver
  <1> QED BY <1>1 DEF Pre, Whole, SameDriver

LEMMA DriverMid ==
  ASSUME NEW s, NEW t, Mid(s), t \in Session, SameDriver(t, s), SameCounts(t, s)
  PROVE  Mid(t)
  <1>1. Pre(t)
    BY DriverPre, Zenon DEF Mid
  <1> QED BY <1>1 DEF Mid, SameDriver, SameCounts

(* The part of Pictures that does not depend on the phone.                 *)
Half(s) ==
  /\ s.seen => s.state \in {"Running", "Closed"}
  /\ s.cluster = "projected" => s.state \in {"Running", "Closed"}
  /\ s.state = "Running" =>
       /\ s.cluster = "projected" => s.wanted
       /\ s.mainFollowUp = 0 => s.main = "projected"

LEMMA ClusterStream ==
  ASSUME NEW s, Mid(s), Half(s), NEW p
  PROVE  Mid(RequestClusterStream(s)) /\ Pictures(RequestClusterStream(s), p)
  <1> DEFINE t == RequestClusterStream(s)
  <1>0. s \in Session
    BY DEF Mid, Pre, Whole
  <1>1. t \in Session /\ SameDriver(t, s) /\ SameCounts(t, s)
    <2>1. CASE ~ s.wanted
      BY <1>0, <2>1 DEF RequestClusterStream, SameDriver, SameCounts
    <2>2. CASE s.wanted /\ (s.state # "Running" \/ ~ s.seen)
      <3>1. t = [s EXCEPT !.pending = TRUE]
        BY <2>2 DEF RequestClusterStream
      <3> HIDE DEF t
      <3> QED BY <1>0, <3>1 DEF Session, SameDriver, SameCounts
    <2>3. CASE s.wanted /\ ~ (s.state # "Running" \/ ~ s.seen)
      <3>1. t = [s EXCEPT !.pending = FALSE, !.cluster = "projected"]
        BY <1>0, <2>3 DEF RequestClusterStream, TellCluster, Session
      <3> HIDE DEF t
      <3> QED BY <1>0, <3>1 DEF Session, SameDriver, SameCounts
    <2> QED BY <2>1, <2>2, <2>3
  <1>2. Mid(t)
    BY <1>1, DriverMid
  <1>3. Pictures(t, p)
    BY <1>0 DEF RequestClusterStream, TellCluster, Session, Half, Pictures, Early
  <1> QED BY <1>2, <1>3

LEMMA PicturesHalf ==
  ASSUME NEW s, NEW p, Pictures(s, p)
  PROVE  Half(s)
  BY DEF Pictures, Half

LEMMA PicturesSame ==
  ASSUME NEW s, NEW t, NEW p, Pictures(s, p), SamePicture(t, s), t.state = s.state
  PROVE  Pictures(t, p)
  BY DEF Pictures, SamePicture

(* A closed session shows nothing. *)
LEMMA PicturesClosed ==
  ASSUME NEW s, NEW p, s.state = "Closed"
  PROVE  Pictures(s, p)
  BY DEF Pictures, Early

LEMMA GoodMid ==
  ASSUME NEW s, Good(s), ~ s.over
  PROVE  Mid(s)
  BY DEF Good, Mid, Pre

(* A turn keeps the invariant when its handler does. *)
LEMMA TurnInv ==
  ASSUME NEW s, Mid(s), Pictures(s, phone'), Turn(s), Around'
  PROVE  IInv'
  <1>1. Good(aa') /\ SamePicture(aa', s) /\ aa'.state = s.state
    BY TurnGood, Zenon
  <1>2. Pictures(aa', phone')
    BY <1>1, PicturesSame, Zenon
  <1> QED BY <1>1, <1>2 DEF IInv

LEMMA ClosesInv ==
  ASSUME NEW s, Mid(s), Turn(Closes(s)), Around'
  PROVE  IInv'
  <1> DEFINE t == Closes(s)
  <1>1. Pre(t) /\ t.state = "Closed" /\ SameCounts(t, s) /\ t.done = s.done
    BY ClosesPre, Zenon DEF Mid
  <1>2. Mid(t)
    BY <1>1 DEF Mid, SameCounts
  <1>3. Pictures(t, phone')
    BY <1>1, PicturesClosed, Zenon
  <1> HIDE DEF t
  <1>4. Turn(t)
    BY DEF t
  <1> QED BY <1>2, <1>3, <1>4, TurnInv, Zenon

LEMMA FinishInv ==
  ASSUME NEW s, Pre(s), Turn(FinishShutdown(s)), Around'
  PROVE  IInv'
  <1> DEFINE c == Closes(s)
             t == [c EXCEPT !.done = TRUE]
  <1>1. Pre(c) /\ c.state = "Closed"
    BY ClosesPre, Zenon
  <1>2. Turn(t)
    BY DEF FinishShutdown
  <1> HIDE DEF c
  <1>3. c \in Session /\ Told(c)
    BY <1>1 DEF Pre, Whole
  <1>4. t \in Session
    BY <1>3 DEF Session
  <1>5. /\ t.said = c.said /\ t.down = c.down /\ t.up = c.up /\ t.tap = c.tap
        /\ t.focus = c.focus /\ t.closed = c.closed /\ t.closing = c.closing
        /\ t.over = c.over /\ t.pend = c.pend /\ t.disc = c.disc /\ t.done
        /\ t.state = c.state
    BY <1>3 DEF Session
  <1> HIDE DEF t
  <1>6. Told(t)
    BY <1>3, <1>5, ToldRests, Zenon
  <1>7. Mid(t)
    BY <1>1, <1>4, <1>5, <1>6 DEF Mid, Pre, Whole
  <1>8. Pictures(t, phone')
    BY <1>1, <1>5, PicturesClosed, Zenon
  <1> QED BY <1>2, <1>7, <1>8, TurnInv, Zenon

(* Handlers that change a few fields of the protocol.                      *)
LEMMA ChangeInv ==
  ASSUME NEW s, NEW t, Mid(s), t \in Session, SameDriver(t, s), SameCounts(t, s),
         Pictures(t, phone'), Turn(t), Around'
  PROVE  IInv'
  <1>1. Mid(t)
    BY DriverMid, Zenon
  <1> QED BY <1>1, TurnInv, Zenon

LEMMA BeginInv ==
  ASSUME Good(aa), Pictures(aa, phone'), ~ aa.over, Turn(BeginClose(aa)), Around'
  PROVE  IInv'
  <1>0. aa \in Session /\ Told(aa) /\ Mid(aa)
    BY GoodMid DEF Good, Whole
  <1>1. CASE aa.closed
    <2>1. BeginClose(aa) = aa
      BY <1>1 DEF BeginClose
    <2> QED BY <2>1, <1>0, TurnInv
  <1>2. CASE ~ aa.closed
    <2> DEFINE v == [aa EXCEPT !.closed = TRUE]
               e == EmitDown(v)
               w == e.waiting + 1
               b == e.bye + 1
               t == [e EXCEPT !.closing = TRUE, !.done = FALSE,
                              !.waiting = w, !.bye = b]
    <2>1. v \in Session
      BY <1>0 DEF Session
    <2>2. /\ v.said = aa.said /\ v.down = aa.down /\ v.up = aa.up /\ v.tap = aa.tap
          /\ v.focus = aa.focus /\ SamePicture(v, aa) /\ SameCounts(v, aa)
          /\ v.state = aa.state /\ v.disc = aa.disc /\ v.closed
          /\ v.over = aa.over /\ v.pend = aa.pend
      BY <1>0 DEF Session, SamePicture, SameCounts
    <2> HIDE DEF v
    <2>3. Told(v)
      BY <1>0, <2>2, ToldRests, Zenon
    <2>4. e \in Session /\ Told(e) /\ e.down
      BY <2>1, <2>3, EmitDownTold, Zenon
    <2>5. /\ SamePicture(e, v) /\ SameCounts(e, v) /\ e.state = v.state
          /\ e.disc = v.disc /\ e.closed = v.closed /\ e.over = v.over
          /\ e.pend = v.pend
      BY <2>1, EmitDownRest, Zenon
    <2>6. aa.state # "Closed"
      BY <1>2 DEF Good
    <2>7. Turn(t)
      <3> HIDE DEF e
      <3>1. RequestShutdown([e EXCEPT !.closing = TRUE, !.done = FALSE]) = t
        BY <2>2, <2>4, <2>5, <2>6 DEF RequestShutdown, Session
      <3>2. BeginClose(aa) = RequestShutdown([e EXCEPT !.closing = TRUE, !.done = FALSE])
        BY <1>2 DEF BeginClose, e, v
      <3> QED BY <3>1, <3>2
    <2> HIDE DEF e
    <2>8. t \in Session
      <3>1. w \in Nat /\ b \in Nat
        BY <2>4 DEF Session
      <3> HIDE DEF w, b
      <3> QED BY <2>4, <3>1 DEF Session
    <2>9. /\ t.said = e.said /\ t.down = e.down /\ t.up = e.up /\ t.tap = e.tap
          /\ t.focus = e.focus /\ t.closed = e.closed /\ t.closing /\ ~ t.done
          /\ t.over = e.over /\ t.pend = e.pend /\ t.disc = e.disc
          /\ t.state = e.state /\ SamePicture(t, e)
          /\ t.waiting = e.waiting + 1 /\ t.bye = e.bye + 1
      BY <2>4 DEF Session, SamePicture
    <2> HIDE DEF t
    <2>10. Told(t)
      BY <2>4, <2>9, ToldRests, Zenon
    <2>11. Mid(t)
      BY <1>0, <2>2, <2>4, <2>5, <2>6, <2>8, <2>9, <2>10
      DEF Mid, Pre, Whole, SameCounts
    <2>12. SamePicture(t, aa) /\ t.state = aa.state
      BY <2>2, <2>5, <2>9 DEF SamePicture
    <2>13. Pictures(t, phone')
      BY <2>12, PicturesSame, Zenon
    <2> QED BY <2>7, <2>11, <2>13, TurnInv, Zenon
  <1>3. aa.closed \in BOOLEAN
    BY <1>0 DEF Session
  <1> QED BY <1>1, <1>2, <1>3

-----------------------------------------------------------------------------
(* The actions. *)

LEMMA TurnStart ==
  ASSUME IInv, NEW s, Turn(s)
  PROVE  /\ ~ aa.over /\ aa \in Session /\ Mid(aa) /\ Pictures(aa, phone)
         /\ Half(aa) /\ aa.waiting = aa.bye
  <1>1. ~ aa.over /\ Good(aa) /\ Pictures(aa, phone)
    BY DEF Turn, IInv
  <1>2. Mid(aa)
    BY <1>1, GoodMid, Zenon
  <1>3. aa \in Session /\ aa.waiting = aa.bye
    BY <1>1 DEF Good, Whole
  <1> QED BY <1>1, <1>2, <1>3, PicturesHalf, Zenon

LEMMA SamePhone ==
  ASSUME IInv, UNCHANGED phone
  PROVE  /\ phone' \in [is : {"here", "away", "left", "gone"}, cluster : BOOLEAN]
         /\ \A s : Pictures(s, phone) => Pictures(s, phone')
  BY DEF IInv, Around

LEMMA OtherPhone ==
  ASSUME IInv, NEW is \in {"here", "away", "left", "gone"},
         phone' = [phone EXCEPT !.is = is]
  PROVE  /\ phone' \in [is : {"here", "away", "left", "gone"}, cluster : BOOLEAN]
         /\ \A s : Pictures(s, phone) => Pictures(s, phone')
  <1>1. /\ phone' \in [is : {"here", "away", "left", "gone"}, cluster : BOOLEAN]
        /\ phone'.cluster = phone.cluster
    BY DEF IInv, Around
  <1> QED BY <1>1 DEF Pictures

LEMMA Spent ==
  ASSUME IInv, NEW what \in {"talk", "cmds"}, Spends(what)
  PROVE  left' \in [{"talk", "cmds"} -> Nat]
  BY DEF IInv, Around, Spends

LEMMA Unspent ==
  ASSUME IInv, UNCHANGED left
  PROVE  left' \in [{"talk", "cmds"} -> Nat]
  BY DEF IInv, Around

LEMMA HelperInv ==
  ASSUME IInv, (\E mic \in BOOLEAN : Ready(mic)) \/ FirstFrame \/ Eof
               \/ HelperClosed \/ LinkClosed
  PROVE  IInv'
  <1>1. CASE \E mic \in BOOLEAN : Ready(mic)
    <2> PICK mic \in BOOLEAN : Ready(mic)
      BY <1>1
    <2> DEFINE t == [aa EXCEPT !.ready = TRUE, !.mic = mic,
                       !.state = IF @ = "Init" THEN "ServiceDiscovery" ELSE @]
    <2>1. Turn(t) /\ UNCHANGED phone /\ UNCHANGED left
      BY DEF Ready
    <2>2. Mid(aa) /\ aa \in Session /\ Pictures(aa, phone)
      BY <2>1, TurnStart, Zenon
    <2>3. Around'
      BY <2>1, SamePhone, Unspent DEF Around
    <2>4. t \in Session /\ SameDriver(t, aa) /\ SameCounts(t, aa)
      BY <2>2, ZenonT(60) DEF Session, States, Early, SameDriver, SameCounts
    <2>5. Pictures(t, phone)
      BY <2>2 DEF Pictures, Session, States, Early
    <2> HIDE DEF t
    <2>6. Pictures(t, phone')
      BY <2>1, <2>5, SamePhone
    <2> QED BY <2>1, <2>2, <2>3, <2>4, <2>6, ChangeInv, Zenon
  <1>2. CASE FirstFrame
    <2> DEFINE s == [aa EXCEPT !.seen = TRUE]
               c == IF s.pending THEN RequestClusterStream(s) ELSE s
               t == IF c.focus THEN c ELSE OnProjected(c)
    <2>1. Turn(t) /\ UNCHANGED phone /\ UNCHANGED left /\ aa.state = "Running" /\ ~ aa.seen
      BY <1>2 DEF FirstFrame
    <2>2. Mid(aa) /\ aa \in Session /\ Pictures(aa, phone) /\ Half(aa)
      BY <2>1, TurnStart, Zenon
    <2>3. Around'
      BY <2>1, SamePhone, Unspent DEF Around
    <2>4. s \in Session /\ SameDriver(s, aa) /\ SameCounts(s, aa) /\ Half(s)
      BY <2>1, <2>2 DEF Session, SameDriver, SameCounts, Half
    <2>5. ~ s.pending => Pictures(s, phone)
      BY <2>1, <2>2 DEF Session, Pictures, Early
    <2>6. Mid(s)
      BY <2>2, <2>4, DriverMid
    <2> HIDE DEF s
    <2>7. Mid(c) /\ Pictures(c, phone)
      BY <2>4, <2>5, <2>6, ClusterStream
    <2> HIDE DEF c
    <2>8. Mid(t) /\ Pictures(t, phone)
      BY <2>7, ProjectedMid, PicturesSame DEF SameRest
    <2> HIDE DEF t
    <2>9. Pictures(t, phone')
      BY <2>1, <2>8, SamePhone
    <2> QED BY <2>1, <2>3, <2>8, <2>9, TurnInv, Zenon
  <1>3. CASE Eof
    <2> DEFINE t == [aa EXCEPT !.ping = FALSE]
    <2>1. Turn(t) /\ phone' = [phone EXCEPT !.is = "left"] /\ UNCHANGED left
      BY <1>3 DEF Eof
    <2>2. Mid(aa) /\ aa \in Session /\ Pictures(aa, phone)
      BY <2>1, TurnStart, Zenon
    <2>3. Around'
      BY <2>1, OtherPhone, Unspent DEF Around
    <2>4. /\ t \in Session /\ SameDriver(t, aa) /\ SameCounts(t, aa)
          /\ SamePicture(t, aa) /\ t.state = aa.state
      BY <2>2 DEF Session, SameDriver, SameCounts, SamePicture
    <2> HIDE DEF t
    <2>5. Pictures(t, phone')
      BY <2>1, <2>2, <2>4, OtherPhone, PicturesSame
    <2> QED BY <2>1, <2>2, <2>3, <2>4, <2>5, ChangeInv, Zenon
  <1>4. CASE HelperClosed
    <2>1. Turn(Closes(aa)) /\ phone' = [phone EXCEPT !.is = "gone"] /\ UNCHANGED left
      BY <1>4 DEF HelperClosed
    <2>2. Mid(aa)
      BY <2>1, TurnStart, Zenon
    <2>3. Around'
      BY <2>1, OtherPhone, Unspent DEF Around
    <2> QED BY <2>1, <2>2, <2>3, ClosesInv, Zenon
  <1>5. CASE LinkClosed
    <2> DEFINE t == [aa EXCEPT !.open = FALSE]
    <2>1. Turn(Closes(t)) /\ phone' = [phone EXCEPT !.is = "gone"] /\ UNCHANGED left
      BY <1>5 DEF LinkClosed
    <2>2. Mid(aa) /\ aa \in Session
      BY <2>1, TurnStart, Zenon
    <2>3. Around'
      BY <2>1, OtherPhone, Unspent DEF Around
    <2>4. t \in Session /\ SameDriver(t, aa) /\ SameCounts(t, aa)
      BY <2>2 DEF Session, SameDriver, SameCounts
    <2> HIDE DEF t
    <2>5. Mid(t)
      BY <2>2, <2>4, DriverMid, Zenon
    <2> QED BY <2>1, <2>3, <2>5, ClosesInv, Zenon
  <1> QED BY <1>1, <1>2, <1>3, <1>4, <1>5

(* A handler of the phone's words or of a timer that leaves the phone be.  *)
LEMMA PlainInv ==
  ASSUME IInv, NEW t, Turn(t), UNCHANGED phone, Around',
         t \in Session, SameDriver(t, aa), SameCounts(t, aa), Pictures(t, phone)
  PROVE  IInv'
  <1>1. Mid(aa)
    BY TurnStart, Zenon
  <1>2. Pictures(t, phone')
    BY SamePhone
  <1> QED BY <1>1, <1>2, ChangeInv, Zenon

LEMMA SetUpInv ==
  ASSUME IInv, Discovery \/ SetupVideo \/ SetupCluster
  PROVE  IInv'
  <1>1. CASE Discovery
    <2> DEFINE t == [aa EXCEPT !.state = "ChannelSetup", !.ping = TRUE]
    <2>1. Turn(t) /\ UNCHANGED phone /\ UNCHANGED left /\ aa.state = "ServiceDiscovery"
      BY <1>1 DEF Discovery
    <2>2. aa \in Session /\ Pictures(aa, phone)
      BY <2>1, TurnStart, Zenon
    <2>3. Around'
      BY <2>1, SamePhone, Unspent DEF Around
    <2>4. t \in Session /\ SameDriver(t, aa) /\ SameCounts(t, aa) /\ Pictures(t, phone)
      BY <2>1, <2>2 DEF Session, States, Early, SameDriver, SameCounts, Pictures
    <2> HIDE DEF t
    <2> QED BY <2>1, <2>3, <2>4, PlainInv, Zenon
  <1>2. CASE SetupVideo
    <2> DEFINE s == [TellMain(aa, "projected") EXCEPT !.state = "Running"]
               t == OnConnected(s)
    <2>1. Turn(t) /\ UNCHANGED phone /\ Spends("talk") /\ Answered
      BY <1>2 DEF SetupVideo, Talks
    <2>2. Mid(aa) /\ aa \in Session /\ Pictures(aa, phone)
      BY <2>1, TurnStart, Zenon
    <2>3. Around'
      BY <2>1, SamePhone, Spent DEF Around
    <2>4. s = [aa EXCEPT !.main = "projected", !.state = "Running"]
      BY <2>1, <2>2 DEF TellMain, Answered, Session
    <2> HIDE DEF s
    <2>5. s \in Session /\ SameDriver(s, aa) /\ SameCounts(s, aa)
      BY <2>1, <2>2, <2>4 DEF Session, States, Early, SameDriver, SameCounts, Answered
    <2>6. Pictures(s, phone)
      BY <2>1, <2>2, <2>4 DEF Session, Pictures, Early, Answered
    <2>7. Mid(s)
      BY <2>2, <2>5, DriverMid, Zenon
    <2>8. Mid(t) /\ Pictures(t, phone)
      BY <2>6, <2>7, ConnectedMid, PicturesSame DEF SameRest
    <2> HIDE DEF t
    <2>9. Pictures(t, phone')
      BY <2>1, <2>8, SamePhone
    <2> QED BY <2>1, <2>3, <2>8, <2>9, TurnInv, Zenon
  <1>3. CASE SetupCluster
    <2> DEFINE t == RequestClusterStream(aa)
    <2>1. Turn(t) /\ phone' = [phone EXCEPT !.cluster = TRUE] /\ Spends("talk")
      BY <1>3 DEF SetupCluster
    <2>2. Mid(aa) /\ Half(aa)
      BY <2>1, TurnStart, Zenon
    <2>3. Around'
      <3>1. phone' \in [is : {"here", "away", "left", "gone"}, cluster : BOOLEAN]
        BY <2>1 DEF IInv, Around
      <3> QED BY <2>1, <3>1, Spent DEF Around
    <2>4. Mid(t) /\ Pictures(t, phone')
      BY <2>2, ClusterStream, Zenon
    <2> HIDE DEF t
    <2> QED BY <2>1, <2>3, <2>4, TurnInv, Zenon
  <1> QED BY <1>1, <1>2, <1>3

LEMMA TalkInv ==
  ASSUME IInv, (\E on \in BOOLEAN : FocusRequest(on) \/ MicStart(on))
               \/ ClusterFocusRequest \/ MicStop
  PROVE  IInv'
  <1>0. UNCHANGED phone /\ Spends("talk") /\ Answered
    BY DEF FocusRequest, MicStart, ClusterFocusRequest, MicStop, Talks
  <1>1. Around'
    BY <1>0, SamePhone, Spent DEF Around
  <1>2. CASE \E on \in BOOLEAN : FocusRequest(on)
    <2> PICK on \in BOOLEAN : FocusRequest(on)
      BY <1>2
    <2> DEFINE s == TellMain(aa, "projected")
               t == IF on THEN OnProjected(s) ELSE s
    <2>1. Turn(t)
      BY DEF FocusRequest
    <2>2. Mid(aa) /\ aa \in Session /\ Pictures(aa, phone)
      BY <2>1, TurnStart, Zenon
    <2>3. s = [aa EXCEPT !.main = "projected"]
      BY <1>0, <2>2 DEF TellMain, Answered, Session
    <2> HIDE DEF s
    <2>4. s \in Session /\ SameDriver(s, aa) /\ SameCounts(s, aa) /\ Pictures(s, phone)
      BY <2>2, <2>3 DEF Session, SameDriver, SameCounts, Pictures
    <2>5. Mid(s)
      BY <2>2, <2>4, DriverMid, Zenon
    <2>6. Mid(t) /\ Pictures(t, phone)
      BY <2>4, <2>5, ProjectedMid, PicturesSame DEF SameRest
    <2> HIDE DEF t
    <2>7. Pictures(t, phone')
      BY <1>0, <2>6, SamePhone
    <2> QED BY <1>1, <2>1, <2>6, <2>7, TurnInv, Zenon
  <1>3. CASE \E on \in BOOLEAN : MicStart(on)
    <2> PICK on \in BOOLEAN : MicStart(on)
      BY <1>3
    <2> DEFINE t == StartMic(aa, on)
    <2>1. Turn(t)
      BY DEF MicStart
    <2>2. Mid(aa) /\ Pictures(aa, phone)
      BY <2>1, TurnStart, Zenon
    <2>3. Mid(t) /\ Pictures(t, phone)
      BY <2>2, MicMid, PicturesSame DEF SameRest
    <2> HIDE DEF t
    <2>4. Pictures(t, phone')
      BY <1>0, <2>3, SamePhone
    <2> QED BY <1>1, <2>1, <2>3, <2>4, TurnInv, Zenon
  <1>4. CASE MicStop
    <2> DEFINE t == DropMicTap(aa)
    <2>1. Turn(t)
      BY <1>4 DEF MicStop
    <2>2. Mid(aa) /\ Pictures(aa, phone)
      BY <2>1, TurnStart, Zenon
    <2>3. Mid(t) /\ Pictures(t, phone)
      BY <2>2, MicMid, PicturesSame DEF SameRest
    <2> HIDE DEF t
    <2>4. Pictures(t, phone')
      BY <1>0, <2>3, SamePhone
    <2> QED BY <1>1, <2>1, <2>3, <2>4, TurnInv, Zenon
  <1>5. CASE ClusterFocusRequest
    <2> DEFINE t == TellCluster(aa, "granted")
    <2>1. Turn(t)
      BY <1>5 DEF ClusterFocusRequest
    <2>2. aa \in Session /\ Pictures(aa, phone)
      BY <2>1, TurnStart, Zenon
    <2>3. t = [aa EXCEPT !.cluster = "granted"]
      BY <1>0, <2>2 DEF TellCluster, Answered, Session
    <2> HIDE DEF t
    <2>4. t \in Session /\ SameDriver(t, aa) /\ SameCounts(t, aa) /\ Pictures(t, phone)
      BY <2>2, <2>3 DEF Session, SameDriver, SameCounts, Pictures
    <2> QED BY <1>0, <1>1, <2>1, <2>4, PlainInv, Zenon
  <1> QED BY <1>2, <1>3, <1>4, <1>5

LEMMA LeaveInv ==
  ASSUME IInv, Bye \/ ByeAnswer \/ GoesAway
  PROVE  IInv'
  <1>1. CASE Bye
    <2>1. Turn(Closes(aa)) /\ phone' = [phone EXCEPT !.is = "left"] /\ UNCHANGED left
      BY <1>1 DEF Bye
    <2>2. Mid(aa)
      BY <2>1, TurnStart, Zenon
    <2>3. Around'
      BY <2>1, OtherPhone, Unspent DEF Around
    <2> QED BY <2>1, <2>2, <2>3, ClosesInv, Zenon
  <1>2. CASE ByeAnswer
    <2> DEFINE t == [aa EXCEPT !.waiting = 0]
    <2>1. Turn(FinishShutdown(t)) /\ UNCHANGED phone /\ UNCHANGED left
      BY <1>2 DEF ByeAnswer
    <2>2. Mid(aa) /\ aa \in Session
      BY <2>1, TurnStart, Zenon
    <2>3. Around'
      BY <2>1, SamePhone, Unspent DEF Around
    <2>4. t \in Session /\ SameDriver(t, aa)
      BY <2>2 DEF Session, SameDriver
    <2> HIDE DEF t
    <2>5. Pre(t)
      BY <2>2, <2>4, DriverPre, Zenon DEF Mid
    <2> QED BY <2>1, <2>3, <2>5, FinishInv, Zenon
  <1>3. CASE GoesAway
    <2>1. aa' = aa /\ phone' = [phone EXCEPT !.is = "away"] /\ UNCHANGED left
      BY <1>3 DEF GoesAway
    <2>2. Good(aa) /\ Pictures(aa, phone)
      BY DEF IInv
    <2>3. Around' /\ Pictures(aa, phone')
      BY <2>1, <2>2, OtherPhone, Unspent DEF Around
    <2> QED BY <2>1, <2>2, <2>3 DEF IInv
  <1> QED BY <1>1, <1>2, <1>3

(* Numbers that go up and down keep their type. *)
LEMMA Counted ==
  ASSUME NEW n \in Nat
  PROVE  n + 1 \in Nat /\ (n > 0 => n - 1 \in Nat)
  OBVIOUS

LEMMA TimerInv ==
  ASSUME IInv, PingTimeout \/ Watchdog \/ MainFollowUp \/ ClusterFollowUp
               \/ ShutdownTimeout
  PROVE  IInv'
  <1>0. UNCHANGED phone /\ UNCHANGED left
    BY DEF PingTimeout, Watchdog, MainFollowUp, ClusterFollowUp, ShutdownTimeout
  <1>1. Around'
    BY <1>0, SamePhone, Unspent DEF Around
  <1>2. CASE PingTimeout
    <2>1. Turn(Closes(aa))
      BY <1>2 DEF PingTimeout
    <2>2. Mid(aa)
      BY <2>1, TurnStart, Zenon
    <2> QED BY <1>1, <2>1, <2>2, ClosesInv, Zenon
  <1>3. CASE Watchdog
    <2> DEFINE s == [aa EXCEPT !.watch = FALSE]
    <2>1. Turn(IF s.state \in Early THEN Closes(s) ELSE s)
      BY <1>3 DEF Watchdog
    <2>2. aa \in Session /\ Mid(aa) /\ Pictures(aa, phone)
      BY <2>1, TurnStart, Zenon
    <2>3. /\ s \in Session /\ SameDriver(s, aa) /\ SameCounts(s, aa)
          /\ SamePicture(s, aa) /\ s.state = aa.state
      BY <2>2 DEF Session, SameDriver, SameCounts, SamePicture
    <2> HIDE DEF s
    <2>4. Mid(s)
      BY <2>2, <2>3, DriverMid, Zenon
    <2>5. Pictures(s, phone)
      BY <2>2, <2>3, PicturesSame, Zenon
    <2>6. CASE s.state \in Early
      <3>1. Turn(Closes(s))
        BY <2>1, <2>6
      <3> QED BY <1>1, <2>4, <3>1, ClosesInv, Zenon
    <2>7. CASE s.state \notin Early
      <3>1. Turn(s)
        BY <2>1, <2>7
      <3> QED BY <1>0, <1>1, <2>3, <2>5, <3>1, PlainInv, Zenon
    <2> QED BY <2>6, <2>7
  <1>4. CASE MainFollowUp
    <2> DEFINE n == aa.mainFollowUp - 1
               s == [aa EXCEPT !.mainFollowUp = n]
               t == IF s.state = "Running" THEN TellMain(s, "projected") ELSE s
    <2>1. Turn(t) /\ aa.mainFollowUp > 0
      BY <1>4 DEF MainFollowUp
    <2>2. aa \in Session /\ Pictures(aa, phone)
      BY <2>1, TurnStart, Zenon
    <2>3. n \in Nat
      BY <2>1, <2>2, Counted DEF Session
    <2>4. t = IF aa.state = "Running"
              THEN [aa EXCEPT !.mainFollowUp = n, !.main = "projected"]
              ELSE [aa EXCEPT !.mainFollowUp = n]
      BY <2>2 DEF TellMain, Session
    <2> HIDE DEF n, t
    <2>5. t \in Session /\ SameDriver(t, aa) /\ SameCounts(t, aa) /\ Pictures(t, phone)
      BY <2>2, <2>3, <2>4, ZenonT(60) DEF Session, SameDriver, SameCounts, Pictures
    <2> QED BY <1>0, <1>1, <2>1, <2>5, PlainInv, Zenon
  <1>5. CASE ClusterFollowUp
    <2> DEFINE n == aa.clusterFollowUp - 1
               s == [aa EXCEPT !.clusterFollowUp = n]
               t == IF s.state = "Running" /\ s.wanted
                    THEN TellCluster(s, "projected") ELSE s
    <2>1. Turn(t) /\ aa.clusterFollowUp > 0
      BY <1>5 DEF ClusterFollowUp
    <2>2. aa \in Session /\ Pictures(aa, phone)
      BY <2>1, TurnStart, Zenon
    <2>3. n \in Nat
      BY <2>1, <2>2, Counted DEF Session
    <2>4. t = IF aa.state = "Running" /\ aa.wanted
              THEN [aa EXCEPT !.clusterFollowUp = n, !.cluster = "projected"]
              ELSE [aa EXCEPT !.clusterFollowUp = n]
      BY <2>2 DEF TellCluster, Session
    <2> HIDE DEF n, t
    <2>5. t \in Session /\ SameDriver(t, aa) /\ SameCounts(t, aa) /\ Pictures(t, phone)
      BY <2>2, <2>3, <2>4, ZenonT(60) DEF Session, SameDriver, SameCounts, Pictures
    <2> QED BY <1>0, <1>1, <2>1, <2>5, PlainInv, Zenon
  <1>6. CASE ShutdownTimeout
    <2> DEFINE b == aa.bye - 1
               w == aa.waiting - 1
               t == [aa EXCEPT !.bye = b, !.waiting = w]
               s == [aa EXCEPT !.bye = b]
    <2>1. /\ Turn(IF s.waiting > 0 THEN FinishShutdown([s EXCEPT !.waiting = @ - 1])
                  ELSE s)
          /\ aa.bye > 0
      BY <1>6 DEF ShutdownTimeout
    <2>2. aa \in Session /\ Mid(aa) /\ aa.waiting = aa.bye
      BY <2>1, TurnStart, Zenon
    <2>3. aa.waiting > 0 /\ b \in Nat /\ w \in Nat
      BY <2>1, <2>2, Counted DEF Session
    <2>4. s.waiting > 0 /\ [s EXCEPT !.waiting = @ - 1] = t
      BY <2>2, <2>3 DEF Session
    <2>5. Turn(FinishShutdown(t))
      BY <2>1, <2>4
    <2> HIDE DEF b, w
    <2>6. t \in Session /\ SameDriver(t, aa)
      BY <2>2, <2>3 DEF Session, SameDriver
    <2> HIDE DEF t
    <2>7. Pre(t)
      BY <2>2, <2>6, DriverPre, Zenon DEF Mid
    <2> QED BY <1>1, <2>5, <2>7, FinishInv, Zenon
  <1> QED BY <1>2, <1>3, <1>4, <1>5, <1>6

LEMMA CommandInv ==
  ASSUME IInv, Close \/ Disconnect \/ Keyframe \/ ClusterFocus
               \/ \E active \in BOOLEAN : ClusterActive(active)
  PROVE  IInv'
  <1>0. UNCHANGED phone /\ Spends("cmds")
    BY DEF Close, Disconnect, Keyframe, ClusterFocus, ClusterActive, Command
  <1>1. Around'
    BY <1>0, SamePhone, Spent DEF Around
  <1>2. CASE Close
    <2>1. Turn(BeginClose(aa))
      BY <1>2 DEF Close, Command
    <2>2. Good(aa) /\ ~ aa.over /\ Pictures(aa, phone')
      BY <1>0, <2>1, SamePhone DEF IInv, Turn
    <2> QED BY <1>1, <2>1, <2>2, BeginInv, Zenon
  <1>3. CASE Disconnect
    <2>1. Turn(RequestShutdown(aa))
      BY <1>3 DEF Disconnect, Command
    <2>2. aa \in Session /\ Mid(aa) /\ Told(aa) /\ Pictures(aa, phone)
      BY <2>1, TurnStart DEF Mid, Pre, Whole
    <2>3. CASE aa.state = "Closed"
      <3> DEFINE t == [aa EXCEPT !.done = TRUE]
      <3>1. Turn(t)
        BY <2>1, <2>3 DEF RequestShutdown
      <3>2. /\ t \in Session /\ t.said = aa.said /\ t.down = aa.down
            /\ t.up = aa.up /\ t.tap = aa.tap /\ t.focus = aa.focus
            /\ t.closed = aa.closed /\ t.closing = aa.closing /\ t.done
            /\ t.over = aa.over /\ t.pend = aa.pend /\ t.disc = aa.disc
            /\ t.state = aa.state
        BY <2>2 DEF Session
      <3> HIDE DEF t
      <3>3. Told(t)
        BY <2>2, <3>2, ToldRests, Zenon
      <3>4. Mid(t)
        BY <2>2, <2>3, <3>2, <3>3 DEF Mid, Pre, Whole
      <3>5. Pictures(t, phone')
        BY <2>3, <3>2, PicturesClosed, Zenon
      <3> QED BY <1>1, <3>1, <3>4, <3>5, TurnInv, Zenon
    <2>4. CASE aa.state # "Closed"
      <3> DEFINE w == aa.waiting + 1
                 b == aa.bye + 1
                 t == [aa EXCEPT !.waiting = w, !.bye = b]
      <3>1. Turn(t)
        BY <2>1, <2>4 DEF RequestShutdown
      <3>2. aa.waiting = aa.bye
        BY <2>1, TurnStart, Zenon
      <3>3. w \in Nat /\ b \in Nat /\ w = b
        BY <2>2, <3>2, Counted DEF Session
      <3> HIDE DEF w, b
      <3>4. /\ t \in Session /\ SameDriver(t, aa) /\ SamePicture(t, aa)
            /\ t.state = aa.state /\ t.waiting = t.bye
        BY <2>2, <3>3 DEF Session, SameDriver, SamePicture
      <3> HIDE DEF t
      <3>5. Mid(t)
        <4>1. Pre(t)
          BY <2>2, <3>4, DriverPre, Zenon DEF Mid
        <4> QED BY <3>4, <4>1 DEF Mid
      <3>6. Pictures(t, phone')
        <4>1. Pictures(t, phone)
          BY <2>2, <3>4, PicturesSame, Zenon
        <4> QED BY <1>0, <4>1, SamePhone
      <3> QED BY <1>1, <3>1, <3>5, <3>6, TurnInv, Zenon
    <2> QED BY <2>3, <2>4
  <1>4. CASE Keyframe
    <2> DEFINE n == aa.mainFollowUp + 1
               c == aa.clusterFollowUp + 1
               t == ForceClusterKeyframe(RequestMainKeyframe(aa))
    <2>1. Turn(t)
      BY <1>4 DEF Keyframe, Command
    <2>2. aa \in Session /\ Pictures(aa, phone)
      BY <2>1, TurnStart, Zenon
    <2>3. n \in Nat /\ c \in Nat /\ n # 0 /\ c # 0
      BY <2>2, Counted DEF Session
    <2>4. t = IF aa.state # "Running" THEN aa
              ELSE IF ~ aa.wanted THEN [aa EXCEPT !.main = "native", !.mainFollowUp = n]
              ELSE [aa EXCEPT !.main = "native", !.mainFollowUp = n,
                              !.cluster = "native", !.clusterFollowUp = c]
      BY <2>2 DEF ForceClusterKeyframe, RequestMainKeyframe, TellMain, TellCluster, Session
    <2> HIDE DEF n, c, t
    <2>5. t \in Session /\ SameDriver(t, aa) /\ SameCounts(t, aa) /\ Pictures(t, phone)
      <3>1. CASE aa.state # "Running"
        BY <2>2, <2>4, <3>1 DEF SameDriver, SameCounts
      <3>2. CASE aa.state = "Running" /\ ~ aa.wanted
        BY <2>2, <2>3, <2>4, <3>2 DEF Session, SameDriver, SameCounts, Pictures
      <3>3. CASE aa.state = "Running" /\ aa.wanted
        BY <2>2, <2>3, <2>4, <3>3 DEF Session, SameDriver, SameCounts, Pictures
      <3> QED BY <3>1, <3>2, <3>3
    <2> QED BY <1>0, <1>1, <2>1, <2>5, PlainInv, Zenon
  <1>5. CASE ClusterFocus
    <2>1. Turn(RequestClusterStream(aa))
      BY <1>5 DEF ClusterFocus, Command
    <2>2. Mid(aa) /\ Half(aa)
      BY <2>1, TurnStart, Zenon
    <2>3. Mid(RequestClusterStream(aa)) /\ Pictures(RequestClusterStream(aa), phone')
      BY <2>2, ClusterStream, Zenon
    <2> QED BY <1>1, <2>1, <2>3, TurnInv, Zenon
  <1>6. CASE \E active \in BOOLEAN : ClusterActive(active)
    <2> PICK active \in BOOLEAN : ClusterActive(active)
      BY <1>6
    <2> DEFINE t == SetClusterStreamActive(aa, active)
               s == [aa EXCEPT !.wanted = TRUE]
    <2>1. Turn(t)
      BY DEF ClusterActive, Command
    <2>2. aa \in Session /\ Mid(aa) /\ Pictures(aa, phone) /\ Half(aa)
      BY <2>1, TurnStart, Zenon
    <2>3. CASE aa.wanted = active
      <3>1. t = aa
        BY <2>3 DEF SetClusterStreamActive
      <3> HIDE DEF t
      <3>2. SameDriver(t, aa) /\ SameCounts(t, aa)
        BY <3>1 DEF SameDriver, SameCounts
      <3> QED BY <1>0, <1>1, <2>1, <2>2, <3>1, <3>2, PlainInv
    <2>4. CASE aa.wanted # active /\ active
      <3>1. Turn(RequestClusterStream(s))
        BY <2>1, <2>4 DEF SetClusterStreamActive
      <3>2. s \in Session /\ SameDriver(s, aa) /\ SameCounts(s, aa) /\ Half(s)
        BY <2>2 DEF Session, SameDriver, SameCounts, Half
      <3> HIDE DEF s
      <3>3. Mid(s)
        BY <2>2, <3>2, DriverMid, Zenon
      <3>4. Mid(RequestClusterStream(s)) /\ Pictures(RequestClusterStream(s), phone')
        BY <3>2, <3>3, ClusterStream, Zenon
      <3> QED BY <1>1, <3>1, <3>4, TurnInv, Zenon
    <2>5. CASE aa.wanted # active /\ ~ active
      <3>1. t = IF aa.state = "Running"
                THEN [aa EXCEPT !.wanted = FALSE, !.pending = FALSE, !.cluster = "native"]
                ELSE [aa EXCEPT !.wanted = FALSE, !.pending = FALSE]
        BY <2>2, <2>5 DEF SetClusterStreamActive, TellCluster, Session
      <3> HIDE DEF t
      <3>2. t \in Session /\ SameDriver(t, aa) /\ SameCounts(t, aa)
        BY <2>2, <3>1, ZenonT(60) DEF Session, SameDriver, SameCounts
      <3>3. Pictures(t, phone)
        BY <2>2, <3>1 DEF Session, Pictures
      <3> QED BY <1>0, <1>1, <2>1, <3>2, <3>3, PlainInv, Zenon
    <2> QED BY <2>3, <2>4, <2>5
  <1> QED BY <1>2, <1>3, <1>4, <1>5, <1>6

-----------------------------------------------------------------------------
LEMMA InitInv == Init => IInv
  <1> SUFFICES ASSUME Init PROVE IInv
    OBVIOUS
  <1> PICK active \in BOOLEAN :
       aa = [state |-> "Init", ready |-> FALSE, mic |-> FALSE, disc |-> FALSE,
             ping |-> FALSE, seen |-> FALSE, wanted |-> active,
             pending |-> FALSE, waiting |-> 0, main |-> "none",
             cluster |-> "none",
             open |-> TRUE, closed |-> FALSE, up |-> FALSE, down |-> FALSE,
             tap |-> FALSE, focus |-> FALSE, pend |-> FALSE,
             closing |-> FALSE, done |-> FALSE, over |-> FALSE,
             watch |-> TRUE, mainFollowUp |-> 0, clusterFollowUp |-> 0,
             bye |-> 0, said |-> <<>>]
    BY DEF Init
  <1>1. aa \in Session
    BY DEF Session, States, Early
  <1>2. Told(aa)
    BY DEF Told, At, Ended
  <1>3. Good(aa)
    BY <1>1, <1>2 DEF Good, Whole
  <1>4. Pictures(aa, phone)
    BY DEF Pictures, Init
  <1>5. Around
    BY BudgetAssumption DEF Around, Init
  <1> QED BY <1>3, <1>4, <1>5 DEF IInv

LEMMA NextInv == IInv /\ [Next]_vars => IInv'
  <1> SUFFICES ASSUME IInv, [Next]_vars PROVE IInv'
    OBVIOUS
  <1>1. CASE UNCHANGED vars
    BY <1>1 DEF vars, IInv, Around
  <1>2. CASE Next
    BY <1>2, HelperInv, SetUpInv, TalkInv, LeaveInv, TimerInv, CommandInv DEF Next
  <1> QED BY <1>1, <1>2

LEMMA Invariant == Spec => []IInv
  BY InitInv, NextInv, PTL DEF Spec

(* The driver's record keeps its type, and as many goodbyes wait for their *)
(* answer as there are timers for them.                                    *)
THEOREM TypeCorrect == Spec => []TypeOK
  <1>1. IInv => TypeOK
    BY DEF IInv, Good, Whole, Around, TypeOK
  <1> QED BY <1>1, Invariant, PTL

(* Whichever side ends a session, and whatever still arrives meanwhile,    *)
(* the manager hears that it is gone once and as the last thing, after the *)
(* microphone and the picture were taken back.                             *)
THEOREM SaysGoneLast == Spec => []LastWord
  <1>1. IInv => LastWord
    BY DEF IInv, Good, Whole, Told, LastWord
  <1> QED BY <1>1, Invariant, PTL

(* The picture of a running session follows what LIVI wants to show, in    *)
(* every order of set-up, first frames, commands and follow-up timers.     *)
THEOREM PictureCorrect == Spec => []PictureFollows
  <1>1. IInv => PictureFollows
    BY DEF IInv, Pictures, PictureFollows
  <1> QED BY <1>1, Invariant, PTL
=============================================================================
