--------------------------- MODULE SessionsProofs ---------------------------
(***************************************************************************)
(* The session table keeps one session in front and one session streaming, *)
(* for every set of phones and of links, whatever the order in which the   *)
(* two managers' events, the user's choices and late news of closed        *)
(* sessions arrive.                                                        *)
(***************************************************************************)
EXTENDS Sessions, WellFoundedInduction, TLAPS

(* The type of the table as a value. *)
TypeT(t) ==
  /\ t = [sessions |-> t.sessions, next |-> t.next, owner |-> t.owner,
          duck |-> t.duck, streams |-> t.streams, closing |-> t.closing]
  /\ Indexes(t) \subseteq Nat \ {0}
  /\ t.sessions \in [Indexes(t) -> Entry]
  /\ t.next \in Nat \ {0}
  /\ t.owner \in Links \cup {NoLink}
  /\ t.duck \in Duck
  /\ t.streams \subseteq Links
  /\ t.closing \subseteq Links

(* What every method of the table may assume and keeps, even halfway       *)
(* through a handler: indexes lie below the counter (a push never lands on *)
(* an entry), at most one entry is active, and the links that stream are   *)
(* the one the table takes for the owner.                                  *)
Pre(t) ==
  /\ TypeT(t)
  /\ \A i \in Indexes(t) : i < t.next
  /\ \A i, j \in Active(t) : i = j
  /\ t.streams = {t.owner} \ {NoLink}

(* The owner is up to date. *)
Good(t) == Pre(t) /\ t.owner = ActiveLink(t)

(* ... and, between handlers, some session is in front. *)
Full(t) == Good(t) /\ (Indexes(t) # {} => Active(t) # {})

LEMMA LessIsWellFounded ==
  \E R : /\ IsWellFoundedOn(R, Nat)
         /\ \A x, y \in Nat : x < y => <<x, y>> \in R
<1>1. \A x, y \in Nat : x < y => <<x, y>> \in OpToRel(<, Nat)
  BY Zenon DEF OpToRel
<1> QED BY <1>1, NatLessThanWellFounded, Zenon

(* A set of indexes that is not empty has a first one. *)
LEMMA FirstIn ==
  ASSUME NEW S, S \subseteq Nat, S # {}
  PROVE  /\ First(S) \in S
         /\ \A j \in S : First(S) <= j
<1>1. PICK R : /\ IsWellFoundedOn(R, Nat)
               /\ \A x, y \in Nat : x < y => <<x, y>> \in R
  BY LessIsWellFounded
<1>2. PICK x \in S : \A y \in S : ~ (<<y, x>> \in R)
  <2>1. IsWellFoundedOn(R, Nat)
    BY <1>1, Zenon
  <2> QED BY <2>1, WFMin, ZenonT(60)
<1>3. ASSUME NEW y \in S
      PROVE  x <= y
  <2>1. x \in Nat /\ y \in Nat
    OBVIOUS
  <2>2. ~ (y < x)
    BY <1>1, <1>2, <2>1, Zenon
  <2> QED BY <2>1, <2>2
<1> QED BY <1>3 DEF First

LEMMA ActiveLinkType ==
  ASSUME NEW t, TypeT(t)
  PROVE  /\ ActiveLink(t) \in Links \cup {NoLink}
         /\ Active(t) # {} => /\ First(Active(t)) \in Active(t)
                              /\ ActiveLink(t) = t.sessions[First(Active(t))].link
                              /\ ActiveLink(t) \in Links
<1>1. Active(t) \subseteq Nat
  BY DEF TypeT, Active, Indexes
<1>2. CASE Active(t) = {}
  BY <1>2 DEF ActiveLink
<1>3. CASE Active(t) # {}
  <2>1. First(Active(t)) \in Active(t)
    BY <1>1, <1>3, FirstIn
  <2> QED BY <1>3, <2>1 DEF ActiveLink, Active, Indexes, TypeT, Entry
<1> QED BY <1>2, <1>3

(* A table put together from its parts. *)
Tab(s, n, o, d, st, cl) ==
  [sessions |-> s, next |-> n, owner |-> o, duck |-> d, streams |-> st, closing |-> cl]

LEMMA TabOf ==
  ASSUME NEW s, NEW n, NEW o, NEW d, NEW st, NEW cl
  PROVE  LET c == Tab(s, n, o, d, st, cl)
         IN  /\ c.sessions = s /\ c.next = n /\ c.owner = o
             /\ c.duck = d /\ c.streams = st /\ c.closing = cl
             /\ Indexes(c) = DOMAIN s
             /\ Active(c) = {i \in DOMAIN s : s[i].active}
BY DEF Tab, Indexes, Active

LEMMA PreOf ==
  ASSUME NEW s, NEW n, NEW o, NEW d, NEW st, NEW cl,
         DOMAIN s \subseteq Nat \ {0}, s \in [DOMAIN s -> Entry],
         n \in Nat \ {0}, \A i \in DOMAIN s : i < n,
         o \in Links \cup {NoLink}, st = {o} \ {NoLink},
         d \in Duck, cl \subseteq Links,
         \A i, j \in DOMAIN s : s[i].active /\ s[j].active => i = j
  PROVE  Pre(Tab(s, n, o, d, st, cl))
<1> DEFINE c == Tab(s, n, o, d, st, cl)
<1>1. /\ c.sessions = s /\ c.next = n /\ c.owner = o
      /\ c.duck = d /\ c.streams = st /\ c.closing = cl
      /\ Indexes(c) = DOMAIN s
  BY TabOf
<1>2. st \subseteq Links
  OBVIOUS
<1>3. c = [sessions |-> c.sessions, next |-> c.next, owner |-> c.owner,
           duck |-> c.duck, streams |-> c.streams, closing |-> c.closing]
  BY DEF Tab
<1> HIDE DEF c
<1>4. TypeT(c)
  BY <1>1, <1>2, <1>3 DEF TypeT
<1>5. \A i, j \in Active(c) : i = j
  BY <1>1 DEF Active
<1>6. Pre(c)
  BY <1>1, <1>4, <1>5 DEF Pre
<1> QED BY <1>6 DEF c

(* What Pre says of the parts of a table. *)
LEMMA Parts ==
  ASSUME NEW t, Pre(t)
  PROVE  /\ t = Tab(t.sessions, t.next, t.owner, t.duck, t.streams, t.closing)
         /\ Indexes(t) = DOMAIN t.sessions
         /\ DOMAIN t.sessions \subseteq Nat \ {0}
         /\ t.sessions \in [DOMAIN t.sessions -> Entry]
         /\ t.next \in Nat \ {0} /\ \A i \in DOMAIN t.sessions : i < t.next
         /\ t.owner \in Links \cup {NoLink} /\ t.streams = {t.owner} \ {NoLink}
         /\ t.duck \in Duck /\ t.closing \subseteq Links
         /\ \A i, j \in DOMAIN t.sessions :
               t.sessions[i].active /\ t.sessions[j].active => i = j
<1>1. t = Tab(t.sessions, t.next, t.owner, t.duck, t.streams, t.closing)
  BY DEF Pre, TypeT, Tab
<1>2. \A i, j \in DOMAIN t.sessions :
        t.sessions[i].active /\ t.sessions[j].active => i = j
  BY DEF Pre, Active, Indexes
<1> QED BY <1>1, <1>2 DEF Pre, TypeT, Indexes

LEMMA ChangedGood ==
  ASSUME NEW t, Pre(t)
  PROVE  /\ Good(Changed(t))
         /\ Changed(t).sessions = t.sessions
         /\ Changed(t).next = t.next
         /\ Changed(t).duck = t.duck /\ Changed(t).closing = t.closing
         /\ Indexes(Changed(t)) = Indexes(t)
         /\ Active(Changed(t)) = Active(t)
<1> DEFINE c == Changed(t)
<1>1. ActiveLink(t) \in Links \cup {NoLink}
  BY ActiveLinkType DEF Pre
<1>2. CASE ActiveLink(t) = t.owner
  BY <1>2 DEF Changed, Good
<1>3. CASE ActiveLink(t) # t.owner
  <2>1. c = [t EXCEPT !.streams = (@ \ {t.owner}) \cup ({ActiveLink(t)} \ {NoLink}),
                      !.owner = ActiveLink(t)]
    BY <1>3 DEF Changed
  <2>2. c = Tab(t.sessions, t.next, ActiveLink(t), t.duck,
                (t.streams \ {t.owner}) \cup ({ActiveLink(t)} \ {NoLink}), t.closing)
    BY <2>1 DEF Pre, TypeT, Tab
  <2>3. (t.streams \ {t.owner}) \cup ({ActiveLink(t)} \ {NoLink})
           = {ActiveLink(t)} \ {NoLink}
    BY DEF Pre
  <2>4. /\ Pre(c) /\ c.sessions = t.sessions /\ c.next = t.next
        /\ c.owner = ActiveLink(t) /\ c.duck = t.duck /\ c.closing = t.closing
    <3> HIDE DEF c
    <3>1. Pre(c)
      BY <1>1, <2>2, <2>3, Parts, PreOf
    <3> QED BY <2>2, <3>1, TabOf
  <2>5. /\ Indexes(c) = Indexes(t) /\ Active(c) = Active(t)
        /\ ActiveLink(c) = ActiveLink(t)
    BY <2>4 DEF Indexes, Active, ActiveLink
  <2> QED BY <2>4, <2>5 DEF Good
<1> QED BY <1>2, <1>3

(* The same entries but for what is in front and whose video is up.        *)
SameIn(c, t, J) ==
  \A j \in J : /\ c.sessions[j].link = t.sessions[j].link
               /\ c.sessions[j].transport = t.sessions[j].transport
               /\ c.sessions[j].device = t.sessions[j].device
               /\ c.sessions[j].duck = t.sessions[j].duck

Same(c, t) == Indexes(c) = Indexes(t) /\ SameIn(c, t, Indexes(t))

(* Media plays at the level of the entry in front, if it is one of J.      *)
Ducked(t, J) ==
  /\ Active(t) = {} => t.duck = "full"
  /\ \A i \in Active(t) \cap J : t.duck = t.sessions[i].duck

(* Bringing an entry to the front leaves exactly that entry in front.      *)
LEMMA ActivateGood ==
  ASSUME NEW t, Good(t), NEW i \in Indexes(t)
  PROVE  /\ Good(Activate(t, i))
         /\ Active(Activate(t, i)) = {i}
         /\ Indexes(Activate(t, i)) = Indexes(t)
         /\ Activate(t, i).closing = t.closing
         /\ Same(Activate(t, i), t)
         /\ Activate(t, i).duck = IF i \in Active(t) THEN t.duck
                                  ELSE DuckOf(t, i, Active(t) # {})
<1>1. CASE i \in Active(t)
  BY <1>1 DEF Activate, Same, SameIn, Good, Pre
<1>2. CASE i \notin Active(t)
  <2> DEFINE prev == Active(t)
             s == [j \in DOMAIN t.sessions |-> [t.sessions[j] EXCEPT !.active =
                     (j = i \/ (t.sessions[j].active /\ j # First(prev)))]]
             d == DuckOf(t, i, prev # {})
             c == Tab(s, t.next, t.owner, d, t.streams, t.closing)
  <2>1. Activate(t, i) = Changed(c)
    <3>1. Activate(t, i) = Changed([t EXCEPT !.sessions = s, !.duck = d])
      BY <1>2, Zenon DEF Activate, Indexes
    <3> HIDE DEF s, d
    <3>2. t = Tab(t.sessions, t.next, t.owner, t.duck, t.streams, t.closing)
      BY Parts DEF Good
    <3>3. [t EXCEPT !.sessions = s] = Tab(s, t.next, t.owner, t.duck, t.streams, t.closing)
      BY <3>2 DEF Tab
    <3>4. [Tab(s, t.next, t.owner, t.duck, t.streams, t.closing) EXCEPT !.duck = d] = c
      BY DEF Tab
    <3> QED BY <3>1, <3>3, <3>4
  <2>2. i \in DOMAIN t.sessions /\ t.sessions \in [DOMAIN t.sessions -> Entry]
    BY DEF Good, Pre, TypeT, Indexes
  <2>3. d \in Duck
    BY <2>2 DEF DuckOf, Entry, Duck
  <2>4. s \in [DOMAIN s -> Entry]
    <3>1. ASSUME NEW j \in DOMAIN t.sessions
          PROVE  s[j] \in Entry
      <4> DEFINE a == j = i \/ (t.sessions[j].active /\ j # First(prev))
      <4>1. t.sessions[j] \in Entry /\ a \in BOOLEAN
        BY <2>2 DEF Entry
      <4>2. s[j] = [t.sessions[j] EXCEPT !.active = a]
        OBVIOUS
      <4> HIDE DEF s, a
      <4> QED BY <4>1, <4>2 DEF Entry
    <3> QED BY <3>1
  <2>5. \A j \in DOMAIN s : s[j].active <=> j = i
    <3>1. ASSUME NEW j \in DOMAIN t.sessions
          PROVE  s[j].active <=> j = i
      <4>1. s[j].active <=> (j = i \/ (t.sessions[j].active /\ j # First(prev)))
        BY <2>2 DEF Entry
      <4>2. t.sessions[j].active => j = First(prev)
        <5>1. t.sessions[j].active => j \in prev
          BY DEF Active, Indexes
        <5>2. prev # {} => First(prev) \in prev
          BY ActiveLinkType DEF Good, Pre
        <5> QED BY <5>1, <5>2 DEF Good, Pre
      <4> QED BY <4>1, <4>2
    <3> QED BY <3>1
  <2>6. Indexes(c) = Indexes(t) /\ Active(c) = {i}
    <3> HIDE DEF s, d
    <3>1. Active(c) = {j \in DOMAIN s : s[j].active} /\ Indexes(c) = DOMAIN s
      BY TabOf
    <3>2. DOMAIN s = DOMAIN t.sessions
      BY DEF s
    <3> QED BY <2>2, <2>5, <3>1, <3>2 DEF Indexes
  <2>7. Pre(c)
    <3>1. DOMAIN s = DOMAIN t.sessions
      OBVIOUS
    <3>2. \A j, k \in DOMAIN s : s[j].active /\ s[k].active => j = k
      BY <2>5
    <3>3. Pre(t)
      BY DEF Good
    <3> HIDE DEF s, d
    <3> QED BY <2>3, <2>4, <3>1, <3>2, <3>3, Parts, PreOf
  <2>8. c.closing = t.closing /\ c.duck = d /\ c.sessions = s
    <3> HIDE DEF s, d
    <3> QED BY TabOf
  <2>9. Same(c, t)
    <3>1. \A j \in DOMAIN t.sessions :
            /\ s[j].link = t.sessions[j].link /\ s[j].transport = t.sessions[j].transport
            /\ s[j].device = t.sessions[j].device /\ s[j].duck = t.sessions[j].duck
      BY <2>2 DEF Entry
    <3> HIDE DEF c, s
    <3> QED BY <2>6, <2>8, <3>1 DEF Same, SameIn, Indexes
  <2> HIDE DEF c
  <2>10. Same(Changed(c), t)
    BY <2>7, <2>9, ChangedGood DEF Same, SameIn, Indexes
  <2> QED BY <1>2, <2>1, <2>6, <2>7, <2>8, <2>10, ChangedGood
<1> QED BY <1>1, <1>2

LEMMA AutoActivateFull ==
  ASSUME NEW t, Good(t), NEW i \in Indexes(t)
  PROVE  Full(AutoActivate(t, i))
<1>1. Good(Activate(t, i)) /\ Active(Activate(t, i)) # {}
  BY ActivateGood
<1> QED BY <1>1 DEF AutoActivate, Full

LEMMA ActivateFull ==
  ASSUME NEW t, Full(t), NEW i
  PROVE  Full(Activate(t, i))
<1>1. CASE i \in Indexes(t)
  <2>1. Good(Activate(t, i)) /\ Active(Activate(t, i)) # {}
    BY <1>1, ActivateGood DEF Full
  <2> QED BY <2>1 DEF Full
<1>2. CASE i \notin Indexes(t)
  BY <1>2 DEF Activate
<1> QED BY <1>1, <1>2

LEMMA ActivateNextFull ==
  ASSUME NEW t, Full(t)
  PROVE  Full(ActivateNext(t))
BY ActivateFull DEF ActivateNext

LEMMA ToldFull ==
  ASSUME NEW t, NEW l \in Links
  PROVE  /\ Pre(t) => Pre(Told(t, l)) 
         /\ Full(t) => Full(Told(t, l))
         /\ Pre(t) => /\ Told(t, l).sessions = t.sessions /\ Told(t, l).next = t.next
                      /\ Told(t, l).closing = t.closing \cup {l}
                      /\ Told(t, l).duck = t.duck
<1> SUFFICES ASSUME Pre(t)
             PROVE  /\ Pre(Told(t, l))
                    /\ Full(t) => Full(Told(t, l))
                    /\ Told(t, l).sessions = t.sessions /\ Told(t, l).next = t.next
                    /\ Told(t, l).closing = t.closing \cup {l}
                    /\ Told(t, l).duck = t.duck
  BY DEF Full, Good
<1> DEFINE c == Tab(t.sessions, t.next, t.owner, t.duck, t.streams, t.closing \cup {l})
<1>1. Told(t, l) = c
  BY DEF Told, Tab, Pre, TypeT
<1>2. Pre(c)
  BY Parts, PreOf
<1>3. /\ c.sessions = t.sessions /\ c.next = t.next /\ c.owner = t.owner
      /\ c.closing = t.closing \cup {l} /\ c.duck = t.duck
  BY TabOf
<1>4. Indexes(c) = Indexes(t) /\ Active(c) = Active(t) /\ ActiveLink(c) = ActiveLink(t)
  BY <1>3 DEF Indexes, Active, ActiveLink
<1> HIDE DEF c
<1> QED BY <1>1, <1>2, <1>3, <1>4 DEF Full, Good

(* One entry of the table rewritten, its active flag kept.                 *)
LEMMA RewriteGood ==
  ASSUME NEW t, Pre(t), NEW i \in Indexes(t), NEW e \in Entry,
         e.active = t.sessions[i].active, NEW d \in Duck
  PROVE  LET c == Tab([t.sessions EXCEPT ![i] = e], t.next, t.owner, d,
                      t.streams, t.closing)
         IN  /\ Pre(c)
             /\ c.sessions = [t.sessions EXCEPT ![i] = e]
             /\ c.next = t.next /\ c.owner = t.owner
             /\ c.duck = d /\ c.closing = t.closing
             /\ Indexes(c) = Indexes(t) /\ Active(c) = Active(t)
<1> DEFINE s == [t.sessions EXCEPT ![i] = e]
           c == Tab(s, t.next, t.owner, d, t.streams, t.closing)
<1>1. i \in DOMAIN t.sessions /\ t.sessions \in [DOMAIN t.sessions -> Entry]
  BY DEF Pre, TypeT, Indexes
<1>2. DOMAIN s = DOMAIN t.sessions
  OBVIOUS
<1>3. s \in [DOMAIN s -> Entry]
  BY <1>1
<1>4. \A j \in DOMAIN t.sessions : s[j].active = t.sessions[j].active
  BY <1>1
<1> HIDE DEF s
<1>5. /\ c.sessions = s /\ c.next = t.next /\ c.owner = t.owner
      /\ c.duck = d /\ c.closing = t.closing
  BY TabOf
<1>6. Active(c) = Active(t) /\ Indexes(c) = Indexes(t)
  BY <1>2, <1>4, <1>5 DEF Active, Indexes
<1>7. \A j, k \in DOMAIN s : s[j].active /\ s[k].active => j = k
  BY <1>2, <1>4, Parts
<1>8. Pre(c)
  BY <1>2, <1>3, <1>7, Parts, PreOf
<1> QED BY <1>5, <1>6, <1>8 DEF s

Transports == {"usb", "wifi"}

New(l, tr, ids) ==
  [link |-> l, transport |-> tr, device |-> ids,
   active |-> FALSE, video |-> FALSE, duck |-> "full"]

(* A new entry goes behind all others, at an index none of them has.       *)
LEMMA PushGood ==
  ASSUME NEW t, Pre(t), NEW l \in Links, NEW tr \in Transports, NEW ids \in SUBSET Ids
  PROVE  /\ Pre(Push(t, l, tr, ids))
         /\ t.next \in Indexes(Push(t, l, tr, ids)) \ Indexes(t)
         /\ Indexes(Push(t, l, tr, ids)) = Indexes(t) \cup {t.next}
         /\ \A i \in Indexes(t) : Push(t, l, tr, ids).sessions[i] = t.sessions[i]
         /\ Push(t, l, tr, ids).sessions[t.next] = New(l, tr, ids)
         /\ Active(Push(t, l, tr, ids)) = Active(t)
         /\ Push(t, l, tr, ids).duck = t.duck
         /\ Push(t, l, tr, ids).closing = t.closing
<1> DEFINE new == [link |-> l, transport |-> tr, device |-> ids,
                   active |-> FALSE, video |-> FALSE, duck |-> "full"]
           s == [i \in Indexes(t) \cup {t.next} |-> IF i = t.next THEN new ELSE t.sessions[i]]
           c == Tab(s, t.next + 1, t.owner, t.duck, t.streams, t.closing)
<1>1. Push(t, l, tr, ids) = c
  <2>1. Push(t, l, tr, ids) = [t EXCEPT !.sessions = s, !.next = t.next + 1]
    BY DEF Push
  <2> HIDE DEF s
  <2>2. [t EXCEPT !.sessions = s] = Tab(s, t.next, t.owner, t.duck, t.streams, t.closing)
    BY Parts DEF Tab
  <2>3. [Tab(s, t.next, t.owner, t.duck, t.streams, t.closing) EXCEPT !.next = t.next + 1]
          = Tab(s, t.next + 1, t.owner, t.duck, t.streams, t.closing)
    BY DEF Tab
  <2>4. [t EXCEPT !.sessions = s].next = t.next
    BY <2>2, TabOf
  <2> QED BY <2>1, <2>2, <2>3, <2>4
<1>2. new \in Entry
  BY DEF Entry, Transports, Duck
<1>3. DOMAIN s = DOMAIN t.sessions \cup {t.next}
  BY DEF Indexes
<1>0. new = New(l, tr, ids) /\ ~new.active
  BY DEF New
<1> HIDE DEF new
<1>4. s \in [DOMAIN s -> Entry]
  BY <1>2, <1>3, Parts
<1>10. t.next \notin DOMAIN t.sessions
  BY Parts
<1>11. s[t.next] = new /\ \A i \in DOMAIN t.sessions : s[i] = t.sessions[i]
  BY <1>10 DEF Indexes
<1>5. \A i \in DOMAIN s : s[i].active <=> i \in DOMAIN t.sessions /\ t.sessions[i].active
  BY <1>0, <1>3, <1>10, <1>11
<1> HIDE DEF s
<1>6. \A j, k \in DOMAIN s : s[j].active /\ s[k].active => j = k
  BY <1>5, Parts
<1>7. /\ DOMAIN s \subseteq Nat \ {0} /\ t.next + 1 \in Nat \ {0}
      /\ \A i \in DOMAIN s : i < t.next + 1
  BY <1>3, Parts
<1>8. Pre(c)
  BY <1>4, <1>6, <1>7, Parts, PreOf
<1>9. /\ Indexes(c) = DOMAIN s /\ Active(c) = {i \in DOMAIN s : s[i].active}
      /\ c.sessions = s /\ c.duck = t.duck /\ c.closing = t.closing
  BY TabOf
<1>12. Active(c) = Active(t)
  BY <1>3, <1>5, <1>9 DEF Active, Indexes
<1> HIDE DEF c
<1> QED BY <1>0, <1>1, <1>3, <1>8, <1>9, <1>10, <1>11, <1>12 DEF Indexes

LEMMA FoundIn ==
  ASSUME NEW t, Pre(t), NEW l, NEW tr, NEW ids, Found(t, l, tr, ids) # {}
  PROVE  First(Found(t, l, tr, ids)) \in Indexes(t)
<1>1. Found(t, l, tr, ids) \subseteq Indexes(t)
  BY DEF Found, ByIdentity, ByLink
<1> QED BY <1>1, FirstIn DEF Pre, TypeT

(* What an update makes of an entry.                                       *)
Supersedes(s, l, tr) == s.link # l /\ tr = "usb" /\ s.transport # "usb"

Superseded(s, l, tr) == IF Supersedes(s, l, tr) THEN {s.link} ELSE {}

Rewritten(s, i, e) == [s EXCEPT ![i] = e]

Updated(s, l, tr, ids) ==
  [s EXCEPT !.link = IF Supersedes(s, l, tr) THEN l ELSE @,
            !.transport = tr, !.device = @ \cup ids]

LEMMA UpdateGood ==
  ASSUME NEW t, Pre(t), NEW i \in Indexes(t),
         NEW l \in Links, NEW tr \in Transports, NEW ids \in SUBSET Ids
  PROVE  LET c == Update(t, i, l, tr, ids)
         IN  /\ Pre(c) /\ Indexes(c) = Indexes(t) /\ Active(c) = Active(t)
             /\ c.sessions = Rewritten(t.sessions, i, Updated(t.sessions[i], l, tr, ids))
             /\ c.duck = t.duck
             /\ c.closing = t.closing \cup Superseded(t.sessions[i], l, tr)
<1> DEFINE s == t.sessions[i]
           supersedes == s.link # l /\ tr = "usb" /\ s.transport # "usb"
           e == [s EXCEPT !.link = IF supersedes THEN l ELSE @,
                          !.transport = tr, !.device = @ \cup ids]
           c == Tab([t.sessions EXCEPT ![i] = e], t.next, t.owner, t.duck,
                    t.streams, t.closing)
<1>1. s \in Entry
  BY DEF Pre, TypeT
<1>2. e \in Entry /\ e.active = s.active
  BY <1>1 DEF Entry, Transports
<1>3. Update(t, i, l, tr, ids) = IF supersedes THEN Told(c, s.link) ELSE c
  <2>1. Update(t, i, l, tr, ids) =
          IF supersedes THEN Told([t EXCEPT !.sessions[i] = e], s.link)
          ELSE [t EXCEPT !.sessions[i] = e]
    BY DEF Update
  <2> HIDE DEF e
  <2>2. [t EXCEPT !.sessions[i] = e] = c
    BY Parts DEF Tab
  <2> QED BY <2>1, <2>2
<1>0. supersedes = Supersedes(s, l, tr) /\ e = Updated(s, l, tr, ids)
  BY DEF Supersedes, Updated
<1>4. /\ Pre(c) /\ Indexes(c) = Indexes(t) /\ Active(c) = Active(t)
      /\ c.sessions = [t.sessions EXCEPT ![i] = e]
      /\ c.duck = t.duck /\ c.closing = t.closing
  <2> HIDE DEF e
  <2> QED BY <1>2, RewriteGood, Parts
<1>5. /\ Pre(Told(c, s.link)) /\ Indexes(Told(c, s.link)) = Indexes(c)
      /\ Active(Told(c, s.link)) = Active(c) /\ Told(c, s.link).sessions = c.sessions
      /\ Told(c, s.link).duck = c.duck /\ Told(c, s.link).closing = c.closing \cup {s.link}
  <2>1. s.link \in Links
    BY <1>1 DEF Entry
  <2> HIDE DEF c, s
  <2>2. Pre(Told(c, s.link)) /\ Told(c, s.link).sessions = c.sessions
    BY <1>4, <2>1, ToldFull
  <2>3. Told(c, s.link).duck = c.duck /\ Told(c, s.link).closing = c.closing \cup {s.link}
    BY <1>4, <2>1, ToldFull
  <2> QED BY <2>2, <2>3 DEF Indexes, Active
<1> HIDE DEF c, supersedes, e
<1>6. CASE supersedes
  <2>1. Superseded(s, l, tr) = {s.link}
    BY <1>0, <1>6 DEF Superseded
  <2> QED BY <1>0, <1>3, <1>4, <1>5, <1>6, <2>1 DEF Rewritten
<1>7. CASE ~supersedes
  <2>1. Superseded(s, l, tr) = {}
    BY <1>0, <1>7 DEF Superseded
  <2> QED BY <1>0, <1>3, <1>4, <1>7, <2>1 DEF Rewritten
<1> QED BY <1>6, <1>7

(* upsert returns the index of an entry: a new one behind all others, ...  *)
LEMMA UpsertPushes ==
  ASSUME NEW t, Pre(t), NEW l \in Links, NEW tr \in Transports, NEW ids \in SUBSET Ids,
         Found(t, l, tr, ids) = {}
  PROVE  LET c == Upsert(t, l, tr, ids)
         IN  /\ Good(c) /\ EntryFor(t, l, tr, ids) = t.next
             /\ t.next \in Indexes(c) \ Indexes(t) /\ Indexes(c) = Indexes(t) \cup {t.next}
             /\ \A i \in Indexes(t) : c.sessions[i] = t.sessions[i]
             /\ c.sessions[t.next] = New(l, tr, ids)
             /\ Active(c) = Active(t) /\ c.duck = t.duck /\ c.closing = t.closing
<1> DEFINE p == Push(t, l, tr, ids)
<1>1. Upsert(t, l, tr, ids) = Changed(p) /\ EntryFor(t, l, tr, ids) = t.next
  BY DEF Upsert, EntryFor
<1>2. /\ Pre(p) /\ t.next \in Indexes(p) \ Indexes(t) /\ Indexes(p) = Indexes(t) \cup {t.next}
      /\ \A i \in Indexes(t) : p.sessions[i] = t.sessions[i]
      /\ p.sessions[t.next] = New(l, tr, ids)
      /\ Active(p) = Active(t) /\ p.duck = t.duck /\ p.closing = t.closing
  BY PushGood
<1> HIDE DEF p
<1> QED BY <1>1, <1>2, ChangedGood

(* ... or one that is there, with what the news says of it.                *)
LEMMA UpsertUpdates ==
  ASSUME NEW t, Pre(t), NEW l \in Links, NEW tr \in Transports, NEW ids \in SUBSET Ids,
         Found(t, l, tr, ids) # {}
  PROVE  LET c == Upsert(t, l, tr, ids)
             i == First(Found(t, l, tr, ids))
         IN  /\ Good(c) /\ EntryFor(t, l, tr, ids) = i
             /\ i \in Indexes(t) /\ Indexes(c) = Indexes(t)
             /\ c.sessions = Rewritten(t.sessions, i, Updated(t.sessions[i], l, tr, ids))
             /\ Active(c) = Active(t) /\ c.duck = t.duck
             /\ c.closing = t.closing \cup Superseded(t.sessions[i], l, tr)
<1> DEFINE i == First(Found(t, l, tr, ids))
           u == Update(t, i, l, tr, ids)
<1>1. Upsert(t, l, tr, ids) = Changed(u) /\ EntryFor(t, l, tr, ids) = i
  BY DEF Upsert, EntryFor
<1>2. i \in Indexes(t)
  BY FoundIn
<1> HIDE DEF i
<1>3. Pre(u) /\ Indexes(u) = Indexes(t) /\ Active(u) = Active(t) /\ u.duck = t.duck
  BY <1>2, UpdateGood
<1>4. /\ u.sessions = Rewritten(t.sessions, i, Updated(t.sessions[i], l, tr, ids))
      /\ u.closing = t.closing \cup Superseded(t.sessions[i], l, tr)
  BY <1>2, UpdateGood
<1> HIDE DEF u
<1>5. /\ Good(Changed(u)) /\ Indexes(Changed(u)) = Indexes(u)
      /\ Active(Changed(u)) = Active(u) /\ Changed(u).sessions = u.sessions
      /\ Changed(u).duck = u.duck /\ Changed(u).closing = u.closing
  BY <1>3, ChangedGood
<1> QED BY <1>1, <1>2, <1>3, <1>4, <1>5 DEF i

LEMMA UpsertGood ==
  ASSUME NEW t, Pre(t), NEW l \in Links, NEW tr \in Transports, NEW ids \in SUBSET Ids
  PROVE  /\ Good(Upsert(t, l, tr, ids))
         /\ EntryFor(t, l, tr, ids) \in Indexes(Upsert(t, l, tr, ids))
<1>1. CASE Found(t, l, tr, ids) = {}
  <2>1. /\ Good(Upsert(t, l, tr, ids)) /\ EntryFor(t, l, tr, ids) = t.next
        /\ t.next \in Indexes(Upsert(t, l, tr, ids))
    BY <1>1, UpsertPushes
  <2> QED BY <2>1
<1>2. CASE Found(t, l, tr, ids) # {}
  <2> DEFINE i == First(Found(t, l, tr, ids))
             u == Update(t, i, l, tr, ids)
  <2>1. Upsert(t, l, tr, ids) = Changed(u) /\ EntryFor(t, l, tr, ids) = i
    BY <1>2 DEF Upsert, EntryFor
  <2>2. i \in Indexes(t)
    BY <1>2, FoundIn
  <2> HIDE DEF i
  <2>3. Pre(u) /\ Indexes(u) = Indexes(t)
    BY <2>2, UpdateGood
  <2> HIDE DEF u
  <2>4. Good(Changed(u)) /\ Indexes(Changed(u)) = Indexes(u)
    BY <2>3, ChangedGood
  <2> QED BY <2>1, <2>2, <2>3, <2>4
<1> QED BY <1>1, <1>2

LEMMA ConnectFull ==
  ASSUME NEW t, Pre(t), NEW l \in Links, NEW tr \in Transports, NEW ids \in SUBSET Ids
  PROVE  Full(Connect(t, l, tr, ids))
BY UpsertGood, AutoActivateFull DEF Connect

(* A take-over ends with a look at who owns the video, like every method   *)
(* that may put another link in front.                                     *)
LEMMA TakeOverGood ==
  ASSUME NEW t, Pre(t), NEW l \in Links, NEW ids
  PROVE  LET c == TakeOver(t, l, ids)
             i == First(ByIdentity(t, ids))
         IN  /\ Pre(c) /\ Indexes(c) = Indexes(t)
             /\ Active(c) = Active(t) /\ c.duck = t.duck
             /\ Good(t) => Good(c)
             /\ ByIdentity(t, ids) = {} => c = t
             /\ ByIdentity(t, ids) # {} =>
                  /\ i \in Indexes(t)
                  /\ c.sessions = Rewritten(t.sessions, i, [t.sessions[i] EXCEPT !.link = l])
                  /\ c.closing = t.closing \cup ({t.sessions[i].link} \ {l})
<1> DEFINE i == First(ByIdentity(t, ids))
           e == [t.sessions[i] EXCEPT !.link = l]
           c == Tab([t.sessions EXCEPT ![i] = e], t.next, t.owner, t.duck,
                    t.streams, t.closing)
<1>0. ByIdentity(t, ids) # {} => i \in Indexes(t)
  <2>1. ByIdentity(t, ids) \subseteq Indexes(t)
    BY DEF ByIdentity
  <2> QED BY <2>1, FirstIn DEF Pre, TypeT
<1>1. CASE ByIdentity(t, ids) = {} \/ t.sessions[i].link = l
  <2>1. TakeOver(t, l, ids) = t
    BY <1>1 DEF TakeOver
  <2>2. ASSUME ByIdentity(t, ids) # {}
        PROVE  /\ t.sessions = Rewritten(t.sessions, i, [t.sessions[i] EXCEPT !.link = l])
               /\ t.closing = t.closing \cup ({t.sessions[i].link} \ {l})
    <3>1. /\ i \in DOMAIN t.sessions /\ t.sessions \in [DOMAIN t.sessions -> Entry]
          /\ t.sessions[i].link = l
      BY <1>0, <1>1, <2>2, Parts
    <3> HIDE DEF i
    <3>2. [t.sessions[i] EXCEPT !.link = l] = t.sessions[i]
      BY <3>1 DEF Entry
    <3> QED BY <3>1, <3>2 DEF Rewritten
  <2> QED BY <1>0, <2>1, <2>2
<1>2. CASE ByIdentity(t, ids) # {} /\ t.sessions[i].link # l
  <2>1. i \in Indexes(t)
    BY <1>0, <1>2
  <2>2. t.sessions[i] \in Entry
    BY <2>1 DEF Pre, TypeT
  <2>3. e \in Entry /\ e.active = t.sessions[i].active /\ t.sessions[i].link \in Links
    BY <2>2 DEF Entry
  <2>4. TakeOver(t, l, ids) = Changed(Told(c, t.sessions[i].link))
    <3>1. TakeOver(t, l, ids) = Changed(Told([t EXCEPT !.sessions[i].link = l], t.sessions[i].link))
      BY <1>2 DEF TakeOver
    <3>2. [t EXCEPT !.sessions[i].link = l] = c
      <4> HIDE DEF i
      <4> QED BY Parts DEF Tab
    <3> QED BY <3>1, <3>2
  <2>5. /\ Pre(c) /\ Indexes(c) = Indexes(t) /\ Active(c) = Active(t)
        /\ c.sessions = [t.sessions EXCEPT ![i] = e]
        /\ c.duck = t.duck /\ c.closing = t.closing
    <3> HIDE DEF e, i
    <3> QED BY <2>1, <2>3, RewriteGood, Parts
  <2> DEFINE old == t.sessions[i].link
             d == Told(c, old)
  <2>6. /\ Pre(d) /\ d.sessions = c.sessions
        /\ d.closing = c.closing \cup {old} /\ d.duck = c.duck
    <3> HIDE DEF c, i
    <3> QED BY <2>3, <2>5, ToldFull
  <2>7. Indexes(d) = Indexes(c) /\ Active(d) = Active(c)
    <3> HIDE DEF c, d
    <3> QED BY <2>6 DEF Indexes, Active
  <2>8. {old} = {old} \ {l}
    BY <1>2
  <2> HIDE DEF d, c, e, old
  <2>9. /\ Good(Changed(d)) /\ Indexes(Changed(d)) = Indexes(d)
        /\ Active(Changed(d)) = Active(d) /\ Changed(d).sessions = d.sessions
        /\ Changed(d).duck = d.duck /\ Changed(d).closing = d.closing
    BY <2>6, ChangedGood
  <2>10. TakeOver(t, l, ids) = Changed(d)
    BY <2>4 DEF d, old
  <2>11. d.sessions = Rewritten(t.sessions, i, [t.sessions[i] EXCEPT !.link = l])
    BY <2>5, <2>6 DEF Rewritten, e
  <2>12. d.closing = t.closing \cup ({t.sessions[i].link} \ {l})
    BY <2>5, <2>6, <2>8 DEF old
  <2> HIDE DEF i
  <2>13. Pre(Changed(d))
    BY <2>9 DEF Good
  <2> QED BY <1>2, <2>1, <2>5, <2>6, <2>7, <2>9, <2>10, <2>11, <2>12, <2>13 DEF i
<1> QED BY <1>1, <1>2

LEMMA PresenceFull ==
  ASSUME NEW t, Pre(t), NEW l \in Links, NEW tr \in Transports, NEW ids \in SUBSET Ids
  PROVE  Full(Presence(t, l, tr, ids))
BY TakeOverGood, ConnectFull DEF Presence

LEMMA ChangedKeeps ==
  ASSUME NEW r, Pre(r)
  PROVE  LET c == Changed(r)
         IN  /\ Good(c) /\ Indexes(c) = Indexes(r) /\ Active(c) = Active(r)
             /\ c.closing = r.closing
             /\ Active(r) # {} \/ Indexes(r) = {} => Full(c)
             /\ \A t, J : SameIn(r, t, J) => SameIn(c, t, J)
             /\ \A J : Ducked(r, J) => Ducked(c, J)
<1> DEFINE c == Changed(r)
<1>1. /\ Good(c) /\ c.sessions = r.sessions /\ c.duck = r.duck /\ c.closing = r.closing
      /\ Indexes(c) = Indexes(r) /\ Active(c) = Active(r)
  BY ChangedGood
<1> HIDE DEF c
<1>2. Active(r) # {} \/ Indexes(r) = {} => Full(c)
  BY <1>1 DEF Full
<1>3. \A t, J : SameIn(r, t, J) => SameIn(c, t, J)
  BY <1>1 DEF SameIn
<1>4. \A J : Ducked(r, J) => Ducked(c, J)
  BY <1>1 DEF Ducked
<1> QED BY <1>1, <1>2, <1>3, <1>4 DEF c

(* The next session in line moves up when the one in front ends.           *)
LEMMA CloseByLinkFull ==
  ASSUME NEW t, Full(t), NEW l \in Links
  PROVE  LET c == CloseByLink(t, l)
             gone == First(ByLink(t, l))
         IN  /\ Full(c)
             /\ ByLink(t, l) = {} => c = t
             /\ ByLink(t, l) # {} =>
                  /\ gone \in Indexes(t) /\ Indexes(c) = Indexes(t) \ {gone}
                  /\ SameIn(c, t, Indexes(c))
                  /\ c.closing = t.closing
                  /\ \A J : Ducked(t, J) => Ducked(c, J)
<1> DEFINE gone == First(ByLink(t, l))
           left == [i \in Indexes(t) \ {gone} |-> t.sessions[i]]
           idle == {i \in DOMAIN left : ~left[i].active}
           up == First(idle)
           next == IF DOMAIN left = {} THEN 1 ELSE t.next
           promoted == [left EXCEPT ![up].active = TRUE]
           rest(s, d) == Tab(s, next, t.owner, d, t.streams, t.closing)
<1>0. Pre(t) /\ Good(t)
  BY DEF Full, Good
<1>1. CASE ByLink(t, l) = {}
  BY <1>1 DEF CloseByLink
<1>2. CASE ByLink(t, l) # {}
  <2>1. gone \in Indexes(t)
    <3>1. ByLink(t, l) \subseteq Indexes(t)
      BY DEF ByLink
    <3> QED BY <1>0, <1>2, <3>1, FirstIn DEF Pre, TypeT
  <2>2. /\ DOMAIN left \subseteq DOMAIN t.sessions /\ DOMAIN left \subseteq Nat \ {0}
        /\ left \in [DOMAIN left -> Entry]
        /\ \A i \in DOMAIN left : left[i] = t.sessions[i] /\ i < next
        /\ next \in Nat \ {0}
    BY <1>0, Parts
  <2>3. \A i, j \in DOMAIN left : left[i].active /\ left[j].active => i = j
    BY <1>0, <2>2, Parts, SMTT(30)
  <2>4. CloseByLink(t, l) =
          Changed(IF ~t.sessions[gone].active THEN rest(left, t.duck)
                  ELSE IF idle = {} THEN rest(left, "full")
                  ELSE rest(promoted, left[up].duck))
    <3> DEFINE r == [t EXCEPT !.sessions = left, !.next = next]
    <3>1. r = rest(left, t.duck)
      <4> HIDE DEF left, next
      <4>1. [t EXCEPT !.sessions = left] = Tab(left, t.next, t.owner, t.duck, t.streams, t.closing)
        BY <1>0, Parts DEF Tab
      <4>2. [Tab(left, t.next, t.owner, t.duck, t.streams, t.closing) EXCEPT !.next = next]
              = Tab(left, next, t.owner, t.duck, t.streams, t.closing)
        BY DEF Tab
      <4> QED BY <4>1, <4>2
    <3>2. [r EXCEPT !.duck = "full"] = rest(left, "full")
      <4> HIDE DEF left, next, r
      <4> QED BY <3>1 DEF Tab
    <3>3. [r EXCEPT !.sessions = promoted, !.duck = left[up].duck]
            = rest(promoted, left[up].duck)
      <4> DEFINE d == left[up].duck
      <4> HIDE DEF left, next, r, up, d, promoted
      <4>1. [r EXCEPT !.sessions = promoted]
              = Tab(promoted, next, t.owner, t.duck, t.streams, t.closing)
        BY <3>1 DEF Tab
      <4>2. [Tab(promoted, next, t.owner, t.duck, t.streams, t.closing) EXCEPT !.duck = d]
              = Tab(promoted, next, t.owner, d, t.streams, t.closing)
        BY DEF Tab
      <4>3. [r EXCEPT !.sessions = promoted, !.duck = d] = rest(promoted, d)
        BY <4>1, <4>2
      <4> QED BY <4>3 DEF d
    <3>4. CloseByLink(t, l) =
            Changed(IF ~t.sessions[gone].active THEN r
                    ELSE IF idle = {} THEN [r EXCEPT !.duck = "full"]
                    ELSE [r EXCEPT !.sessions = promoted, !.duck = left[up].duck])
      BY <1>2, Zenon DEF CloseByLink
    <3> HIDE DEF r, rest
    <3> QED BY <3>1, <3>2, <3>3, <3>4
  <2>5. \A d \in Duck : /\ Pre(rest(left, d))
                        /\ Indexes(rest(left, d)) = DOMAIN left
                        /\ Active(rest(left, d)) = {i \in DOMAIN left : left[i].active}
    <3> HIDE DEF left, next
    <3> QED BY <1>0, <2>2, <2>3, Parts, PreOf, TabOf
  <2>6. CASE ~t.sessions[gone].active
    <3>1. CloseByLink(t, l) = Changed(rest(left, t.duck))
      BY <2>4, <2>6
    <3>2. t.duck \in Duck
      BY <1>0, Parts
    <3>3. DOMAIN left # {} => \E i \in DOMAIN left : left[i].active
      <4>1. Active(t) # {} => \E i \in Indexes(t) : t.sessions[i].active
        BY DEF Active
      <4>2. DOMAIN left = Indexes(t) \ {gone}
        OBVIOUS
      <4> QED BY <2>2, <2>6, <4>1, <4>2 DEF Full
    <3> DEFINE r == rest(left, t.duck)
    <3>4. /\ Pre(r) /\ Indexes(r) = DOMAIN left
          /\ Active(r) = {i \in DOMAIN left : left[i].active}
      BY <2>5, <3>2
    <3>5. r.sessions = left /\ r.closing = t.closing /\ r.duck = t.duck
      BY TabOf
    <3>6. Active(r) = Active(t)
      BY <2>2, <2>6, <3>4 DEF Active, Indexes
    <3>7. \A i \in Active(r) : r.sessions[i] = t.sessions[i]
      BY <2>2, <3>4, <3>5
    <3>8. DOMAIN left = Indexes(t) \ {gone}
      OBVIOUS
    <3> HIDE DEF left, rest, r, gone
    <3>9. SameIn(r, t, Indexes(r))
      BY <2>2, <3>4, <3>5 DEF SameIn
    <3>10. \A J : Ducked(t, J) => Ducked(r, J)
      BY <3>5, <3>6, <3>7 DEF Ducked
    <3>11. Active(r) # {} \/ Indexes(r) = {}
      BY <3>3, <3>4
    <3>12. CloseByLink(t, l) = Changed(r)
      BY <3>1 DEF r
    <3> DEFINE q == Changed(r)
    <3>13. /\ Indexes(q) = Indexes(r) /\ q.closing = r.closing
           /\ Active(r) # {} \/ Indexes(r) = {} => Full(q)
           /\ \A J : SameIn(r, t, J) => SameIn(q, t, J)
           /\ \A J : Ducked(r, J) => Ducked(q, J)
      BY <3>4, ChangedKeeps
    <3>14. CloseByLink(t, l) = q
      BY <3>12
    <3> HIDE DEF q
    <3>15. \A J : Ducked(t, J) => Ducked(q, J)
      BY <3>10, <3>13
    <3>16. Full(q) /\ SameIn(q, t, Indexes(q))
      BY <3>9, <3>11, <3>13
    <3> QED BY <1>2, <2>1, <3>4, <3>5, <3>8, <3>13, <3>14, <3>15, <3>16 DEF gone
  <2>7. CASE t.sessions[gone].active /\ idle = {}
    <3>1. CloseByLink(t, l) = Changed(rest(left, "full"))
      BY <2>4, <2>7
    <3>2. DOMAIN left = {}
      <4>1. ASSUME NEW i \in DOMAIN left PROVE FALSE
        <5>1. left[i].active /\ i \in Active(t) /\ i # gone
          BY <2>2, <2>7, <4>1, SMTT(30) DEF Active, Indexes
        <5>2. gone \in Active(t)
          BY <2>1, <2>7 DEF Active
        <5> QED BY <1>0, <5>1, <5>2 DEF Pre
      <4> QED BY <4>1
    <3> DEFINE r == rest(left, "full")
    <3>4. /\ Pre(r) /\ Indexes(r) = DOMAIN left
          /\ Active(r) = {i \in DOMAIN left : left[i].active}
      BY <2>5 DEF Duck
    <3>5. r.sessions = left /\ r.closing = t.closing /\ r.duck = "full"
      BY TabOf
    <3>6. Active(r) = {}
      BY <3>2, <3>4
    <3>8. DOMAIN left = Indexes(t) \ {gone}
      OBVIOUS
    <3> HIDE DEF left, rest, r, gone
    <3>9. SameIn(r, t, Indexes(r))
      BY <2>2, <3>4, <3>5 DEF SameIn
    <3>10. \A J : Ducked(r, J)
      BY <3>5, <3>6 DEF Ducked
    <3>12. CloseByLink(t, l) = Changed(r)
      BY <3>1 DEF r
    <3> DEFINE q == Changed(r)
    <3>13. /\ Indexes(q) = Indexes(r) /\ q.closing = r.closing
           /\ Active(r) # {} \/ Indexes(r) = {} => Full(q)
           /\ \A J : SameIn(r, t, J) => SameIn(q, t, J)
           /\ \A J : Ducked(r, J) => Ducked(q, J)
      BY <3>4, ChangedKeeps
    <3>14. CloseByLink(t, l) = q
      BY <3>12
    <3> HIDE DEF q
    <3>15. \A J : Ducked(t, J) => Ducked(q, J)
      BY <3>10, <3>13
    <3>16. Full(q) /\ SameIn(q, t, Indexes(q))
      BY <3>2, <3>4, <3>9, <3>13
    <3> QED BY <1>2, <2>1, <3>4, <3>5, <3>8, <3>13, <3>14, <3>15, <3>16 DEF gone
  <2>8. CASE t.sessions[gone].active /\ idle # {}
    <3>1. CloseByLink(t, l) = Changed(rest(promoted, left[up].duck))
      BY <2>4, <2>8
    <3>2. up \in DOMAIN left
      <4>1. idle \subseteq DOMAIN left
        OBVIOUS
      <4> QED BY <2>2, <2>8, <4>1, FirstIn
    <3>3. \A i \in DOMAIN left : ~left[i].active
      <4>1. gone \in Active(t)
        BY <2>1, <2>8 DEF Active
      <4>2. \A i \in DOMAIN left : i \in Indexes(t) /\ i # gone
        OBVIOUS
      <4> QED BY <1>0, <2>2, <4>1, <4>2 DEF Active, Pre
    <3>4. DOMAIN promoted = DOMAIN left
      OBVIOUS
    <3>5. promoted \in [DOMAIN promoted -> Entry] /\ left[up].duck \in Duck
      <4> HIDE DEF left, up
      <4>1. left[up] \in Entry
        BY <2>2, <3>2
      <4>2. [left[up] EXCEPT !.active = TRUE] \in Entry /\ left[up].duck \in Duck
        BY <4>1 DEF Entry
      <4> QED BY <2>2, <3>2, <4>2
    <3>6. \A i \in DOMAIN promoted : promoted[i].active <=> i = up
      <4> HIDE DEF left, up
      <4>1. left[up] \in Entry
        BY <2>2, <3>2
      <4>2. [left[up] EXCEPT !.active = TRUE].active
        BY <4>1 DEF Entry
      <4> QED BY <3>2, <3>3, <4>2
    <3> HIDE DEF promoted
    <3>7. /\ Pre(rest(promoted, left[up].duck))
          /\ Active(rest(promoted, left[up].duck)) = {i \in DOMAIN promoted : promoted[i].active}
      <4> HIDE DEF next, left, up
      <4> QED BY <1>0, <2>2, <3>4, <3>5, <3>6, Parts, PreOf, TabOf
    <3>8. up \in Active(rest(promoted, left[up].duck))
      BY <3>2, <3>4, <3>6, <3>7
    <3> DEFINE r == rest(promoted, left[up].duck)
    <3>9. /\ Indexes(r) = DOMAIN promoted
          /\ r.sessions = promoted /\ r.closing = t.closing /\ r.duck = left[up].duck
      <4> HIDE DEF left, up, promoted, next
      <4> QED BY TabOf
    <3>10. \A j \in DOMAIN left :
             /\ promoted[j].link = left[j].link /\ promoted[j].transport = left[j].transport
             /\ promoted[j].device = left[j].device /\ promoted[j].duck = left[j].duck
      <4> HIDE DEF left, up
      <4>1. left[up] \in Entry
        BY <2>2, <3>2
      <4>2. DOMAIN left[up] = DOMAIN [link |-> 1, transport |-> 1, device |-> 1,
                                      active |-> 1, video |-> 1, duck |-> 1]
        BY <4>1 DEF Entry
      <4> QED BY <4>2 DEF promoted
    <3>11. DOMAIN left = Indexes(t) \ {gone}
      OBVIOUS
    <3>12. Pre(r) /\ Active(r) = {up} /\ up \in Indexes(r)
      <4> HIDE DEF left, up, rest
      <4>1. {i \in DOMAIN promoted : promoted[i].active} = {up}
        BY <3>2, <3>4, <3>6
      <4> QED BY <3>2, <3>4, <3>7, <3>9, <4>1
    <3> HIDE DEF rest, left, up, r, gone
    <3>13. SameIn(r, t, Indexes(r))
      BY <2>2, <3>4, <3>9, <3>10 DEF SameIn
    <3>14. \A J : Ducked(r, J)
      BY <3>2, <3>9, <3>10, <3>12 DEF Ducked
    <3>15. CloseByLink(t, l) = Changed(r)
      BY <3>1 DEF r
    <3> QED BY <1>2, <2>1, <3>4, <3>9, <3>11, <3>12, <3>13, <3>14, <3>15, ChangedKeeps DEF gone
  <2> QED BY <2>6, <2>7, <2>8
<1> QED BY <1>1, <1>2

LEMMA VideoUpFull ==
  ASSUME NEW t, Full(t), NEW l \in Links
  PROVE  Full(VideoUp(t, l))
<1> DEFINE i == First(ByLink(t, l))
           e == [t.sessions[i] EXCEPT !.video = TRUE]
           c == Tab([t.sessions EXCEPT ![i] = e], t.next, t.owner, t.duck,
                    t.streams, t.closing)
<1>0. Pre(t) /\ Good(t)
  BY DEF Full, Good
<1>1. CASE ByLink(t, l) = {}
  BY <1>1 DEF VideoUp
<1>2. CASE ByLink(t, l) # {}
  <2>1. i \in Indexes(t)
    <3>1. ByLink(t, l) \subseteq Indexes(t)
      BY DEF ByLink
    <3> QED BY <1>0, <1>2, <3>1, FirstIn DEF Pre, TypeT
  <2>2. t.sessions[i] \in Entry
    BY <1>0, <2>1 DEF Pre, TypeT
  <2>3. e \in Entry /\ e.active = t.sessions[i].active /\ e.link = t.sessions[i].link
    BY <2>2 DEF Entry
  <2>4. VideoUp(t, l) = c
    <3>1. VideoUp(t, l) = [t EXCEPT !.sessions[i].video = TRUE]
      BY <1>2 DEF VideoUp
    <3> HIDE DEF i
    <3> QED BY <1>0, <3>1, Parts DEF Tab
  <2>5. /\ Pre(c) /\ Indexes(c) = Indexes(t) /\ Active(c) = Active(t)
        /\ c.sessions = [t.sessions EXCEPT ![i] = e] /\ c.owner = t.owner
    <3> HIDE DEF e, i
    <3> QED BY <1>0, <2>1, <2>3, RewriteGood, Parts
  <2>6. ActiveLink(c) = ActiveLink(t)
    <3> HIDE DEF c, e, i
    <3>1. \A j \in Indexes(t) : c.sessions[j].link = t.sessions[j].link
      BY <1>0, <2>1, <2>3, <2>5 DEF Pre, TypeT
    <3>2. Active(t) # {} => First(Active(t)) \in Indexes(t)
      BY <1>0, ActiveLinkType DEF Pre, Active
    <3> QED BY <2>5, <3>1, <3>2 DEF ActiveLink
  <2> HIDE DEF c
  <2> QED BY <2>4, <2>5, <2>6 DEF Full, Good
<1> QED BY <1>1, <1>2

LEMMA OnDuckFull ==
  ASSUME NEW t, Full(t), NEW l \in Links, NEW level \in Duck
  PROVE  Full(OnDuck(t, l, level))
<1> DEFINE i == First(ByLink(t, l))
           e == [t.sessions[i] EXCEPT !.duck = level]
           d == IF IsActive(t, l) THEN level ELSE t.duck
           c == Tab([t.sessions EXCEPT ![i] = e], t.next, t.owner, d,
                    t.streams, t.closing)
<1>0. Pre(t) /\ Good(t)
  BY DEF Full, Good
<1>1. CASE ByLink(t, l) = {}
  BY <1>1 DEF OnDuck
<1>2. CASE ByLink(t, l) # {}
  <2>1. i \in Indexes(t)
    <3>1. ByLink(t, l) \subseteq Indexes(t)
      BY DEF ByLink
    <3> QED BY <1>0, <1>2, <3>1, FirstIn DEF Pre, TypeT
  <2>2. t.sessions[i] \in Entry /\ d \in Duck
    BY <1>0, <2>1 DEF Pre, TypeT
  <2>3. e \in Entry /\ e.active = t.sessions[i].active /\ e.link = t.sessions[i].link
    BY <2>2 DEF Entry
  <2>4. OnDuck(t, l, level) = c
    <3>1. OnDuck(t, l, level) = [t EXCEPT !.sessions[i].duck = level, !.duck = d]
      BY <1>2 DEF OnDuck
    <3> HIDE DEF i, d
    <3>2. [t EXCEPT !.sessions[i].duck = level]
            = Tab([t.sessions EXCEPT ![i] = e], t.next, t.owner, t.duck, t.streams, t.closing)
      BY <1>0, Parts DEF Tab
    <3> HIDE DEF e
    <3>3. [Tab([t.sessions EXCEPT ![i] = e], t.next, t.owner, t.duck, t.streams, t.closing)
            EXCEPT !.duck = d] = c
      BY DEF Tab
    <3> QED BY <3>1, <3>2, <3>3
  <2>5. /\ Pre(c) /\ Indexes(c) = Indexes(t) /\ Active(c) = Active(t)
        /\ c.sessions = [t.sessions EXCEPT ![i] = e] /\ c.owner = t.owner
    <3> HIDE DEF e, i, d
    <3> QED BY <1>0, <2>1, <2>2, <2>3, RewriteGood, Parts
  <2>6. ActiveLink(c) = ActiveLink(t)
    <3> HIDE DEF c, e, i
    <3>1. \A j \in Indexes(t) : c.sessions[j].link = t.sessions[j].link
      BY <1>0, <2>1, <2>3, <2>5 DEF Pre, TypeT
    <3>2. Active(t) # {} => First(Active(t)) \in Indexes(t)
      BY <1>0, ActiveLinkType DEF Pre, Active
    <3> QED BY <2>5, <3>1, <3>2 DEF ActiveLink
  <2> HIDE DEF c
  <2> QED BY <2>4, <2>5, <2>6 DEF Full, Good
<1> QED BY <1>1, <1>2

LEMMA CloseOnTransportFull ==
  ASSUME NEW t, Full(t), NEW ids, NEW tr
  PROVE  Full(CloseOnTransport(t, ids, tr))
<1> DEFINE i == First(ByIdentity(t, ids))
<1>1. CASE ByIdentity(t, ids) # {}
  <2>1. ByIdentity(t, ids) \subseteq Indexes(t) /\ Indexes(t) \subseteq Nat
    BY DEF ByIdentity, Full, Good, Pre, TypeT
  <2>2. i \in Indexes(t)
    BY <1>1, <2>1, FirstIn
  <2>3. t.sessions[i].link \in Links
    BY <2>2 DEF Full, Good, Pre, TypeT, Entry
  <2> QED BY <2>3, ToldFull DEF CloseOnTransport
<1>2. CASE ByIdentity(t, ids) = {}
  BY <1>2 DEF CloseOnTransport
<1> QED BY <1>1, <1>2

-----------------------------------------------------------------------------
(* The inductive invariant: the table as a value is in order, and the      *)
(* state around it has its type.                                           *)
Around ==
  /\ bye \in {"no", "asked", "answered"}
  /\ forgets \subseteq Links
  /\ life \in [Links -> {"none", "up", "shown", "gone"}]
  /\ named \subseteq Phones

IInv == Full(T) /\ Around

(* The table after a step is the table the step says it becomes.           *)
LEMMA BecomesIs ==
  ASSUME NEW t, Pre(t), Becomes(t)
  PROVE  T' = t
BY DEF Becomes, T, Pre, TypeT

LEMMA InitIInv == Init => IInv
<1> SUFFICES ASSUME Init PROVE IInv
  OBVIOUS
<1> USE DEF Init
<1>1. /\ DOMAIN NoSessions = {} /\ NoSessions \in [DOMAIN NoSessions -> Entry]
  BY DEF NoSessions
<1>2. T = Tab(NoSessions, 1, NoLink, "full", {}, {})
  BY DEF T, Tab
<1>3. Pre(T) /\ Indexes(T) = {} /\ Active(T) = {} /\ T.owner = NoLink
  <2> HIDE DEF Init
  <2>1. Pre(Tab(NoSessions, 1, NoLink, "full", {}, {}))
    <3>1. /\ {} = {NoLink} \ {NoLink} /\ {} \subseteq Links /\ "full" \in Duck
          /\ NoLink \in Links \cup {NoLink} /\ 1 \in Nat \ {0}
      BY DEF Duck
    <3>2. /\ \A i \in DOMAIN NoSessions : i < 1
          /\ \A i, j \in DOMAIN NoSessions :
               NoSessions[i].active /\ NoSessions[j].active => i = j
          /\ DOMAIN NoSessions \subseteq Nat \ {0}
      BY <1>1
    <3> QED BY <1>1, <3>1, <3>2, PreOf
  <2> QED BY <1>1, <1>2, <2>1, TabOf
<1>4. ActiveLink(T) = NoLink
  BY <1>3 DEF ActiveLink
<1>5. Full(T)
  BY <1>3, <1>4 DEF Full, Good
<1>6. Around
  BY DEF Around
<1> QED BY <1>5, <1>6 DEF IInv

LEMMA LinkTypes ==
  ASSUME NEW l \in Links
  PROVE  /\ Transport(l) \in Transports
         /\ \A facets \in SUBSET Facets : Id(l, facets) \in SUBSET Ids
<1>1. PhoneOf[l] \in Phones
  BY LinksAssumption
<1> QED BY <1>1 DEF Transport, Transports, Id, Ids

LEMMA NextIInv == IInv /\ [Next]_vars => IInv'
<1> SUFFICES ASSUME IInv, [Next]_vars PROVE IInv'
  OBVIOUS
<1>1. /\ Full(T) /\ Pre(T) /\ Good(T) /\ Around
      /\ CpLinks \subseteq Links /\ AaLinks \subseteq Links
  BY DEF IInv, Full, Good, Links
(* A step that makes the table a value in order, and keeps the types.      *)
<1>2. ASSUME NEW t, Full(t), Becomes(t), Around' PROVE IInv'
  <2>1. T' = t
    BY <1>2, BecomesIs DEF Full, Good
  <2>2. Full(T)' <=> Full(T')
    BY DEF Full, Good, Pre, TypeT, ActiveLink, Active, Indexes, Entry, Links
  <2> QED BY <1>2, <2>1, <2>2 DEF IInv
(* A step that leaves the table alone.                                     *)
<1>3. ASSUME UNCHANGED table, Around' PROVE IInv'
  <2>1. Becomes(T)
    BY <1>3 DEF Becomes, T, table
  <2> QED BY <1>1, <1>2, <1>3, <2>1
<1>4. ASSUME NEW l \in Links, NEW from, NEW to \in {"none", "up", "shown", "gone"},
             Lives(l, from, to)
      PROVE  life' \in [Links -> {"none", "up", "shown", "gone"}]
  BY <1>1, <1>4 DEF Lives, Around
<1>5. CASE UNCHANGED vars
  BY <1>1, <1>3, <1>5 DEF vars, table, Around
<1>6. ASSUME NEW l \in CpLinks, CpPresence(l) PROVE IInv'
  <2>1. PICK way \in Ways(l), more \in SUBSET {"udid", "wifi"} :
          /\ Lives(l, {"none", "up"}, "up") \/ Lives(l, {"shown"}, "shown")
          /\ Becomes(Presence(T, l, way, Id(l, {"bt"} \cup more)))
          /\ UNCHANGED <<bye, forgets, named>>
    BY <1>6 DEF CpPresence
  <2> DEFINE ids == Id(l, {"bt"} \cup more)
  <2>2. ids \in SUBSET Ids
    <3>1. {"bt"} \cup more \in SUBSET Facets
      BY DEF Facets
    <3> QED BY <1>1, <3>1, LinkTypes
  <2>3. way \in Transports
    BY <1>1, LinkTypes DEF Ways, Transports
  <2> HIDE DEF ids
  <2>4. Full(Presence(T, l, way, ids))
    BY <1>1, <2>2, <2>3, PresenceFull
  <2>5. Around'
    BY <1>1, <1>4, <2>1 DEF Around
  <2> QED BY <1>2, <2>1, <2>4, <2>5 DEF ids
<1>7. ASSUME NEW l \in CpLinks, CpActive(l) PROVE IInv'
  <2>1. First(ByLink(T, l)) \in Indexes(T)
    <3>1. ByLink(T, l) \subseteq Indexes(T) /\ Indexes(T) \subseteq Nat
      BY <1>1 DEF ByLink, Pre, TypeT
    <3> QED BY <1>7, <3>1, FirstIn DEF CpActive
  <2>2. Full(AutoActivate(T, First(ByLink(T, l))))
    BY <1>1, <2>1, AutoActivateFull
  <2> QED BY <1>1, <1>2, <1>4, <1>7, <2>2 DEF CpActive, Around
<1>8. ASSUME NEW l \in CpLinks, CpConnected(l) PROVE IInv'
  <2>1. PICK way \in Ways(l), ids \in {{}, Id(l, {"controller"})} :
          /\ Lives(l, {"up"}, "shown")
          /\ Becomes(Connect(T, l, way, ids))
          /\ UNCHANGED <<bye, forgets, named>>
    BY <1>8 DEF CpConnected
  <2>2. ids \in SUBSET Ids
    BY <1>1, LinkTypes DEF Facets
  <2>3. way \in Transports
    BY <1>1, LinkTypes DEF Ways, Transports
  <2>4. Full(Connect(T, l, way, ids))
    BY <1>1, <2>2, <2>3, ConnectFull
  <2> QED BY <1>1, <1>2, <1>4, <2>1, <2>4 DEF Around
<1>9. ASSUME NEW p \in Phones, AaHelperNames(p) PROVE IInv'
  BY <1>1, <1>3, <1>9 DEF AaHelperNames, Around
<1>10. ASSUME NEW l \in AaLinks, AaDevice(l) PROVE IInv'
  <2> DEFINE f == {"instance"} \cup (IF l \in Cable THEN {"serial"} ELSE {})
                    \cup (IF PhoneOf[l] \notin named THEN {}
                          ELSE IF l \in Cable THEN {"serial"} ELSE {"bt", "serial"})
  <2>1. AaIds(l) \in SUBSET Ids
    <3>1. f \in SUBSET Facets
      BY DEF Facets
    <3>2. AaIds(l) = Id(l, f)
      BY DEF AaIds
    <3> HIDE DEF f
    <3> QED BY <1>1, <3>1, <3>2, LinkTypes
  <2>2. Full(Connect(T, l, Transport(l), AaIds(l)))
    BY <1>1, <2>1, LinkTypes, ConnectFull
  <2> QED BY <1>1, <1>2, <1>4, <1>10, <2>2 DEF AaDevice, Around
<1>11. ASSUME NEW l \in AaLinks, AaConnected(l) PROVE IInv'
  <2> DEFINE ids == IF l \in Cable THEN Id(l, {"serial"}) ELSE {}
  <2>1. ids \in SUBSET Ids
    BY <1>1, LinkTypes DEF Facets
  <2> HIDE DEF ids
  <2>2. Full(Connect(T, l, Transport(l), ids))
    BY <1>1, <2>1, LinkTypes, ConnectFull
  <2> QED BY <1>1, <1>2, <1>4, <1>11, <2>2 DEF AaConnected, Around, ids
<1>12. ASSUME NEW l \in Links, VideoCodec(l) PROVE IInv'
  BY <1>1, <1>2, <1>4, <1>12, VideoUpFull DEF VideoCodec, Around
<1>13. ASSUME NEW l \in Links, NEW d \in Duck, Ducks(l, d) PROVE IInv'
  BY <1>1, <1>2, <1>4, <1>13, OnDuckFull DEF Ducks, Around
<1>14. ASSUME NEW l \in Links, Disconnected(l) PROVE IInv'
  <2>1. Full(CloseByLink(T, l))
    BY <1>1, CloseByLinkFull
  <2>2. Around'
    BY <1>1, <1>4, <1>14 DEF Disconnected, Around
  <2> QED BY <1>2, <1>14, <2>1, <2>2 DEF Disconnected
<1>15. ASSUME NEW p \in Phones, TransportGone(p) PROVE IInv'
  <2>1. \A ids, tr : Full(CloseOnTransport(T, ids, tr))
    BY <1>1, CloseOnTransportFull
  <2>2. Around'
    BY <1>1, <1>15 DEF TransportGone, Around
  <2> QED BY <1>2, <1>15, <2>1, <2>2 DEF TransportGone
<1>16. ASSUME NEW p \in Phones, SelectDevice(p) PROVE IInv'
  <2>1. \A i : Full(Activate(T, i))
    BY <1>1, ActivateFull
  <2>2. Around'
    BY <1>1, <1>16 DEF SelectDevice, Around
  <2> QED BY <1>2, <1>16, <2>1, <2>2 DEF SelectDevice
<1>17. ASSUME NEW p \in Phones, ForgetDevice(p) PROVE IInv'
  <2> DEFINE found == ByIdentity(T, KnownOf(p))
  <2>1. found # {} /\ found \subseteq Indexes(T) /\ Indexes(T) \subseteq Nat
    BY <1>1, <1>17 DEF ForgetDevice, ByIdentity, Pre, TypeT
  <2>2. First(found) \in Indexes(T)
    BY <2>1, FirstIn
  <2>3. T.sessions[First(found)].link \in Links
    BY <1>1, <2>2 DEF Pre, TypeT, Entry
  <2>4. sessions[First(found)].link \in Links
    BY <2>3 DEF T
  <2>5. Around'
    BY <1>1, <1>17, <2>4 DEF ForgetDevice, Around
  <2> QED BY <1>3, <1>17, <2>5 DEF ForgetDevice
<1>18. ASSUME NextDevice PROVE IInv'
  BY <1>1, <1>2, <1>18, ActivateNextFull DEF NextDevice, Around
<1>19. ASSUME ForgetGraceOver PROVE IInv'
  <2>1. PICK l \in forgets : /\ forgets' = forgets \ {l} /\ Becomes(Told(T, l))
                             /\ UNCHANGED <<bye, life, named>>
    BY <1>19 DEF ForgetGraceOver
  <2>2. Full(Told(T, l)) /\ Around'
    BY <1>1, <2>1, ToldFull DEF Around
  <2> QED BY <1>2, <2>1, <2>2
<1>20. ASSUME Goodbye PROVE IInv'
  <2> DEFINE c == Tab(T.sessions, T.next, T.owner, T.duck, T.streams, closing')
  <2>1. closing' \subseteq Links
    <3>1. closing \subseteq Links /\ \A i \in DOMAIN sessions : sessions[i].link \in Links
      <4>1. T.closing \subseteq Links /\ \A i \in DOMAIN T.sessions : T.sessions[i].link \in Links
        BY <1>1, Parts DEF Entry
      <4> QED BY <4>1 DEF T
    <3> QED BY <1>20, <3>1 DEF Goodbye
  <2>2. Pre(c) /\ c.sessions = T.sessions /\ c.owner = T.owner
    BY <1>1, <2>1, Parts, PreOf, TabOf
  <2>3. Full(c)
    <3>1. Indexes(c) = Indexes(T) /\ Active(c) = Active(T) /\ ActiveLink(c) = ActiveLink(T)
      BY <2>2 DEF Indexes, Active, ActiveLink
    <3> HIDE DEF c
    <3> QED BY <1>1, <2>2, <3>1 DEF Full, Good
  <2>4. Becomes(c)
    BY <1>20 DEF Goodbye, Becomes, T, Tab
  <2>5. Around'
    BY <1>1, <1>20 DEF Goodbye, Around
  <2> HIDE DEF c
  <2> QED BY <1>2, <2>3, <2>4, <2>5
<1> QED
  BY <1>5, <1>6, <1>7, <1>8, <1>9, <1>10, <1>11, <1>12, <1>13, <1>14, <1>15,
     <1>16, <1>17, <1>18, <1>19, <1>20 DEF Next

LEMMA AlwaysIInv == Spec => []IInv
BY InitIInv, NextIInv, PTL DEF Spec

(* The table and the state around it keep their types.                     *)
THEOREM TypeCorrect == Spec => []TypeOK
<1>1. IInv => TypeOK
  BY DEF IInv, Full, Good, Pre, TypeT, Indexes, T, Around, TypeOK
<1> QED BY <1>1, AlwaysIInv, PTL

(* At every moment at most one session is in front, and one is when any    *)
(* phone is connected: for any phones and links, and also when news of a   *)
(* session arrives after the core told it to close.                        *)
THEOREM AlwaysOneInFront == Spec => []OneInFront
<1>1. IInv => OneInFront
  BY DEF IInv, Full, Good, Pre, Indexes, T, OneInFront
<1> QED BY <1>1, AlwaysIInv, PTL

(* Of all links ever told to stream, only that of the session in front was *)
(* not told to stop.                                                       *)
THEOREM AlwaysOnlyTheFrontStreams == Spec => []OnlyTheFrontStreams
<1>1. IInv => OnlyTheFrontStreams
  BY DEF IInv, Full, Good, Pre, T, OnlyTheFrontStreams
<1> QED BY <1>1, AlwaysIInv, PTL

-----------------------------------------------------------------------------
(***************************************************************************)
(* What the methods do to the rows of the table: to the link, the          *)
(* transport and the identifiers of an entry, and to the level of media.   *)
(***************************************************************************)
SameRows(c, t, J) ==
  \A j \in J : /\ c.sessions[j].link = t.sessions[j].link
               /\ c.sessions[j].transport = t.sessions[j].transport
               /\ c.sessions[j].device = t.sessions[j].device

(* The first entry is put in front, and it is one that never ducked.       *)
LEMMA AutoActivateKeeps ==
  ASSUME NEW t, Good(t), NEW i \in Indexes(t),
         Active(t) # {} \/ t.sessions[i].duck = "full"
  PROVE  LET c == AutoActivate(t, i)
         IN  /\ Same(c, t) /\ c.closing = t.closing
             /\ \A J : Ducked(t, J) => Ducked(c, J)
<1> DEFINE c == Activate(t, i)
<1>1. CASE Active(t) # {}
  BY <1>1 DEF AutoActivate, Same, SameIn
<1>2. CASE Active(t) = {}
  <2>1. /\ Active(c) = {i} /\ c.closing = t.closing /\ Same(c, t)
        /\ c.duck = IF i \in Active(t) THEN t.duck ELSE DuckOf(t, i, Active(t) # {})
    BY ActivateGood
  <2>2. AutoActivate(t, i) = c
    BY <1>2 DEF AutoActivate
  <2> HIDE DEF c
  <2>3. c.duck = "full" /\ c.sessions[i].duck = "full"
    BY <1>2, <2>1 DEF DuckOf, Same, SameIn
  <2>4. \A J : Ducked(c, J)
    BY <2>1, <2>3 DEF Ducked
  <2> QED BY <2>1, <2>2, <2>4
<1> QED BY <1>1, <1>2

LEMMA ActivateKeeps ==
  ASSUME NEW t, Full(t), NEW i
  PROVE  LET c == Activate(t, i)
         IN  /\ Same(c, t) /\ c.closing = t.closing
             /\ \A J : Ducked(t, J) => Ducked(c, J)
<1> DEFINE c == Activate(t, i)
<1>1. CASE i \notin Indexes(t)
  BY <1>1 DEF Activate, Same, SameIn
<1>2. CASE i \in Indexes(t)
  <2>1. /\ Active(c) = {i} /\ c.closing = t.closing /\ Same(c, t)
        /\ c.duck = IF i \in Active(t) THEN t.duck ELSE DuckOf(t, i, Active(t) # {})
    BY <1>2, ActivateGood DEF Full
  <2>2. Active(t) # {}
    BY <1>2 DEF Full
  <2> HIDE DEF c
  <2>3. \A J : Ducked(t, J) /\ i \in J => c.duck = c.sessions[i].duck
    BY <1>2, <2>1, <2>2 DEF DuckOf, Same, SameIn, Ducked
  <2>4. \A J : Ducked(t, J) => Ducked(c, J)
    BY <2>1, <2>3 DEF Ducked
  <2> QED BY <2>1, <2>4 DEF c
<1> QED BY <1>1, <1>2

LEMMA ActivateNextKeeps ==
  ASSUME NEW t, Full(t)
  PROVE  LET c == ActivateNext(t)
         IN  /\ Same(c, t) /\ c.closing = t.closing
             /\ \A J : Ducked(t, J) => Ducked(c, J)
<1>1. CASE Cardinality(Indexes(t)) <= 1
  BY <1>1 DEF ActivateNext, Same, SameIn
<1>2. CASE ~ (Cardinality(Indexes(t)) <= 1)
  <2> DEFINE after == {i \in Indexes(t) : \A a \in Active(t) : i > a}
             i == First(IF Active(t) = {} \/ after = {} THEN Indexes(t) ELSE after)
  <2>1. ActivateNext(t) = Activate(t, i)
    BY <1>2 DEF ActivateNext
  <2> HIDE DEF i
  <2> QED BY <2>1, ActivateKeeps
<1> QED BY <1>1, <1>2

(* News of a phone that leads to no entry gives it one, ...                *)
LEMMA ConnectPushes ==
  ASSUME NEW t, Full(t), NEW l \in Links, NEW tr \in Transports, NEW ids \in SUBSET Ids,
         Found(t, l, tr, ids) = {}
  PROVE  LET c == Connect(t, l, tr, ids)
             n == t.next
         IN  /\ n \notin Indexes(t) /\ Indexes(c) = Indexes(t) \cup {n}
             /\ \A i \in Indexes(t) : i <= n
             /\ SameRows(c, t, Indexes(t))
             /\ c.sessions[n].link = l /\ c.sessions[n].transport = tr
             /\ c.sessions[n].device = ids
             /\ c.closing = t.closing
             /\ \A J : Ducked(t, J) => Ducked(c, J)
<1> DEFINE u == Upsert(t, l, tr, ids)
           n == t.next
<1>0. Pre(t)
  BY DEF Full, Good
<1>1. /\ Good(u) /\ EntryFor(t, l, tr, ids) = n
      /\ n \in Indexes(u) \ Indexes(t) /\ Indexes(u) = Indexes(t) \cup {n}
      /\ \A i \in Indexes(t) : u.sessions[i] = t.sessions[i]
      /\ u.sessions[n] = New(l, tr, ids)
      /\ Active(u) = Active(t) /\ u.duck = t.duck /\ u.closing = t.closing
  BY <1>0, UpsertPushes
<1>2. Connect(t, l, tr, ids) = AutoActivate(u, n)
  BY <1>1 DEF Connect
<1>3. \A i \in Indexes(t) : i <= n
  BY <1>0 DEF Pre, TypeT
<1> DEFINE c == AutoActivate(u, n)
<1> HIDE DEF u
<1>4. u.sessions[n].duck = "full"
  BY <1>1 DEF New
<1>5. Same(c, u) /\ c.closing = u.closing /\ (\A J : Ducked(u, J) => Ducked(c, J))
  BY <1>1, <1>4, AutoActivateKeeps
<1>6. \A J : Ducked(t, J) => Ducked(u, J)
  <2>1. \A i \in Active(t) : i \in Indexes(t)
    BY DEF Active
  <2> QED BY <1>1, <2>1 DEF Ducked
<1> HIDE DEF c, n
<1>7. SameRows(c, t, Indexes(t))
  BY <1>1, <1>5 DEF Same, SameIn, SameRows
<1>8. c.sessions[n].link = l /\ c.sessions[n].transport = tr /\ c.sessions[n].device = ids
  BY <1>1, <1>5 DEF Same, SameIn, New
<1> QED BY <1>1, <1>2, <1>3, <1>5, <1>6, <1>7, <1>8 DEF c, n, Same

UpdatedAt(c, t, i, l, tr, ids) ==
  LET s == t.sessions[i]
  IN  /\ Indexes(c) = Indexes(t)
      /\ SameRows(c, t, Indexes(t) \ {i})
      /\ c.sessions[i].link = (IF Supersedes(s, l, tr) THEN l ELSE s.link)
      /\ c.sessions[i].transport = tr
      /\ c.sessions[i].device = s.device \cup ids
      /\ c.closing = t.closing \cup Superseded(s, l, tr)
      /\ \A J : Ducked(t, J) => Ducked(c, J)

(* ... and to an entry that is there adds what the news says.              *)
LEMMA ConnectUpdates ==
  ASSUME NEW t, Full(t), NEW l \in Links, NEW tr \in Transports, NEW ids \in SUBSET Ids,
         Found(t, l, tr, ids) # {}
  PROVE  LET c == Connect(t, l, tr, ids)
             i == First(Found(t, l, tr, ids))
         IN  i \in Indexes(t) /\ UpdatedAt(c, t, i, l, tr, ids)
<1> DEFINE u == Upsert(t, l, tr, ids)
           i == First(Found(t, l, tr, ids))
           s == t.sessions[i]
<1>0. Pre(t)
  BY DEF Full, Good
<1>1. /\ Good(u) /\ EntryFor(t, l, tr, ids) = i
      /\ i \in Indexes(t) /\ Indexes(u) = Indexes(t)
      /\ u.sessions = Rewritten(t.sessions, i, Updated(t.sessions[i], l, tr, ids))
      /\ Active(u) = Active(t) /\ u.duck = t.duck
      /\ u.closing = t.closing \cup Superseded(t.sessions[i], l, tr)
  BY <1>0, UpsertUpdates
<1> DEFINE c == AutoActivate(u, i)
<1>2. Connect(t, l, tr, ids) = c
  BY <1>1 DEF Connect
<1> HIDE DEF u, i
<1>3. t.sessions \in [Indexes(t) -> Entry] /\ s \in Entry
  BY <1>0, <1>1 DEF Pre, TypeT
<1>4. Active(u) # {}
  BY <1>1 DEF Full
<1>5. Same(c, u) /\ c.closing = u.closing /\ (\A J : Ducked(u, J) => Ducked(c, J))
  BY <1>1, <1>4, AutoActivateKeeps
<1>6. \A j \in Indexes(t) \ {i} : u.sessions[j] = t.sessions[j]
  BY <1>1, <1>3 DEF Rewritten
<1>7. u.sessions[i] = Updated(s, l, tr, ids)
  BY <1>1, <1>3 DEF Rewritten
<1>8. /\ u.sessions[i].link = (IF Supersedes(s, l, tr) THEN l ELSE s.link)
      /\ u.sessions[i].transport = tr /\ u.sessions[i].device = s.device \cup ids
      /\ u.sessions[i].duck = s.duck
  <2> HIDE DEF s
  <2> QED BY <1>3, <1>7 DEF Updated, Entry
<1>9. \A J : Ducked(t, J) => Ducked(u, J)
  <2>1. \A j \in Active(t) : j \in Indexes(t)
    BY DEF Active
  <2>2. \A j \in Active(t) : u.sessions[j].duck = t.sessions[j].duck
    BY <1>6, <1>8, <2>1
  <2> QED BY <1>1, <2>2 DEF Ducked
<1> HIDE DEF c
<1>10. SameRows(c, t, Indexes(t) \ {i})
  BY <1>1, <1>5, <1>6 DEF Same, SameIn, SameRows
<1>11. /\ c.sessions[i].link = u.sessions[i].link
       /\ c.sessions[i].transport = u.sessions[i].transport
       /\ c.sessions[i].device = u.sessions[i].device
  BY <1>1, <1>5 DEF Same, SameIn
<1>12. Indexes(c) = Indexes(t) /\ c.closing = t.closing \cup Superseded(s, l, tr)
  BY <1>1, <1>5 DEF Same
<1>13. UpdatedAt(c, t, i, l, tr, ids)
  BY <1>5, <1>8, <1>9, <1>10, <1>11, <1>12 DEF UpdatedAt
<1> QED BY <1>1, <1>2, <1>13 DEF i

(* A CarPlay session's news of its phone takes over and updates the entry  *)
(* of that phone.                                                          *)
LEMMA PresenceUpdates ==
  ASSUME NEW t, Full(t), NEW l \in Links, NEW tr \in Transports, NEW ids \in SUBSET Ids,
         ByIdentity(t, ids) # {}
  PROVE  LET c == Presence(t, l, tr, ids)
             i == First(ByIdentity(t, ids))
             s == t.sessions[i]
         IN  /\ i \in ByIdentity(t, ids) /\ Indexes(c) = Indexes(t)
             /\ SameRows(c, t, Indexes(t) \ {i})
             /\ c.sessions[i].link = l /\ c.sessions[i].transport = tr
             /\ c.sessions[i].device = s.device \cup ids
             /\ c.closing = t.closing \cup ({s.link} \ {l})
             /\ \A J : Ducked(t, J) => Ducked(c, J)
<1> DEFINE u == TakeOver(t, l, ids)
           i == First(ByIdentity(t, ids))
           s == t.sessions[i]
           c == Connect(u, l, tr, ids)
<1>0. Pre(t) /\ Good(t)
  BY DEF Full, Good
<1>1. /\ Good(u) /\ Indexes(u) = Indexes(t) /\ Active(u) = Active(t) /\ u.duck = t.duck
      /\ i \in Indexes(t)
      /\ u.sessions = Rewritten(t.sessions, i, [t.sessions[i] EXCEPT !.link = l])
      /\ u.closing = t.closing \cup ({t.sessions[i].link} \ {l})
  BY <1>0, TakeOverGood
<1>2. Presence(t, l, tr, ids) = c
  BY DEF Presence
<1>3. i \in ByIdentity(t, ids)
  <2>1. ByIdentity(t, ids) \subseteq Indexes(t)
    BY DEF ByIdentity
  <2> QED BY <1>0, <2>1, FirstIn DEF Pre, TypeT
<1> HIDE DEF u
<1>4. t.sessions \in [Indexes(t) -> Entry] /\ s \in Entry
  BY <1>0, <1>1 DEF Pre, TypeT
<1> HIDE DEF i
<1>5. /\ \A j \in Indexes(t) \ {i} : u.sessions[j] = t.sessions[j]
      /\ u.sessions[i] = [s EXCEPT !.link = l]
  BY <1>1, <1>4 DEF Rewritten
<1>6. /\ u.sessions[i].link = l /\ u.sessions[i].device = s.device
      /\ u.sessions[i].duck = s.duck
  BY <1>4, <1>5 DEF Entry
<1>7. Full(u)
  BY <1>1 DEF Full
<1>8. ByIdentity(u, ids) = ByIdentity(t, ids)
  <2>1. \A j \in Indexes(t) : u.sessions[j].device = t.sessions[j].device
    BY <1>5, <1>6
  <2> QED BY <1>1, <2>1 DEF ByIdentity
<1>9. Found(u, l, tr, ids) = ByIdentity(t, ids)
  <2>1. ~StealsWired(u, l, tr, ids)
    BY <1>6, <1>8 DEF StealsWired, i
  <2> QED BY <1>8, <2>1 DEF Found
<1>10. ~Supersedes(u.sessions[i], l, tr)
  BY <1>6 DEF Supersedes
<1>11. /\ Indexes(c) = Indexes(u)
       /\ SameRows(c, u, Indexes(u) \ {i})
       /\ c.sessions[i].link = u.sessions[i].link
       /\ c.sessions[i].transport = tr
       /\ c.sessions[i].device = u.sessions[i].device \cup ids
       /\ c.closing = u.closing
       /\ \A J : Ducked(u, J) => Ducked(c, J)
  <2>1. Found(u, l, tr, ids) # {} /\ First(Found(u, l, tr, ids)) = i
    BY <1>9 DEF i
  <2> HIDE DEF c
  <2>2. /\ Indexes(c) = Indexes(u)
        /\ SameRows(c, u, Indexes(u) \ {i})
        /\ c.sessions[i].link = (IF Supersedes(u.sessions[i], l, tr) THEN l
                                 ELSE u.sessions[i].link)
        /\ c.sessions[i].transport = tr
        /\ c.sessions[i].device = u.sessions[i].device \cup ids
        /\ c.closing = u.closing \cup Superseded(u.sessions[i], l, tr)
        /\ \A J : Ducked(u, J) => Ducked(c, J)
    <3>1. UpdatedAt(c, u, i, l, tr, ids)
      BY <1>7, <2>1, ConnectUpdates DEF c
    <3> QED BY <3>1 DEF UpdatedAt
  <2>3. Superseded(u.sessions[i], l, tr) = {}
    BY <1>10 DEF Superseded
  <2> QED BY <1>10, <2>2, <2>3
<1>12. \A J : Ducked(t, J) => Ducked(u, J)
  <2>1. \A j \in Active(t) : j \in Indexes(t)
    BY DEF Active
  <2>2. \A j \in Active(t) : u.sessions[j].duck = t.sessions[j].duck
    BY <1>5, <1>6, <2>1
  <2> QED BY <1>1, <2>2 DEF Ducked
<1> HIDE DEF c
<1>13. SameRows(c, t, Indexes(t) \ {i})
  BY <1>1, <1>5, <1>11 DEF SameRows
<1> QED BY <1>1, <1>2, <1>3, <1>6, <1>11, <1>12, <1>13 DEF i

LEMMA VideoUpKeeps ==
  ASSUME NEW t, Full(t), NEW l \in Links
  PROVE  LET c == VideoUp(t, l)
         IN  /\ Same(c, t) /\ c.closing = t.closing
             /\ \A J : Ducked(t, J) => Ducked(c, J)
<1> DEFINE i == First(ByLink(t, l))
           e == [t.sessions[i] EXCEPT !.video = TRUE]
           c == Tab([t.sessions EXCEPT ![i] = e], t.next, t.owner, t.duck,
                    t.streams, t.closing)
<1>0. Pre(t)
  BY DEF Full, Good
<1>1. CASE ByLink(t, l) = {}
  BY <1>1 DEF VideoUp, Same, SameIn
<1>2. CASE ByLink(t, l) # {}
  <2>1. i \in Indexes(t)
    <3>1. ByLink(t, l) \subseteq Indexes(t)
      BY DEF ByLink
    <3> QED BY <1>0, <1>2, <3>1, FirstIn DEF Pre, TypeT
  <2>2. t.sessions[i] \in Entry /\ t.sessions \in [Indexes(t) -> Entry]
    BY <1>0, <2>1 DEF Pre, TypeT
  <2>3. /\ e \in Entry /\ e.active = t.sessions[i].active /\ e.link = t.sessions[i].link
        /\ e.transport = t.sessions[i].transport /\ e.device = t.sessions[i].device
        /\ e.duck = t.sessions[i].duck
    BY <2>2 DEF Entry
  <2>4. VideoUp(t, l) = c
    <3>1. VideoUp(t, l) = [t EXCEPT !.sessions[i].video = TRUE]
      BY <1>2 DEF VideoUp
    <3> HIDE DEF i
    <3> QED BY <1>0, <3>1, Parts DEF Tab
  <2> HIDE DEF e, i
  <2>5. /\ Indexes(c) = Indexes(t) /\ Active(c) = Active(t)
        /\ c.sessions = [t.sessions EXCEPT ![i] = e]
        /\ c.duck = t.duck /\ c.closing = t.closing
    BY <1>0, <2>1, <2>3, RewriteGood, Parts
  <2> HIDE DEF c
  <2>6. Same(c, t)
    BY <2>1, <2>2, <2>3, <2>5 DEF Same, SameIn
  <2>7. \A J : Ducked(t, J) => Ducked(c, J)
    <3>1. \A j \in Active(t) : j \in Indexes(t)
      BY DEF Active
    <3> QED BY <2>5, <2>6, <3>1 DEF Ducked, Same, SameIn
  <2> QED BY <2>4, <2>5, <2>6, <2>7
<1> QED BY <1>1, <1>2

(* A session's word on the level of media counts at once when it is in     *)
(* front, and when it comes there.                                         *)
LEMMA OnDuckKeeps ==
  ASSUME NEW t, Full(t), NEW l \in Links, NEW level \in Duck, NEW J,
         \A i, j \in Indexes(t) :
           i \in J /\ t.sessions[i].link = t.sessions[j].link => i = j
  PROVE  LET c == OnDuck(t, l, level)
         IN  /\ Indexes(c) = Indexes(t) /\ SameRows(c, t, Indexes(t))
             /\ c.closing = t.closing
             /\ Ducked(t, J) => Ducked(c, J)
<1> DEFINE i == First(ByLink(t, l))
           e == [t.sessions[i] EXCEPT !.duck = level]
           d == IF IsActive(t, l) THEN level ELSE t.duck
           c == Tab([t.sessions EXCEPT ![i] = e], t.next, t.owner, d,
                    t.streams, t.closing)
<1>0. Pre(t)
  BY DEF Full, Good
<1>1. CASE ByLink(t, l) = {}
  BY <1>1 DEF OnDuck, SameRows
<1>2. CASE ByLink(t, l) # {}
  <2>1. i \in Indexes(t) /\ t.sessions[i].link = l
    <3>1. ByLink(t, l) \subseteq Indexes(t)
      BY DEF ByLink
    <3>2. i \in ByLink(t, l)
      BY <1>0, <1>2, <3>1, FirstIn DEF Pre, TypeT
    <3> QED BY <3>2 DEF ByLink
  <2>2. t.sessions[i] \in Entry /\ d \in Duck /\ t.sessions \in [Indexes(t) -> Entry]
    BY <1>0, <2>1 DEF Pre, TypeT
  <2>3. /\ e \in Entry /\ e.active = t.sessions[i].active /\ e.link = t.sessions[i].link
        /\ e.transport = t.sessions[i].transport /\ e.device = t.sessions[i].device
        /\ e.duck = level
    BY <2>2 DEF Entry
  <2>4. OnDuck(t, l, level) = c
    <3>1. OnDuck(t, l, level) = [t EXCEPT !.sessions[i].duck = level, !.duck = d]
      BY <1>2 DEF OnDuck
    <3> HIDE DEF i, d
    <3>2. [t EXCEPT !.sessions[i].duck = level]
            = Tab([t.sessions EXCEPT ![i] = e], t.next, t.owner, t.duck, t.streams, t.closing)
      BY <1>0, Parts DEF Tab
    <3> HIDE DEF e
    <3>3. [Tab([t.sessions EXCEPT ![i] = e], t.next, t.owner, t.duck, t.streams, t.closing)
            EXCEPT !.duck = d] = c
      BY DEF Tab
    <3> QED BY <3>1, <3>2, <3>3
  <2>5. \A j \in Active(t) : IsActive(t, l) <=> t.sessions[j].link = l
    <3>1. Active(t) # {} =>
            /\ First(Active(t)) \in Active(t)
            /\ ActiveLink(t) = t.sessions[First(Active(t))].link
      BY <1>0, ActiveLinkType DEF Pre
    <3>3. \A j \in Active(t) : j = First(Active(t))
      BY <1>0, <3>1 DEF Pre, Active
    <3>4. l # NoLink
      BY NoLinkAssumption
    <3> HIDE DEF i
    <3> QED BY <3>1, <3>3, <3>4 DEF IsActive
  <2> HIDE DEF e, i
  <2>6. /\ \A j \in Active(t) : d = IF t.sessions[j].link = l THEN level ELSE t.duck
        /\ Active(t) = {} => d = t.duck
    <3>1. Active(t) = {} => ~IsActive(t, l)
      BY DEF ActiveLink, IsActive
    <3> QED BY <2>5, <3>1
  <2> HIDE DEF d
  <2>7. /\ Indexes(c) = Indexes(t) /\ Active(c) = Active(t)
        /\ c.sessions = [t.sessions EXCEPT ![i] = e]
        /\ c.duck = d /\ c.closing = t.closing
    BY <1>0, <2>1, <2>2, <2>3, RewriteGood, Parts
  <2> HIDE DEF c
  <2>8. SameRows(c, t, Indexes(t))
    BY <2>1, <2>2, <2>3, <2>7 DEF SameRows
  <2>9. \A j \in Indexes(t) : c.sessions[j].duck = IF j = i THEN level ELSE t.sessions[j].duck
    BY <2>1, <2>2, <2>3, <2>7
  <2>10. Ducked(t, J) => Ducked(c, J)
    <3>1. \A j \in Active(t) : j \in Indexes(t)
      BY DEF Active
    <3>2. \A j \in Active(t) \cap J : j = i <=> t.sessions[j].link = l
      BY <2>1, <3>1
    <3> QED BY <2>6, <2>7, <2>9, <3>1, <3>2 DEF Ducked
  <2> QED BY <2>4, <2>7, <2>8, <2>10
<1> QED BY <1>1, <1>2

LEMMA ToldKeeps ==
  ASSUME NEW t, Full(t), NEW l \in Links
  PROVE  LET c == Told(t, l)
         IN  /\ Same(c, t) /\ t.closing \subseteq c.closing
             /\ \A J : Ducked(t, J) => Ducked(c, J)
<1> DEFINE c == Told(t, l)
<1>1. /\ c.sessions = t.sessions /\ c.closing = t.closing \cup {l} /\ c.duck = t.duck
  BY ToldFull DEF Full, Good
<1> HIDE DEF c
<1>2. Indexes(c) = Indexes(t) /\ Active(c) = Active(t)
  BY <1>1 DEF Indexes, Active
<1>3. Same(c, t) /\ (\A J : Ducked(t, J) => Ducked(c, J))
  BY <1>1, <1>2 DEF Same, SameIn, Ducked
<1> QED BY <1>1, <1>3 DEF c

LEMMA CloseOnTransportKeeps ==
  ASSUME NEW t, Full(t), NEW ids, NEW tr
  PROVE  LET c == CloseOnTransport(t, ids, tr)
         IN  /\ Same(c, t) /\ t.closing \subseteq c.closing
             /\ \A J : Ducked(t, J) => Ducked(c, J)
<1> DEFINE i == First(ByIdentity(t, ids))
<1>1. CASE ByIdentity(t, ids) # {} /\ t.sessions[i].transport = tr
  <2>1. ByIdentity(t, ids) \subseteq Indexes(t) /\ Indexes(t) \subseteq Nat
    BY DEF ByIdentity, Full, Good, Pre, TypeT
  <2>2. i \in Indexes(t)
    BY <1>1, <2>1, FirstIn
  <2>3. t.sessions[i].link \in Links
    BY <2>2 DEF Full, Good, Pre, TypeT, Entry
  <2>4. CloseOnTransport(t, ids, tr) = Told(t, t.sessions[i].link)
    BY <1>1 DEF CloseOnTransport
  <2> HIDE DEF i
  <2> QED BY <2>3, <2>4, ToldKeeps
<1>2. CASE ~ (ByIdentity(t, ids) # {} /\ t.sessions[i].transport = tr)
  <2>1. CloseOnTransport(t, ids, tr) = t
    BY <1>2 DEF CloseOnTransport
  <2> QED BY <2>1 DEF Same, SameIn
<1> QED BY <1>1, <1>2

-----------------------------------------------------------------------------
(***************************************************************************)
(* How the rows of the table stand to the sessions that run, whatever news *)
(* of a session comes after the core told it to close.  This needs what    *)
(* the code relies on without saying so:                                   *)
(*   - a phone speaks CarPlay or Android Auto, never both;                 *)
(*   - a phone's cable carries one Android Auto session at a time.         *)
(* What a CarPlay Connected does that is read after another session took   *)
(* the entry is in the steps as well.  Such a session is in Outrun, and    *)
(* about the rows of its phone we only know that they stay that phone's:   *)
(* ghosts are real there (the run cp_ghost shows one).  Rows of any other  *)
(* phone are clear.                                                        *)
(***************************************************************************)
KindsApart == \A c \in CpLinks, a \in AaLinks : PhoneOf[c] # PhoneOf[a]

LiveIn(lf, l) == lf[l] \in {"up", "shown"}

OneCableIn(lf) ==
  \A k, l \in AaLinks \cap Cable :
    PhoneOf[k] = PhoneOf[l] /\ LiveIn(lf, k) /\ LiveIn(lf, l) => k = l

OneCable == OneCableIn(life)

LinkOf(t, i) == t.sessions[i].link
PhoneAt(t, i) == PhoneOf[LinkOf(t, i)]
Named(t, i) == t.sessions[i].device # {}

(* The news that put a session in the table has been heard.                *)
Due(lf, l) == lf[l] = "shown" \/ (lf[l] = "up" /\ l \in CpLinks \cup Cable)

(* What an entry knows of its phone, by the kind of its session.           *)
RowOK(e) ==
  /\ e.device \subseteq {PhoneOf[e.link]} \X Facets
  /\ e.link \in CpLinks /\ Clear(e.link) => <<PhoneOf[e.link], "bt">> \in e.device
  /\ e.link \in AaLinks =>
       /\ e.transport = Transport(e.link)
       /\ e.device # {} => <<PhoneOf[e.link], "instance">> \in e.device
       /\ e.link \in Cable => <<PhoneOf[e.link], "serial">> \in e.device

OneRow(t) ==
  \A i, j \in Indexes(t) : Clear(LinkOf(t, i)) /\ LinkOf(t, i) = LinkOf(t, j) => i = j

OneCpRow(t) ==
  \A i, j \in Indexes(t) :
    Clear(LinkOf(t, i)) /\ LinkOf(t, i) \in CpLinks
      /\ LinkOf(t, j) \in CpLinks /\ PhoneAt(t, i) = PhoneAt(t, j) => i = j

(* The entry of a cable's session is the one its identifiers find.         *)
CableFirst(t) ==
  \A i, j \in Indexes(t) :
    LinkOf(t, i) \in AaLinks \cap Cable /\ PhoneAt(t, i) = PhoneAt(t, j) /\ Named(t, j)
       => i <= j

(* A session of the cable is never taken over, and has its row until it    *)
(* ends.                                                                   *)
Owed(t, lf, l) ==
  Clear(l) /\ Due(lf, l) /\ (l \in t.closing => l \in AaLinks \cap Cable)

Listed(t, lf) ==
  \A l \in Links : Owed(t, lf, l) => \E i \in Indexes(t) : LinkOf(t, i) = l

Linked(t, lf) ==
  /\ OneRow(t) /\ OneCpRow(t) /\ CableFirst(t) /\ Listed(t, lf)
  /\ \A i \in Indexes(t) : RowOK(t.sessions[i])
  /\ \A i \in Indexes(t) : Clear(LinkOf(t, i)) => LiveIn(lf, LinkOf(t, i))

(* Whether a session is clear is a matter of its phone, and Android Auto's *)
(* sessions all are.                                                       *)
LEMMA ClearByPhone ==
  /\ \A k, l : PhoneOf[k] = PhoneOf[l] /\ Clear(k) => Clear(l)
  /\ \A l : Clear(l) => l \notin Outrun
  /\ KindsApart => \A l \in AaLinks : Clear(l)
BY LinksAssumption DEF Clear, KindsApart

LEMMA RowOKOf ==
  ASSUME NEW e, NEW d, e.link = d.link, e.transport = d.transport, e.device = d.device,
         RowOK(d)
  PROVE  RowOK(e)
BY DEF RowOK

(* The rows are the same: the sessions that run are the same, or more.     *)
LEMMA LinkedSame ==
  ASSUME NEW t, NEW c, NEW lf, NEW lf2, Linked(t, lf),
         Indexes(c) = Indexes(t), SameRows(c, t, Indexes(t)), t.closing \subseteq c.closing,
         \A l \in Links : Owed(t, lf2, l) =>
           Due(lf, l) \/ \E i \in Indexes(t) : LinkOf(t, i) = l,
         \A i \in Indexes(t) : Clear(LinkOf(t, i)) => LiveIn(lf2, LinkOf(t, i))
  PROVE  Linked(c, lf2)
<1>1. \A i \in Indexes(t) : LinkOf(c, i) = LinkOf(t, i) /\ PhoneAt(c, i) = PhoneAt(t, i)
                            /\ Named(c, i) = Named(t, i)
  BY DEF SameRows, LinkOf, PhoneAt, Named
<1>2. OneRow(c) /\ OneCpRow(c) /\ CableFirst(c)
  BY <1>1 DEF Linked, OneRow, OneCpRow, CableFirst
<1>3. Listed(c, lf2)
  <2>1. \A l \in Links : Owed(c, lf2, l) => Owed(t, lf2, l)
    BY DEF Owed
  <2>2. \A l \in Links : Owed(t, lf2, l) /\ Due(lf, l) => Owed(t, lf, l)
    BY DEF Owed
  <2> QED BY <1>1, <2>1, <2>2 DEF Linked, Listed
<1>4. \A i \in Indexes(c) : RowOK(c.sessions[i])
  BY RowOKOf DEF Linked, SameRows
<1>5. \A i \in Indexes(c) : Clear(LinkOf(c, i)) => LiveIn(lf2, LinkOf(c, i))
  BY <1>1
<1> QED BY <1>2, <1>3, <1>4, <1>5 DEF Linked

(* A session ends and its row goes.                                        *)
LEMMA LinkedRemove ==
  ASSUME NEW t, NEW c, NEW lf, NEW lf2, Linked(t, lf), NEW l, NEW J,
         Indexes(c) = Indexes(t) \ J, SameRows(c, t, Indexes(c)), c.closing = t.closing,
         \A k \in Links : k # l => lf2[k] = lf[k], ~ Due(lf2, l),
         \A i \in Indexes(t) : LinkOf(t, i) \in Links,
         \A i \in Indexes(t) : i \in J => LinkOf(t, i) = l,
         Clear(l) => \A i \in Indexes(t) : LinkOf(t, i) = l => i \in J
  PROVE  Linked(c, lf2)
<1>1. \A i \in Indexes(c) : LinkOf(c, i) = LinkOf(t, i) /\ PhoneAt(c, i) = PhoneAt(t, i)
                            /\ Named(c, i) = Named(t, i)
  BY DEF SameRows, LinkOf, PhoneAt, Named
<1>2. OneRow(c) /\ OneCpRow(c) /\ CableFirst(c)
  BY <1>1 DEF Linked, OneRow, OneCpRow, CableFirst
<1>3. Listed(c, lf2)
  BY <1>1 DEF Linked, Listed, Owed, Due
<1>4. \A i \in Indexes(c) : RowOK(c.sessions[i])
  BY RowOKOf DEF Linked, SameRows
<1>5. \A i \in Indexes(c) : Clear(LinkOf(c, i)) => LiveIn(lf2, LinkOf(c, i))
  BY <1>1 DEF Linked, LiveIn
<1> QED BY <1>2, <1>3, <1>4, <1>5 DEF Linked

(* A session gets a row behind all others.                                 *)
LEMMA LinkedPush ==
  ASSUME NEW t, NEW c, NEW lf, NEW lf2, Linked(t, lf), NEW l \in Links, NEW n,
         n \notin Indexes(t), Indexes(c) = Indexes(t) \cup {n},
         \A i \in Indexes(t) : i <= n, n <= n,
         SameRows(c, t, Indexes(t)), c.closing = t.closing,
         LinkOf(c, n) = l, RowOK(c.sessions[n]),
         \A k \in Links : k # l => lf2[k] = lf[k], LiveIn(lf2, l),
         \A i \in Indexes(t) : LinkOf(t, i) \in Links,
         \A i \in Indexes(t) : LinkOf(t, i) # l,
         l \in CpLinks => \A i \in Indexes(t) :
                            ~ (LinkOf(t, i) \in CpLinks /\ PhoneAt(t, i) = PhoneOf[l]),
         l \in AaLinks \cap Cable => \A i \in Indexes(t) :
                            ~ (PhoneAt(t, i) = PhoneOf[l] /\ Named(t, i))
  PROVE  Linked(c, lf2)
<1>1. \A i \in Indexes(t) : LinkOf(c, i) = LinkOf(t, i) /\ PhoneAt(c, i) = PhoneAt(t, i)
                            /\ Named(c, i) = Named(t, i)
  BY DEF SameRows, LinkOf, PhoneAt, Named
<1>2. PhoneAt(c, n) = PhoneOf[l]
  BY DEF PhoneAt
<1>3. OneRow(c)
  BY <1>1 DEF Linked, OneRow
<1>4. OneCpRow(c)
  BY <1>1, <1>2 DEF Linked, OneCpRow
<1>5. CableFirst(c)
  BY <1>1, <1>2 DEF Linked, CableFirst
<1>6. Listed(c, lf2)
  <2> SUFFICES ASSUME NEW k \in Links, Owed(c, lf2, k)
               PROVE  \E i \in Indexes(c) : LinkOf(c, i) = k
    BY DEF Listed
  <2>1. CASE k = l
    BY <2>1
  <2>2. CASE k # l
    <3>1. Owed(t, lf, k)
      BY <2>2 DEF Owed, Due
    <3> QED BY <1>1, <3>1 DEF Linked, Listed
  <2> QED BY <2>1, <2>2
<1>7. \A i \in Indexes(c) : RowOK(c.sessions[i])
  BY RowOKOf DEF Linked, SameRows
<1>8. \A i \in Indexes(c) : Clear(LinkOf(c, i)) => LiveIn(lf2, LinkOf(c, i))
  BY <1>1 DEF Linked, LiveIn
<1> QED BY <1>3, <1>4, <1>5, <1>6, <1>7, <1>8 DEF Linked

(* A row learns of its phone; its session may be replaced by another of    *)
(* the same phone, and is then told to close.                              *)
LEMMA LinkedTouch ==
  ASSUME NEW t, NEW c, NEW lf, NEW lf2, Linked(t, lf), NEW l \in Links,
         NEW i \in Indexes(t), Indexes(c) = Indexes(t),
         SameRows(c, t, Indexes(t) \ {i}), t.closing \subseteq c.closing,
         RowOK(c.sessions[i]), PhoneAt(c, i) = PhoneAt(t, i),
         LinkOf(c, i) \in CpLinks <=> LinkOf(t, i) \in CpLinks,
         \A k \in Links : k # l => lf2[k] = lf[k], LiveIn(lf2, l),
         \A j \in Indexes(t) : LinkOf(t, j) \in Links,
         LinkOf(c, i) = LinkOf(t, i)
           \/ /\ LinkOf(c, i) = l
              /\ LinkOf(t, i) \in c.closing /\ LinkOf(t, i) \notin AaLinks \cap Cable
              /\ \A j \in Indexes(t) : LinkOf(t, j) # l,
         Due(lf2, l) => \E j \in Indexes(c) : LinkOf(c, j) = l,
         Named(t, i),
         LinkOf(c, i) \in AaLinks \cap Cable => \A j \in Indexes(t) :
            PhoneAt(t, j) = PhoneAt(t, i) /\ Named(t, j) => i <= j
  PROVE  Linked(c, lf2)
<1>1. \A j \in Indexes(t) \ {i} :
        LinkOf(c, j) = LinkOf(t, j) /\ PhoneAt(c, j) = PhoneAt(t, j)
        /\ Named(c, j) = Named(t, j)
  BY DEF SameRows, LinkOf, PhoneAt, Named
<1>2. OneRow(c)
  BY <1>1, ClearByPhone DEF Linked, OneRow, PhoneAt
<1>3. OneCpRow(c)
  BY <1>1, ClearByPhone DEF Linked, OneCpRow, PhoneAt
<1>4. CableFirst(c)
  <2> SUFFICES ASSUME NEW j \in Indexes(t), NEW k \in Indexes(t),
                      LinkOf(c, j) \in AaLinks \cap Cable,
                      PhoneAt(c, j) = PhoneAt(c, k), Named(c, k)
               PROVE  j <= k
    BY DEF CableFirst
  <2>1. PhoneAt(t, j) = PhoneAt(t, k) /\ Named(t, k)
    BY <1>1
  <2>2. CASE j = i
    BY <2>1, <2>2
  <2>3. CASE j # i
    BY <1>1, <2>1, <2>3 DEF Linked, CableFirst
  <2> QED BY <2>2, <2>3
<1>5. Listed(c, lf2)
  <2> SUFFICES ASSUME NEW k \in Links, Owed(c, lf2, k)
               PROVE  \E j \in Indexes(c) : LinkOf(c, j) = k
    BY DEF Listed
  <2>1. CASE k = l
    BY <2>1 DEF Owed
  <2>2. CASE k # l
    <3>1. Owed(t, lf, k)
      BY <2>2 DEF Owed, Due
    <3>2. PICK j \in Indexes(t) : LinkOf(t, j) = k
      BY <3>1 DEF Linked, Listed
    <3>3. LinkOf(c, j) = k
      BY <1>1, <3>2 DEF Owed
    <3> QED BY <3>3
  <2> QED BY <2>1, <2>2
<1>6. \A j \in Indexes(c) : RowOK(c.sessions[j])
  <2>1. ASSUME NEW j \in Indexes(c), j # i PROVE RowOK(c.sessions[j])
    BY <2>1, RowOKOf DEF Linked, SameRows
  <2> QED BY <2>1
<1>7. \A j \in Indexes(c) : Clear(LinkOf(c, j)) => LiveIn(lf2, LinkOf(c, j))
  BY <1>1 DEF Linked, LiveIn
<1> QED BY <1>2, <1>3, <1>4, <1>5, <1>6, <1>7 DEF Linked

Lives4 == {"none", "up", "shown", "gone"}

LEMMA LinksIn ==
  ASSUME NEW t, Full(t), NEW i \in Indexes(t)
  PROVE  LinkOf(t, i) \in Links /\ i \in Nat
BY DEF Full, Good, Pre, TypeT, Entry, LinkOf

(* An identifier leads to entries of its phone only.                       *)
LEMMA SamePhone ==
  ASSUME KindsApart, NEW t, Full(t), NEW lf, Linked(t, lf), NEW l \in Links,
         NEW facets, NEW i \in ByIdentity(t, Id(l, facets))
  PROVE  /\ i \in Indexes(t) /\ PhoneAt(t, i) = PhoneOf[l] /\ Named(t, i)
         /\ LinkOf(t, i) \in Links
         /\ LinkOf(t, i) \in CpLinks <=> l \in CpLinks
<1>1. i \in Indexes(t) /\ t.sessions[i].device \cap Id(l, facets) # {}
  BY DEF ByIdentity
<1>2. PICK x \in t.sessions[i].device : x \in {PhoneOf[l]} \X facets
  BY <1>1 DEF Id
<1>3. t.sessions[i].device \subseteq {PhoneAt(t, i)} \X Facets
  BY <1>1 DEF Linked, RowOK, PhoneAt, LinkOf
<1>4. PhoneAt(t, i) = PhoneOf[l]
  BY <1>2, <1>3
<1>5. LinkOf(t, i) \in Links
  BY <1>1, LinksIn
<1>6. LinkOf(t, i) \in CpLinks <=> l \in CpLinks
  BY <1>4, <1>5, LinksAssumption DEF KindsApart, PhoneAt, Links
<1> QED BY <1>1, <1>2, <1>4, <1>5, <1>6 DEF Named

(* A step touches, brings or removes rows of phone p only.                 *)
Elsewhere(c, t, p) ==
  /\ \A i \in Indexes(t) : PhoneAt(t, i) # p =>
       /\ i \in Indexes(c) /\ LinkOf(c, i) = LinkOf(t, i)
       /\ c.sessions[i].transport = t.sessions[i].transport
       /\ c.sessions[i].device = t.sessions[i].device
  /\ \A i \in Indexes(c) :
       \/ i \in Indexes(t) /\ PhoneAt(t, i) # p
       \/ PhoneAt(c, i) = p /\ c.sessions[i].device \subseteq {p} \X Facets

(* What follows for the level of media: no row changes its phone.          *)
Clears(t) == {i \in Indexes(t) : Clear(LinkOf(t, i))}

LEMMA DuckedElsewhere ==
  ASSUME NEW t, NEW c, NEW p, Elsewhere(c, t, p),
         \A J : Ducked(t, J) => Ducked(c, J)
  PROVE  Ducked(t, Clears(t)) => Ducked(c, Clears(c))
<1>1. \A i \in Indexes(t) \cap Indexes(c) : PhoneAt(c, i) = PhoneAt(t, i)
  BY DEF Elsewhere, PhoneAt
<1>2. Active(t) \subseteq Indexes(t)
  BY DEF Active
<1>3. \A i \in Active(t) \cap Clears(c) : i \in Clears(t)
  BY <1>1, <1>2, ClearByPhone DEF Clears, PhoneAt
<1>4. Ducked(t, Clears(t)) => Ducked(t, Clears(c))
  BY <1>3 DEF Ducked
<1> QED BY <1>4

LEMMA DuckedSame ==
  ASSUME NEW t, NEW c, Indexes(c) = Indexes(t), SameRows(c, t, Indexes(t))
  PROVE  Clears(c) = Clears(t)
BY DEF Clears, SameRows, LinkOf

(* A session of a phone that is not clear leaves the clear rows alone.     *)
LEMMA LinkedElsewhere ==
  ASSUME KindsApart, NEW t, NEW c, NEW lf, NEW lf2, Linked(t, lf),
         NEW l \in CpLinks, ~Clear(l), Elsewhere(c, t, PhoneOf[l]),
         t.closing \subseteq c.closing,
         \A k \in Links : k # l => lf2[k] = lf[k],
         \A i \in Indexes(t) : LinkOf(t, i) \in Links,
         \A i \in Indexes(c) : LinkOf(c, i) \in Links
  PROVE  Linked(c, lf2)
<1> DEFINE p == PhoneOf[l]
<1>1. \A k : PhoneOf[k] = p => ~Clear(k)
  BY ClearByPhone
<1>2. \A i \in Indexes(c) :
        PhoneAt(c, i) # p \/ Clear(LinkOf(c, i)) \/ LinkOf(c, i) \in AaLinks =>
          /\ i \in Indexes(t) /\ PhoneAt(t, i) # p
          /\ LinkOf(c, i) = LinkOf(t, i)
          /\ c.sessions[i].transport = t.sessions[i].transport
          /\ c.sessions[i].device = t.sessions[i].device
  <2>1. \A i \in Indexes(c) : LinkOf(c, i) \in AaLinks => PhoneAt(c, i) # p
    BY DEF KindsApart, PhoneAt
  <2>2. \A i \in Indexes(c) : Clear(LinkOf(c, i)) => PhoneAt(c, i) # p
    BY <1>1 DEF PhoneAt
  <2> QED BY <2>1, <2>2 DEF Elsewhere
<1>3. OneRow(c)
  <2> SUFFICES ASSUME NEW i \in Indexes(c), NEW j \in Indexes(c),
                      Clear(LinkOf(c, i)), LinkOf(c, i) = LinkOf(c, j)
               PROVE  i = j
    BY DEF OneRow
  <2> QED BY <1>2 DEF Linked, OneRow
<1>4. OneCpRow(c)
  <2> SUFFICES ASSUME NEW i \in Indexes(c), NEW j \in Indexes(c),
                      Clear(LinkOf(c, i)), LinkOf(c, i) \in CpLinks,
                      LinkOf(c, j) \in CpLinks, PhoneAt(c, i) = PhoneAt(c, j)
               PROVE  i = j
    BY DEF OneCpRow
  <2>1. Clear(LinkOf(c, j))
    BY ClearByPhone DEF PhoneAt
  <2> QED BY <1>2, <2>1 DEF Linked, OneCpRow, PhoneAt
<1>5. CableFirst(c)
  <2> SUFFICES ASSUME NEW i \in Indexes(c), NEW j \in Indexes(c),
                      LinkOf(c, i) \in AaLinks \cap Cable,
                      PhoneAt(c, i) = PhoneAt(c, j), Named(c, j)
               PROVE  i <= j
    BY DEF CableFirst
  <2>1. PhoneAt(c, j) # p
    BY DEF KindsApart, PhoneAt
  <2>2. i \in Indexes(t) /\ LinkOf(c, i) = LinkOf(t, i)
    BY <1>2
  <2>3. j \in Indexes(t) /\ LinkOf(c, j) = LinkOf(t, j) /\ Named(t, j)
    BY <1>2, <2>1 DEF Named
  <2> QED BY <2>2, <2>3 DEF Linked, CableFirst, PhoneAt
<1>6. Listed(c, lf2)
  <2> SUFFICES ASSUME NEW k \in Links, Owed(c, lf2, k)
               PROVE  \E i \in Indexes(c) : LinkOf(c, i) = k
    BY DEF Listed
  <2>1. PhoneOf[k] # p /\ k # l
    BY <1>1 DEF Owed
  <2>2. Owed(t, lf, k)
    BY <2>1 DEF Owed, Due
  <2>3. PICK i \in Indexes(t) : LinkOf(t, i) = k
    BY <2>2 DEF Linked, Listed
  <2> QED BY <2>1, <2>3 DEF Elsewhere, PhoneAt
<1>7. \A i \in Indexes(c) : RowOK(c.sessions[i])
  <2> SUFFICES ASSUME NEW i \in Indexes(c) PROVE RowOK(c.sessions[i])
    OBVIOUS
  <2>1. CASE PhoneAt(c, i) # p \/ LinkOf(c, i) \in AaLinks
    <3>1. /\ i \in Indexes(t) /\ c.sessions[i].link = t.sessions[i].link
          /\ c.sessions[i].transport = t.sessions[i].transport
          /\ c.sessions[i].device = t.sessions[i].device
      BY <1>2, <2>1 DEF LinkOf
    <3> QED BY <3>1, RowOKOf DEF Linked
  <2>2. CASE PhoneAt(c, i) = p /\ LinkOf(c, i) \notin AaLinks
    <3>1. c.sessions[i].device \subseteq {p} \X Facets
      <4>1. CASE i \in Indexes(t) /\ PhoneAt(t, i) # p
        BY <2>2, <4>1 DEF Elsewhere, PhoneAt
      <4> QED BY <4>1 DEF Elsewhere
    <3>2. ~Clear(LinkOf(c, i))
      BY <1>1, <2>2 DEF PhoneAt
    <3> QED BY <2>2, <3>1, <3>2 DEF RowOK, LinkOf, PhoneAt
  <2> QED BY <2>1, <2>2
<1>8. \A i \in Indexes(c) : Clear(LinkOf(c, i)) => LiveIn(lf2, LinkOf(c, i))
  <2> SUFFICES ASSUME NEW i \in Indexes(c), Clear(LinkOf(c, i))
               PROVE  LiveIn(lf2, LinkOf(c, i))
    OBVIOUS
  <2>1. i \in Indexes(t) /\ LinkOf(c, i) = LinkOf(t, i) /\ LinkOf(c, i) # l
    BY <1>2
  <2>2. LiveIn(lf, LinkOf(t, i))
    BY <2>1 DEF Linked
  <2> QED BY <2>1, <2>2 DEF LiveIn
<1> QED BY <1>3, <1>4, <1>5, <1>6, <1>7, <1>8 DEF Linked

(* News of a session changes rows of its phone only.                       *)
LEMMA ConnectElsewhere ==
  ASSUME KindsApart, NEW t, Full(t), NEW lf, Linked(t, lf), NEW l \in Links,
         NEW tr \in Transports, NEW facets \in SUBSET Facets
  PROVE  LET c == Connect(t, l, tr, Id(l, facets))
         IN  /\ Elsewhere(c, t, PhoneOf[l]) /\ t.closing \subseteq c.closing
             /\ \A J : Ducked(t, J) => Ducked(c, J)
<1> DEFINE ids == Id(l, facets)
           p == PhoneOf[l]
           c == Connect(t, l, tr, ids)
<1>0. ids \in SUBSET Ids /\ ids \subseteq {p} \X Facets
  BY LinkTypes DEF Id
<1>1. \A j \in ByIdentity(t, ids) : j \in Indexes(t) /\ PhoneAt(t, j) = p
  BY SamePhone
<1>2. \A j \in ByLink(t, l) : j \in Indexes(t) /\ PhoneAt(t, j) = p
  BY DEF ByLink, PhoneAt, LinkOf
<1>3. \A j \in Indexes(t) : t.sessions[j].device \subseteq {PhoneAt(t, j)} \X Facets
  BY DEF Linked, RowOK, PhoneAt, LinkOf
<1> HIDE DEF ids, p
<1>4. CASE Found(t, l, tr, ids) = {}
  <2> DEFINE n == t.next
  <2>1. /\ n \notin Indexes(t) /\ Indexes(c) = Indexes(t) \cup {n}
        /\ SameRows(c, t, Indexes(t))
        /\ c.sessions[n].link = l /\ c.sessions[n].device = ids
        /\ c.closing = t.closing
        /\ \A J : Ducked(t, J) => Ducked(c, J)
    BY <1>0, <1>4, ConnectPushes
  <2> HIDE DEF n, c
  <2>2. \A i \in Indexes(t) : /\ LinkOf(c, i) = LinkOf(t, i)
                              /\ PhoneAt(c, i) = PhoneAt(t, i)
                              /\ c.sessions[i].transport = t.sessions[i].transport
                              /\ c.sessions[i].device = t.sessions[i].device
    BY <2>1 DEF SameRows, LinkOf, PhoneAt
  <2>3. PhoneAt(c, n) = p /\ c.sessions[n].device \subseteq {p} \X Facets
    BY <1>0, <2>1 DEF PhoneAt, LinkOf, p
  <2>4. Elsewhere(c, t, p)
    BY <1>3, <2>1, <2>2, <2>3 DEF Elsewhere
  <2> QED BY <2>1, <2>4 DEF c, ids, p
<1>5. CASE Found(t, l, tr, ids) # {}
  <2> DEFINE i == First(Found(t, l, tr, ids))
             s == t.sessions[i]
  <2>1. i \in Indexes(t) /\ UpdatedAt(c, t, i, l, tr, ids)
    BY <1>0, <1>5, ConnectUpdates
  <2>2. i \in Found(t, l, tr, ids)
    <3>1. Found(t, l, tr, ids) \subseteq Nat
      BY <1>1, <1>2, LinksIn DEF Found
    <3> QED BY <1>5, <3>1, FirstIn
  <2>3. PhoneAt(t, i) = p
    BY <1>1, <1>2, <2>2 DEF Found
  <2> HIDE DEF c, i
  <2>4. /\ Indexes(c) = Indexes(t) /\ SameRows(c, t, Indexes(t) \ {i})
        /\ c.sessions[i].link \in {l, s.link}
        /\ c.sessions[i].device = s.device \cup ids
        /\ t.closing \subseteq c.closing
        /\ \A J : Ducked(t, J) => Ducked(c, J)
    BY <2>1 DEF UpdatedAt
  <2>5. \A j \in Indexes(t) \ {i} : /\ LinkOf(c, j) = LinkOf(t, j)
                                    /\ PhoneAt(c, j) = PhoneAt(t, j)
                                    /\ c.sessions[j].transport = t.sessions[j].transport
                                    /\ c.sessions[j].device = t.sessions[j].device
    BY <2>4 DEF SameRows, LinkOf, PhoneAt
  <2>6. PhoneAt(c, i) = p /\ c.sessions[i].device \subseteq {p} \X Facets
    <3>1. PhoneAt(c, i) = p
      BY <2>3, <2>4 DEF PhoneAt, LinkOf, p
    <3>2. s.device \subseteq {p} \X Facets
      BY <1>3, <2>1, <2>3
    <3> QED BY <1>0, <2>4, <3>1, <3>2
  <2>7. Elsewhere(c, t, p)
    BY <1>3, <2>1, <2>3, <2>4, <2>5, <2>6 DEF Elsewhere
  <2> QED BY <2>4, <2>7 DEF c, ids, p
<1> QED BY <1>4, <1>5

LEMMA PresenceElsewhere ==
  ASSUME KindsApart, NEW t, Full(t), NEW lf, Linked(t, lf), NEW l \in Links,
         NEW tr \in Transports, NEW facets \in SUBSET Facets
  PROVE  LET c == Presence(t, l, tr, Id(l, facets))
         IN  /\ Elsewhere(c, t, PhoneOf[l]) /\ t.closing \subseteq c.closing
             /\ \A J : Ducked(t, J) => Ducked(c, J)
<1> DEFINE ids == Id(l, facets)
           p == PhoneOf[l]
           c == Presence(t, l, tr, ids)
<1>0. ids \in SUBSET Ids /\ ids \subseteq {p} \X Facets
  BY LinkTypes DEF Id
<1>1. CASE ByIdentity(t, ids) = {}
  <2>1. c = Connect(t, l, tr, Id(l, facets))
    BY <1>1 DEF Presence, TakeOver
  <2> HIDE DEF c
  <2> QED BY <2>1, ConnectElsewhere DEF c
<1>2. CASE ByIdentity(t, ids) # {}
  <2> DEFINE i == First(ByIdentity(t, ids))
             s == t.sessions[i]
  <2>1. /\ i \in ByIdentity(t, ids) /\ Indexes(c) = Indexes(t)
        /\ SameRows(c, t, Indexes(t) \ {i})
        /\ c.sessions[i].link = l /\ c.sessions[i].transport = tr
        /\ c.sessions[i].device = s.device \cup ids
        /\ c.closing = t.closing \cup ({s.link} \ {l})
        /\ \A J : Ducked(t, J) => Ducked(c, J)
    <3> HIDE DEF ids
    <3> QED BY <1>0, <1>2, PresenceUpdates, Zenon
  <2>2. i \in Indexes(t) /\ PhoneAt(t, i) = p
    BY <2>1, SamePhone
  <2>3. \A j \in Indexes(t) : t.sessions[j].device \subseteq {PhoneAt(t, j)} \X Facets
    BY DEF Linked, RowOK, PhoneAt, LinkOf
  <2> HIDE DEF c, i, ids, p
  <2>4. \A j \in Indexes(t) \ {i} : /\ LinkOf(c, j) = LinkOf(t, j)
                                    /\ PhoneAt(c, j) = PhoneAt(t, j)
                                    /\ c.sessions[j].transport = t.sessions[j].transport
                                    /\ c.sessions[j].device = t.sessions[j].device
    BY <2>1 DEF SameRows, LinkOf, PhoneAt
  <2>5. PhoneAt(c, i) = p /\ c.sessions[i].device \subseteq {p} \X Facets
    <3>1. s.device \subseteq {p} \X Facets
      BY <2>2, <2>3
    <3> QED BY <1>0, <2>1, <3>1 DEF PhoneAt, LinkOf, p
  <2>6. Elsewhere(c, t, p)
    BY <2>1, <2>2, <2>3, <2>4, <2>5 DEF Elsewhere
  <2> QED BY <2>1, <2>6 DEF c, ids, p
<1> QED BY <1>1, <1>2

LEMMA CpPresenceKeeps ==
  ASSUME KindsApart, NEW t, Full(t), NEW lf \in [Links -> Lives4], Linked(t, lf),
         NEW l \in CpLinks, Clear(l), NEW tr \in Transports, NEW facets \in SUBSET Facets,
         "bt" \in facets, NEW v \in {"up", "shown"}
  PROVE  LET c == Presence(t, l, tr, Id(l, facets))
         IN  Linked(c, [lf EXCEPT ![l] = v])
<1> DEFINE ids == Id(l, facets)
           c == Presence(t, l, tr, ids)
           lf2 == [lf EXCEPT ![l] = v]
<1>0. l \in Links /\ ids \in SUBSET Ids /\ <<PhoneOf[l], "bt">> \in ids
  BY LinkTypes DEF Links, Id
<1>00. ids \subseteq {PhoneOf[l]} \X Facets
  BY DEF Id
<1>1. \A k \in Links : k # l => lf2[k] = lf[k]
  OBVIOUS
<1>2. LiveIn(lf2, l)
  BY <1>0 DEF LiveIn
<1>3. \A i \in Indexes(t) : LinkOf(t, i) \in Links /\ i \in Nat
  BY LinksIn
<1>4. ASSUME NEW i \in Indexes(t), LinkOf(t, i) \in CpLinks, PhoneAt(t, i) = PhoneOf[l]
      PROVE  i \in ByIdentity(t, ids)
  <2>1. <<PhoneOf[l], "bt">> \in t.sessions[i].device
    BY <1>4, ClearByPhone DEF Linked, RowOK, LinkOf, PhoneAt
  <2> QED BY <1>0, <2>1 DEF ByIdentity
<1>5. \A i \in Indexes(t) : LinkOf(t, i) = l => i \in ByIdentity(t, ids)
  BY <1>4 DEF PhoneAt
<1>6. \A i \in ByIdentity(t, ids) : PhoneAt(t, i) = PhoneOf[l] /\ LinkOf(t, i) \in CpLinks
                                    /\ Named(t, i)
  BY <1>0, SamePhone
<1> HIDE DEF lf2, ids
<1>7. CASE ByIdentity(t, ids) = {}
  <2> DEFINE n == t.next
  <2>1. TakeOver(t, l, ids) = t
    BY <1>7 DEF TakeOver
  <2>2. c = Connect(t, l, tr, ids)
    BY <2>1 DEF Presence
  <2>3. Found(t, l, tr, ids) = {}
    BY <1>5, <1>7 DEF Found, ByLink, LinkOf
  <2>4. /\ n \notin Indexes(t) /\ Indexes(c) = Indexes(t) \cup {n}
        /\ \A i \in Indexes(t) : i <= n
        /\ SameRows(c, t, Indexes(t))
        /\ c.sessions[n].link = l /\ c.sessions[n].transport = tr
        /\ c.sessions[n].device = ids
        /\ c.closing = t.closing
    BY <1>0, <2>2, <2>3, ConnectPushes
  <2>5. n \in Nat
    BY DEF Full, Good, Pre, TypeT
  <2> HIDE DEF c, n
  <2>6. RowOK(c.sessions[n])
    BY <1>0, <1>00, <2>4, LinksAssumption DEF RowOK
  <2>7. LinkOf(c, n) = l
    BY <2>4 DEF LinkOf
  <2>8. l \notin AaLinks
    BY LinksAssumption
  <2>9. Linked(c, lf2)
    BY <1>0, <1>1, <1>2, <1>3, <1>4, <1>5, <1>7, <2>4, <2>5, <2>6, <2>7, <2>8, LinkedPush
  <2> QED BY <2>4, <2>9 DEF c, lf2, ids
<1>8. CASE ByIdentity(t, ids) # {}
  <2> DEFINE i == First(ByIdentity(t, ids))
             s == t.sessions[i]
  <2>1. /\ i \in ByIdentity(t, ids) /\ Indexes(c) = Indexes(t)
        /\ SameRows(c, t, Indexes(t) \ {i})
        /\ c.sessions[i].link = l /\ c.sessions[i].transport = tr
        /\ c.sessions[i].device = s.device \cup ids
        /\ c.closing = t.closing \cup ({s.link} \ {l})
        /\ \A J : Ducked(t, J) => Ducked(c, J)
    BY <1>0, <1>8, PresenceUpdates, Zenon
  <2> HIDE DEF c, i
  <2>2. i \in Indexes(t)
    BY <2>1 DEF ByIdentity
  <2>3. PhoneAt(t, i) = PhoneOf[l] /\ LinkOf(t, i) \in CpLinks /\ Named(t, i)
    BY <1>6, <2>1
  <2>4. LinkOf(c, i) = l /\ PhoneAt(c, i) = PhoneAt(t, i)
    BY <2>1, <2>3 DEF LinkOf, PhoneAt
  <2>5. s.device \subseteq {PhoneOf[l]} \X Facets
    BY <2>2, <2>3 DEF Linked, RowOK, PhoneAt, LinkOf
  <2>6. RowOK(c.sessions[i])
    BY <1>0, <1>00, <2>1, <2>5, LinksAssumption DEF RowOK
  <2>7. \/ LinkOf(c, i) = LinkOf(t, i)
        \/ /\ LinkOf(t, i) \in c.closing /\ LinkOf(t, i) \notin AaLinks \cap Cable
           /\ \A j \in Indexes(t) : LinkOf(t, j) # l
    <3>1. ASSUME NEW j \in Indexes(t), LinkOf(t, j) = l PROVE j = i
      <4>1. PhoneAt(t, j) = PhoneAt(t, i)
        BY <2>3, <3>1 DEF PhoneAt
      <4> QED BY <2>2, <2>3, <3>1, <4>1 DEF Linked, OneCpRow
    <3>2. LinkOf(t, i) # l => LinkOf(t, i) \in c.closing
      BY <2>1 DEF LinkOf
    <3>3. LinkOf(t, i) \notin AaLinks
      BY <2>3, LinksAssumption
    <3> QED BY <2>4, <3>1, <3>2, <3>3
  <2>8. LinkOf(c, i) \notin AaLinks
    BY <2>4, LinksAssumption
  <2>9. t.closing \subseteq c.closing
    BY <2>1
  <2>10. Linked(c, lf2)
    BY <1>0, <1>1, <1>2, <1>3, <2>1, <2>2, <2>3, <2>4, <2>6, <2>7, <2>8, <2>9, LinkedTouch
  <2> QED BY <2>1, <2>10 DEF c, lf2, ids
<1> QED BY <1>7, <1>8

LEMMA CpConnectedKeeps ==
  ASSUME KindsApart, NEW t, Full(t), NEW lf \in [Links -> Lives4], Linked(t, lf),
         NEW l \in CpLinks, Clear(l), ByLink(t, l) # {}, lf[l] = "up",
         NEW tr \in Transports, NEW facets \in SUBSET Facets
  PROVE  LET c == Connect(t, l, tr, Id(l, facets))
         IN  Linked(c, [lf EXCEPT ![l] = "shown"])
<1> DEFINE ids == Id(l, facets)
           c == Connect(t, l, tr, ids)
           lf2 == [lf EXCEPT ![l] = "shown"]
<1>0. l \in Links /\ ids \in SUBSET Ids
  BY LinkTypes DEF Links
<1>00. ids \subseteq {PhoneOf[l]} \X Facets
  BY DEF Id
<1>1. \A k \in Links : k # l => lf2[k] = lf[k]
  OBVIOUS
<1>2. LiveIn(lf2, l)
  BY <1>0 DEF LiveIn
<1>3. \A j \in Indexes(t) : LinkOf(t, j) \in Links /\ j \in Nat
  BY LinksIn
<1>4. PICK i \in Indexes(t) : LinkOf(t, i) = l
  BY DEF ByLink, LinkOf
<1>5. \A j \in ByIdentity(t, ids) : j = i
  <2> SUFFICES ASSUME NEW j \in ByIdentity(t, ids) PROVE j = i
    OBVIOUS
  <2>1. j \in Indexes(t) /\ PhoneAt(t, j) = PhoneOf[l] /\ LinkOf(t, j) \in CpLinks
    BY <1>0, SamePhone
  <2>2. PhoneAt(t, i) = PhoneOf[l]
    BY <1>4 DEF PhoneAt
  <2> QED BY <1>4, <2>1, <2>2 DEF Linked, OneCpRow
<1>6. ByLink(t, l) = {i}
  BY <1>4 DEF ByLink, Linked, OneRow, LinkOf
<1>7. Found(t, l, tr, ids) = {i} /\ First({i}) = i
  <2>1. ByIdentity(t, ids) # {} => ByIdentity(t, ids) = {i}
    BY <1>5
  <2>2. First({i}) = i
    <3>1. {i} \subseteq Nat
      BY <1>3
    <3> QED BY <3>1, FirstIn
  <2>3. ~StealsWired(t, l, tr, ids)
    BY <1>4, <2>1, <2>2 DEF StealsWired, LinkOf
  <2> QED BY <1>6, <2>1, <2>2, <2>3 DEF Found
<1> HIDE DEF lf2, ids
<1>8. UpdatedAt(c, t, i, l, tr, ids)
  <2>1. Found(t, l, tr, ids) # {} /\ First(Found(t, l, tr, ids)) = i
    BY <1>7
  <2> QED BY <1>0, <2>1, ConnectUpdates
<1> HIDE DEF c
<1>9. ~Supersedes(t.sessions[i], l, tr) /\ Superseded(t.sessions[i], l, tr) = {}
  BY <1>4 DEF Supersedes, Superseded, LinkOf
<1>10. /\ Indexes(c) = Indexes(t) /\ SameRows(c, t, Indexes(t) \ {i})
       /\ LinkOf(c, i) = l /\ c.closing = t.closing
       /\ c.sessions[i].device = t.sessions[i].device \cup ids
  BY <1>4, <1>8, <1>9 DEF UpdatedAt, LinkOf
<1>11. /\ PhoneAt(c, i) = PhoneAt(t, i)
       /\ <<PhoneOf[l], "bt">> \in t.sessions[i].device
       /\ t.sessions[i].device \subseteq {PhoneOf[l]} \X Facets
  BY <1>4, <1>10 DEF PhoneAt, Linked, RowOK, LinkOf
<1>12. RowOK(c.sessions[i]) /\ Named(t, i)
  BY <1>00, <1>10, <1>11, LinksAssumption DEF RowOK, Named, LinkOf
<1>13. LinkOf(c, i) \notin AaLinks
  BY <1>10, LinksAssumption
<1>14. Linked(c, lf2)
  BY <1>0, <1>1, <1>2, <1>3, <1>4, <1>10, <1>11, <1>12, <1>13, LinkedTouch
<1> QED BY <1>10, <1>14 DEF c, lf2, ids

(* An Android phone names itself: a session of the air joins the entry the *)
(* phone has on the air, a session of the cable takes it over, and next to *)
(* an entry of the cable a session of the air gets one of its own.         *)
LEMMA AaDeviceKeeps ==
  ASSUME KindsApart, NEW t, Full(t), NEW lf \in [Links -> Lives4], Linked(t, lf),
         NEW l \in AaLinks, lf[l] = "none",
         OneCableIn([lf EXCEPT ![l] = "up"]),
         NEW facets \in SUBSET Facets, "instance" \in facets,
         l \in Cable => "serial" \in facets
  PROVE  LET c == Connect(t, l, Transport(l), Id(l, facets))
         IN  Linked(c, [lf EXCEPT ![l] = "up"])
<1> DEFINE ids == Id(l, facets)
           tr == Transport(l)
           By == ByIdentity(t, ids)
           c == Connect(t, l, tr, ids)
           lf2 == [lf EXCEPT ![l] = "up"]
<1>0. /\ l \in Links /\ ids \in SUBSET Ids /\ tr \in Transports /\ l \notin CpLinks
      /\ <<PhoneOf[l], "instance">> \in ids
      /\ l \in Cable => <<PhoneOf[l], "serial">> \in ids
  BY LinkTypes, LinksAssumption DEF Links, Id
<1>00. ids \subseteq {PhoneOf[l]} \X Facets
  BY DEF Id
<1>1. \A k \in Links : k # l => lf2[k] = lf[k]
  OBVIOUS
<1>2. LiveIn(lf2, l) /\ (Due(lf2, l) => l \in Cable)
  BY <1>0 DEF LiveIn, Due
<1>3. \A j \in Indexes(t) : LinkOf(t, j) \in Links /\ j \in Nat
  BY LinksIn
<1>4. \A j \in Indexes(t) : LinkOf(t, j) # l
  BY ClearByPhone DEF Linked, LiveIn
<1>5. \A j \in By : /\ j \in Indexes(t) /\ PhoneAt(t, j) = PhoneOf[l] /\ Named(t, j)
                    /\ LinkOf(t, j) \in AaLinks
  <2> SUFFICES ASSUME NEW j \in By
               PROVE  /\ j \in Indexes(t) /\ PhoneAt(t, j) = PhoneOf[l] /\ Named(t, j)
                      /\ LinkOf(t, j) \in AaLinks
    OBVIOUS
  <2>1. /\ j \in Indexes(t) /\ PhoneAt(t, j) = PhoneOf[l] /\ Named(t, j)
        /\ LinkOf(t, j) \in Links /\ (LinkOf(t, j) \in CpLinks <=> l \in CpLinks)
    BY <1>0, SamePhone
  <2> QED BY <1>0, <2>1 DEF Links
<1>6. ASSUME NEW j \in Indexes(t), PhoneAt(t, j) = PhoneOf[l], Named(t, j)
      PROVE  j \in By
  <2>1. LinkOf(t, j) \in AaLinks
    BY <1>0, <1>3, <1>6 DEF KindsApart, PhoneAt, Links
  <2>2. <<PhoneOf[l], "instance">> \in t.sessions[j].device
    BY <1>6, <2>1 DEF Linked, RowOK, LinkOf, PhoneAt, Named
  <2> QED BY <1>0, <2>2 DEF ByIdentity
<1>7. ByLink(t, l) = {}
  BY <1>4 DEF ByLink, LinkOf
<1>8. By \subseteq Indexes(t)
  BY DEF ByIdentity
<1> HIDE DEF lf2, ids
<1>9. CASE By = {} \/ StealsWired(t, l, tr, ids)
  <2> DEFINE n == t.next
  <2>1. Found(t, l, tr, ids) = {}
    BY <1>7, <1>9 DEF Found
  <2> HIDE DEF tr, By
  <2>2. /\ n \notin Indexes(t) /\ Indexes(c) = Indexes(t) \cup {n}
        /\ \A j \in Indexes(t) : j <= n
        /\ SameRows(c, t, Indexes(t))
        /\ c.sessions[n].link = l /\ c.sessions[n].transport = tr
        /\ c.sessions[n].device = ids
        /\ c.closing = t.closing
    BY <1>0, <2>1, ConnectPushes
  <2>3. n \in Nat
    BY DEF Full, Good, Pre, TypeT
  <2> HIDE DEF c, n
  <2>4. RowOK(c.sessions[n])
    BY <1>0, <1>00, <2>2 DEF RowOK, tr
  <2>5. LinkOf(c, n) = l
    BY <2>2 DEF LinkOf
  <2>6. l \in Cable => By = {}
    BY <1>9 DEF StealsWired, tr, Transport
  <2>7. l \in AaLinks \cap Cable => \A j \in Indexes(t) :
                            ~ (PhoneAt(t, j) = PhoneOf[l] /\ Named(t, j))
    BY <1>6, <2>6
  <2>8. Linked(c, lf2)
    BY <1>0, <1>1, <1>2, <1>3, <1>4, <2>2, <2>3, <2>4, <2>5, <2>7, LinkedPush
  <2> QED BY <2>2, <2>8 DEF c, lf2, ids, tr
<1>10. CASE By # {} /\ ~StealsWired(t, l, tr, ids)
  <2> DEFINE i == First(By)
             s == t.sessions[i]
  <2>1. i \in By /\ \A j \in By : i <= j
    BY <1>3, <1>8, <1>10, FirstIn
  <2>2. Found(t, l, tr, ids) # {} /\ First(Found(t, l, tr, ids)) = i
    BY <1>10 DEF Found
  <2>3. ~(s.link # l /\ s.transport = "usb" /\ tr # "usb")
    BY <1>10 DEF StealsWired
  <2> HIDE DEF tr, i, By
  <2>4. UpdatedAt(c, t, i, l, tr, ids)
    BY <1>0, <2>2, ConnectUpdates
  <2> HIDE DEF c
  <2>5. /\ i \in Indexes(t) /\ PhoneAt(t, i) = PhoneOf[l] /\ Named(t, i)
        /\ s.link \in AaLinks /\ s.link # l
    BY <1>4, <1>5, <2>1 DEF LinkOf
  <2>6. /\ s.device \subseteq {PhoneOf[l]} \X Facets
        /\ s.transport = Transport(s.link)
        /\ <<PhoneOf[l], "instance">> \in s.device
        /\ LiveIn(lf, s.link)
    BY <2>5, ClearByPhone DEF Linked, RowOK, PhoneAt, LinkOf, Named
  <2>7. s.link \notin Cable
    <3>1. CASE l \notin Cable
      BY <2>3, <2>5, <2>6, <3>1 DEF tr, Transport
    <3>2. CASE l \in Cable
      <4>1. LiveIn(lf2, s.link) /\ PhoneOf[s.link] = PhoneOf[l]
        BY <1>1, <2>5, <2>6 DEF LiveIn, PhoneAt, LinkOf, Links
      <4>2. OneCableIn(lf2)
        BY DEF lf2
      <4> QED BY <1>2, <2>5, <3>2, <4>1, <4>2 DEF OneCableIn
    <3> QED BY <3>1, <3>2
  <2>8. s.transport = "wifi"
    BY <2>6, <2>7 DEF Transport
  <2>9. Supersedes(s, l, tr) <=> l \in Cable
    BY <2>5, <2>8 DEF Supersedes, tr, Transport
  <2>10. /\ Indexes(c) = Indexes(t) /\ SameRows(c, t, Indexes(t) \ {i})
         /\ LinkOf(c, i) = (IF l \in Cable THEN l ELSE s.link)
         /\ c.sessions[i].transport = tr
         /\ c.sessions[i].device = s.device \cup ids
         /\ c.closing = t.closing \cup (IF l \in Cable THEN {s.link} ELSE {})
    BY <2>4, <2>9 DEF UpdatedAt, LinkOf, Superseded
  <2>11. LinkOf(c, i) \in AaLinks /\ PhoneOf[LinkOf(c, i)] = PhoneOf[l]
    BY <2>5, <2>10 DEF PhoneAt, LinkOf
  <2>12. tr = Transport(LinkOf(c, i))
    BY <2>7, <2>10 DEF tr, Transport
  <2>13. RowOK(c.sessions[i])
    <3>1. LinkOf(c, i) \notin CpLinks
      BY <2>11, LinksAssumption
    <3>2. LinkOf(c, i) \in Cable => <<PhoneOf[l], "serial">> \in ids
      BY <1>0, <2>7, <2>10
    <3> QED BY <1>0, <1>00, <2>6, <2>10, <2>11, <2>12, <3>1, <3>2 DEF RowOK, LinkOf
  <2>14. PhoneAt(c, i) = PhoneAt(t, i)
    BY <2>5, <2>11 DEF PhoneAt
  <2>15. LinkOf(c, i) \in CpLinks <=> LinkOf(t, i) \in CpLinks
    BY <2>5, <2>11, LinksAssumption DEF LinkOf
  <2>16. \/ LinkOf(c, i) = LinkOf(t, i)
         \/ /\ LinkOf(c, i) = l
            /\ LinkOf(t, i) \in c.closing /\ LinkOf(t, i) \notin AaLinks \cap Cable
            /\ \A j \in Indexes(t) : LinkOf(t, j) # l
    BY <1>4, <2>7, <2>10 DEF LinkOf
  <2>17. Due(lf2, l) => \E j \in Indexes(c) : LinkOf(c, j) = l
    BY <1>2, <2>5, <2>10
  <2>18. \A j \in Indexes(t) : PhoneAt(t, j) = PhoneAt(t, i) /\ Named(t, j) => i <= j
    BY <1>6, <2>1, <2>5
  <2>19. t.closing \subseteq c.closing
    BY <2>10
  <2>20. Linked(c, lf2)
    BY <1>0, <1>1, <1>2, <1>3, <2>5, <2>10, <2>13, <2>14, <2>15, <2>16, <2>17, <2>18,
       <2>19, LinkedTouch
  <2> QED BY <2>10, <2>20 DEF c, lf2, ids, tr
<1> QED BY <1>9, <1>10

(* A session on the air that has no entry yet gets one when it connects.   *)
LEMMA AaConnectedKeeps ==
  ASSUME KindsApart, NEW t, Full(t), NEW lf \in [Links -> Lives4], Linked(t, lf),
         NEW l \in AaLinks, lf[l] = "up"
  PROVE  LET c == Connect(t, l, Transport(l), IF l \in Cable THEN Id(l, {"serial"}) ELSE {})
         IN  Linked(c, [lf EXCEPT ![l] = "shown"])
<1> DEFINE ids == IF l \in Cable THEN Id(l, {"serial"}) ELSE {}
           tr == Transport(l)
           c == Connect(t, l, tr, ids)
           lf2 == [lf EXCEPT ![l] = "shown"]
<1>0. /\ l \in Links /\ ids \in SUBSET Ids /\ tr \in Transports /\ l \notin CpLinks
  BY LinkTypes, LinksAssumption DEF Links, Facets
<1>1. \A k \in Links : k # l => lf2[k] = lf[k]
  OBVIOUS
<1>2. LiveIn(lf2, l)
  BY <1>0 DEF LiveIn
<1>3. \A j \in Indexes(t) : LinkOf(t, j) \in Links /\ j \in Nat
  BY LinksIn
<1>4. \A j \in Indexes(t) : Clear(LinkOf(t, j)) => LiveIn(lf2, LinkOf(t, j))
  BY <1>1, <1>2, <1>3 DEF Linked, LiveIn
(* The entry of the session is the first one its news leads to.            *)
<1>5. ASSUME NEW i \in Indexes(t), LinkOf(t, i) = l
      PROVE  Found(t, l, tr, ids) # {} /\ First(Found(t, l, tr, ids)) = i
  <2>1. ByLink(t, l) = {i}
    BY <1>5, ClearByPhone DEF ByLink, Linked, OneRow, LinkOf
  <2>2. CASE l \notin Cable
    <3>1. ids = {} /\ ByIdentity(t, ids) = {}
      BY <2>2 DEF ByIdentity
    <3>2. Found(t, l, tr, ids) = {i}
      BY <2>1, <3>1 DEF Found
    <3>3. First({i}) = i
      BY <1>3, FirstIn
    <3> QED BY <3>2, <3>3
  <2>3. CASE l \in Cable
    <3> DEFINE By == ByIdentity(t, ids)
    <3>0. ids = Id(l, {"serial"}) /\ <<PhoneOf[l], "serial">> \in ids
      BY <2>3 DEF Id
    <3>1. <<PhoneOf[l], "serial">> \in t.sessions[i].device
      BY <1>5, <2>3 DEF Linked, RowOK, LinkOf
    <3>2. i \in By
      BY <3>0, <3>1 DEF ByIdentity
    <3>3. By \subseteq Indexes(t)
      BY DEF ByIdentity
    <3>4. First(By) \in By /\ First(By) <= i
      BY <1>3, <3>2, <3>3, FirstIn
    <3>5. \A j \in By : i <= j
      <4> SUFFICES ASSUME NEW j \in By PROVE i <= j
        OBVIOUS
      <4>1. j \in Indexes(t) /\ PhoneAt(t, j) = PhoneOf[l] /\ Named(t, j)
        BY <1>0, <3>0, SamePhone
      <4>2. PhoneAt(t, i) = PhoneOf[l]
        BY <1>5 DEF PhoneAt
      <4> QED BY <1>5, <2>3, <4>1, <4>2 DEF Linked, CableFirst
    <3>6. First(By) = i
      BY <1>3, <3>3, <3>4, <3>5
    <3>7. ~StealsWired(t, l, tr, ids)
      BY <1>5, <3>6 DEF StealsWired, LinkOf
    <3>8. Found(t, l, tr, ids) = By
      BY <3>2, <3>7 DEF Found
    <3> QED BY <3>2, <3>6, <3>8
  <2> QED BY <2>2, <2>3
<1>6. CASE \E i \in Indexes(t) : LinkOf(t, i) = l
  <2>1. PICK i \in Indexes(t) : LinkOf(t, i) = l
    BY <1>6
  <2>2. Found(t, l, tr, ids) # {} /\ First(Found(t, l, tr, ids)) = i
    BY <1>5, <2>1
  <2>3. ids \subseteq t.sessions[i].device /\ t.sessions[i].transport = tr
    <3>1. /\ l \in Cable => <<PhoneOf[l], "serial">> \in t.sessions[i].device
          /\ t.sessions[i].transport = tr
      BY <2>1 DEF Linked, RowOK, LinkOf
    <3>2. \A x \in ids : l \in Cable /\ x = <<PhoneOf[l], "serial">>
      BY DEF Id
    <3> QED BY <3>1, <3>2
  <2> HIDE DEF ids, tr, lf2
  <2>4. UpdatedAt(c, t, i, l, tr, ids)
    BY <1>0, <2>2, ConnectUpdates
  <2> HIDE DEF c
  <2>5. ~Supersedes(t.sessions[i], l, tr) /\ Superseded(t.sessions[i], l, tr) = {}
    BY <2>1 DEF Supersedes, Superseded, LinkOf
  <2>6. /\ Indexes(c) = Indexes(t) /\ SameRows(c, t, Indexes(t) \ {i})
        /\ c.sessions[i].link = t.sessions[i].link /\ c.closing = t.closing
        /\ c.sessions[i].device = t.sessions[i].device \cup ids
        /\ c.sessions[i].transport = tr
    BY <2>4, <2>5 DEF UpdatedAt
  <2>7. SameRows(c, t, Indexes(t))
    BY <2>3, <2>6 DEF SameRows
  <2>8. \A k \in Links : Owed(t, lf2, k) =>
           Due(lf, k) \/ \E j \in Indexes(t) : LinkOf(t, j) = k
    BY <1>1, <2>1 DEF Owed, Due
  <2>9. Linked(c, lf2)
    BY <1>4, <2>6, <2>7, <2>8, LinkedSame
  <2> QED BY <2>6, <2>9 DEF c, lf2, ids, tr
<1>7. CASE \A i \in Indexes(t) : LinkOf(t, i) # l
  <2> DEFINE n == t.next
  <2>1. l \notin Cable
    BY <1>0, <1>7, ClearByPhone DEF Linked, Listed, Owed, Due
  <2>2. ids = {} /\ ByIdentity(t, ids) = {} /\ ByLink(t, l) = {}
    BY <1>7, <2>1 DEF ByIdentity, ByLink, LinkOf
  <2>3. Found(t, l, tr, ids) = {}
    BY <2>2 DEF Found
  <2> HIDE DEF tr, ids, lf2
  <2>4. /\ n \notin Indexes(t) /\ Indexes(c) = Indexes(t) \cup {n}
        /\ \A j \in Indexes(t) : j <= n
        /\ SameRows(c, t, Indexes(t))
        /\ c.sessions[n].link = l /\ c.sessions[n].transport = tr
        /\ c.sessions[n].device = ids
        /\ c.closing = t.closing
    BY <1>0, <2>3, ConnectPushes
  <2>5. n \in Nat
    BY DEF Full, Good, Pre, TypeT
  <2> HIDE DEF c, n
  <2>6. RowOK(c.sessions[n])
    BY <1>0, <2>1, <2>2, <2>4 DEF RowOK, tr
  <2>7. LinkOf(c, n) = l
    BY <2>4 DEF LinkOf
  <2>8. Linked(c, lf2)
    BY <1>0, <1>1, <1>2, <1>3, <1>7, <2>1, <2>4, <2>5, <2>6, <2>7, LinkedPush
  <2> QED BY <2>4, <2>8 DEF c, lf2, ids, tr
<1> QED BY <1>6, <1>7

JInv == IInv /\ Linked(T, life) /\ Ducked(T, Clears(T))

LEMMA InitJInv == Init => JInv
<1> SUFFICES ASSUME Init PROVE Linked(T, life) /\ Ducked(T, Clears(T))
  BY InitIInv DEF JInv
<1>1. Indexes(T) = {} /\ T.duck = "full"
  BY DEF Init, T, Indexes, NoSessions
<1>2. \A l \in Links : ~Due(life, l)
  BY DEF Init, Due
<1>3. Linked(T, life)
  BY <1>1, <1>2 DEF Linked, OneRow, OneCpRow, CableFirst, Listed, Owed
<1>4. Ducked(T, Clears(T))
  BY <1>1 DEF Ducked, Active
<1> QED BY <1>3, <1>4

(* A handler that leaves the rows as they are, and the sessions that run.  *)
LEMMA SameKeeps ==
  ASSUME NEW t, NEW c, NEW lf, Linked(t, lf),
         Indexes(c) = Indexes(t), SameRows(c, t, Indexes(t)), t.closing \subseteq c.closing
  PROVE  Linked(c, lf)
<1>1. \A i \in Indexes(t) : Clear(LinkOf(t, i)) => LiveIn(lf, LinkOf(t, i))
  BY DEF Linked
<1>2. \A l \in Links : Owed(t, lf, l) => Due(lf, l)
  BY DEF Owed
<1> QED BY <1>1, <1>2, LinkedSame

LEMMA SameIsRows ==
  ASSUME NEW t, NEW c, Same(c, t)
  PROVE  Indexes(c) = Indexes(t) /\ SameRows(c, t, Indexes(t))
BY DEF Same, SameIn, SameRows

LEMMA DisconnectedKeeps ==
  ASSUME NEW t, Full(t), NEW lf \in [Links -> Lives4], Linked(t, lf), NEW l \in Links
  PROVE  LET c == CloseByLink(t, l)
         IN  /\ Linked(c, [lf EXCEPT ![l] = "gone"])
             /\ Ducked(t, Clears(t)) => Ducked(c, Clears(c))
<1> DEFINE c == CloseByLink(t, l)
           lf2 == [lf EXCEPT ![l] = "gone"]
           gone == First(ByLink(t, l))
           J == IF ByLink(t, l) = {} THEN {} ELSE {gone}
<1>1. /\ ByLink(t, l) = {} => c = t
      /\ ByLink(t, l) # {} =>
           /\ gone \in Indexes(t) /\ Indexes(c) = Indexes(t) \ {gone}
           /\ SameIn(c, t, Indexes(c))
           /\ c.closing = t.closing
           /\ \A K : Ducked(t, K) => Ducked(c, K)
  BY CloseByLinkFull
<1>2. \A k \in Links : k # l => lf2[k] = lf[k]
  OBVIOUS
<1>3. ~Due(lf2, l)
  BY DEF Due
<1>4. \A i \in Indexes(t) : LinkOf(t, i) \in Links /\ i \in Nat
  BY LinksIn
<1>5. ByLink(t, l) # {} => gone \in ByLink(t, l)
  <2>1. ByLink(t, l) \subseteq Nat
    BY <1>4 DEF ByLink
  <2> QED BY <2>1, FirstIn
<1>6. /\ \A i \in Indexes(t) : i \in J => LinkOf(t, i) = l
      /\ Clear(l) => \A i \in Indexes(t) : LinkOf(t, i) = l => i \in J
  <2>1. \A i \in Indexes(t) : i \in ByLink(t, l) <=> LinkOf(t, i) = l
    BY DEF ByLink, LinkOf
  <2> HIDE DEF gone
  <2> QED BY <1>5, <2>1 DEF Linked, OneRow, ByLink
<1> HIDE DEF c, lf2, gone
<1>7. Indexes(c) = Indexes(t) \ J /\ SameRows(c, t, Indexes(c)) /\ c.closing = t.closing
  BY <1>1 DEF SameIn, SameRows
<1> HIDE DEF J
<1>8. Linked(c, lf2)
  BY <1>2, <1>3, <1>4, <1>6, <1>7, LinkedRemove
<1>9. Ducked(t, Clears(t)) => Ducked(c, Clears(c))
  <2>1. Clears(c) \subseteq Clears(t)
    BY <1>7 DEF Clears, SameRows, LinkOf
  <2>2. Ducked(c, Clears(t)) => Ducked(c, Clears(c))
    BY <2>1 DEF Ducked
  <2>3. \A K : Ducked(t, K) => Ducked(c, K)
    BY <1>1
  <2> QED BY <2>2, <2>3
<1> QED BY <1>8, <1>9 DEF c, lf2

LEMMA NextJInv ==
  ASSUME KindsApart
  PROVE  JInv /\ OneCable' /\ [Next]_vars => JInv'
<1> SUFFICES ASSUME JInv, OneCable', [Next]_vars
             PROVE  Linked(T, life)' /\ Ducked(T, Clears(T))'
  BY NextIInv DEF JInv
<1> DEFINE Kept == Linked(T, life)' /\ Ducked(T, Clears(T))'
<1>1. /\ Full(T) /\ Pre(T) /\ Linked(T, life) /\ Ducked(T, Clears(T))
      /\ life \in [Links -> Lives4]
      /\ CpLinks \subseteq Links /\ AaLinks \subseteq Links
      /\ T.closing = closing
  BY DEF JInv, IInv, Around, Full, Good, Links, Lives4, T
<1>2. ASSUME NEW t, Pre(t), Becomes(t), Linked(t, life'), Ducked(t, Clears(t))
      PROVE  Kept
  <2>1. T' = t
    BY <1>2, BecomesIs
  <2>2. Linked(T', life') => Linked(T, life)'
    BY DEF Linked, OneRow, OneCpRow, CableFirst, Listed, Owed, RowOK, LiveIn, LinkOf,
           PhoneAt, Named, Due, Clear, Indexes, Transport, Links, Facets
  <2>3. Ducked(T', Clears(T')) => Ducked(T, Clears(T))'
    BY DEF Ducked, Active, Indexes, Clears, Clear, LinkOf
  <2> QED BY <1>2, <2>1, <2>2, <2>3
<1>3. ASSUME NEW t, Pre(t), Becomes(t), life' = life,
             Ducked(T, Clears(T)) => Ducked(t, Clears(T)),
             Indexes(t) = Indexes(T), SameRows(t, T, Indexes(T)), T.closing \subseteq t.closing
      PROVE  Kept
  <2>1. Linked(t, life)
    BY <1>1, <1>3, SameKeeps
  <2>2. Linked(t, life')
    BY <1>3, <2>1
  <2>3. Ducked(t, Clears(t))
    BY <1>1, <1>3, DuckedSame
  <2> QED BY <1>2, <1>3, <2>2, <2>3
<1>4. ASSUME NEW t, Full(t), Becomes(t), life' = life, \A J : Ducked(T, J) => Ducked(t, J),
             Same(t, T), T.closing \subseteq t.closing
      PROVE  Kept
  BY <1>1, <1>3, <1>4, SameIsRows DEF Full, Good
<1>5. ASSUME UNCHANGED table, life' = life PROVE Kept
  <2>1. Becomes(T)
    BY <1>5 DEF Becomes, T, table
  <2>2. Same(T, T)
    BY DEF Same, SameIn
  <2> QED BY <1>1, <1>4, <1>5, <2>1, <2>2
<1>6. ASSUME NEW l \in Links, NEW from, NEW to \in Lives4, Lives(l, from, to)
      PROVE  life[l] \in from /\ life' = [life EXCEPT ![l] = to]
  BY <1>6 DEF Lives
<1>61. ASSUME NEW l \in Links, NEW x, Lives(l, {x}, x), x # "gone"
       PROVE  life' = life
  BY <1>1, <1>61 DEF Lives
<1>7. CASE UNCHANGED vars
  BY <1>5, <1>7 DEF vars, table
<1>8. ASSUME NEW l \in CpLinks, CpPresence(l) PROVE Kept
  <2>1. PICK way \in Ways(l), more \in SUBSET {"udid", "wifi"} :
          /\ Lives(l, {"none", "up"}, "up") \/ Lives(l, {"shown"}, "shown")
          /\ Becomes(Presence(T, l, way, Id(l, {"bt"} \cup more)))
    BY <1>8 DEF CpPresence
  <2> DEFINE facets == {"bt"} \cup more
             c == Presence(T, l, way, Id(l, facets))
  <2>2. PICK v \in {"up", "shown"} : life' = [life EXCEPT ![l] = v]
    BY <1>1, <1>6, <2>1 DEF Lives4
  <2>3. way \in Transports /\ facets \in SUBSET Facets /\ "bt" \in facets
    BY <1>1, LinkTypes DEF Ways, Transports, Facets
  <2>4. Becomes(c)
    BY <2>1
  <2> HIDE DEF facets
  <2>5. Id(l, facets) \in SUBSET Ids
    BY <1>1, <2>3, LinkTypes
  <2>6. Full(c)
    BY <1>1, <2>3, <2>5, PresenceFull
  <2>7. /\ Elsewhere(c, T, PhoneOf[l]) /\ T.closing \subseteq c.closing
        /\ \A J : Ducked(T, J) => Ducked(c, J)
    BY <1>1, <2>3, PresenceElsewhere
  <2>8. Linked(c, [life EXCEPT ![l] = v])
    <3>1. CASE Clear(l)
      BY <1>1, <2>3, <3>1, CpPresenceKeeps
    <3>2. CASE ~Clear(l)
      <4> DEFINE lf2 == [life EXCEPT ![l] = v]
      <4>1. \A k \in Links : k # l => lf2[k] = life[k]
        BY <1>1
      <4> HIDE DEF c, lf2
      <4>2. /\ \A i \in Indexes(T) : LinkOf(T, i) \in Links
            /\ \A i \in Indexes(c) : LinkOf(c, i) \in Links
        BY <1>1, <2>6, LinksIn
      <4>3. Linked(c, lf2)
        BY <1>1, <2>7, <3>2, <4>1, <4>2, LinkedElsewhere
      <4> QED BY <4>3 DEF lf2
    <3> QED BY <3>1, <3>2
  <2> HIDE DEF c
  <2>9. Ducked(c, Clears(c))
    BY <1>1, <2>7, DuckedElsewhere
  <2> QED BY <1>1, <1>2, <2>2, <2>4, <2>6, <2>8, <2>9 DEF Full, Good
<1>9. ASSUME NEW l \in CpLinks, CpActive(l) PROVE Kept
  <2> DEFINE i == First(ByLink(T, l))
             c == AutoActivate(T, i)
  <2>1. i \in Indexes(T)
    <3>1. ByLink(T, l) \subseteq Indexes(T) /\ Indexes(T) \subseteq Nat
      BY <1>1 DEF ByLink, Pre, TypeT
    <3> QED BY <1>9, <3>1, FirstIn DEF CpActive
  <2>2. life' = life
    BY <1>1, <1>9, <1>61 DEF CpActive
  <2>3. Becomes(c)
    BY <1>9 DEF CpActive
  <2> HIDE DEF i
  <2>4. Active(T) # {} /\ Good(T)
    BY <1>1, <2>1 DEF Full
  <2>5. Full(c) /\ Same(c, T) /\ c.closing = T.closing /\ (\A J : Ducked(T, J) => Ducked(c, J))
    BY <2>1, <2>4, AutoActivateFull, AutoActivateKeeps
  <2> HIDE DEF c
  <2> QED BY <1>4, <2>2, <2>3, <2>5
<1>10. ASSUME NEW l \in CpLinks, CpConnected(l) PROVE Kept
  <2>1. PICK way \in Ways(l), ids \in {{}, Id(l, {"controller"})} :
          /\ Lives(l, {"up"}, "shown")
          /\ ByLink(T, l) = {} => l \in Outrun
          /\ Becomes(Connect(T, l, way, ids))
    BY <1>10 DEF CpConnected
  <2>2. PICK facets \in SUBSET Facets : ids = Id(l, facets)
    <3>1. Id(l, {}) = {} /\ {} \in SUBSET Facets /\ {"controller"} \in SUBSET Facets
      BY DEF Id, Facets
    <3> QED BY <2>1, <3>1
  <2> DEFINE c == Connect(T, l, way, Id(l, facets))
  <2>3. way \in Transports /\ Id(l, facets) \in SUBSET Ids
    BY <1>1, LinkTypes DEF Ways, Transports
  <2>4. life[l] = "up" /\ life' = [life EXCEPT ![l] = "shown"]
    BY <1>1, <1>6, <2>1 DEF Lives4
  <2>5. Full(c)
    BY <1>1, <2>3, ConnectFull
  <2>6. /\ Elsewhere(c, T, PhoneOf[l]) /\ T.closing \subseteq c.closing
        /\ \A J : Ducked(T, J) => Ducked(c, J)
    BY <1>1, <2>3, ConnectElsewhere
  <2>7. Becomes(c)
    BY <2>1, <2>2
  <2>8. Linked(c, [life EXCEPT ![l] = "shown"])
    <3>1. CASE Clear(l)
      <4>1. ByLink(T, l) # {}
        BY <2>1, <3>1, ClearByPhone
      <4> QED BY <1>1, <2>3, <2>4, <3>1, <4>1, CpConnectedKeeps
    <3>2. CASE ~Clear(l)
      <4> DEFINE lf2 == [life EXCEPT ![l] = "shown"]
      <4>1. \A k \in Links : k # l => lf2[k] = life[k]
        BY <1>1
      <4> HIDE DEF c, lf2
      <4>2. /\ \A i \in Indexes(T) : LinkOf(T, i) \in Links
            /\ \A i \in Indexes(c) : LinkOf(c, i) \in Links
        BY <1>1, <2>5, LinksIn
      <4>3. Linked(c, lf2)
        BY <1>1, <2>6, <3>2, <4>1, <4>2, LinkedElsewhere
      <4> QED BY <4>3 DEF lf2
    <3> QED BY <3>1, <3>2
  <2> HIDE DEF c
  <2>9. Ducked(c, Clears(c))
    BY <1>1, <2>6, DuckedElsewhere
  <2> QED BY <1>1, <1>2, <2>4, <2>5, <2>7, <2>8, <2>9 DEF Full, Good
<1>11. ASSUME NEW p \in Phones, AaHelperNames(p) PROVE Kept
  BY <1>5, <1>11 DEF AaHelperNames
<1>12. ASSUME NEW l \in AaLinks, AaDevice(l) PROVE Kept
  <2> DEFINE facets == {"instance"} \cup (IF l \in Cable THEN {"serial"} ELSE {})
                         \cup (IF PhoneOf[l] \notin named THEN {}
                               ELSE IF l \in Cable THEN {"serial"} ELSE {"bt", "serial"})
             c == Connect(T, l, Transport(l), Id(l, facets))
  <2>1. /\ facets \in SUBSET Facets /\ "instance" \in facets
        /\ l \in Cable => "serial" \in facets
    BY DEF Facets
  <2>2. AaIds(l) = Id(l, facets)
    BY DEF AaIds
  <2>3. life[l] = "none" /\ life' = [life EXCEPT ![l] = "up"]
    BY <1>1, <1>6, <1>12 DEF AaDevice, Lives4
  <2>4. OneCableIn([life EXCEPT ![l] = "up"])
    <3>1. OneCableIn(life')
      BY DEF OneCable, OneCableIn, LiveIn
    <3> QED BY <2>3, <3>1
  <2>5. Becomes(c)
    BY <1>12, <2>2 DEF AaDevice
  <2> HIDE DEF facets
  <2>6. Full(c)
    BY <1>1, <2>1, LinkTypes, ConnectFull
  <2>7. Linked(c, [life EXCEPT ![l] = "up"])
    BY <1>1, <2>1, <2>3, <2>4, AaDeviceKeeps
  <2>8. Elsewhere(c, T, PhoneOf[l]) /\ \A J : Ducked(T, J) => Ducked(c, J)
    BY <1>1, <2>1, LinkTypes, ConnectElsewhere
  <2> HIDE DEF c
  <2>9. Ducked(c, Clears(c))
    BY <1>1, <2>8, DuckedElsewhere
  <2> QED BY <1>1, <1>2, <2>3, <2>5, <2>6, <2>7, <2>9 DEF Full, Good
<1>13. ASSUME NEW l \in AaLinks, AaConnected(l) PROVE Kept
  <2> DEFINE ids == IF l \in Cable THEN Id(l, {"serial"}) ELSE {}
             c == Connect(T, l, Transport(l), ids)
  <2>1. ids \in SUBSET Ids
    BY <1>1, LinkTypes DEF Facets
  <2>2. life[l] = "up" /\ life' = [life EXCEPT ![l] = "shown"]
    BY <1>1, <1>6, <1>13 DEF AaConnected, Lives4
  <2>3. Becomes(c)
    BY <1>13 DEF AaConnected
  <2>4. Full(c)
    <3> HIDE DEF ids
    <3> QED BY <1>1, <2>1, LinkTypes, ConnectFull
  <2>5. Linked(c, [life EXCEPT ![l] = "shown"])
    BY <1>1, <2>2, AaConnectedKeeps
  <2>6. PICK facets \in SUBSET Facets : ids = Id(l, facets)
    <3>1. Id(l, {}) = {} /\ {} \in SUBSET Facets /\ {"serial"} \in SUBSET Facets
      BY DEF Id, Facets
    <3> QED BY <3>1
  <2>7. Elsewhere(c, T, PhoneOf[l]) /\ \A J : Ducked(T, J) => Ducked(c, J)
    <3> HIDE DEF ids
    <3> QED BY <1>1, <2>6, LinkTypes, ConnectElsewhere
  <2> HIDE DEF c
  <2>8. Ducked(c, Clears(c))
    BY <1>1, <2>7, DuckedElsewhere
  <2> QED BY <1>1, <1>2, <2>2, <2>3, <2>4, <2>5, <2>8 DEF Full, Good
<1>14. ASSUME NEW l \in Links, VideoCodec(l) PROVE Kept
  <2>1. life' = life /\ Becomes(VideoUp(T, l))
    BY <1>14, <1>61 DEF VideoCodec
  <2> QED BY <1>1, <1>4, <2>1, VideoUpFull, VideoUpKeeps
<1>15. ASSUME NEW l \in Links, NEW d \in Duck, Ducks(l, d) PROVE Kept
  <2> DEFINE c == OnDuck(T, l, d)
  <2>1. life' = life /\ Becomes(c)
    BY <1>15, <1>61 DEF Ducks
  <2>2. \A i, j \in Indexes(T) :
          i \in Clears(T) /\ T.sessions[i].link = T.sessions[j].link => i = j
    BY <1>1 DEF Linked, OneRow, LinkOf, Clears
  <2>3. Pre(c)
    BY <1>1, OnDuckFull DEF Full, Good
  <2>4. /\ Indexes(c) = Indexes(T) /\ SameRows(c, T, Indexes(T))
        /\ c.closing = T.closing /\ (Ducked(T, Clears(T)) => Ducked(c, Clears(T)))
    BY <1>1, <2>2, OnDuckKeeps
  <2> HIDE DEF c
  <2> QED BY <1>1, <1>3, <2>1, <2>3, <2>4
<1>16. ASSUME NEW l \in Links, Disconnected(l) PROVE Kept
  <2> DEFINE c == CloseByLink(T, l)
  <2>1. life' = [life EXCEPT ![l] = "gone"] /\ Becomes(c)
    BY <1>16 DEF Disconnected, Lives
  <2>2. Full(c)
    BY <1>1, CloseByLinkFull
  <2>3. /\ Linked(c, [life EXCEPT ![l] = "gone"])
        /\ Ducked(T, Clears(T)) => Ducked(c, Clears(c))
    BY <1>1, DisconnectedKeeps
  <2> HIDE DEF c
  <2> QED BY <1>1, <1>2, <2>1, <2>2, <2>3 DEF Full, Good
<1>17. ASSUME NEW p \in Phones, TransportGone(p) PROVE Kept
  <2>1. PICK ids, tr : Becomes(CloseOnTransport(T, ids, tr)) /\ life' = life
    BY <1>17 DEF TransportGone
  <2> QED BY <1>1, <1>4, <2>1, CloseOnTransportFull, CloseOnTransportKeeps
<1>18. ASSUME NEW p \in Phones, SelectDevice(p) PROVE Kept
  <2>1. PICK i : Becomes(Activate(T, i)) /\ life' = life
    BY <1>18 DEF SelectDevice
  <2> QED BY <1>1, <1>4, <2>1, ActivateFull, ActivateKeeps
<1>19. ASSUME NEW p \in Phones, ForgetDevice(p) PROVE Kept
  BY <1>5, <1>19 DEF ForgetDevice
<1>20. ASSUME NextDevice PROVE Kept
  BY <1>1, <1>4, <1>20, ActivateNextFull, ActivateNextKeeps DEF NextDevice
<1>21. ASSUME ForgetGraceOver PROVE Kept
  <2>1. PICK l \in forgets : Becomes(Told(T, l)) /\ life' = life
    BY <1>21 DEF ForgetGraceOver
  <2>2. l \in Links
    BY DEF JInv, IInv, Around
  <2> QED BY <1>1, <1>4, <2>1, <2>2, ToldFull, ToldKeeps
<1>22. ASSUME Goodbye PROVE Kept
  <2> DEFINE c == Tab(T.sessions, T.next, T.owner, T.duck, T.streams, closing')
  <2>1. closing \subseteq closing' /\ closing' \subseteq Links
    <3>1. closing \subseteq Links /\ \A i \in DOMAIN sessions : sessions[i].link \in Links
      <4>1. T.closing \subseteq Links /\ \A i \in DOMAIN T.sessions : T.sessions[i].link \in Links
        BY <1>1, Parts DEF Entry
      <4> QED BY <4>1 DEF T
    <3> QED BY <1>22, <3>1 DEF Goodbye
  <2>2. Pre(c)
    BY <1>1, <2>1, Parts, PreOf
  <2>3. c.sessions = T.sessions /\ c.duck = T.duck /\ c.closing = closing'
    BY TabOf
  <2>4. Becomes(c) /\ life' = life
    BY <1>22 DEF Goodbye, Becomes, T, Tab
  <2> HIDE DEF c
  <2>5. /\ Indexes(c) = Indexes(T) /\ SameRows(c, T, Indexes(T)) /\ Active(c) = Active(T)
    BY <2>3 DEF Indexes, SameRows, Active
  <2>6. Ducked(T, Clears(T)) => Ducked(c, Clears(T))
    BY <1>1, <2>3, <2>5 DEF Ducked
  <2> QED BY <1>1, <1>3, <2>1, <2>2, <2>3, <2>4, <2>5, <2>6
<1> QED
  BY <1>7, <1>8, <1>9, <1>10, <1>11, <1>12, <1>13, <1>14, <1>15, <1>16, <1>17, <1>18,
     <1>19, <1>20, <1>21, <1>22 DEF Next

LEMMA AlwaysJInv ==
  ASSUME KindsApart
  PROVE  Spec /\ []OneCable => []JInv
<1>1. JInv /\ OneCable' /\ [Next]_vars => JInv'
  BY NextJInv
<1> QED BY <1>1, InitJInv, PTL DEF Spec

(* No entry outlives its session and no session has two, whatever the      *)
(* order of handovers between cable and air, switches, removals and ends,  *)
(* and whatever news of a session follows its Close: only a session whose  *)
(* Connected was outrun can leave a ghost, and only for its own phone.  A  *)
(* phone speaks one protocol and has one Android Auto session on its cable. *)
THEOREM AlwaysNoGhosts ==
  ASSUME KindsApart
  PROVE  Spec /\ []OneCable => []NoGhosts
<1>1. JInv => NoGhosts
  BY DEF JInv, Linked, OneRow, LiveIn, LinkOf, Indexes, T, NoGhosts
<1> QED BY <1>1, AlwaysJInv, PTL

(* A session that announced itself and was not told to close has an entry, *)
(* unless a session of its phone was outrun.                               *)
THEOREM AlwaysAnnouncedIsListed ==
  ASSUME KindsApart
  PROVE  Spec /\ []OneCable => []AnnouncedIsListed
<1>1. JInv => AnnouncedIsListed
  <2> SUFFICES ASSUME JInv, NEW l \in Links, Clear(l), life[l] = "shown", l \notin closing
               PROVE  ByLink(T, l) # {}
    BY DEF AnnouncedIsListed
  <2>1. \E i \in Indexes(T) : LinkOf(T, i) = l
    BY DEF JInv, Linked, Listed, Owed, Due, T
  <2> QED BY <2>1 DEF ByLink, LinkOf
<1> QED BY <1>1, AlwaysJInv, PTL

(* Media plays at the level the session in front asked for, also while the *)
(* rows of another phone are in disorder.                                  *)
THEOREM AlwaysDuckFollowsFront ==
  ASSUME KindsApart
  PROVE  Spec /\ []OneCable => []DuckFollowsFront
<1>1. JInv => DuckFollowsFront
  <2> SUFFICES ASSUME JInv PROVE DuckFollowsFront
    OBVIOUS
  <2>1. /\ Active(T) = {} => duckLevel = "full"
        /\ \A i \in Active(T) \cap Clears(T) : duckLevel = sessions[i].duck
    BY DEF JInv, Ducked, T
  <2>2. Active(T) # {} => /\ First(Active(T)) \in Active(T)
                          /\ ActiveLink(T) = LinkOf(T, First(Active(T)))
    BY ActiveLinkType DEF JInv, IInv, Full, Good, Pre, LinkOf
  <2>3. Active(T) \subseteq Indexes(T)
    BY DEF Active
  <2> QED BY <2>1, <2>2, <2>3 DEF DuckFollowsFront, Clears
<1> QED BY <1>1, AlwaysJInv, PTL
=============================================================================
