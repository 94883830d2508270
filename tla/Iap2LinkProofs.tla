--------------------------- MODULE Iap2LinkProofs ---------------------------
(***************************************************************************)
(* For any parameters of the phone, any number of messages and any faults: *)
(* the engine never has a packet unacknowledged without the deadline that  *)
(* repeats it (each handler keeps Sound, whatever the frame); the state is *)
(* typed (each handler returns what RetOK says, TInv); and the phone's     *)
(* messages are delivered in order and acknowledged only then (a handler   *)
(* is Quiet or receives the phone's next messages, RInv).  The engine's    *)
(* own messages are kept until the phone has heard them, and no more than  *)
(* the window are on their way (a handler Advances the ack, SInv).  And a  *)
(* link that nothing disturbs does not die (Calms, UInv).                  *)
(***************************************************************************)
EXTENDS Iap2Link, FiniteSetTheorems, SequenceTheorems, WellFoundedInduction, TLAPS

Fields == {"state", "lsp", "sent", "acked", "unack", "due", "queue", "recv",
           "lastAcked", "held", "cum", "marker", "delayed", "resend"}

(* The part of an engine the deadline depends on, as an invariant of it.   *)
Sound(x) ==
  /\ Fields \subseteq DOMAIN x
  /\ x.state = "Normal" /\ x.unack # <<>> => x.resend

(* What a handler returns keeps its three parts.                           *)
LEMMA Returns ==
  ASSUME NEW x PROVE Ret(x).e = x
BY DEF Ret

LEMMA WriteSound ==
  ASSUME NEW x, NEW fs, Sound(x) PROVE Sound(Write(x, fs).e)
<1>1. Write(x, fs).e = IF fs = <<>> THEN x ELSE [x EXCEPT !.cum = 0]
  BY DEF Write
<1> QED BY <1>1 DEF Sound, Fields

LEMMA ThenLast ==
  ASSUME NEW r, NEW s PROVE Then(r, s).e = s.e
BY DEF Then

LEMMA BailoutSound ==
  ASSUME NEW x, Sound(x) PROVE Sound(Bailout(x))
BY DEF Sound, Fields, Bailout

(* Every handler keeps an engine sound.                                    *)
LEMMA TransmitSound ==
  ASSUME NEW x, NEW ms, Sound(x) PROVE Sound(Transmit(x, ms).e)
<1> DEFINE new == [i \in 1 .. Len(ms) |-> [psn |-> Next8(x.sent, i), m |-> ms[i], n |-> 0]]
           y == [x EXCEPT !.sent = Next8(@, Len(ms)), !.delayed = FALSE, !.lastAcked = x.recv]
           z == IF x.lsp.max_retransmissions > 0
                THEN [y EXCEPT !.unack = @ \o new, !.resend = TRUE,
                               !.due = @ \o [i \in 1 .. Len(ms) |-> new[i].psn]]
                ELSE [y EXCEPT !.acked = y.sent]
<1>1. Sound(y)
  BY DEF Sound, Fields
<1>2. Sound([y EXCEPT !.acked = y.sent])
  <2> HIDE DEF y
  <2> QED BY <1>1 DEF Sound, Fields
<1>3. Sound([y EXCEPT !.unack = @ \o new, !.resend = TRUE,
                      !.due = @ \o [i \in 1 .. Len(ms) |-> new[i].psn]])
  <2> HIDE DEF y, new
  <2> QED BY <1>1 DEF Sound, Fields
<1>4. Sound(IF ms = <<>> THEN x ELSE z)
  <2> HIDE DEF y, new
  <2> QED BY <1>2, <1>3
<1> HIDE DEF z
<1>5. Transmit(x, ms) = Write(IF ms = <<>> THEN x ELSE z, [i \in 1 .. Len(ms) |-> DataOf(x, new[i])])
  BY DEF Transmit, z
<1> QED BY <1>4, <1>5, WriteSound

LEMMA SendPacketSound ==
  ASSUME NEW x, NEW m, Sound(x) PROVE Sound(SendPacket(x, m).e)
<1>1. Sound([x EXCEPT !.queue = Append(@, m)])
  BY DEF Sound, Fields
<1>2. Sound(Transmit(x, <<m>>).e)
  BY TransmitSound
<1> QED BY <1>1, <1>2, Returns DEF SendPacket

LEMMA HandleSynSound ==
  ASSUME NEW x, NEW f, Sound(x) PROVE Sound(HandleSyn(x, f).e)
<1> DEFINE y == [x EXCEPT !.lsp = Lsp, !.recv = f.seq, !.lastAcked = f.seq]
<1>1. Sound(y)
  BY DEF Sound, Fields
<1> HIDE DEF y
<1>2. Sound(Write(y, <<AckOf(y)>>).e)
  BY <1>1, WriteSound
<1>3. HandleSyn(x, f) = IF x.state # "Negotiate" THEN Ret(x) ELSE Write(y, <<AckOf(y)>>)
  BY DEF HandleSyn, y
<1> QED BY <1>2, <1>3, Returns

LEMMA HandleAckSound ==
  ASSUME NEW x, NEW num, Sound(x) PROVE Sound(HandleAck(x, num).e)
<1> DEFINE y == Acknowledge(x, num)
           n == Room(y)
           z == [y EXCEPT !.queue = SubSeq(@, n + 1, Len(@))]
<1>1. Sound(y)
  BY DEF Sound, Fields, Acknowledge
<1> HIDE DEF y, n
<1>2. Sound(z)
  BY <1>1 DEF Sound, Fields
<1> HIDE DEF z
<1>3. HandleAck(x, num) = Transmit(z, SubSeq(y.queue, 1, n))
  BY DEF HandleAck, y, n, z
<1> QED BY <1>2, <1>3, TransmitSound

LEMMA HandleEakSound ==
  ASSUME NEW x, NEW missing, Sound(x) PROVE Sound(HandleEak(x, missing).e)
<1> DEFINE hit == Keep(x.unack, {i \in DOMAIN x.unack : x.unack[i].psn \in missing})
           again == [i \in DOMAIN x.unack |->
                       IF x.unack[i].psn \in missing
                       THEN [x.unack[i] EXCEPT !.n = @ + 1] ELSE x.unack[i]]
           y == [x EXCEPT !.unack = again, !.delayed = FALSE, !.resend = TRUE]
           fs == [i \in DOMAIN hit |-> DataOf(x, hit[i])]
<1>1. Sound(y)
  <2> HIDE DEF again
  <2> QED BY DEF Sound, Fields
<1>2. \/ HandleEak(x, missing) = Ret(x)
      \/ HandleEak(x, missing) = Ret(Bailout(x))
      \/ HandleEak(x, missing) = Write(y, fs)
  BY DEF HandleEak
<1> HIDE DEF y, fs
<1> QED BY <1>1, <1>2, Returns, BailoutSound, WriteSound

LEMMA HandleDataSound ==
  ASSUME NEW x, NEW f, Sound(x) PROVE Sound(HandleData(x, f).e)
<1>1. Sound(Write(x, <<AckOf(x)>>).e)
  BY WriteSound
<1>2. \A d : Sound(Hold(x, f, d).e)
  <2> DEFINE y == [x EXCEPT !.held = Append(@, [psn |-> f.seq, m |-> f.m])]
             z == [y EXCEPT !.delayed = FALSE]
  <2>1. Sound(y)
    BY DEF Sound, Fields
  <2> HIDE DEF y
  <2>2. Sound(z)
    BY <2>1 DEF Sound, Fields
  <2> HIDE DEF z
  <2> TAKE d
  <2> DEFINE fs == <<Frame({"EAK"}, x.sent, x.recv, NoMsg, {Next8(x.recv, j) : j \in 1 .. d - 1})>>
  <2>3. Hold(x, f, d) = Ret(y) \/ Hold(x, f, d) = Write(z, fs)
    BY DEF Hold, y, z
  <2> HIDE DEF fs
  <2> QED BY <2>1, <2>2, <2>3, Returns, WriteSound
<1>3. Sound(Deliver(x, f).e)
  <2> DEFINE line == Sorted(Append(x.held, [psn |-> f.seq, m |-> f.m]), x.recv)
             Last(j) == IF j = 0 THEN x.recv ELSE line[j].psn
             gaps == {j \in DOMAIN line : Distance(line[j].psn, Last(j - 1)) > 1}
             n == Least(gaps \cup {Len(line) + 1}) - 1
             up == SubSeq(line, 1, n)
             y == [x EXCEPT !.held = SubSeq(line, n + 1, Len(line)), !.recv = Last(n)]
             a == [y EXCEPT !.delayed = FALSE, !.lastAcked = y.recv]
             b == [y EXCEPT !.delayed = TRUE]
             r == IF x.lsp.max_ack = 0 THEN Ret(y)
                  ELSE IF Distance(y.recv, x.lastAcked) >= x.lsp.max_outgoing
                  THEN Write(a, <<AckOf(y)>>)
                  ELSE Ret(b)
  <2>1. Sound(y)
    <3> HIDE DEF line, n
    <3> QED BY DEF Sound, Fields
  <2>2. Sound(a) /\ Sound(b)
    <3> HIDE DEF y
    <3> QED BY <2>1, SMTT(30) DEF Sound, Fields
  <2>3. Deliver(x, f) = [Write(a, <<AckOf(y)>>) EXCEPT !.up = up]
        \/ Deliver(x, f) = [Ret(y) EXCEPT !.up = up]
        \/ Deliver(x, f) = [Ret(b) EXCEPT !.up = up]
    BY DEF Deliver
  <2> HIDE DEF y, a, b, up
  <2>4. Deliver(x, f).e = Write(a, <<AckOf(y)>>).e \/ Deliver(x, f).e \in {y, b}
    BY <2>3 DEF Ret, Write
  <2> QED BY <2>1, <2>2, <2>4, WriteSound
<1> QED BY <1>1, <1>2, <1>3 DEF HandleData

LEMMA CumulativeSound ==
  ASSUME NEW x, Sound(x) PROVE Sound(Cumulative(x).e)
<1> DEFINE y == [x EXCEPT !.lastAcked = x.recv]
<1>1. Sound(y)
  BY DEF Sound, Fields
<1>2. Cumulative(x) = Ret(x) \/ Cumulative(x) = Write(y, <<AckOf(x)>>)
  BY DEF Cumulative
<1> HIDE DEF y
<1> QED BY <1>1, <1>2, Returns, WriteSound

LEMMA ProcessFrameSound ==
  ASSUME NEW x, NEW f, Sound(x) PROVE Sound(ProcessFrame(x, f).e)
<1> DEFINE a == IF "SYN" \in f.bits THEN HandleSyn(x, f) ELSE Ret(x)
           counted == [a.e EXCEPT !.cum = @ + 1]
           b == IF "ACK" \notin f.bits THEN a ELSE Then(a, HandleAck(counted, f.ack))
           c == IF "EAK" \in f.bits THEN Then(b, HandleEak(b.e, f.missing)) ELSE b
           d == IF f.bits = {"ACK"} /\ f.m # NoMsg THEN Then(c, HandleData(c.e, f)) ELSE c
<1>0. ProcessFrame(x, f) = IF "RST" \in f.bits THEN Ret(Bailout(x))
                           ELSE Then(d, Cumulative(d.e))
  BY DEF ProcessFrame
<1>1. Sound(a.e)
  BY HandleSynSound, Returns
<1> HIDE DEF a
<1>2. Sound(counted)
  BY <1>1 DEF Sound, Fields
<1> HIDE DEF counted
<1>3. Sound(b.e)
  BY <1>1, <1>2, HandleAckSound, ThenLast
<1> HIDE DEF b
<1>4. Sound(c.e)
  BY <1>3, HandleEakSound, ThenLast
<1> HIDE DEF c
<1>5. Sound(d.e)
  BY <1>4, HandleDataSound, ThenLast
<1> HIDE DEF d
<1>6. Sound(Cumulative(d.e).e)
  BY <1>5, CumulativeSound
<1> QED BY <1>0, <1>6, ThenLast, Returns, BailoutSound

LEMMA EnterNegotiateSound ==
  ASSUME NEW x, Sound(x) PROVE Sound(EnterNegotiate(x).e)
<1> DEFINE y == [x EXCEPT !.state = "Negotiate", !.marker = FALSE]
<1>1. Sound(y)
  BY DEF Sound, Fields
<1>2. EnterNegotiate(x) = Write(y, <<SynOf(y)>>)
  BY DEF EnterNegotiate
<1> HIDE DEF y
<1> QED BY <1>1, <1>2, WriteSound

LEMMA FeedSound ==
  ASSUME NEW x, NEW f, Sound(x) PROVE Sound(Feed(x, f).e)
<1>1. Feed(x, f) \in {EnterNegotiate(x), Ret(Bailout(x)), Ret(x), ProcessFrame(x, f)}
  BY DEF Feed
<1> QED BY <1>1, EnterNegotiateSound, BailoutSound, ProcessFrameSound, Returns

LEMMA ExpectAckTimerSound ==
  ASSUME NEW x, Sound(x) PROVE Sound(OnExpectAckTimer(x).e)
<1> DEFINE psn == Head(x.due)
           i == CHOOSE j \in DOMAIN x.unack : x.unack[j].psn = psn
           y == [x EXCEPT !.unack[i].n = @ + 1, !.due = Append(Tail(@), psn), !.resend = TRUE]
           z == [x EXCEPT !.resend = FALSE]
<1>1. Sound(y)
  <2> HIDE DEF psn, i
  <2> QED BY DEF Sound, Fields
<1>2. x.unack = <<>> \/ x.state # "Normal" => Sound(z)
  BY DEF Sound, Fields
<1>3. \/ (x.unack = <<>> \/ x.state # "Normal") /\ OnExpectAckTimer(x) = Ret(z)
      \/ OnExpectAckTimer(x) = Ret(Bailout(x))
      \/ OnExpectAckTimer(x) = Write(y, <<DataOf(x, x.unack[i])>>)
  BY DEF OnExpectAckTimer
<1> HIDE DEF y, z, i
<1> QED BY <1>1, <1>2, <1>3, Returns, BailoutSound, WriteSound

-----------------------------------------------------------------------------
LEMMA BecomesSound ==
  ASSUME NEW r, Sound(r.e), Becomes(r) PROVE Sound(e)'
<1>1. e' = r.e
  BY DEF Becomes
<1> QED BY <1>1 DEF Sound

LEMMA InitSound == Init => Sound(e)
BY DEF Init, Sound, Fields

LEMMA NextSound == Sound(e) /\ [Next]_vars => Sound(e)'
<1> SUFFICES ASSUME Sound(e), [Next]_vars PROVE Sound(e)'
  OBVIOUS
<1>1. ASSUME NEW initiate \in BOOLEAN, Start(initiate) PROVE Sound(e)'
  <2> DEFINE x == [e EXCEPT !.state = "Detect"]
             r == Write(x, <<Marker>>)
             s == IF initiate THEN Then(r, EnterNegotiate(r.e)) ELSE r
  <2>1. Becomes(s)
    BY <1>1 DEF Start
  <2>2. Sound(x)
    BY DEF Sound, Fields
  <2> HIDE DEF x
  <2>3. Sound(r.e)
    BY <2>2, WriteSound
  <2> HIDE DEF r
  <2>4. Sound(s.e)
    BY <2>3, EnterNegotiateSound, ThenLast
  <2> QED BY <2>1, <2>4, BecomesSound
<1>2. CASE Give
  <2>1. Sound(SendPacket(e, given').e)
    BY SendPacketSound
  <2> QED BY <1>2, <2>1, BecomesSound DEF Give
<1>3. CASE Take
  <2>1. Sound(Feed(e, Head(in)).e)
    BY FeedSound
  <2> QED BY <1>3, <2>1, BecomesSound DEF Take
<1>4. CASE ConnectionEnds
  <2>1. Sound(Ret(Bailout(e)).e)
    BY BailoutSound, Returns
  <2> QED BY <1>4, <2>1, BecomesSound DEF ConnectionEnds
<1>5. CASE DetectAgain
  <2>1. Sound(Write(e, <<Marker>>).e)
    BY WriteSound
  <2> QED BY <1>5, <2>1, BecomesSound DEF DetectAgain
<1>6. CASE NegotiateAgain
  <2>1. Sound(Write(e, <<SynOf(e)>>).e)
    BY WriteSound
  <2> QED BY <1>6, <2>1, BecomesSound DEF NegotiateAgain
<1>7. CASE DelayedAck
  <2> DEFINE x == [e EXCEPT !.delayed = FALSE]
             y == [x EXCEPT !.lastAcked = x.recv]
             r == IF e.state # "Normal" THEN Ret(x) ELSE Write(y, <<AckOf(x)>>)
  <2>1. Becomes(r)
    BY <1>7 DEF DelayedAck
  <2>2. Sound(x)
    BY DEF Sound, Fields
  <2> HIDE DEF x
  <2>3. Sound(y)
    BY <2>2 DEF Sound, Fields
  <2> HIDE DEF y
  <2>4. Sound(r.e)
    BY <2>2, <2>3, Returns, WriteSound
  <2> QED BY <2>1, <2>4, BecomesSound
<1>8. CASE ExpectAckTimer
  <2>1. Sound(OnExpectAckTimer(e).e)
    BY ExpectAckTimerSound
  <2> QED BY <1>8, <2>1, BecomesSound DEF ExpectAckTimer
<1>9. CASE UNCHANGED e
  BY <1>9 DEF Sound
<1> QED
  BY <1>1, <1>2, <1>3, <1>4, <1>5, <1>6, <1>7, <1>8, <1>9
     DEF Next, vars, PhoneTakes, PhoneSends, PhoneAcks, PhoneSynAgain, PhoneAgain,
         PhoneResets, PhoneWrites, Damaged

(* A packet is never left unacknowledged without the deadline that repeats *)
(* it, for any phone, any parameters and any loss of frames.               *)
THEOREM AlwaysWatched == Spec => []Watched
<1>1. Sound(e) => Watched
  BY DEF Sound, Watched
<1> QED BY <1>1, InitSound, NextSound, PTL DEF Spec

-----------------------------------------------------------------------------
(***************************************************************************)
(* Numbers, and the sequences that Keep picks.                             *)
(***************************************************************************)
LEMMA LeastOf ==
  ASSUME NEW S \in SUBSET Nat, S # {}
  PROVE  Least(S) \in S /\ \A y \in S : Least(S) <= y
<1> DEFINE R == OpToRel(<, Nat)
<1>1. \A x, y \in Nat : x < y => <<x, y>> \in R  BY Zenon DEF OpToRel
<1>2. IsWellFoundedOn(R, Nat)  BY NatLessThanWellFounded
<1> HIDE DEF R
<1>3. PICK n \in S : \A m \in S : ~(<<m, n>> \in R)  BY <1>2, WFMin, ZenonT(60)
<1>4. ASSUME NEW m \in S PROVE n <= m
  <2>1. n \in Nat /\ m \in Nat  OBVIOUS
  <2>2. ~(m < n)  BY <1>1, <1>3, <2>1, Zenon
  <2> QED  BY <2>1, <2>2
<1> QED  BY <1>4 DEF Least

(* How many indexes of K there are up to i.                                *)
UpTo(K, i) == {h \in K : h <= i}

LEMMA UpToFinite ==
  ASSUME NEW n \in Nat, NEW K \in SUBSET (1 .. n)
  PROVE  /\ IsFiniteSet(K) /\ Cardinality(K) \in 0 .. n
         /\ \A i : IsFiniteSet(UpTo(K, i)) /\ Cardinality(UpTo(K, i)) \in 0 .. Cardinality(K)
<1>1. IsFiniteSet(1 .. n) /\ Cardinality(1 .. n) = n
  BY FS_Interval
<1>2. /\ IsFiniteSet(K) /\ Cardinality(K) \in Nat /\ Cardinality(K) <= n
  BY <1>1, FS_Subset, FS_CardinalityType
<1>3. ASSUME NEW i PROVE IsFiniteSet(UpTo(K, i)) /\ Cardinality(UpTo(K, i)) \in 0 .. Cardinality(K)
  <2>1. UpTo(K, i) \in SUBSET K
    BY DEF UpTo
  <2>2. IsFiniteSet(UpTo(K, i)) /\ Cardinality(UpTo(K, i)) <= Cardinality(K)
    BY <1>2, <2>1, FS_Subset
  <2>3. Cardinality(UpTo(K, i)) \in Nat
    BY <2>2, FS_CardinalityType
  <2> QED BY <1>2, <2>2, <2>3
<1> QED BY <1>2, <1>3

LEMMA NthIn ==
  ASSUME NEW n \in Nat, NEW K \in SUBSET (1 .. n), NEW j \in 1 .. Cardinality(K)
  PROVE  Nth(K, j) \in K /\ Cardinality(UpTo(K, Nth(K, j))) = j
<1> DEFINE c(i) == Cardinality(UpTo(K, i))
           N == {i \in 0 .. n : c(i) >= j}
<1>1. /\ IsFiniteSet(K) /\ Cardinality(K) \in 0 .. n
      /\ \A i : IsFiniteSet(UpTo(K, i)) /\ c(i) \in 0 .. Cardinality(K)
  BY UpToFinite
<1>2. UpTo(K, n) = K /\ UpTo(K, 0) = {}
  <2>1. \A h \in K : h \in Int /\ h <= n /\ ~(h <= 0)
    OBVIOUS
  <2> QED BY <2>1, Zenon DEF UpTo
<1>3. n \in N /\ 0 \notin N
  <2>1. c(0) = 0
    BY <1>2, FS_EmptySet
  <2>2. c(n) = Cardinality(K)
    BY <1>2
  <2> HIDE DEF c
  <2> QED BY <1>1, <2>1, <2>2
<1>4. Least(N) \in N /\ \A y \in N : Least(N) <= y
  <2>1. N \in SUBSET Nat /\ N # {}
    BY <1>3
  <2> HIDE DEF N
  <2> QED BY <2>1, LeastOf
<1> DEFINE i == Least(N)
<1> HIDE DEF N
<1>5. i \in 1 .. n /\ c(i) >= j /\ ~(c(i - 1) >= j)
  <2>1. i \in 1 .. n /\ c(i) >= j
    BY <1>3, <1>4 DEF N
  <2>2. i - 1 \in 0 .. n /\ ~(i <= i - 1)
    BY <2>1
  <2>3. i - 1 \notin N
    BY <1>4, <2>2
  <2> HIDE DEF i, c
  <2> QED BY <2>1, <2>2, <2>3 DEF N
<1> HIDE DEF i
<1>6. UpTo(K, i) = IF i \in K THEN UpTo(K, i - 1) \cup {i} ELSE UpTo(K, i - 1)
  <2>1. \A h \in K : h <= i <=> h <= i - 1 \/ h = i
    BY <1>5
  <2>2. i \in Int /\ i <= i
    BY <1>5
  <2> QED BY <2>1, <2>2, Zenon DEF UpTo
<1>7. i \in K /\ c(i) = c(i - 1) + 1
  <2>1. i \in K
    BY <1>5, <1>6
  <2>2. i \notin UpTo(K, i - 1)
    BY <1>5 DEF UpTo
  <2> QED BY <1>1, <1>6, <2>1, <2>2, FS_AddElement
<1>8. c(i) = j
  <2> HIDE DEF c
  <2>1. c(i) \in Nat /\ c(i - 1) \in Nat
    BY <1>1
  <2> QED BY <1>5, <1>7, <2>1
<1>9. \E h \in K : Cardinality({g \in K : g <= h}) = j
  BY <1>7, <1>8 DEF UpTo
<1>10. Nth(K, j) \in K /\ Cardinality({g \in K : g <= Nth(K, j)}) = j
  BY <1>9 DEF Nth
<1> QED BY <1>10 DEF UpTo

LEMMA NthHits ==
  ASSUME NEW n \in Nat, NEW K \in SUBSET (1 .. n), NEW i \in K
  PROVE  \E j \in 1 .. Cardinality(K) : Nth(K, j) = i
<1> DEFINE c(h) == Cardinality(UpTo(K, h))
<1>1. \A h : IsFiniteSet(UpTo(K, h)) /\ c(h) \in 0 .. Cardinality(K)
  BY UpToFinite
<1>2. c(i) # 0
  <2>1. i \in UpTo(K, i)
    BY DEF UpTo
  <2> QED BY <1>1, <2>1, FS_EmptySet
<1>3. c(i) \in 1 .. Cardinality(K)
  <2> HIDE DEF c
  <2>1. c(i) \in 0 .. Cardinality(K) /\ Cardinality(K) \in Nat
    BY <1>1, UpToFinite
  <2> QED BY <1>2, <2>1
<1> DEFINE h == Nth(K, c(i))
<1>4. h \in K /\ c(h) = c(i)
  BY <1>3, NthIn
<1>5. ASSUME NEW x \in K, NEW y \in K, x < y PROVE c(x) # c(y)
  <2>1. /\ \A k \in K : k <= x => k <= y
        /\ y <= y /\ ~(y <= x)
    BY <1>5
  <2>2. UpTo(K, x) \in SUBSET UpTo(K, y) /\ y \in UpTo(K, y) /\ y \notin UpTo(K, x)
    BY <2>1, Zenon DEF UpTo
  <2>3. UpTo(K, x) # UpTo(K, y)
    BY <2>2
  <2> QED BY <1>1, <2>2, <2>3, FS_Subset
<1> HIDE DEF h, c
<1>6. h = i
  <2>1. h \in Nat /\ i \in Nat
    BY <1>4
  <2> QED BY <1>4, <1>5, <2>1
<1> QED BY <1>3, <1>6 DEF h

LEMMA Keeps ==
  ASSUME NEW X, NEW s \in Seq(X), NEW K \in SUBSET (DOMAIN s)
  PROVE  /\ Keep(s, K) \in Seq(X) /\ Len(Keep(s, K)) = Cardinality(K)
         /\ Range(Keep(s, K)) = {s[i] : i \in K}
         /\ \A j \in 1 .. Cardinality(K) : Nth(K, j) \in K /\ Keep(s, K)[j] = s[Nth(K, j)]
<1> DEFINE n == Len(s)
           c == Cardinality(K)
<1>1. n \in Nat /\ DOMAIN s = 1 .. n /\ \A i \in 1 .. n : s[i] \in X
  BY LenProperties, ElementOfSeq
<1> HIDE DEF n
<1>2. K \in SUBSET (1 .. n)
  BY <1>1
<1>3. c \in Nat
  BY <1>1, <1>2, UpToFinite
<1>4. \A j \in 1 .. c : Nth(K, j) \in K
  BY <1>1, <1>2, NthIn
<1>5. \A i \in K : \E j \in 1 .. c : Nth(K, j) = i
  BY <1>1, <1>2, NthHits
<1> HIDE DEF c
<1>6. Keep(s, K) = [j \in 1 .. c |-> s[Nth(K, j)]]
  BY DEF Keep, c
<1>7. \A j \in 1 .. c : s[Nth(K, j)] \in X
  BY <1>1, <1>2, <1>4
<1>8. Keep(s, K) \in Seq(X) /\ Len(Keep(s, K)) = c
  BY <1>3, <1>6, <1>7, IsASeq
<1>9. Range(Keep(s, K)) = {s[i] : i \in K}
  BY <1>4, <1>5, <1>6 DEF Range
<1> QED BY <1>4, <1>6, <1>8, <1>9 DEF c

-----------------------------------------------------------------------------
(***************************************************************************)
(* Sequences and what is in them.                                          *)
(***************************************************************************)
LEMMA SeqParts ==
  ASSUME NEW X, NEW s \in Seq(X)
  PROVE  /\ Len(s) \in Nat /\ DOMAIN s = 1 .. Len(s) /\ s \in [1 .. Len(s) -> X]
         /\ \A i \in 1 .. Len(s) : s[i] \in X
         /\ Range(s) \in SUBSET X
<1>1. Len(s) \in Nat /\ DOMAIN s = 1 .. Len(s) /\ s \in [1 .. Len(s) -> X]
  BY LenProperties
<1>2. \A i \in 1 .. Len(s) : s[i] \in X
  BY <1>1
<1> QED BY <1>1, <1>2 DEF Range

LEMMA FunSeq ==
  ASSUME NEW X, NEW n \in Nat, NEW f \in [1 .. n -> X]
  PROVE  f \in Seq(X) /\ Len(f) = n
<1>1. \A i \in 1 .. n : f[i] \in X
  OBVIOUS
<1>2. [i \in 1 .. n |-> f[i]] \in Seq(X)
  BY <1>1, IsASeq
<1>3. f = [i \in 1 .. n |-> f[i]]
  OBVIOUS
<1>4. f \in Seq(X)
  BY <1>2, <1>3
<1>5. Len(f) \in Nat /\ DOMAIN f = 1 .. Len(f)
  BY <1>4, LenProperties
<1> QED BY <1>4, <1>5

LEMMA RangeConcat ==
  ASSUME NEW X, NEW s \in Seq(X), NEW t \in Seq(X)
  PROVE  Range(s \o t) = Range(s) \cup Range(t)
<1> DEFINE u == s \o t
<1>1. /\ u \in Seq(X) /\ Len(u) = Len(s) + Len(t)
      /\ \A i \in 1 .. Len(s) + Len(t) : u[i] = IF i <= Len(s) THEN s[i] ELSE t[i - Len(s)]
  BY ConcatProperties
<1>2. /\ Len(s) \in Nat /\ DOMAIN s = 1 .. Len(s)
      /\ Len(t) \in Nat /\ DOMAIN t = 1 .. Len(t)
  BY SeqParts
<1>3. DOMAIN u = 1 .. Len(s) + Len(t)
  BY <1>1, SeqParts
<1> HIDE DEF u
<1>4. ASSUME NEW i \in DOMAIN u PROVE u[i] \in Range(s) \cup Range(t)
  <2>1. CASE i <= Len(s)
    <3>1. i \in DOMAIN s /\ u[i] = s[i]
      BY <1>1, <1>2, <1>3, <2>1
    <3> QED BY <3>1 DEF Range
  <2>2. CASE ~(i <= Len(s))
    <3>1. i - Len(s) \in DOMAIN t /\ u[i] = t[i - Len(s)]
      BY <1>1, <1>2, <1>3, <2>2
    <3> QED BY <3>1 DEF Range
  <2> QED BY <2>1, <2>2
<1>5. ASSUME NEW i \in DOMAIN s PROVE s[i] \in Range(u)
  <2>1. i \in DOMAIN u /\ u[i] = s[i]
    BY <1>1, <1>2, <1>3
  <2> QED BY <2>1 DEF Range
<1>6. ASSUME NEW i \in DOMAIN t PROVE t[i] \in Range(u)
  <2>1. i + Len(s) \in DOMAIN u /\ u[i + Len(s)] = t[i]
    BY <1>1, <1>2, <1>3
  <2> QED BY <2>1 DEF Range
<1>7. Range(u) = Range(s) \cup Range(t)
  BY <1>4, <1>5, <1>6 DEF Range
<1> QED BY <1>7 DEF u

LEMMA RangeAppend ==
  ASSUME NEW X, NEW s \in Seq(X), NEW x \in X
  PROVE  Range(Append(s, x)) = Range(s) \cup {x}
<1> DEFINE u == Append(s, x)
<1>1. /\ u \in Seq(X) /\ Len(u) = Len(s) + 1
      /\ \A i \in 1 .. Len(s) : u[i] = s[i]
      /\ u[Len(s) + 1] = x
  BY AppendProperties
<1>2. Len(s) \in Nat /\ DOMAIN s = 1 .. Len(s) /\ DOMAIN u = 1 .. Len(u)
  BY <1>1, SeqParts
<1> HIDE DEF u
<1>3. DOMAIN u = DOMAIN s \cup {Len(s) + 1}
  BY <1>1, <1>2
<1>4. Range(u) = Range(s) \cup {x}
  BY <1>1, <1>2, <1>3 DEF Range
<1> QED BY <1>4 DEF u

LEMMA RangeTail ==
  ASSUME NEW X, NEW s \in Seq(X), s # <<>>
  PROVE  /\ Head(s) \in X /\ Tail(s) \in Seq(X) /\ Head(s) = s[1]
         /\ Len(s) \in Nat /\ Len(s) > 0 /\ Len(Tail(s)) = Len(s) - 1
         /\ \A i \in 1 .. Len(s) - 1 : Tail(s)[i] = s[i + 1]
         /\ Range(s) = {Head(s)} \cup Range(Tail(s))
<1> DEFINE t == Tail(s)
<1>1. /\ Head(s) \in X /\ t \in Seq(X) /\ Len(t) = Len(s) - 1
      /\ \A i \in 1 .. Len(t) : t[i] = s[i + 1]
  BY HeadTailProperties
<1>2. Head(s) = s[1]
  OBVIOUS
<1>3. Len(s) \in Nat /\ DOMAIN s = 1 .. Len(s) /\ DOMAIN t = 1 .. Len(t)
  BY <1>1, SeqParts
<1>4. Len(s) > 0
  BY <1>3, EmptySeq
<1> HIDE DEF t
<1>5. ASSUME NEW i \in DOMAIN s PROVE s[i] = Head(s) \/ s[i] \in Range(t)
  <2>1. CASE i = 1
    BY <1>2, <2>1
  <2>2. CASE i # 1
    <3>1. i - 1 \in DOMAIN t /\ t[i - 1] = s[i]
      BY <1>1, <1>3, <2>2
    <3> QED BY <3>1 DEF Range
  <2> QED BY <2>1, <2>2
<1>6. ASSUME NEW i \in DOMAIN t PROVE t[i] \in Range(s)
  <2>1. i + 1 \in DOMAIN s /\ t[i] = s[i + 1]
    BY <1>1, <1>3
  <2> QED BY <2>1 DEF Range
<1>7. Head(s) \in Range(s)
  <2>1. 1 \in DOMAIN s
    BY <1>3, <1>4
  <2> QED BY <1>2, <2>1 DEF Range
<1>8. Range(s) = {Head(s)} \cup Range(t)
  BY <1>5, <1>6, <1>7 DEF Range
<1> QED BY <1>1, <1>2, <1>3, <1>4, <1>8 DEF t

-----------------------------------------------------------------------------
(***************************************************************************)
(* Sorting.  Of n things with keys K, those with a smaller key, or with    *)
(* the same and not behind i, come before i: there are as many as the      *)
(* place of i says, and every place is taken once.                         *)
(***************************************************************************)
Before(K, h, i) == K[h] < K[i] \/ (K[h] = K[i] /\ h <= i)
AheadOf(K, i) == {h \in DOMAIN K : Before(K, h, i)}
Placed(K, j) == CHOOSE i \in DOMAIN K : Cardinality(AheadOf(K, i)) = j

LEMMA Ranked ==
  ASSUME NEW n \in Nat, NEW K \in [1 .. n -> Nat]
  PROVE  /\ \A j \in 1 .. n : Placed(K, j) \in 1 .. n
         /\ \A i \in 1 .. n : \E j \in 1 .. n : Placed(K, j) = i
         /\ \A j, k \in 1 .. n : j <= k => K[Placed(K, j)] <= K[Placed(K, k)]
<1> DEFINE c(i) == Cardinality(AheadOf(K, i))
<1>1. DOMAIN K = 1 .. n /\ \A i \in 1 .. n : K[i] \in Nat /\ i \in Nat
  OBVIOUS
<1>2. ASSUME NEW i \in 1 .. n
      PROVE  AheadOf(K, i) \in SUBSET (1 .. n) /\ i \in AheadOf(K, i)
  BY <1>1 DEF AheadOf, Before
<1>3. ASSUME NEW i \in 1 .. n PROVE IsFiniteSet(AheadOf(K, i)) /\ c(i) \in 1 .. n
  <2>1. IsFiniteSet(AheadOf(K, i)) /\ c(i) \in 0 .. n
    BY <1>2, UpToFinite
  <2>2. c(i) # 0
    BY <1>2, <2>1, FS_EmptySet
  <2> HIDE DEF c
  <2> QED BY <2>1, <2>2
<1>4. ASSUME NEW h \in 1 .. n, NEW i \in 1 .. n, h # i, Before(K, h, i) PROVE c(h) < c(i)
  <2>1. AheadOf(K, h) \in SUBSET AheadOf(K, i)
    BY <1>1, <1>4 DEF AheadOf, Before
  <2>2. i \notin AheadOf(K, h)
    BY <1>1, <1>4 DEF AheadOf, Before
  <2>3. c(h) <= c(i) /\ c(h) # c(i)
    BY <1>2, <1>3, <2>1, <2>2, FS_Subset
  <2> HIDE DEF c
  <2> QED BY <1>3, <2>3
<1>5. ASSUME NEW h \in 1 .. n, NEW i \in 1 .. n PROVE Before(K, h, i) \/ Before(K, i, h)
  <2>1. K[h] \in Int /\ K[i] \in Int /\ h \in Int /\ i \in Int
    BY <1>1
  <2> QED BY <2>1 DEF Before
<1>6. ASSUME NEW h \in 1 .. n, NEW i \in 1 .. n, c(h) = c(i) PROVE h = i
  <2> HIDE DEF c
  <2> SUFFICES ASSUME h # i PROVE FALSE
    OBVIOUS
  <2>1. c(h) < c(i) \/ c(i) < c(h)
    BY <1>4, <1>5
  <2>2. c(h) \in Int
    BY <1>3
  <2> QED BY <1>6, <2>1, <2>2
<1> DEFINE F == [i \in 1 .. n |-> c(i)]
<1> HIDE DEF c
<1>7. F \in Injection(1 .. n, 1 .. n)
  BY <1>3, <1>6 DEF Injection, IsInjective
<1>8. IsFiniteSet(1 .. n)
  BY FS_Interval
<1>9. F \in Surjection(1 .. n, 1 .. n)
  <2> HIDE DEF F
  <2> QED BY <1>7, <1>8, FS_Injection
<1>10. ASSUME NEW j \in 1 .. n PROVE Placed(K, j) \in 1 .. n /\ c(Placed(K, j)) = j
  <2>1. \E i \in 1 .. n : F[i] = j
    <3> HIDE DEF F
    <3> QED BY <1>9 DEF Surjection
  <2>2. \E i \in DOMAIN K : Cardinality(AheadOf(K, i)) = j
    BY <1>1, <2>1 DEF c
  <2> QED BY <1>1, <2>2 DEF Placed, c
<1>11. ASSUME NEW i \in 1 .. n PROVE \E j \in 1 .. n : Placed(K, j) = i
  <2>1. PICK j \in 1 .. n : j = c(i)
    BY <1>3
  <2> QED BY <1>6, <1>10, <2>1
<1>12. ASSUME NEW j \in 1 .. n, NEW k \in 1 .. n, j <= k
       PROVE  K[Placed(K, j)] <= K[Placed(K, k)]
  <2>1. PICK h \in 1 .. n, i \in 1 .. n : h = Placed(K, j) /\ i = Placed(K, k)
    BY <1>10
  <2>2. c(h) = j /\ c(i) = k
    BY <1>10, <2>1
  <2>3. CASE K[i] < K[h]
    <3>1. i # h /\ Before(K, i, h)
      <4>1. K[h] \in Int
        BY <1>1
      <4> QED BY <2>3, <4>1 DEF Before
    <3>2. k < j
      BY <1>4, <2>2, <3>1
    <3> QED BY <1>12, <3>2
  <2> QED BY <1>1, <2>1, <2>3
<1> QED BY <1>10, <1>11, <1>12

-----------------------------------------------------------------------------
(***************************************************************************)
(* The values of the engine, its frames and the phone.                     *)
(***************************************************************************)
Bits == {"MARKER", "SYN", "ACK", "EAK", "RST"}
Packets == [psn : Psn, m : 1 .. MaxOut, n : Nat]
Parcels == [psn : Psn, m : 1 .. MaxIn]
Frames(n) == [bits : SUBSET Bits, seq : Psn, ack : Psn \cup {None}, m : 0 .. n,
              missing : SUBSET Psn]
Engines ==
  [state : {"Idle", "Detect", "Negotiate", "Normal", "Dead"}, lsp : {OwnLsp, Lsp},
   sent : Psn, acked : Psn \cup {None}, unack : Seq(Packets), due : Seq(Psn),
   queue : Seq(1 .. MaxOut), recv : Psn, lastAcked : Psn \cup {None}, held : Seq(Parcels),
   cum : Nat, marker : BOOLEAN, delayed : BOOLEAN, resend : BOOLEAN]
Aligned(x) == Range(x.due) = {x.unack[i].psn : i \in DOMAIN x.unack}
EngineOK(x) == x \in Engines /\ Aligned(x)
RetOK(r) == EngineOK(r.e) /\ r.out \in Seq(Frames(MaxOut)) /\ r.up \in Seq(Parcels)

TInv ==
  /\ EngineOK(e) /\ in \in Seq(Frames(MaxIn)) /\ out \in Seq(Frames(MaxOut))
  /\ p \in [open : BOOLEAN, recv : Psn \cup {None}, owes : BOOLEAN,
            sent : 0 .. MaxIn, acked : 0 .. MaxIn]
  /\ p.acked <= p.sent /\ heard \in Seq(1 .. MaxOut)
  /\ given \in 0 .. MaxOut /\ delivered \in Seq(1 .. MaxIn) /\ faults \in 0 .. MaxFaults

LEMMA Next8Psn ==
  ASSUME NEW a \in Int, NEW k \in Int PROVE Next8(a, k) \in Psn
BY DEF Next8, Psn

LEMMA FirstIsPsn ==
  FirstPsn \in Psn /\ OwnPsn \in Psn /\ \A a \in Psn : a \in Nat /\ a \in Int
BY Iap2LinkAssumption DEF OwnPsn, Psn

LEMMA LspsOK ==
  ASSUME NEW x \in Engines
  PROVE  /\ x.lsp.max_outgoing \in 1 .. 255 /\ x.lsp.max_retransmissions \in 0 .. 255
         /\ x.lsp.max_ack \in 0 .. 255
<1>1. x.lsp = OwnLsp \/ x.lsp = Lsp
  BY DEF Engines
<1>2. /\ Lsp.max_outgoing \in 1 .. 255 /\ Lsp.max_retransmissions \in 0 .. 255
      /\ Lsp.max_ack \in 0 .. 255
  BY Iap2LinkAssumption DEF Lsps
<1>3. OwnLsp.max_outgoing = 4 /\ OwnLsp.max_retransmissions = 4 /\ OwnLsp.max_ack = 3
  BY DEF OwnLsp
<1> QED BY <1>1, <1>2, <1>3

(* A frame the engine writes.                                              *)
LEMMA FramesOK ==
  ASSUME NEW x \in Engines
  PROVE  /\ Marker \in Frames(MaxOut) /\ SynOf(x) \in Frames(MaxOut) /\ AckOf(x) \in Frames(MaxOut)
         /\ \A u \in Packets : DataOf(x, u) \in Frames(MaxOut)
         /\ \A K \in SUBSET Psn :
              Frame({"EAK"}, x.sent, x.recv, NoMsg, K) \in Frames(MaxOut)
<1>1. MaxOut \in Nat /\ 0 \in Psn
  BY Iap2LinkAssumption DEF Psn
<1>2. x.sent \in Psn /\ x.recv \in Psn
  BY DEF Engines
<1> QED
  BY <1>1, <1>2 DEF Marker, SynOf, AckOf, DataOf, Frame, Frames, Packets, Bits, NoMsg

LEMMA One ==
  ASSUME NEW X, NEW x \in X PROVE <<x>> \in Seq(X) /\ Len(<<x>>) = 1 /\ <<x>>[1] = x
OBVIOUS

LEMMA WriteOK ==
  ASSUME NEW x, EngineOK(x), NEW fs \in Seq(Frames(MaxOut))
  PROVE  RetOK(Write(x, fs))
<1>1. EngineOK([x EXCEPT !.cum = 0])
  BY DEF EngineOK, Engines, Aligned
<1>2. <<>> \in Seq(Parcels)
  BY EmptySeq
<1>3. EngineOK(IF fs = <<>> THEN x ELSE [x EXCEPT !.cum = 0])
  BY <1>1
<1> QED BY <1>2, <1>3, Zenon DEF RetOK, Write

LEMMA RetIsOK ==
  ASSUME NEW x, EngineOK(x) PROVE RetOK(Ret(x))
<1>1. <<>> \in Seq(Parcels) /\ <<>> \in Seq(Frames(MaxOut))
  BY EmptySeq
<1> QED BY <1>1, Zenon DEF RetOK, Ret

LEMMA ThenOK ==
  ASSUME NEW r, NEW s, RetOK(r), RetOK(s) PROVE RetOK(Then(r, s))
<1>1. r.out \o s.out \in Seq(Frames(MaxOut)) /\ r.up \o s.up \in Seq(Parcels)
  BY ConcatProperties DEF RetOK
<1> QED BY <1>1 DEF RetOK, Then

LEMMA BailoutOK ==
  ASSUME NEW x, EngineOK(x) PROVE EngineOK(Bailout(x))
BY DEF EngineOK, Engines, Aligned, Bailout

LEMMA SameAligned ==
  ASSUME NEW x, EngineOK(x), NEW y \in Engines, y.due = x.due, y.unack = x.unack
  PROVE  EngineOK(y)
BY DEF EngineOK, Aligned

LEMMA TransmitOK ==
  ASSUME NEW x, EngineOK(x), NEW ms \in Seq(1 .. MaxOut)
  PROVE  RetOK(Transmit(x, ms))
<1> DEFINE new == [i \in 1 .. Len(ms) |-> [psn |-> Next8(x.sent, i), m |-> ms[i], n |-> 0]]
           ns == [i \in 1 .. Len(ms) |-> new[i].psn]
           y == [x EXCEPT !.sent = Next8(@, Len(ms)), !.delayed = FALSE, !.lastAcked = x.recv]
           a == [y EXCEPT !.unack = @ \o new, !.resend = TRUE, !.due = @ \o ns]
           b == [y EXCEPT !.acked = y.sent]
           z == IF x.lsp.max_retransmissions > 0 THEN a ELSE b
           fs == [i \in 1 .. Len(ms) |-> DataOf(x, new[i])]
<1>1. /\ Len(ms) \in Nat /\ \A i \in 1 .. Len(ms) : ms[i] \in 1 .. MaxOut
  BY SeqParts
<1>2. x \in Engines /\ x.sent \in Int /\ x.recv \in Psn
  <2>1. x \in Engines
    BY DEF EngineOK
  <2>2. x.sent \in Psn /\ x.recv \in Psn
    BY <2>1 DEF Engines
  <2> QED BY <2>1, <2>2, FirstIsPsn, Zenon
<1>3. new \in [1 .. Len(ms) -> Packets]
  BY <1>1, <1>2, Next8Psn DEF Packets
<1>4. new \in Seq(Packets) /\ Len(new) = Len(ms)
  BY <1>1, <1>3, FunSeq
<1>5. ns \in [1 .. Len(ms) -> Psn]
  <2> HIDE DEF new
  <2> QED BY <1>3 DEF Packets
<1>6. ns \in Seq(Psn) /\ Len(ns) = Len(ms)
  BY <1>1, <1>5, FunSeq
<1>7. Range(ns) = {new[i].psn : i \in DOMAIN new}
  BY <1>3 DEF Range
<1>8. fs \in Seq(Frames(MaxOut))
  <2> HIDE DEF new
  <2>1. fs \in [1 .. Len(ms) -> Frames(MaxOut)]
    BY <1>2, <1>3, FramesOK
  <2> HIDE DEF fs
  <2> QED BY <1>1, <2>1, FunSeq
<1>9. Next8(x.sent, Len(ms)) \in Psn
  BY <1>1, <1>2, Next8Psn
<1>10. EngineOK(y)
  <2>1. y \in Engines /\ y.due = x.due /\ y.unack = x.unack
    BY <1>2, <1>9 DEF EngineOK, Engines
  <2> QED BY <2>1, SameAligned
<1>11. EngineOK(b)
  <2> HIDE DEF y
  <2>1. b \in Engines /\ b.due = y.due /\ b.unack = y.unack
    BY <1>10 DEF EngineOK, Engines
  <2> QED BY <1>10, <2>1, SameAligned
<1>12. EngineOK(a)
  <2> HIDE DEF y, new, ns
  <2> DEFINE u == y.unack \o new
             d == y.due \o ns
  <2>1. y.unack \in Seq(Packets) /\ y.due \in Seq(Psn)
    BY <1>10 DEF EngineOK, Engines
  <2>2. u \in Seq(Packets) /\ d \in Seq(Psn)
    BY <1>4, <1>6, <2>1, ConcatProperties
  <2>3. Range(u) = Range(y.unack) \cup Range(new) /\ Range(d) = Range(y.due) \cup Range(ns)
    BY <1>4, <1>6, <2>1, RangeConcat
  <2>4. a.unack = u /\ a.due = d
    BY <1>10 DEF EngineOK, Engines
  <2>5. a \in Engines
    <3> HIDE DEF u, d
    <3> QED BY <1>10, <2>2 DEF EngineOK, Engines, u, d
  <2> HIDE DEF a, u, d
  <2>6. {u[i].psn : i \in DOMAIN u} = {q.psn : q \in Range(u)}
    BY DEF Range
  <2>7. /\ {new[i].psn : i \in DOMAIN new} = {q.psn : q \in Range(new)}
        /\ {y.unack[i].psn : i \in DOMAIN y.unack} = {q.psn : q \in Range(y.unack)}
    BY DEF Range
  <2>8. Range(y.due) = {y.unack[i].psn : i \in DOMAIN y.unack}
    BY <1>10 DEF EngineOK, Aligned
  <2>9. {q.psn : q \in Range(u)} = {q.psn : q \in Range(y.unack)} \cup {q.psn : q \in Range(new)}
    BY <2>3
  <2>10. Range(d) = {u[i].psn : i \in DOMAIN u}
    BY <1>7, <2>3, <2>6, <2>7, <2>8, <2>9
  <2>11. Aligned(a)
    BY <2>4, <2>10 DEF Aligned
  <2> QED BY <2>5, <2>11 DEF EngineOK
<1> HIDE DEF a, b, fs
<1>13. EngineOK(IF ms = <<>> THEN x ELSE z)
  BY <1>11, <1>12
<1>14. Transmit(x, ms) = Write(IF ms = <<>> THEN x ELSE z, fs)
  BY DEF Transmit, a, b, fs
<1> HIDE DEF z
<1> QED BY <1>8, <1>13, <1>14, WriteOK

LEMMA SendPacketOK ==
  ASSUME NEW x, EngineOK(x), NEW m \in 1 .. MaxOut
  PROVE  RetOK(SendPacket(x, m))
<1>1. RetOK(Transmit(x, <<m>>))
  BY One, TransmitOK
<1>2. EngineOK([x EXCEPT !.queue = Append(@, m)])
  <2>1. Append(x.queue, m) \in Seq(1 .. MaxOut)
    BY AppendProperties DEF EngineOK, Engines
  <2> QED BY <2>1 DEF EngineOK, Engines, Aligned
<1> QED BY <1>1, <1>2, RetIsOK DEF SendPacket
LEMMA HandleSynOK ==
  ASSUME NEW x, EngineOK(x), NEW f \in Frames(MaxIn)
  PROVE  RetOK(HandleSyn(x, f))
<1> DEFINE y == [x EXCEPT !.lsp = Lsp, !.recv = f.seq, !.lastAcked = f.seq]
<1>1. f.seq \in Psn
  BY DEF Frames
<1>2. EngineOK(y)
  BY <1>1 DEF EngineOK, Engines, Aligned
<1>3. AckOf(y) \in Frames(MaxOut)
  BY <1>2, FramesOK DEF EngineOK
<1>4. HandleSyn(x, f) = IF x.state # "Negotiate" THEN Ret(x) ELSE Write(y, <<AckOf(y)>>)
  BY DEF HandleSyn
<1> HIDE DEF y
<1>5. RetOK(Write(y, <<AckOf(y)>>))
  BY <1>2, <1>3, One, WriteOK
<1> QED BY <1>4, <1>5, RetIsOK

LEMMA SuffixOK ==
  ASSUME NEW X, NEW s \in Seq(X), NEW a \in 1 .. Len(s) + 1
  PROVE  /\ SubSeq(s, a, Len(s)) \in Seq(X) /\ Len(SubSeq(s, a, Len(s))) = Len(s) - a + 1
         /\ \A i \in 1 .. Len(s) - a + 1 : SubSeq(s, a, Len(s))[i] = s[a + i - 1]
<1>1. Len(s) \in Nat /\ \A i \in 1 .. Len(s) : s[i] \in X
  BY SeqParts
<1>2. a \in Int /\ Len(s) \in Int /\ \A i \in a .. Len(s) : s[i] \in X
  BY <1>1
<1>3. /\ SubSeq(s, a, Len(s)) \in Seq(X)
      /\ Len(SubSeq(s, a, Len(s))) = IF a <= Len(s) THEN Len(s) - a + 1 ELSE 0
      /\ \A i \in 1 .. Len(s) - a + 1 : SubSeq(s, a, Len(s))[i] = s[a + i - 1]
  BY <1>2, SubSeqProperties
<1> QED BY <1>1, <1>3

LEMMA PrefixOK ==
  ASSUME NEW X, NEW s \in Seq(X), NEW n \in 0 .. Len(s)
  PROVE  /\ SubSeq(s, 1, n) \in Seq(X) /\ Len(SubSeq(s, 1, n)) = n
         /\ \A i \in 1 .. n : SubSeq(s, 1, n)[i] = s[i]
<1>1. Len(s) \in Nat /\ \A i \in 1 .. Len(s) : s[i] \in X
  BY SeqParts
<1>2. n \in Int /\ \A i \in 1 .. n : s[i] \in X
  BY <1>1
<1>3. /\ SubSeq(s, 1, n) \in Seq(X)
      /\ Len(SubSeq(s, 1, n)) = IF 1 <= n THEN n - 1 + 1 ELSE 0
      /\ \A i \in 1 .. n - 1 + 1 : SubSeq(s, 1, n)[i] = s[1 + i - 1]
  BY <1>2, SubSeqProperties
<1> QED BY <1>1, <1>3

(* The packets that are left after an ack are the last ones; their         *)
(* timeouts stay in their order.                                           *)
KeptBy(x, num) == {i \in DOMAIN x.unack : Distance(x.unack[i].psn, num) \in 1 .. x.lsp.max_ack + 10}
RestBy(x, num) == IF KeptBy(x, num) = {} THEN <<>>
                  ELSE SubSeq(x.unack, Least(KeptBy(x, num)), Len(x.unack))

LEMMA RestOK ==
  ASSUME NEW x \in Engines, NEW num
  PROVE  RestBy(x, num) \in Seq(Packets) /\ Range(RestBy(x, num)) \in SUBSET Range(x.unack)
<1> DEFINE kept == KeptBy(x, num)
           u == x.unack
           rest == RestBy(x, num)
<1>1. u \in Seq(Packets)
  BY DEF Engines
<1>2. Len(u) \in Nat /\ DOMAIN u = 1 .. Len(u)
  BY <1>1, SeqParts
<1>3. CASE kept = {}
  <2>1. rest = <<>>
    BY <1>3 DEF RestBy
  <2> QED BY <2>1, EmptySeq DEF Range
<1>4. CASE kept # {}
  <2>1. kept \in SUBSET (1 .. Len(u)) /\ kept \in SUBSET Nat
    BY <1>2 DEF KeptBy
  <2> HIDE DEF kept, u
  <2>2. Least(kept) \in kept
    BY <1>4, <2>1, LeastOf
  <2>3. PICK c : c = Least(kept)
    OBVIOUS
  <2>4. c \in 1 .. Len(u) /\ c \in 1 .. Len(u) + 1
    <3>1. c \in 1 .. Len(u)
      BY <2>1, <2>2, <2>3, Zenon
    <3> QED BY <1>2, <3>1
  <2>5. rest = SubSeq(u, c, Len(u))
    BY <1>4, <2>3 DEF RestBy, kept, u
  <2> HIDE DEF rest
  <2>6. /\ rest \in Seq(Packets) /\ Len(rest) = Len(u) - c + 1
        /\ \A i \in 1 .. Len(u) - c + 1 : rest[i] = u[c + i - 1]
    BY <1>1, <2>4, <2>5, SuffixOK
  <2>7. DOMAIN rest = 1 .. Len(u) - c + 1
    BY <2>6, SeqParts
  <2>8. ASSUME NEW i \in DOMAIN rest PROVE \E j \in DOMAIN u : rest[i] = u[j]
    <3>1. i \in 1 .. Len(u) - c + 1 /\ rest[i] = u[c + i - 1]
      BY <2>6, <2>7
    <3>2. c + i - 1 \in DOMAIN u
      BY <1>2, <2>4, <3>1
    <3> QED BY <3>1, <3>2
  <2> QED BY <2>6, <2>8 DEF Range, rest, u
<1> QED BY <1>3, <1>4

LEMMA AcknowledgeOK ==
  ASSUME NEW x, EngineOK(x), NEW num \in Psn \cup {None}
  PROVE  /\ EngineOK(Acknowledge(x, num))
         /\ Acknowledge(x, num).acked = num /\ Acknowledge(x, num).unack = RestBy(x, num)
         /\ \A h \in Fields \ {"state", "acked", "unack", "due", "resend"} :
              Acknowledge(x, num)[h] = x[h]
         /\ Acknowledge(x, num).state = IF x.state = "Negotiate" THEN "Normal" ELSE x.state
<1> DEFINE rest == RestBy(x, num)
           Unacked == {j \in DOMAIN x.due : \E i \in DOMAIN rest : rest[i].psn = x.due[j]}
           due == Keep(x.due, Unacked)
           kept == KeptBy(x, num)
           y == [x EXCEPT !.state = IF @ = "Negotiate" THEN "Normal" ELSE @, !.acked = num,
                          !.unack = rest, !.due = due, !.resend = kept # {}]
<1>1. x \in Engines
  BY DEF EngineOK
<1>2. rest \in Seq(Packets) /\ Range(rest) \in SUBSET Range(x.unack)
  BY <1>1, RestOK
<1>3. x.due \in Seq(Psn) /\ Unacked \in SUBSET (DOMAIN x.due)
  BY <1>1 DEF Engines
<1>4. due \in Seq(Psn) /\ Range(due) = {x.due[i] : i \in Unacked}
  <2> HIDE DEF Unacked
  <2> QED BY <1>3, Keeps
<1>5. Acknowledge(x, num) = y
  BY DEF Acknowledge, RestBy, KeptBy
<1>6. {x.due[i] : i \in Unacked} = {rest[i].psn : i \in DOMAIN rest}
  <2> HIDE DEF rest
  <2>1. \A i \in DOMAIN rest : \E j \in DOMAIN x.unack : rest[i] = x.unack[j]
    BY <1>2 DEF Range
  <2>2. Range(x.due) = {x.unack[i].psn : i \in DOMAIN x.unack}
    BY DEF EngineOK, Aligned
  <2>3. ASSUME NEW i \in DOMAIN rest PROVE \E j \in DOMAIN x.due : rest[i].psn = x.due[j]
    <3>1. PICK h \in DOMAIN x.unack : rest[i] = x.unack[h]
      BY <2>1
    <3>2. rest[i].psn \in Range(x.due)
      BY <2>2, <3>1
    <3> QED BY <3>2 DEF Range
  <2> QED BY <2>3
<1> HIDE DEF rest, Unacked, due
<1>7. (kept # {}) \in BOOLEAN
  OBVIOUS
<1> HIDE DEF kept
<1>8. y \in Engines
  BY <1>1, <1>2, <1>4, <1>7 DEF Engines
<1>9. y.unack = rest /\ y.due = due
  BY <1>1 DEF Engines
<1>10. Aligned(y)
  <2> HIDE DEF y
  <2> QED BY <1>4, <1>6, <1>9 DEF Aligned
<1>11. /\ y.acked = num /\ y.state = IF x.state = "Negotiate" THEN "Normal" ELSE x.state
       /\ \A h \in Fields \ {"state", "acked", "unack", "due", "resend"} : y[h] = x[h]
  BY <1>1 DEF Engines, Fields
<1> HIDE DEF y
<1> QED BY <1>5, <1>8, <1>9, <1>10, <1>11 DEF EngineOK, rest

LEMMA DistanceIn ==
  ASSUME NEW a \in Int, NEW b \in Int PROVE Distance(a, b) \in 0 .. 255
BY DEF Distance

LEMMA RoomIn ==
  ASSUME NEW x \in Engines PROVE Room(x) \in 0 .. Len(x.queue)
<1> DEFINE l == Len(x.queue)
           d == Distance(x.sent, x.acked)
           w == x.lsp.max_outgoing
<1>1. l \in Nat
  BY LenProperties DEF Engines
<1>2. x.sent \in Psn /\ x.acked \in Psn \cup {None}
  BY DEF Engines
<1>3. x.sent \in Int /\ x.acked \in Int
  BY <1>2, FirstIsPsn DEF None
<1>4. d \in 0 .. 255
  BY <1>3, DistanceIn
<1>5. w \in 1 .. 255
  BY LspsOK
<1>6. Room(x) = IF d >= w THEN 0
                ELSE IF x.lsp.max_retransmissions = 0 THEN l ELSE Least({l, w - d})
  BY DEF Room
<1> HIDE DEF l, d, w
<1>7. CASE ~(d >= w)
  <2>1. w - d \in Nat
    BY <1>4, <1>5, <1>7
  <2>2. {l, w - d} \in SUBSET Nat /\ {l, w - d} # {}
    BY <1>1, <2>1
  <2>3. Least({l, w - d}) \in {l, w - d} /\ Least({l, w - d}) <= l
    BY <2>2, LeastOf
  <2> QED BY <1>1, <1>6, <1>7, <2>1, <2>3 DEF l
<1> QED BY <1>1, <1>6, <1>7 DEF l
LEMMA HandleAckOK ==
  ASSUME NEW x, EngineOK(x), NEW num \in Psn \cup {None}
  PROVE  RetOK(HandleAck(x, num))
<1> DEFINE y == Acknowledge(x, num)
           n == Room(y)
           q == SubSeq(y.queue, n + 1, Len(y.queue))
           z == [y EXCEPT !.queue = SubSeq(@, n + 1, Len(@))]
           ms == SubSeq(y.queue, 1, n)
<1>1. EngineOK(y)
  BY AcknowledgeOK
<1> HIDE DEF y
<1>2. y \in Engines /\ y.queue \in Seq(1 .. MaxOut)
  BY <1>1 DEF EngineOK, Engines
<1>3. n \in 0 .. Len(y.queue)
  BY <1>2, RoomIn
<1> HIDE DEF n
<1>4. n + 1 \in 1 .. Len(y.queue) + 1
  BY <1>2, <1>3, SeqParts
<1>5. q \in Seq(1 .. MaxOut) /\ ms \in Seq(1 .. MaxOut)
  BY <1>2, <1>3, <1>4, SuffixOK, PrefixOK
<1>6. z = [y EXCEPT !.queue = q]
  BY <1>2 DEF Engines
<1> HIDE DEF q, ms
<1>7. EngineOK([y EXCEPT !.queue = q])
  <2> DEFINE h == [y EXCEPT !.queue = q]
  <2>1. h \in Engines /\ h.due = y.due /\ h.unack = y.unack
    BY <1>2, <1>5 DEF Engines
  <2> HIDE DEF h
  <2>2. EngineOK(h)
    BY <1>1, <2>1, SameAligned
  <2> QED BY <2>2 DEF h
<1>8. HandleAck(x, num) = Transmit(z, ms)
  BY DEF HandleAck, y, n, ms
<1> HIDE DEF z
<1> QED BY <1>5, <1>6, <1>7, <1>8, TransmitOK

(* The packets an EAK names, and the kept packets after they were repeated. *)
HitBy(x, K) == Keep(x.unack, {i \in DOMAIN x.unack : x.unack[i].psn \in K})
AgainBy(x, K) == [i \in DOMAIN x.unack |-> IF x.unack[i].psn \in K
                                           THEN [x.unack[i] EXCEPT !.n = @ + 1] ELSE x.unack[i]]

LEMMA AgainOK ==
  ASSUME NEW x \in Engines, NEW K
  PROVE  /\ HitBy(x, K) \in Seq(Packets) /\ Range(HitBy(x, K)) \in SUBSET Range(x.unack)
         /\ AgainBy(x, K) \in Seq(Packets) /\ Len(AgainBy(x, K)) = Len(x.unack)
         /\ DOMAIN AgainBy(x, K) = DOMAIN x.unack
         /\ \A i \in DOMAIN x.unack : /\ AgainBy(x, K)[i].psn = x.unack[i].psn
                                      /\ AgainBy(x, K)[i].m = x.unack[i].m
<1> DEFINE u == x.unack
           hits == {i \in DOMAIN u : u[i].psn \in K}
           a == AgainBy(x, K)
<1>1. u \in Seq(Packets)
  BY DEF Engines
<1>2. Len(u) \in Nat /\ DOMAIN u = 1 .. Len(u) /\ \A i \in 1 .. Len(u) : u[i] \in Packets
  BY <1>1, SeqParts
<1>3. HitBy(x, K) = Keep(u, hits) /\ hits \in SUBSET (DOMAIN u)
  BY DEF HitBy
<1>4. a = [i \in DOMAIN u |-> IF u[i].psn \in K THEN [u[i] EXCEPT !.n = @ + 1] ELSE u[i]]
  BY DEF AgainBy
<1> HIDE DEF u, hits, a
<1>5. HitBy(x, K) \in Seq(Packets) /\ Range(HitBy(x, K)) = {u[i] : i \in hits}
  BY <1>1, <1>3, Keeps
<1>6. Range(HitBy(x, K)) \in SUBSET Range(u)
  BY <1>3, <1>5 DEF Range
<1>7. ASSUME NEW i \in 1 .. Len(u)
      PROVE  a[i] \in Packets /\ a[i].psn = u[i].psn /\ a[i].m = u[i].m
  BY <1>2, <1>4 DEF Packets
<1>8. a \in [1 .. Len(u) -> Packets]
  BY <1>2, <1>4, <1>7
<1>9. a \in Seq(Packets) /\ Len(a) = Len(u)
  BY <1>2, <1>8, FunSeq
<1> QED BY <1>2, <1>5, <1>6, <1>7, <1>8, <1>9 DEF u, a

LEMMA DatasOK ==
  ASSUME NEW x \in Engines, NEW s \in Seq(Packets)
  PROVE  /\ [i \in DOMAIN s |-> DataOf(x, s[i])] \in Seq(Frames(MaxOut))
         /\ Len([i \in DOMAIN s |-> DataOf(x, s[i])]) = Len(s)
<1>1. Len(s) \in Nat /\ DOMAIN s = 1 .. Len(s) /\ \A i \in 1 .. Len(s) : s[i] \in Packets
  BY SeqParts
<1> DEFINE g == [i \in DOMAIN s |-> DataOf(x, s[i])]
<1>2. g \in [1 .. Len(s) -> Frames(MaxOut)]
  BY <1>1, FramesOK
<1> HIDE DEF g
<1>3. g \in Seq(Frames(MaxOut)) /\ Len(g) = Len(s)
  BY <1>1, <1>2, FunSeq
<1> QED BY <1>3 DEF g

LEMMA HandleEakOK ==
  ASSUME NEW x, EngineOK(x), NEW K
  PROVE  RetOK(HandleEak(x, K))
<1> DEFINE hit == HitBy(x, K)
           a == AgainBy(x, K)
           z == [x EXCEPT !.unack = a, !.delayed = FALSE, !.resend = TRUE]
           fs == [i \in DOMAIN hit |-> DataOf(x, hit[i])]
           died == \E i \in DOMAIN hit : hit[i].n + 1 = x.lsp.max_retransmissions
<1>1. x \in Engines
  BY DEF EngineOK
<1>2. HandleEak(x, K) = IF x.state # "Normal" \/ hit = <<>> THEN Ret(x)
                        ELSE IF died THEN Ret(Bailout(x)) ELSE Write(z, fs)
  BY DEF HandleEak, HitBy, AgainBy
<1>3. /\ hit \in Seq(Packets) /\ a \in Seq(Packets) /\ DOMAIN a = DOMAIN x.unack
      /\ \A i \in DOMAIN x.unack : a[i].psn = x.unack[i].psn
  BY <1>1, AgainOK
<1> HIDE DEF hit, a
<1>4. fs \in Seq(Frames(MaxOut))
  BY <1>1, <1>3, DatasOK
<1>5. z \in Engines /\ z.unack = a /\ z.due = x.due
  BY <1>1, <1>3 DEF Engines
<1> HIDE DEF z, fs, died
<1>6. {a[i].psn : i \in DOMAIN a} = {x.unack[i].psn : i \in DOMAIN x.unack}
  BY <1>3
<1>7. Aligned(z)
  BY <1>5, <1>6 DEF EngineOK, Aligned
<1>8. RetOK(Write(z, fs))
  BY <1>4, <1>5, <1>7, WriteOK DEF EngineOK
<1> QED BY <1>2, <1>8, RetIsOK, BailoutOK

LEMMA HoldOK ==
  ASSUME NEW x, EngineOK(x), NEW f \in Frames(MaxIn), f.m # NoMsg, NEW d
  PROVE  RetOK(Hold(x, f, d))
<1> DEFINE h == Append(x.held, [psn |-> f.seq, m |-> f.m])
           y == [x EXCEPT !.held = Append(@, [psn |-> f.seq, m |-> f.m])]
           z == [y EXCEPT !.delayed = FALSE]
           eak == Frame({"EAK"}, x.sent, x.recv, NoMsg, {Next8(x.recv, j) : j \in 1 .. d - 1})
<1>1. x \in Engines /\ x.held \in Seq(Parcels) /\ x.recv \in Psn
  BY DEF EngineOK, Engines
<1>2. [psn |-> f.seq, m |-> f.m] \in Parcels
  BY Iap2LinkAssumption DEF Frames, Parcels, NoMsg
<1>3. h \in Seq(Parcels)
  BY <1>1, <1>2, AppendProperties
<1>4. y = [x EXCEPT !.held = h]
  BY <1>1 DEF Engines
<1> HIDE DEF h
<1>5. EngineOK(y)
  <2>1. y \in Engines /\ y.due = x.due /\ y.unack = x.unack
    BY <1>1, <1>3, <1>4 DEF Engines
  <2> QED BY <2>1, SameAligned
<1> HIDE DEF y
<1>6. EngineOK(z)
  <2>1. z \in Engines /\ z.due = y.due /\ z.unack = y.unack
    BY <1>5 DEF EngineOK, Engines
  <2> QED BY <1>5, <2>1, SameAligned
<1>7. {Next8(x.recv, j) : j \in 1 .. d - 1} \in SUBSET Psn
  <2>1. x.recv \in Int
    BY <1>1, FirstIsPsn
  <2>2. \A j \in 1 .. d - 1 : j \in Int
    OBVIOUS
  <2> QED BY <2>1, <2>2, Next8Psn
<1>8. eak \in Frames(MaxOut)
  BY <1>1, <1>7, FramesOK
<1>9. Hold(x, f, d) = IF d < x.lsp.max_outgoing THEN Ret(y) ELSE Write(z, <<eak>>)
  BY DEF Hold, y
<1> HIDE DEF z, eak
<1> QED BY <1>5, <1>6, <1>8, <1>9, One, RetIsOK, WriteOK
(* The packets stay the same ones, and their distances do not decrease.    *)
LEMMA SortedParts ==
  ASSUME NEW s \in Seq(Parcels), NEW a \in Psn
  PROVE  LET t == Sorted(s, a)
         IN  /\ t \in Seq(Parcels) /\ Len(t) = Len(s) /\ Range(t) = Range(s)
             /\ \A j, k \in 1 .. Len(t) :
                  j <= k => Distance(t[j].psn, a) <= Distance(t[k].psn, a)
<1> DEFINE n == Len(s)
           K == [i \in 1 .. n |-> Distance(s[i].psn, a)]
           t == Sorted(s, a)
<1>1. n \in Nat /\ DOMAIN s = 1 .. n /\ \A i \in 1 .. n : s[i] \in Parcels
  BY SeqParts
<1>2. ASSUME NEW i \in 1 .. n PROVE Distance(s[i].psn, a) \in Nat
  <2>1. PICK b \in 0 .. 255 : b = s[i].psn
    BY <1>1 DEF Parcels, Psn
  <2>2. a \in 0 .. 255 /\ a # -1
    BY DEF Psn
  <2>3. Distance(b, a) = (b - a) % 256
    BY <2>2 DEF Distance, None
  <2>4. (b - a) % 256 \in Nat
    BY <2>2
  <2> QED BY <2>1, <2>3, <2>4
<1> HIDE DEF n
<1>3. K \in [1 .. n -> Nat]
  BY <1>2
<1>4. ASSUME NEW i \in 1 .. n PROVE Place(s, a, i) = Cardinality(AheadOf(K, i))
  <2>1. DOMAIN K = DOMAIN s /\ \A h \in DOMAIN s : K[h] = Distance(s[h].psn, a)
    BY <1>1
  <2>2. i \in DOMAIN s
    BY <1>1
  <2> HIDE DEF K
  <2>3. AheadOf(K, i) =
          {h \in DOMAIN s :
             \/ Distance(s[h].psn, a) < Distance(s[i].psn, a)
             \/ Distance(s[h].psn, a) = Distance(s[i].psn, a) /\ h <= i}
    BY <2>1, <2>2, Zenon DEF AheadOf, Before
  <2> QED BY <2>3, Zenon DEF Place
<1>5. t = [j \in 1 .. n |-> s[Placed(K, j)]]
  <2>1. ASSUME NEW j \in 1 .. n
        PROVE  (CHOOSE i \in DOMAIN s : Place(s, a, i) = j) = Placed(K, j)
    <3>1. DOMAIN K = DOMAIN s
      BY <1>1
    <3> HIDE DEF K
    <3>2. \A i : i \in DOMAIN s /\ Place(s, a, i) = j
                 <=> i \in DOMAIN K /\ Cardinality(AheadOf(K, i)) = j
      BY <1>1, <1>4, <3>1
    <3> QED BY <3>2, Zenon DEF Placed
  <2> HIDE DEF K
  <2>2. Sorted(s, a) = [j \in DOMAIN s |-> s[CHOOSE i \in DOMAIN s : Place(s, a, i) = j]]
    BY Zenon DEF Sorted
  <2> QED BY <1>1, <2>1, <2>2, Zenon
<1>6. /\ \A j \in 1 .. n : Placed(K, j) \in 1 .. n
      /\ \A i \in 1 .. n : \E j \in 1 .. n : Placed(K, j) = i
      /\ \A j, k \in 1 .. n : j <= k => K[Placed(K, j)] <= K[Placed(K, k)]
  <2> HIDE DEF K
  <2> QED BY <1>1, <1>3, Ranked
<1>7. \A i \in 1 .. n : K[i] = Distance(s[i].psn, a)
  OBVIOUS
<1> HIDE DEF K, t
<1>8. t \in Seq(Parcels) /\ Len(t) = n
  <2>1. t \in [1 .. n -> Parcels]
    BY <1>1, <1>5, <1>6
  <2> QED BY <1>1, <2>1, FunSeq
<1>9. Range(t) = Range(s)
  BY <1>1, <1>5, <1>6 DEF Range
<1>10. ASSUME NEW j \in 1 .. n, NEW k \in 1 .. n, j <= k
       PROVE  Distance(t[j].psn, a) <= Distance(t[k].psn, a)
  BY <1>5, <1>6, <1>7, <1>10
<1> QED BY <1>8, <1>9, <1>10 DEF n, t

(* What Deliver hands up, in order, and what it still holds.               *)
AllHeld(x, f) == Append(x.held, [psn |-> f.seq, m |-> f.m])
LineOf(x, f) == Sorted(AllHeld(x, f), x.recv)
LastOf(x, f, j) == IF j = 0 THEN x.recv ELSE LineOf(x, f)[j].psn
GapsOf(x, f) ==
  {j \in DOMAIN LineOf(x, f) : Distance(LineOf(x, f)[j].psn, LastOf(x, f, j - 1)) > 1}
RunLength(x, f) == Least(GapsOf(x, f) \cup {Len(LineOf(x, f)) + 1}) - 1

LEMMA DeliverParts ==
  ASSUME NEW x, EngineOK(x), NEW f \in Frames(MaxIn), f.m # NoMsg
  PROVE  LET r == Deliver(x, f)
             line == LineOf(x, f)
             n == RunLength(x, f)
         IN /\ AllHeld(x, f) \in Seq(Parcels) /\ line \in Seq(Parcels)
            /\ Range(line) = Range(AllHeld(x, f))
            /\ \A j, k \in 1 .. Len(line) :
                 j <= k => Distance(line[j].psn, x.recv) <= Distance(line[k].psn, x.recv)
            /\ n \in 0 .. Len(line)
            /\ \A j \in 1 .. n : j \notin GapsOf(x, f)
            /\ n < Len(line) => n + 1 \in GapsOf(x, f)
            /\ EngineOK(r.e) /\ r.up = SubSeq(line, 1, n) /\ r.up \in Seq(Parcels)
            /\ r.e.held = SubSeq(line, n + 1, Len(line)) /\ r.e.recv = LastOf(x, f, n)
            /\ \A h \in Fields \ {"held", "recv", "lastAcked", "delayed", "cum"} : r.e[h] = x[h]
            /\ r.out \in Seq(Frames(MaxOut))
            /\ r.out = <<>> \/ \E y \in Engines : r.out = <<AckOf(y)>> /\ y.recv = r.e.recv
<1> DEFINE all == AllHeld(x, f)
           line == LineOf(x, f)
           n == RunLength(x, f)
           last == LastOf(x, f, n)
           rest == SubSeq(line, n + 1, Len(line))
           up == SubSeq(line, 1, n)
           y == [x EXCEPT !.held = rest, !.recv = last]
           z == [y EXCEPT !.delayed = FALSE, !.lastAcked = y.recv]
           v == [y EXCEPT !.delayed = TRUE]
           r == IF x.lsp.max_ack = 0 THEN Ret(y)
                ELSE IF Distance(y.recv, x.lastAcked) >= x.lsp.max_outgoing
                THEN Write(z, <<AckOf(y)>>) ELSE Ret(v)
<1>1. x \in Engines /\ x.held \in Seq(Parcels) /\ x.recv \in Psn
  BY DEF EngineOK, Engines
<1>2. [psn |-> f.seq, m |-> f.m] \in Parcels
  BY Iap2LinkAssumption DEF Frames, Parcels, NoMsg
<1>3. all \in Seq(Parcels)
  BY <1>1, <1>2, AppendProperties DEF AllHeld
<1>4. /\ line \in Seq(Parcels) /\ Range(line) = Range(all)
      /\ \A j, k \in 1 .. Len(line) :
           j <= k => Distance(line[j].psn, x.recv) <= Distance(line[k].psn, x.recv)
  <2> HIDE DEF all
  <2>1. line = Sorted(all, x.recv)
    BY DEF LineOf, all
  <2> HIDE DEF line
  <2> QED BY <1>1, <1>3, <2>1, SortedParts
<1>5. n \in 0 .. Len(line) /\ (\A j \in 1 .. n : j \notin GapsOf(x, f))
      /\ (n < Len(line) => n + 1 \in GapsOf(x, f))
  <2> DEFINE N == GapsOf(x, f) \cup {Len(line) + 1}
  <2>1. Len(line) \in Nat /\ DOMAIN line = 1 .. Len(line)
    BY <1>4, SeqParts
  <2>2. GapsOf(x, f) \in SUBSET (1 .. Len(line))
    BY <2>1 DEF GapsOf
  <2>3. n = Least(N) - 1
    BY DEF RunLength
  <2> HIDE DEF line, n
  <2>4. N \in SUBSET Nat /\ N # {}
    BY <2>1, <2>2
  <2>5. Len(line) + 1 \in N /\ \A h \in GapsOf(x, f) : h \in N
    OBVIOUS
  <2>6. \A h \in N : h \in GapsOf(x, f) \/ h = Len(line) + 1
    OBVIOUS
  <2> HIDE DEF N
  <2>7. PICK c : c = Least(N)
    OBVIOUS
  <2>8. c \in N /\ \A h \in N : c <= h
    BY <2>4, <2>7, LeastOf
  <2>9. c \in 1 .. Len(line) + 1 /\ n = c - 1
    BY <2>1, <2>2, <2>3, <2>6, <2>7, <2>8
  <2>10. n \in 0 .. Len(line)
    BY <2>1, <2>9
  <2>11. ASSUME NEW j \in 1 .. n PROVE j \notin GapsOf(x, f)
    BY <2>5, <2>8, <2>9
  <2>12. n < Len(line) => n + 1 \in GapsOf(x, f)
    BY <2>1, <2>6, <2>8, <2>9
  <2> QED BY <2>10, <2>11, <2>12
<1>6. Deliver(x, f) = [r EXCEPT !.up = up]
  BY DEF Deliver, AllHeld, LineOf, LastOf, GapsOf, RunLength
<1>7. /\ rest \in Seq(Parcels) /\ up \in Seq(Parcels) /\ last \in Psn
  <2>1. Len(line) \in Nat /\ \A j \in 1 .. Len(line) : line[j] \in Parcels
    BY <1>4, SeqParts
  <2>2. last = IF n = 0 THEN x.recv ELSE line[n].psn
    BY DEF LastOf
  <2> HIDE DEF line, n, last
  <2>3. n + 1 \in 1 .. Len(line) + 1
    BY <1>5, <2>1
  <2>4. SubSeq(line, n + 1, Len(line)) \in Seq(Parcels) /\ SubSeq(line, 1, n) \in Seq(Parcels)
    BY <1>4, <1>5, <2>3, SuffixOK, PrefixOK
  <2>5. n # 0 => line[n] \in Parcels
    BY <1>5, <2>1
  <2> QED BY <1>1, <2>2, <2>4, <2>5 DEF Parcels
<1> HIDE DEF all, line, n, last
<1> HIDE DEF rest, up
<1>9. /\ y \in Engines /\ y.held = rest /\ y.recv = last
      /\ \A h \in Fields \ {"held", "recv"} : y[h] = x[h]
  BY <1>1, <1>7 DEF Engines, Fields
<1>10. EngineOK(y)
  BY <1>9, SameAligned DEF Fields
<1> HIDE DEF y
<1>11. /\ z \in Engines /\ z.held = rest /\ z.recv = last
       /\ \A h \in Fields \ {"held", "recv", "lastAcked", "delayed"} : z[h] = x[h]
  BY <1>9 DEF Engines, Fields
<1>12. /\ v \in Engines /\ v.held = rest /\ v.recv = last
       /\ \A h \in Fields \ {"held", "recv", "lastAcked", "delayed"} : v[h] = x[h]
  BY <1>9 DEF Engines, Fields
<1>13. EngineOK(z) /\ EngineOK(v)
  <2>1. z.due = x.due /\ z.unack = x.unack /\ v.due = x.due /\ v.unack = x.unack
    BY <1>11, <1>12 DEF Fields
  <2> QED BY <1>11, <1>12, <2>1, SameAligned
<1> HIDE DEF z, v
<1> DEFINE zz == [z EXCEPT !.cum = 0]
<1>14. /\ EngineOK(zz) /\ zz.held = rest /\ zz.recv = last
       /\ \A h \in Fields \ {"held", "recv", "lastAcked", "delayed", "cum"} : zz[h] = x[h]
  <2>1. /\ zz \in Engines /\ zz.held = rest /\ zz.recv = last
        /\ \A h \in Fields \ {"held", "recv", "lastAcked", "delayed", "cum"} : zz[h] = x[h]
    BY <1>11 DEF Engines, Fields
  <2>2. zz.due = x.due /\ zz.unack = x.unack
    BY <2>1 DEF Fields
  <2> QED BY <2>1, <2>2, SameAligned
<1> HIDE DEF zz
<1>15. AckOf(y) \in Frames(MaxOut)
  BY <1>9, FramesOK
<1>16. <<AckOf(y)>> \in Seq(Frames(MaxOut)) /\ <<AckOf(y)>> # <<>> /\ <<>> \in Seq(Frames(MaxOut))
  BY <1>15, One, EmptySeq
<1>17. /\ Ret(y) = [e |-> y, out |-> <<>>, up |-> <<>>] /\ Ret(v) = [e |-> v, out |-> <<>>, up |-> <<>>]
       /\ Write(z, <<AckOf(y)>>) = [e |-> zz, out |-> <<AckOf(y)>>, up |-> <<>>]
  BY <1>16 DEF Ret, Write, zz
<1>18. /\ [r EXCEPT !.up = up].e = r.e /\ [r EXCEPT !.up = up].out = r.out
       /\ [r EXCEPT !.up = up].up = up
  BY <1>17
<1>19. /\ EngineOK(r.e) /\ r.e.held = rest /\ r.e.recv = last
       /\ \A h \in Fields \ {"held", "recv", "lastAcked", "delayed", "cum"} : r.e[h] = x[h]
       /\ r.out = <<>> \/ r.out = <<AckOf(y)>>
  <2>1. CASE x.lsp.max_ack = 0
    <3>1. r.e = y /\ r.out = <<>>
      BY <1>17, <2>1
    <3> QED BY <1>9, <1>10, <3>1
  <2>2. CASE x.lsp.max_ack # 0 /\ Distance(y.recv, x.lastAcked) >= x.lsp.max_outgoing
    <3>1. r.e = zz /\ r.out = <<AckOf(y)>>
      BY <1>17, <2>2
    <3> QED BY <1>14, <3>1
  <2>3. CASE x.lsp.max_ack # 0 /\ ~(Distance(y.recv, x.lastAcked) >= x.lsp.max_outgoing)
    <3>1. r.e = v /\ r.out = <<>>
      BY <1>17, <2>3
    <3> QED BY <1>12, <1>13, <3>1
  <2> QED BY <2>1, <2>2, <2>3
<1> HIDE DEF r
<1>20. /\ Deliver(x, f).e = r.e /\ Deliver(x, f).out = r.out /\ Deliver(x, f).up = up
  BY <1>6, <1>18
<1>21. r.out \in Seq(Frames(MaxOut))
  BY <1>16, <1>19
<1>22. r.out = <<>> \/ \E w \in Engines : r.out = <<AckOf(w)>> /\ w.recv = r.e.recv
  BY <1>9, <1>19
<1> QED BY <1>3, <1>4, <1>5, <1>7, <1>19, <1>20, <1>21, <1>22 DEF rest, up, all, line, n, last
LEMMA AckWritten ==
  ASSUME NEW x, EngineOK(x) PROVE RetOK(Write(x, <<AckOf(x)>>))
<1>1. AckOf(x) \in Frames(MaxOut)
  BY FramesOK DEF EngineOK
<1> QED BY <1>1, One, WriteOK

LEMMA HandleDataOK ==
  ASSUME NEW x, EngineOK(x), NEW f \in Frames(MaxIn), f.m # NoMsg
  PROVE  RetOK(HandleData(x, f))
<1> DEFINE d == Distance(f.seq, x.recv)
<1>1. RetOK(Write(x, <<AckOf(x)>>)) /\ RetOK(Deliver(x, f)) /\ RetOK(Hold(x, f, d))
  BY AckWritten, DeliverParts, HoldOK DEF RetOK
<1>2. \/ HandleData(x, f) = Write(x, <<AckOf(x)>>)
      \/ HandleData(x, f) = Deliver(x, f)
      \/ HandleData(x, f) = Hold(x, f, d)
  <2> HIDE DEF d
  <2>1. HandleData(x, f) = CASE d = 0 \/ d > x.lsp.max_outgoing + 10 -> Write(x, <<AckOf(x)>>)
                             [] d = 1 -> Deliver(x, f)
                             [] OTHER -> Hold(x, f, d)
    BY DEF HandleData, d
  <2>2. CASE (d = 0 \/ d > x.lsp.max_outgoing + 10) /\ d # 1
    BY <2>1, <2>2
  <2>3. CASE d = 1
    <3>1. ~(d > x.lsp.max_outgoing + 10)
      <4>1. PICK w \in 1 .. 255 : w = x.lsp.max_outgoing
        BY LspsOK DEF EngineOK
      <4>2. ~(1 > w + 10)
        OBVIOUS
      <4> QED BY <2>3, <4>1, <4>2
    <3> QED BY <2>1, <2>3, <3>1
  <2>4. CASE d # 0 /\ d # 1 /\ ~(d > x.lsp.max_outgoing + 10)
    BY <2>1, <2>4
  <2> QED BY <2>2, <2>3, <2>4
<1> QED BY <1>1, <1>2

LEMMA CumulativeOK ==
  ASSUME NEW x, EngineOK(x) PROVE RetOK(Cumulative(x))
<1> DEFINE y == [x EXCEPT !.lastAcked = x.recv]
<1>1. x \in Engines
  BY DEF EngineOK
<1>2. y \in Engines /\ y.due = x.due /\ y.unack = x.unack
  BY <1>1 DEF Engines
<1> HIDE DEF y
<1>3. EngineOK(y)
  BY <1>2, SameAligned
<1>4. AckOf(x) \in Frames(MaxOut)
  BY <1>1, FramesOK
<1>5. RetOK(Write(y, <<AckOf(x)>>))
  BY <1>3, <1>4, One, WriteOK
<1>6. Cumulative(x) = Ret(x) \/ Cumulative(x) = Write(y, <<AckOf(x)>>)
  BY DEF Cumulative, y
<1> QED BY <1>5, <1>6, RetIsOK

LEMMA Counted ==
  ASSUME NEW x, EngineOK(x) PROVE EngineOK([x EXCEPT !.cum = @ + 1])
<1>1. x.cum \in Nat
  BY DEF EngineOK, Engines
<1>2. PICK c \in Nat : c = x.cum + 1
  BY <1>1
<1> DEFINE y == [x EXCEPT !.cum = c]
<1>3. y \in Engines /\ y.due = x.due /\ y.unack = x.unack
  BY DEF EngineOK, Engines
<1>4. [x EXCEPT !.cum = @ + 1] = y
  BY <1>2
<1> HIDE DEF y
<1> QED BY <1>3, <1>4, SameAligned

(* What ProcessFrame has returned after each of the bits it looks at.      *)
SynPart(x, f) == IF "SYN" \in f.bits THEN HandleSyn(x, f) ELSE Ret(x)
CountedPart(x, f) == [SynPart(x, f).e EXCEPT !.cum = @ + 1]
AckPart(x, f) == IF "ACK" \notin f.bits THEN SynPart(x, f)
                 ELSE Then(SynPart(x, f), HandleAck(CountedPart(x, f), f.ack))
EakPart(x, f) == IF "EAK" \in f.bits
                 THEN Then(AckPart(x, f), HandleEak(AckPart(x, f).e, f.missing)) ELSE AckPart(x, f)
DataPart(x, f) == IF f.bits = {"ACK"} /\ f.m # NoMsg
                  THEN Then(EakPart(x, f), HandleData(EakPart(x, f).e, f)) ELSE EakPart(x, f)

LEMMA ProcessIs ==
  ASSUME NEW x, NEW f
  PROVE  ProcessFrame(x, f) = IF "RST" \in f.bits THEN Ret(Bailout(x))
                              ELSE Then(DataPart(x, f), Cumulative(DataPart(x, f).e))
BY DEF ProcessFrame, DataPart, EakPart, AckPart, CountedPart, SynPart

LEMMA PartsOK ==
  ASSUME NEW x, EngineOK(x), NEW f \in Frames(MaxIn)
  PROVE  /\ RetOK(SynPart(x, f)) /\ EngineOK(CountedPart(x, f)) /\ RetOK(AckPart(x, f))
         /\ RetOK(EakPart(x, f)) /\ RetOK(DataPart(x, f))
<1>1. RetOK(SynPart(x, f))
  BY RetIsOK, HandleSynOK DEF SynPart
<1>2. EngineOK(CountedPart(x, f))
  BY <1>1, Counted DEF RetOK, CountedPart
<1>3. RetOK(AckPart(x, f))
  <2>1. f.ack \in Psn \cup {None}
    BY DEF Frames
  <2>2. RetOK(HandleAck(CountedPart(x, f), f.ack))
    BY <1>2, <2>1, HandleAckOK
  <2> QED BY <1>1, <2>2, ThenOK DEF AckPart
<1>4. RetOK(EakPart(x, f))
  <2>1. RetOK(HandleEak(AckPart(x, f).e, f.missing))
    BY <1>3, HandleEakOK DEF RetOK
  <2> QED BY <1>3, <2>1, ThenOK DEF EakPart
<1>5. RetOK(DataPart(x, f))
  <2>1. CASE f.m # NoMsg
    <3>1. RetOK(HandleData(EakPart(x, f).e, f))
      BY <1>4, <2>1, HandleDataOK DEF RetOK
    <3> QED BY <1>4, <3>1, ThenOK DEF DataPart
  <2>2. CASE f.m = NoMsg
    BY <1>4, <2>2 DEF DataPart
  <2> QED BY <2>1, <2>2
<1> QED BY <1>1, <1>2, <1>3, <1>4, <1>5

LEMMA ProcessFrameOK ==
  ASSUME NEW x, EngineOK(x), NEW f \in Frames(MaxIn)
  PROVE  RetOK(ProcessFrame(x, f))
<1> DEFINE d == DataPart(x, f)
<1>1. RetOK(d)
  BY PartsOK
<1> HIDE DEF d
<1>2. RetOK(Cumulative(d.e))
  BY <1>1, CumulativeOK DEF RetOK
<1>3. RetOK(Then(d, Cumulative(d.e)))
  BY <1>1, <1>2, ThenOK
<1>4. RetOK(Ret(Bailout(x)))
  BY RetIsOK, BailoutOK
<1> QED BY <1>3, <1>4, ProcessIs DEF d

LEMMA EnterNegotiateOK ==
  ASSUME NEW x, EngineOK(x) PROVE RetOK(EnterNegotiate(x))
<1> DEFINE y == [x EXCEPT !.state = "Negotiate", !.marker = FALSE]
<1>1. y \in Engines /\ y.due = x.due /\ y.unack = x.unack
  BY DEF EngineOK, Engines
<1>2. EnterNegotiate(x) = Write(y, <<SynOf(y)>>)
  BY DEF EnterNegotiate
<1> HIDE DEF y
<1>3. EngineOK(y) /\ SynOf(y) \in Frames(MaxOut)
  BY <1>1, SameAligned, FramesOK
<1> QED BY <1>2, <1>3, One, WriteOK

LEMMA FeedOK ==
  ASSUME NEW x, EngineOK(x), NEW f \in Frames(MaxIn)
  PROVE  RetOK(Feed(x, f))
BY RetIsOK, BailoutOK, EnterNegotiateOK, ProcessFrameOK DEF Feed

(* The packet whose deadline passed, and the engine after its repetition.  *)
Oldest(x) == CHOOSE j \in DOMAIN x.unack : x.unack[j].psn = Head(x.due)
Repeated(x) == [x EXCEPT !.unack[Oldest(x)].n = @ + 1,
                         !.due = Append(Tail(@), Head(x.due)), !.resend = TRUE]

LEMMA RepeatedOK ==
  ASSUME NEW x, EngineOK(x), x.unack # <<>>
  PROVE  /\ Oldest(x) \in DOMAIN x.unack /\ EngineOK(Repeated(x))
         /\ DOMAIN Repeated(x).unack = DOMAIN x.unack /\ Len(Repeated(x).unack) = Len(x.unack)
         /\ \A i \in DOMAIN x.unack : /\ Repeated(x).unack[i].psn = x.unack[i].psn
                                      /\ Repeated(x).unack[i].m = x.unack[i].m
         /\ \A h \in Fields \ {"unack", "due", "resend"} : Repeated(x)[h] = x[h]
<1> DEFINE u == x.unack
           i == Oldest(x)
           v == [u EXCEPT ![i] = [u[i] EXCEPT !.n = @ + 1]]
           d == Append(Tail(x.due), Head(x.due))
           y == [x EXCEPT !.unack = v, !.due = d, !.resend = TRUE]
<1>1. x \in Engines /\ u \in Seq(Packets) /\ x.due \in Seq(Psn)
  BY DEF EngineOK, Engines
<1>2. Len(u) \in Nat /\ DOMAIN u = 1 .. Len(u) /\ \A j \in 1 .. Len(u) : u[j] \in Packets
  BY <1>1, SeqParts
<1>3. Range(x.due) = {u[j].psn : j \in DOMAIN u}
  BY DEF EngineOK, Aligned
<1>4. x.due # <<>>
  <2>1. Len(u) # 0
    BY <1>1, EmptySeq
  <2>2. 1 \in DOMAIN u
    BY <1>2, <2>1
  <2>3. Range(x.due) # {}
    BY <1>3, <2>2
  <2>4. Range(<<>>) = {}
    BY DEF Range
  <2> QED BY <2>3, <2>4
<1>5. /\ Head(x.due) \in Psn /\ Tail(x.due) \in Seq(Psn)
      /\ Range(x.due) = {Head(x.due)} \cup Range(Tail(x.due))
  BY <1>1, <1>4, RangeTail
<1>6. i \in DOMAIN u
  <2>1. \E j \in DOMAIN u : u[j].psn = Head(x.due)
    BY <1>3, <1>5
  <2> QED BY <2>1 DEF Oldest
<1>7. d \in Seq(Psn) /\ Range(d) = Range(x.due)
  <2>1. PICK t, h : t = Tail(x.due) /\ h = Head(x.due)
    OBVIOUS
  <2>2. t \in Seq(Psn) /\ h \in Psn
    BY <1>5, <2>1
  <2>3. Append(t, h) \in Seq(Psn) /\ Range(Append(t, h)) = Range(t) \cup {h}
    BY <2>2, AppendProperties, RangeAppend
  <2>4. d = Append(t, h)
    BY <2>1
  <2> QED BY <1>5, <2>1, <2>3, <2>4
<1> HIDE DEF u, i
<1>8. [u[i] EXCEPT !.n = @ + 1] \in Packets
  <2>1. u[i] \in Packets
    BY <1>2, <1>6
  <2> QED BY <2>1 DEF Packets
<1>9. /\ v \in Seq(Packets) /\ Len(v) = Len(u)
      /\ \A j \in 1 .. Len(u) : v[j] = IF j = i THEN [u[i] EXCEPT !.n = @ + 1] ELSE u[j]
  <2>1. i \in 1 .. Len(u)
    BY <1>2, <1>6
  <2> QED BY <1>1, <1>8, <2>1, ExceptSeq
<1>10. DOMAIN v = DOMAIN u /\ \A j \in DOMAIN u : v[j].psn = u[j].psn /\ v[j].m = u[j].m
  <2>1. DOMAIN v = DOMAIN u
    BY <1>2, <1>9, SeqParts
  <2>2. ASSUME NEW j \in DOMAIN u PROVE v[j].psn = u[j].psn /\ v[j].m = u[j].m
    BY <1>2, <1>9 DEF Packets
  <2> QED BY <2>1, <2>2
<1>11. Repeated(x) = y
  BY <1>1, <1>6 DEF Repeated, u, i, Engines
<1> HIDE DEF v, d
<1>12. /\ y \in Engines /\ y.unack = v /\ y.due = d
       /\ \A h \in Fields \ {"unack", "due", "resend"} : y[h] = x[h]
  BY <1>1, <1>7, <1>9 DEF Engines, Fields
<1> HIDE DEF y
<1>13. {v[j].psn : j \in DOMAIN v} = {u[j].psn : j \in DOMAIN u}
  BY <1>10
<1>14. EngineOK(y)
  BY <1>3, <1>7, <1>12, <1>13 DEF EngineOK, Aligned
<1> QED BY <1>6, <1>9, <1>10, <1>11, <1>12, <1>14 DEF u, i

LEMMA OnExpectAckTimerParts ==
  ASSUME NEW x, EngineOK(x)
  PROVE  \/ OnExpectAckTimer(x) = Ret([x EXCEPT !.resend = FALSE]) /\ (x.unack = <<>> \/ x.state # "Normal")
         \/ OnExpectAckTimer(x) = Ret(Bailout(x))
         \/ /\ x.unack # <<>>
            /\ OnExpectAckTimer(x) = Write(Repeated(x), <<DataOf(x, x.unack[Oldest(x)])>>)
BY DEF OnExpectAckTimer, Repeated, Oldest

LEMMA OnExpectAckTimerOK ==
  ASSUME NEW x, EngineOK(x) PROVE RetOK(OnExpectAckTimer(x))
<1>1. x \in Engines /\ x.unack \in Seq(Packets)
  BY DEF EngineOK, Engines
<1>2. EngineOK([x EXCEPT !.resend = FALSE])
  <2> DEFINE h == [x EXCEPT !.resend = FALSE]
  <2>1. h \in Engines /\ h.due = x.due /\ h.unack = x.unack
    BY <1>1 DEF Engines
  <2> HIDE DEF h
  <2>2. EngineOK(h)
    BY <2>1, SameAligned
  <2> QED BY <2>2 DEF h
<1>3. CASE x.unack # <<>>
  <2> DEFINE f == DataOf(x, x.unack[Oldest(x)])
  <2>1. Oldest(x) \in DOMAIN x.unack /\ EngineOK(Repeated(x))
    BY <1>3, RepeatedOK
  <2>2. x.unack[Oldest(x)] \in Packets
    BY <1>1, <2>1, SeqParts
  <2>3. f \in Frames(MaxOut)
    BY <1>1, <2>2, FramesOK
  <2> HIDE DEF f
  <2>4. RetOK(Write(Repeated(x), <<f>>))
    BY <2>1, <2>3, One, WriteOK
  <2> QED BY <1>2, <2>4, OnExpectAckTimerParts, RetIsOK, BailoutOK DEF f
<1>4. CASE x.unack = <<>>
  BY <1>2, <1>4, OnExpectAckTimerParts, RetIsOK, BailoutOK
<1> QED BY <1>3, <1>4
-----------------------------------------------------------------------------
(***************************************************************************)
(* Every step keeps the types.                                             *)
(***************************************************************************)
Phones == [open : BOOLEAN, recv : Psn \cup {None}, owes : BOOLEAN, sent : 0 .. MaxIn,
           acked : 0 .. MaxIn]
PhoneOK(q) == q \in Phones /\ q.acked <= q.sent

(* The messages in what is handed up.                                      *)
Said(up) == [i \in DOMAIN up |-> up[i].m]

LEMMA SaidParts ==
  ASSUME NEW up \in Seq(Parcels)
  PROVE  /\ Said(up) \in Seq(1 .. MaxIn) /\ Len(Said(up)) = Len(up)
         /\ \A i \in 1 .. Len(up) : Said(up)[i] = up[i].m
<1>1. Len(up) \in Nat /\ DOMAIN up = 1 .. Len(up) /\ \A i \in 1 .. Len(up) : up[i] \in Parcels
  BY SeqParts
<1>2. \A i \in 1 .. Len(up) : up[i].m \in 1 .. MaxIn
  BY <1>1 DEF Parcels
<1>3. Said(up) \in [1 .. Len(up) -> 1 .. MaxIn]
  BY <1>1, <1>2 DEF Said
<1> QED BY <1>1, <1>3, FunSeq DEF Said

LEMMA BecomesOK ==
  ASSUME TInv, NEW r, RetOK(r), Becomes(r)
  PROVE  /\ EngineOK(e') /\ out' \in Seq(Frames(MaxOut)) /\ delivered' \in Seq(1 .. MaxIn)
<1>1. /\ e' = r.e /\ out' = IF r.e.state = "Dead" THEN out ELSE out \o r.out
      /\ delivered' = delivered \o Said(r.up)
  BY Zenon DEF Becomes, Said
<1>2. Said(r.up) \in Seq(1 .. MaxIn)
  BY SaidParts DEF RetOK
<1>3. delivered \in Seq(1 .. MaxIn) /\ out \in Seq(Frames(MaxOut))
  BY DEF TInv
<1>4. delivered' \in Seq(1 .. MaxIn)
  BY <1>1, <1>2, <1>3, ConcatProperties
<1>5. out \o r.out \in Seq(Frames(MaxOut))
  BY <1>3, ConcatProperties DEF RetOK
<1> QED BY <1>1, <1>3, <1>4, <1>5 DEF RetOK

LEMMA PhoneFrames ==
  ASSUME NEW q, PhoneOK(q)
  PROVE  /\ PhoneAck(q) \in Frames(MaxIn)
         /\ \A k \in 1 .. MaxIn : PhoneData(q, k) \in Frames(MaxIn)
         /\ \A b \in SUBSET Bits, s \in Psn, K \in SUBSET Psn :
              Frame(b, s, q.recv, NoMsg, K) \in Frames(MaxIn)
         /\ Missed(q) \in Seq(Frames(MaxIn)) /\ Len(Missed(q)) = q.sent - q.acked
         /\ \A j \in 1 .. q.sent - q.acked :
              q.acked + j \in 1 .. MaxIn /\ Missed(q)[j] = PhoneData(q, q.acked + j)
<1>1. q.recv \in Psn \cup {None} /\ q.sent \in 0 .. MaxIn /\ q.acked \in 0 .. MaxIn
  BY DEF PhoneOK, Phones
<1>2. \A k \in Int : PhonePsn(k) \in Psn
  BY FirstIsPsn, Next8Psn DEF PhonePsn
<1>3. MaxIn \in Nat
  BY Iap2LinkAssumption
<1>4. \A b \in SUBSET Bits, s \in Psn, K \in SUBSET Psn :
        Frame(b, s, q.recv, NoMsg, K) \in Frames(MaxIn)
  BY <1>1, <1>3 DEF Frame, Frames, NoMsg
<1>5. q.sent \in Int /\ {"ACK"} \in SUBSET Bits /\ {} \in SUBSET Psn
  BY <1>1 DEF Bits
<1>6. PhoneAck(q) \in Frames(MaxIn)
  BY <1>2, <1>4, <1>5 DEF PhoneAck
<1>7. ASSUME NEW k \in 1 .. MaxIn PROVE PhoneData(q, k) \in Frames(MaxIn)
  <2>1. PhonePsn(k) \in Psn
    BY <1>2
  <2> QED BY <1>1, <1>3, <1>5, <2>1 DEF PhoneData, Frame, Frames
<1>8. q.sent - q.acked \in Nat /\ \A j \in 1 .. q.sent - q.acked : q.acked + j \in 1 .. MaxIn
  <2>1. PICK s, a : s = q.sent /\ a = q.acked
    OBVIOUS
  <2>2. s \in 0 .. MaxIn /\ a \in 0 .. MaxIn /\ a <= s
    BY <1>1, <2>1 DEF PhoneOK
  <2>3. s - a \in Nat /\ \A j \in 1 .. s - a : a + j \in 1 .. MaxIn
    BY <1>3, <2>2
  <2> QED BY <2>1, <2>3
<1>9. \A j \in 1 .. q.sent - q.acked : Missed(q)[j] = PhoneData(q, q.acked + j)
  BY DEF Missed
<1>10. Missed(q) \in [1 .. q.sent - q.acked -> Frames(MaxIn)]
  BY <1>7, <1>8 DEF Missed
<1>11. Missed(q) \in Seq(Frames(MaxIn)) /\ Len(Missed(q)) = q.sent - q.acked
  BY <1>8, <1>10, FunSeq
<1> QED BY <1>4, <1>6, <1>7, <1>8, <1>9, <1>11

(* The phone after it took the ack of a frame, and what it writes then.    *)
AcksIn(f) == {k \in p.acked .. p.sent : "ACK" \in f.bits /\ PhonePsn(k) = f.ack}
Opened(f) == [p EXCEPT !.open = @ \/ AcksIn(f) # {},
                       !.acked = IF AcksIn(f) = {} THEN @ ELSE Least(AcksIn(f))]
NextData(f) == f.m # NoMsg /\ Opened(f).open /\ f.seq = Next8(p.recv, 1)
Asked(f) == Keep(Missed(Opened(f)), {j \in DOMAIN Missed(Opened(f)) : Missed(Opened(f))[j].seq \in f.missing})

LEMMA OpenedOK ==
  ASSUME TInv, NEW f
  PROVE  /\ PhoneOK(Opened(f)) /\ p \in Phones
         /\ Opened(f).open = (p.open \/ AcksIn(f) # {}) /\ Opened(f).recv = p.recv
         /\ Opened(f).owes = p.owes /\ Opened(f).sent = p.sent
         /\ \/ AcksIn(f) = {} /\ Opened(f).acked = p.acked
            \/ /\ AcksIn(f) # {} /\ Opened(f).acked \in AcksIn(f)
               /\ \A k \in AcksIn(f) : Opened(f).acked <= k
<1> DEFINE acks == AcksIn(f)
           a == IF acks = {} THEN p.acked ELSE Least(acks)
           o == (p.open \/ acks # {})
           q == [p EXCEPT !.open = o, !.acked = a]
<1>1. p \in Phones /\ p.acked \in 0 .. MaxIn /\ p.sent \in 0 .. MaxIn /\ p.acked <= p.sent
  BY DEF TInv, Phones
<1>2. acks \in SUBSET (p.acked .. p.sent)
  BY DEF AcksIn
<1>3. Opened(f) = q
  BY <1>1 DEF Opened, Phones
<1> HIDE DEF acks
<1>4. CASE acks # {}
  <2>1. acks \in SUBSET Nat
    BY <1>1, <1>2
  <2>2. Least(acks) \in acks /\ \A k \in acks : Least(acks) <= k
    BY <1>4, <2>1, LeastOf
  <2>3. a = Least(acks)
    BY <1>4
  <2> HIDE DEF a
  <2>4. a \in acks /\ \A k \in acks : a <= k
    BY <2>2, <2>3
  <2>5. a \in 0 .. MaxIn /\ a <= p.sent
    <3>1. a \in p.acked .. p.sent
      BY <1>2, <2>4
    <3>2. PICK s, b : s = p.sent /\ b = p.acked
      OBVIOUS
    <3>3. s \in 0 .. MaxIn /\ b \in 0 .. MaxIn /\ a \in b .. s /\ MaxIn \in Nat
      BY <1>1, <3>1, <3>2, Iap2LinkAssumption
    <3>4. a \in 0 .. MaxIn /\ a <= s
      BY <3>3
    <3> QED BY <3>2, <3>4
  <2>6. o \in BOOLEAN
    BY <1>1 DEF Phones
  <2> HIDE DEF o
  <2>7. /\ q \in Phones /\ q.acked = a /\ q.sent = p.sent /\ q.open = o /\ q.recv = p.recv
        /\ q.owes = p.owes
    BY <1>1, <2>5, <2>6 DEF Phones
  <2> QED BY <1>1, <1>3, <1>4, <2>4, <2>5, <2>7 DEF PhoneOK, o, acks
<1>5. CASE acks = {}
  <2>1. a = p.acked
    BY <1>5
  <2>2. o \in BOOLEAN
    BY <1>1 DEF Phones
  <2> HIDE DEF a, o
  <2>3. /\ q \in Phones /\ q.acked = a /\ q.sent = p.sent /\ q.open = o /\ q.recv = p.recv
        /\ q.owes = p.owes
    BY <1>1, <2>1, <2>2 DEF Phones
  <2> QED BY <1>1, <1>3, <1>5, <2>1, <2>3 DEF PhoneOK, o, acks
<1> QED BY <1>4, <1>5

(* A frame read leaves the phone, what it heard and its frames so.         *)
LEMMA PhoneReadsParts ==
  ASSUME TInv, NEW f \in Frames(MaxOut), PhoneReads(f)
  PROVE  /\ p' = [Opened(f) EXCEPT !.recv = IF NextData(f) THEN f.seq ELSE @,
                                   !.owes = @ \/ (f.m # NoMsg /\ Opened(f).open)]
         /\ heard' = IF NextData(f) THEN Append(heard, f.m) ELSE heard
         /\ Asked(f) \in Seq(Frames(MaxIn))
         /\ Range(Asked(f)) \in SUBSET Range(Missed(Opened(f)))
         /\ \/ in' = in \o Asked(f)
            \/ /\ f.m # NoMsg /\ Opened(f).open /\ Distance(f.seq, p.recv) \in 2 .. Lsp.max_outgoing
               /\ \E K \in SUBSET Psn :
                    in' = in \o Asked(f) \o <<Frame({"EAK"}, PhonePsn(p.sent), p.recv, NoMsg, K)>>
<1> DEFINE ahead == IF f.m # NoMsg /\ Opened(f).open THEN Distance(f.seq, p.recv) ELSE 0
           K == {Next8(p.recv, j) : j \in 1 .. ahead - 1}
           eak == Frame({"EAK"}, PhonePsn(p.sent), p.recv, NoMsg, K)
           M == Missed(Opened(f))
           asked == {j \in DOMAIN M : M[j].seq \in f.missing}
<1>1. /\ p' = [Opened(f) EXCEPT !.recv = IF NextData(f) THEN f.seq ELSE @,
                                !.owes = @ \/ (f.m # NoMsg /\ Opened(f).open)]
      /\ heard' = IF NextData(f) THEN Append(heard, f.m) ELSE heard
  BY DEF PhoneReads, Opened, AcksIn, NextData
<1>2. PICK ask \in BOOLEAN : /\ ask => ahead \in 2 .. Lsp.max_outgoing
                             /\ in' = in \o Asked(f) \o (IF ask THEN <<eak>> ELSE <<>>)
  BY DEF PhoneReads, Opened, AcksIn, Asked
<1>3. M \in Seq(Frames(MaxIn)) /\ asked \in SUBSET (DOMAIN M) /\ Asked(f) = Keep(M, asked)
  BY OpenedOK, PhoneFrames DEF Asked
<1>4. K \in SUBSET Psn
  <2>1. p.recv \in Int
    BY FirstIsPsn DEF TInv, None
  <2>2. \A j \in 1 .. ahead - 1 : j \in Int
    OBVIOUS
  <2> QED BY <2>1, <2>2, Next8Psn
<1> HIDE DEF M, asked, K
<1>5. Asked(f) \in Seq(Frames(MaxIn)) /\ Range(Asked(f)) = {M[i] : i \in asked}
  BY <1>3, Keeps
<1>6. Range(Asked(f)) \in SUBSET Range(M)
  BY <1>3, <1>5 DEF Range
<1>7. CASE ~ask
  <2>1. in \o Asked(f) \in Seq(Frames(MaxIn))
    BY <1>5, ConcatProperties DEF TInv
  <2>2. in' = in \o Asked(f)
    BY <1>2, <1>7, <2>1, ConcatEmptySeq
  <2> QED BY <1>1, <1>5, <1>6, <2>2 DEF M
<1>8. CASE ask
  <2>1. ahead \in 2 .. Lsp.max_outgoing
    BY <1>2, <1>8
  <2>2. f.m # NoMsg /\ Opened(f).open /\ Distance(f.seq, p.recv) \in 2 .. Lsp.max_outgoing
    BY <2>1
  <2>3. in' = in \o Asked(f) \o <<eak>>
    BY <1>2, <1>8
  <2> QED BY <1>1, <1>4, <1>5, <1>6, <2>2, <2>3 DEF M
<1> QED BY <1>7, <1>8
LEMMA InitTypes == ASSUME Init PROVE TInv
<1>1. /\ MaxOut \in Nat /\ MaxIn \in Nat /\ MaxFaults \in Nat
      /\ OwnPsn \in Psn /\ 0 \in Psn
  BY Iap2LinkAssumption, FirstIsPsn DEF Psn
<1>2. \A X : <<>> \in Seq(X)
  BY EmptySeq
<1>3. e \in Engines
  BY <1>1, <1>2 DEF Init, Engines
<1>4. Aligned(e)
  BY DEF Init, Aligned, Range
<1> QED BY <1>1, <1>2, <1>3, <1>4 DEF Init, TInv, EngineOK

LEMMA EngineStep ==
  ASSUME TInv, NEW r, RetOK(r), Becomes(r), UNCHANGED phone,
         in' \in Seq(Frames(MaxIn)), given' \in 0 .. MaxOut, faults' \in 0 .. MaxFaults
  PROVE  TInv'
BY BecomesOK DEF TInv, phone

LEMMA FaultsOK ==
  ASSUME TInv
  PROVE  /\ Punctual /\ Fires => faults' \in 0 .. MaxFaults
         /\ faults > 0 /\ faults' = faults - 1 => faults' \in 0 .. MaxFaults
BY Iap2LinkAssumption DEF TInv, Punctual, Fires

LEMMA TakeTypes == ASSUME TInv, Take PROVE TInv'
<1>1. Head(in) \in Frames(MaxIn) /\ Tail(in) \in Seq(Frames(MaxIn))
  BY RangeTail DEF TInv, Take
<1>2. RetOK(Feed(e, Head(in)))
  BY <1>1, FeedOK DEF TInv
<1> QED BY <1>1, <1>2, EngineStep DEF Take, TInv

LEMMA GiveTypes == ASSUME TInv, Give PROVE TInv'
<1>1. given' \in 1 .. MaxOut /\ given' \in 0 .. MaxOut
  BY Iap2LinkAssumption DEF Give, TInv
<1>2. RetOK(SendPacket(e, given'))
  BY <1>1, SendPacketOK DEF TInv
<1> QED BY <1>1, <1>2, EngineStep DEF Give, TInv

LEMMA MarkerWritten ==
  ASSUME NEW x, EngineOK(x) PROVE RetOK(Write(x, <<Marker>>)) /\ RetOK(Write(x, <<SynOf(x)>>))
<1>1. Marker \in Frames(MaxOut) /\ SynOf(x) \in Frames(MaxOut)
  BY FramesOK DEF EngineOK
<1> QED BY <1>1, One, WriteOK

LEMMA StartTypes == ASSUME TInv, NEW initiate \in BOOLEAN, Start(initiate) PROVE TInv'
<1> DEFINE x == [e EXCEPT !.state = "Detect"]
           r == Write(x, <<Marker>>)
<1>1. EngineOK(x)
  <2>1. x \in Engines /\ x.due = e.due /\ x.unack = e.unack
    BY DEF TInv, EngineOK, Engines
  <2> QED BY <2>1, SameAligned DEF TInv
<1> HIDE DEF x
<1>2. RetOK(r)
  BY <1>1, MarkerWritten
<1> HIDE DEF r
<1>3. RetOK(Then(r, EnterNegotiate(r.e)))
  BY <1>2, EnterNegotiateOK, ThenOK DEF RetOK
<1>4. RetOK(IF initiate THEN Then(r, EnterNegotiate(r.e)) ELSE r)
  BY <1>2, <1>3
<1>5. Becomes(IF initiate THEN Then(r, EnterNegotiate(r.e)) ELSE r)
  BY DEF Start, r, x
<1> QED BY <1>4, <1>5, EngineStep DEF Start, TInv

LEMMA DelayedAckTypes == ASSUME TInv, DelayedAck PROVE TInv'
<1> DEFINE x == [e EXCEPT !.delayed = FALSE]
           y == [x EXCEPT !.lastAcked = x.recv]
           r == IF e.state # "Normal" THEN Ret(x) ELSE Write(y, <<AckOf(x)>>)
<1>1. x \in Engines /\ x.due = e.due /\ x.unack = e.unack
  BY DEF TInv, EngineOK, Engines
<1> HIDE DEF x
<1>2. y \in Engines /\ y.due = x.due /\ y.unack = x.unack
  BY <1>1 DEF Engines
<1> HIDE DEF y
<1>3. EngineOK(x) /\ EngineOK(y)
  BY <1>1, <1>2, SameAligned DEF TInv
<1>4. <<AckOf(x)>> \in Seq(Frames(MaxOut))
  BY <1>1, FramesOK, One
<1>5. RetOK(r)
  BY <1>3, <1>4, RetIsOK, WriteOK
<1>6. Becomes(r)
  BY DEF DelayedAck, x, y
<1> HIDE DEF r
<1> QED BY <1>5, <1>6, EngineStep DEF DelayedAck, TInv

LEMMA PhoneWritesTypes ==
  ASSUME TInv, NEW q, PhoneOK(q), NEW fs \in Seq(Frames(MaxIn)), PhoneWrites(q, fs),
         faults' \in 0 .. MaxFaults
  PROVE  TInv'
<1>1. in \o fs \in Seq(Frames(MaxIn))
  BY ConcatProperties DEF TInv
<1> QED BY <1>1 DEF TInv, PhoneWrites, PhoneOK, Phones

LEMMA PhoneSendsTypes == ASSUME TInv, PhoneSends PROVE TInv'
<1> DEFINE q == [p EXCEPT !.sent = @ + 1, !.owes = FALSE]
           f == PhoneData(p, p.sent + 1)
<1>1. PhoneOK(p)
  BY DEF TInv, PhoneOK, Phones
<1>2. p.sent + 1 \in 1 .. MaxIn
  BY Iap2LinkAssumption DEF TInv, PhoneSends
<1>3. PhoneOK(q)
  <2>1. PICK s \in 1 .. MaxIn : s = p.sent + 1
    BY <1>2
  <2>2. q = [p EXCEPT !.sent = s, !.owes = FALSE]
    BY <1>1, <2>1 DEF PhoneOK, Phones
  <2> HIDE DEF q
  <2>3. s \in 0 .. MaxIn /\ p.acked <= s
    BY <1>1, <2>1, Iap2LinkAssumption DEF PhoneOK, Phones
  <2>4. q \in Phones /\ q.acked = p.acked /\ q.sent = s
    BY <1>1, <2>2, <2>3 DEF PhoneOK, Phones
  <2> QED BY <2>3, <2>4 DEF PhoneOK
<1>4. <<f>> \in Seq(Frames(MaxIn))
  BY <1>1, <1>2, PhoneFrames, One
<1> HIDE DEF q, f
<1>5. PhoneWrites(q, <<f>>) /\ faults' \in 0 .. MaxFaults
  BY DEF PhoneSends, q, f, TInv
<1> QED BY <1>3, <1>4, <1>5, PhoneWritesTypes

LEMMA PhoneAnyTypes ==
  ASSUME TInv, PhoneAcks \/ PhoneSynAgain \/ PhoneAgain \/ PhoneResets PROVE TInv'
<1>1. PhoneOK(p) /\ p.recv \in Psn \cup {None}
  BY DEF TInv, PhoneOK, Phones
<1>2. /\ PhoneAck(p) \in Frames(MaxIn) /\ Missed(p) \in Seq(Frames(MaxIn))
      /\ \A b \in SUBSET Bits, s \in Psn, K \in SUBSET Psn :
           Frame(b, s, p.recv, NoMsg, K) \in Frames(MaxIn)
  BY <1>1, PhoneFrames
<1>3. CASE PhoneAcks
  <2> DEFINE q == [p EXCEPT !.owes = FALSE]
  <2>1. PhoneOK(q)
    BY <1>1 DEF PhoneOK, Phones
  <2> HIDE DEF q
  <2>2. <<PhoneAck(p)>> \in Seq(Frames(MaxIn))
    BY <1>2, One
  <2>3. PhoneWrites(q, <<PhoneAck(p)>>) /\ faults' \in 0 .. MaxFaults
    BY <1>3 DEF PhoneAcks, q, TInv
  <2> QED BY <2>1, <2>2, <2>3, PhoneWritesTypes
<1>4. CASE PhoneSynAgain
  <2> DEFINE f == [PhoneSyn EXCEPT !.bits = {"SYN", "ACK"}]
  <2>1. f = Frame({"SYN", "ACK"}, FirstPsn, p.recv, NoMsg, {})
    BY DEF PhoneSyn, Frame
  <2>2. f \in Frames(MaxIn)
    BY <1>2, <2>1, FirstIsPsn DEF Bits
  <2> HIDE DEF f
  <2>3. <<f>> \in Seq(Frames(MaxIn))
    BY <2>2, One
  <2>4. PhoneWrites(p, <<f>>) /\ faults' \in 0 .. MaxFaults
    BY <1>4, FaultsOK DEF PhoneSynAgain, f
  <2> QED BY <1>1, <2>3, <2>4, PhoneWritesTypes
<1>5. CASE PhoneAgain
  <2>1. PhoneWrites(p, Missed(p)) /\ faults' \in 0 .. MaxFaults
    BY <1>5, Iap2LinkAssumption DEF PhoneAgain, TInv
  <2> QED BY <1>1, <1>2, <2>1, PhoneWritesTypes
<1>6. CASE PhoneResets
  <2> DEFINE f == Frame({"RST"}, 0, 0, NoMsg, {})
  <2>1. f \in Frames(MaxIn)
    BY Iap2LinkAssumption DEF Frame, Frames, Psn, Bits, NoMsg
  <2> HIDE DEF f
  <2>2. <<f>> \in Seq(Frames(MaxIn))
    BY <2>1, One
  <2>3. PhoneWrites(p, <<f>>) /\ faults' \in 0 .. MaxFaults
    BY <1>6, FaultsOK DEF PhoneResets, f
  <2> QED BY <1>1, <2>2, <2>3, PhoneWritesTypes
<1> QED BY <1>3, <1>4, <1>5, <1>6

LEMMA PhoneTakesTypes == ASSUME TInv, PhoneTakes PROVE TInv'
<1> DEFINE f == Head(out)
<1>1. f \in Frames(MaxOut) /\ Tail(out) \in Seq(Frames(MaxOut))
  BY RangeTail DEF TInv, PhoneTakes
<1>2. /\ out' = Tail(out) /\ UNCHANGED <<e, given, delivered, faults>>
      /\ \/ f = Marker /\ in' = Append(in, Marker) /\ UNCHANGED phone
         \/ PhoneAnswers(f)
         \/ PhoneReads(f)
  BY DEF PhoneTakes
<1> HIDE DEF f
<1>3. f.seq \in Psn /\ f.m \in 0 .. MaxOut
  BY <1>1 DEF Frames
<1>4. PhoneOK(p)
  BY DEF TInv, PhoneOK, Phones
<1>5. SUFFICES PhoneOK(p') /\ in' \in Seq(Frames(MaxIn)) /\ heard' \in Seq(1 .. MaxOut)
  BY <1>1, <1>2 DEF TInv, PhoneOK, Phones
<1>6. CASE f = Marker /\ in' = Append(in, Marker) /\ UNCHANGED phone
  <2>1. Marker \in Frames(MaxIn)
    BY Iap2LinkAssumption DEF Marker, Frame, Frames, Psn, Bits, NoMsg
  <2>2. in' \in Seq(Frames(MaxIn))
    BY <1>6, <2>1, AppendProperties DEF TInv
  <2> QED BY <1>4, <1>6, <2>2 DEF phone, TInv
<1>7. CASE PhoneAnswers(f)
  <2> DEFINE q == [p EXCEPT !.recv = f.seq]
             syn == Frame({"SYN"}, FirstPsn, f.seq, NoMsg, {})
             both == [syn EXCEPT !.bits = {"SYN", "ACK"}]
  <2>1. /\ p' = q /\ UNCHANGED heard
        /\ in' = in \o <<both>> \/ in' = in \o <<syn, PhoneAck(q)>>
    BY <1>7 DEF PhoneAnswers
  <2>2. PhoneOK(q) /\ q.recv = f.seq
    BY <1>3, <1>4 DEF PhoneOK, Phones
  <2>3. both = Frame({"SYN", "ACK"}, FirstPsn, f.seq, NoMsg, {})
    BY DEF Frame
  <2> HIDE DEF q, both
  <2>4. syn \in Frames(MaxIn) /\ both \in Frames(MaxIn) /\ PhoneAck(q) \in Frames(MaxIn)
    BY <2>2, <2>3, PhoneFrames, FirstIsPsn DEF Bits
  <2> HIDE DEF syn
  <2>5. <<both>> \in Seq(Frames(MaxIn)) /\ <<syn, PhoneAck(q)>> \in Seq(Frames(MaxIn))
    BY <2>4
  <2>6. in' \in Seq(Frames(MaxIn))
    <3>1. \E answer \in Seq(Frames(MaxIn)) : in' = in \o answer
      BY <2>1, <2>5
    <3>2. in \in Seq(Frames(MaxIn))
      BY DEF TInv
    <3> QED BY <3>1, <3>2, ConcatProperties
  <2> QED BY <2>1, <2>2, <2>6 DEF TInv
<1>8. CASE PhoneReads(f)
  <2> DEFINE q == Opened(f)
             c == IF NextData(f) THEN f.seq ELSE q.recv
             o == (q.owes \/ (f.m # NoMsg /\ q.open))
  <2>1. /\ p' = [q EXCEPT !.recv = IF NextData(f) THEN f.seq ELSE @,
                          !.owes = @ \/ (f.m # NoMsg /\ Opened(f).open)]
        /\ heard' = IF NextData(f) THEN Append(heard, f.m) ELSE heard
        /\ Asked(f) \in Seq(Frames(MaxIn))
        /\ \/ in' = in \o Asked(f)
           \/ \E K \in SUBSET Psn :
                in' = in \o Asked(f) \o <<Frame({"EAK"}, PhonePsn(p.sent), p.recv, NoMsg, K)>>
    BY <1>1, <1>8, PhoneReadsParts
  <2>2. PhoneOK(q) /\ q \in Phones
    BY OpenedOK DEF PhoneOK
  <2>3. p' = [q EXCEPT !.recv = c, !.owes = o]
    BY <2>1, <2>2 DEF Phones
  <2>4. c \in Psn \cup {None} /\ o \in BOOLEAN
    BY <1>3, <2>2 DEF Phones
  <2> HIDE DEF q, c, o
  <2>5. PhoneOK(p')
    <3>1. p' \in Phones /\ p'.acked = q.acked /\ p'.sent = q.sent
      BY <2>2, <2>3, <2>4 DEF Phones
    <3> QED BY <2>2, <3>1 DEF PhoneOK
  <2>6. heard' \in Seq(1 .. MaxOut)
    <3>1. CASE NextData(f)
      <4>1. f.m \in 1 .. MaxOut
        BY <1>3, <3>1, Iap2LinkAssumption DEF NextData, NoMsg
      <4> QED BY <2>1, <3>1, <4>1, AppendProperties DEF TInv
    <3>2. CASE ~NextData(f)
      BY <2>1, <3>2 DEF TInv
    <3> QED BY <3>1, <3>2
  <2>7. in \o Asked(f) \in Seq(Frames(MaxIn))
    BY <2>1, ConcatProperties DEF TInv
  <2>8. in' \in Seq(Frames(MaxIn))
    <3>1. CASE in' = in \o Asked(f)
      BY <2>7, <3>1
    <3>2. ASSUME NEW K \in SUBSET Psn,
                 in' = in \o Asked(f) \o <<Frame({"EAK"}, PhonePsn(p.sent), p.recv, NoMsg, K)>>
          PROVE  in' \in Seq(Frames(MaxIn))
      <4> DEFINE g == Frame({"EAK"}, PhonePsn(p.sent), p.recv, NoMsg, K)
      <4>1. PhonePsn(p.sent) \in Psn
        BY FirstIsPsn, Next8Psn DEF PhonePsn, TInv
      <4>2. g \in Frames(MaxIn)
        BY <1>4, <4>1, PhoneFrames DEF Bits
      <4> HIDE DEF g
      <4>3. <<g>> \in Seq(Frames(MaxIn))
        BY <4>2, One
      <4>4. in' = (in \o Asked(f)) \o <<g>>
        BY <3>2 DEF g
      <4> QED BY <2>7, <4>3, <4>4, ConcatProperties
    <3> QED BY <2>1, <3>1, <3>2
  <2> QED BY <2>5, <2>6, <2>8
<1> QED BY <1>2, <1>6, <1>7, <1>8

LEMMA NextTypes == ASSUME TInv, [Next]_vars PROVE TInv'
<1>1. ASSUME NEW initiate \in BOOLEAN, Start(initiate) PROVE TInv'
  BY <1>1, StartTypes
<1>2. CASE ConnectionEnds
  <2>1. RetOK(Ret(Bailout(e)))
    BY RetIsOK, BailoutOK DEF TInv
  <2>2. faults' \in 0 .. MaxFaults
    BY <1>2, FaultsOK DEF ConnectionEnds
  <2> QED BY <1>2, <2>1, <2>2, EngineStep DEF ConnectionEnds, TInv
<1>3. CASE DetectAgain \/ NegotiateAgain
  <2>1. RetOK(Write(e, <<Marker>>)) /\ RetOK(Write(e, <<SynOf(e)>>))
    BY MarkerWritten DEF TInv
  <2>2. faults' \in 0 .. MaxFaults
    BY <1>3, FaultsOK DEF DetectAgain, NegotiateAgain
  <2> QED BY <1>3, <2>1, <2>2, EngineStep DEF DetectAgain, NegotiateAgain, TInv
<1>4. CASE ExpectAckTimer
  <2>1. RetOK(OnExpectAckTimer(e))
    BY OnExpectAckTimerOK DEF TInv
  <2>2. faults' \in 0 .. MaxFaults
    BY <1>4, FaultsOK DEF ExpectAckTimer
  <2> QED BY <1>4, <2>1, <2>2, EngineStep DEF ExpectAckTimer, TInv
<1>5. CASE Damaged
  <2>1. faults' \in 0 .. MaxFaults
    BY <1>5, FaultsOK DEF Damaged
  <2>2. in' \in Seq(Frames(MaxIn)) /\ out' \in Seq(Frames(MaxOut))
    <3>1. /\ in \in Seq(Frames(MaxIn)) /\ (in # <<>> => Tail(in) \in Seq(Frames(MaxIn)))
          /\ out \in Seq(Frames(MaxOut)) /\ (out # <<>> => Tail(out) \in Seq(Frames(MaxOut)))
      BY RangeTail DEF TInv
    <3>2. in' \in {in, Tail(in)} /\ out' \in {out, Tail(out)}
          /\ (in' # in => in # <<>>) /\ (out' # out => out # <<>>)
      BY <1>5 DEF Damaged
    <3> QED BY <3>1, <3>2
  <2> QED BY <1>5, <2>1, <2>2 DEF Damaged, TInv, phone
<1>6. CASE UNCHANGED vars
  BY <1>6 DEF vars, TInv
<1> QED
  BY <1>1, <1>2, <1>3, <1>4, <1>5, <1>6, GiveTypes, TakeTypes, DelayedAckTypes, PhoneTakesTypes,
     PhoneSendsTypes, PhoneAnyTypes DEF Next

(* For any phone, any parameters, any messages and any loss of frames, the *)
(* state of the link stays typed, and a timeout runs for exactly the       *)
(* packets that wait for an ack.                                           *)
THEOREM TypeCorrect == Spec => []TypeOK
<1>1. TInv => TypeOK
  BY DEF TInv, TypeOK, EngineOK, Engines, Aligned, Packets, Parcels
<1> QED BY <1>1, InitTypes, NextTypes, PTL DEF Spec
-----------------------------------------------------------------------------
(***************************************************************************)
(* Numbers of one byte that stand for a position, as long as the positions *)
(* compared are close.                                                     *)
(***************************************************************************)
LEMMA SameNumber ==
  ASSUME NEW a \in Int, NEW j \in Int, NEW k \in Int, Next8(a, j) = Next8(a, k),
         j - k <= 255, k - j <= 255
  PROVE  j = k
BY DEF Next8

LEMMA DistanceOf ==
  ASSUME NEW a \in Int, NEW j \in Int, NEW k \in Int
  PROVE  /\ j - k \in 0 .. 255 => Distance(Next8(a, j), Next8(a, k)) = j - k
         /\ k - j \in 1 .. 255 => Distance(Next8(a, j), Next8(a, k)) = 256 - (k - j)
<1>1. Next8(a, k) # None
  BY DEF Next8, None
<1>2. Distance(Next8(a, j), Next8(a, k)) = (((a + j) % 256) - ((a + k) % 256)) % 256
  BY <1>1 DEF Distance, Next8
<1>3. (a + j) % 256 \in 0 .. 255 /\ (a + k) % 256 \in 0 .. 255
  OBVIOUS
<1>4. (((a + j) % 256) - ((a + k) % 256)) % 256 = (j - k) % 256
  OBVIOUS
<1>5. j - k \in 0 .. 255 => (j - k) % 256 = j - k
  OBVIOUS
<1>6. k - j \in 1 .. 255 => (j - k) % 256 = 256 - (k - j)
  OBVIOUS
<1> QED BY <1>2, <1>4, <1>5, <1>6

LEMMA PhoneDistance ==
  ASSUME NEW j \in Int, NEW k \in Int
  PROVE  /\ j - k \in 0 .. 255 => Distance(PhonePsn(j), PhonePsn(k)) = j - k
         /\ k - j \in 1 .. 255 => Distance(PhonePsn(j), PhonePsn(k)) = 256 - (k - j)
BY FirstIsPsn, DistanceOf DEF PhonePsn

LEMMA Next8Twice ==
  ASSUME NEW a \in Int, NEW j \in Int, NEW k \in Int
  PROVE  Next8(Next8(a, j), k) = Next8(a, j + k)
BY DEF Next8

(* Frames in a channel, each stamped with a position of its receiver when  *)
(* it was written: the positions are between lo and hi and never go back,  *)
(* and R says what a frame with that position is.                          *)
Stamped(fs, lo, hi, R) ==
  \E A \in [1 .. Len(fs) -> lo .. hi] :
    /\ \A i \in 1 .. Len(fs) : <<fs[i], A[i]>> \in R
    /\ \A i, j \in 1 .. Len(fs) : i <= j => A[i] <= A[j]

LEMMA StampedEmpty ==
  ASSUME NEW lo \in Int, NEW hi \in Int, NEW R PROVE Stamped(<<>>, lo, hi, R)
<1> DEFINE A == [i \in 1 .. 0 |-> lo]
<1>1. A \in [1 .. 0 -> lo .. hi] /\ Len(<<>>) = 0 /\ \A i : i \notin 1 .. 0
  OBVIOUS
<1> HIDE DEF A
<1> QED BY <1>1 DEF Stamped

LEMMA StampedWiden ==
  ASSUME NEW fs, NEW lo \in Int, NEW hi \in Int, NEW R, Stamped(fs, lo, hi, R),
         NEW lo2 \in Int, NEW hi2 \in Int, lo2 <= lo, hi <= hi2
  PROVE  Stamped(fs, lo2, hi2, R)
<1>1. lo .. hi \subseteq lo2 .. hi2
  OBVIOUS
<1> QED BY <1>1 DEF Stamped

LEMMA StampedRule ==
  ASSUME NEW fs, NEW lo, NEW hi, NEW R, Stamped(fs, lo, hi, R), NEW R2,
         \A i \in 1 .. Len(fs), b \in lo .. hi : <<fs[i], b>> \in R => <<fs[i], b>> \in R2
  PROVE  Stamped(fs, lo, hi, R2)
BY DEF Stamped

LEMMA StampedConcat ==
  ASSUME NEW X, NEW fs \in Seq(X), NEW gs \in Seq(X), NEW lo \in Int, NEW hi \in Int,
         NEW hi2 \in Int, lo <= hi, hi <= hi2, NEW R, Stamped(fs, lo, hi, R),
         \A i \in 1 .. Len(gs) : <<gs[i], hi2>> \in R
  PROVE  Stamped(fs \o gs, lo, hi2, R)
<1> DEFINE n == Len(fs)
           k == Len(gs)
           u == fs \o gs
<1>1. n \in Nat /\ k \in Nat
  BY SeqParts
<1>2. Len(u) = n + k /\ \A i \in 1 .. n + k : u[i] = IF i <= n THEN fs[i] ELSE gs[i - n]
  BY ConcatProperties
<1>3. PICK A \in [1 .. n -> lo .. hi] :
             /\ \A i \in 1 .. n : <<fs[i], A[i]>> \in R
             /\ \A i, j \in 1 .. n : i <= j => A[i] <= A[j]
  BY DEF Stamped
<1>4. \A i \in 1 .. k : <<gs[i], hi2>> \in R
  OBVIOUS
<1> DEFINE B == [i \in 1 .. n + k |-> IF i <= n THEN A[i] ELSE hi2]
<1> HIDE DEF n, k, u
<1>5. \A i \in 1 .. n : A[i] \in Int /\ lo <= A[i] /\ A[i] <= hi
  BY <1>3
<1>6. ASSUME NEW i \in 1 .. n + k PROVE B[i] \in lo .. hi2 /\ <<u[i], B[i]>> \in R
  <2>1. CASE i <= n
    <3>1. i \in 1 .. n
      BY <1>1, <2>1
    <3>2. B[i] = A[i] /\ u[i] = fs[i]
      BY <1>2, <2>1
    <3>3. A[i] \in lo .. hi2
      BY <1>5, <3>1
    <3> QED BY <1>3, <3>1, <3>2, <3>3
  <2>2. CASE ~(i <= n)
    <3>1. i - n \in 1 .. k
      BY <1>1, <2>2
    <3>2. B[i] = hi2 /\ u[i] = gs[i - n]
      BY <1>2, <2>2
    <3> QED BY <1>4, <3>1, <3>2
  <2> QED BY <2>1, <2>2
<1>7. ASSUME NEW i \in 1 .. n + k, NEW j \in 1 .. n + k, i <= j PROVE B[i] <= B[j]
  <2>1. CASE j <= n
    <3>1. i \in 1 .. n /\ j \in 1 .. n /\ B[i] = A[i] /\ B[j] = A[j]
      BY <1>1, <1>7, <2>1
    <3> QED BY <1>3, <1>7, <3>1
  <2>2. CASE ~(j <= n)
    <3>1. B[j] = hi2
      BY <2>2
    <3> QED BY <1>6, <3>1
  <2> QED BY <2>1, <2>2
<1>8. B \in [1 .. n + k -> lo .. hi2]
  BY <1>6
<1> HIDE DEF B
<1>9. Stamped(u, lo, hi2, R)
  BY <1>2, <1>6, <1>7, <1>8 DEF Stamped
<1> QED BY <1>9 DEF u

LEMMA StampedTail ==
  ASSUME NEW X, NEW fs \in Seq(X), fs # <<>>, NEW lo \in Int, NEW hi \in Int, NEW R,
         Stamped(fs, lo, hi, R)
  PROVE  \E b \in lo .. hi : <<Head(fs), b>> \in R /\ Stamped(Tail(fs), b, hi, R)
<1> DEFINE n == Len(fs)
           t == Tail(fs)
<1>1. /\ Head(fs) = fs[1] /\ n \in Nat /\ n > 0 /\ Len(t) = n - 1
      /\ \A i \in 1 .. n - 1 : t[i] = fs[i + 1]
  BY RangeTail
<1>2. PICK A \in [1 .. n -> lo .. hi] :
             /\ \A i \in 1 .. n : <<fs[i], A[i]>> \in R
             /\ \A i, j \in 1 .. n : i <= j => A[i] <= A[j]
  BY DEF Stamped
<1> DEFINE B == [i \in 1 .. n - 1 |-> A[i + 1]]
           b == A[1]
<1> HIDE DEF n, t
<1>3. 1 \in 1 .. n /\ \A i \in 1 .. n - 1 : i + 1 \in 1 .. n /\ 1 <= i + 1
  BY <1>1
<1>4. \A i \in 1 .. n : A[i] \in lo .. hi /\ A[i] \in Int /\ A[1] <= A[i]
  BY <1>2, <1>3
<1>5. ASSUME NEW i \in 1 .. n - 1 PROVE B[i] \in b .. hi /\ <<t[i], B[i]>> \in R
  <2>1. B[i] = A[i + 1] /\ t[i] = fs[i + 1] /\ i + 1 \in 1 .. n
    BY <1>1, <1>3
  <2>2. A[i + 1] \in lo .. hi /\ A[i + 1] \in Int /\ A[1] <= A[i + 1] /\ A[1] \in Int
    BY <1>3, <1>4, <2>1
  <2>3. <<fs[i + 1], A[i + 1]>> \in R
    BY <1>2, <2>1
  <2> QED BY <2>1, <2>2, <2>3
<1>6. ASSUME NEW i \in 1 .. n - 1, NEW j \in 1 .. n - 1, i <= j PROVE B[i] <= B[j]
  <2>1. i + 1 <= j + 1 /\ i + 1 \in 1 .. n /\ j + 1 \in 1 .. n
    BY <1>3, <1>6
  <2> QED BY <1>2, <2>1
<1>7. B \in [1 .. n - 1 -> b .. hi]
  BY <1>5
<1>8. b \in lo .. hi /\ <<Head(fs), b>> \in R
  BY <1>1, <1>2, <1>3, <1>4
<1> HIDE DEF B, b
<1>9. Stamped(t, b, hi, R)
  BY <1>1, <1>5, <1>6, <1>7 DEF Stamped
<1> QED BY <1>8, <1>9 DEF t
-----------------------------------------------------------------------------
(***************************************************************************)
(* Before the handshake is through, the engine holds and keeps nothing.    *)
(* What it writes acknowledges what it has received when it writes it.     *)
(***************************************************************************)
Starting == {"Idle", "Detect", "Negotiate"}
Marked(x) == x.state # "Dead" => (x.marker <=> x.state \in {"Idle", "Detect"})
Blank(x) == x.state \in Starting =>
              /\ x.held = <<>> /\ x.cum = 0 /\ x.unack = <<>> /\ x.acked = None /\ x.sent = OwnPsn
Pristine(x) == Marked(x) /\ Blank(x)

Says(fs, v) == \A i \in 1 .. Len(fs) : "ACK" \in fs[i].bits => fs[i].ack = v
Mute(fs) == \A i \in 1 .. Len(fs) : "ACK" \notin fs[i].bits

(* A handler that neither receives nor delivers.                           *)
Quiet(x, r) ==
  /\ r.e.recv = x.recv /\ r.e.held = x.held /\ r.up = <<>> /\ Says(r.out, x.recv)
  /\ r.e.state \in Starting => x.state \in Starting
  /\ Pristine(x) => Pristine(r.e) /\ (r.e.state \in Starting => Mute(r.out))

LEMMA SaysParts ==
  /\ \A v : Says(<<>>, v) /\ Mute(<<>>)
  /\ \A f : ("ACK" \in f.bits => FALSE) => Mute(<<f>>) /\ \A v : Says(<<f>>, v)
  /\ \A f, v : f.ack = v => Says(<<f>>, v)
<1>1. \A f : Len(<<f>>) = 1 /\ <<f>>[1] = f
  OBVIOUS
<1>2. Len(<<>>) = 0 /\ \A i : i \notin 1 .. 0
  OBVIOUS
<1>3. \A i \in 1 .. 1 : i = 1
  OBVIOUS
<1>4. \A f, v : f.ack = v => Says(<<f>>, v)
  BY <1>1, <1>3, Zenon DEF Says
<1>5. \A f : ("ACK" \in f.bits => FALSE) => Mute(<<f>>) /\ \A v : Says(<<f>>, v)
  BY <1>1, <1>3, Zenon DEF Says, Mute
<1> QED BY <1>2, <1>4, <1>5 DEF Says, Mute

LEMMA SaysConcat ==
  ASSUME NEW X, NEW fs \in Seq(X), NEW gs \in Seq(X)
  PROVE  /\ \A v : Says(fs, v) /\ Says(gs, v) => Says(fs \o gs, v)
         /\ Mute(fs) /\ Mute(gs) => Mute(fs \o gs)
<1> DEFINE u == fs \o gs
<1>1. Len(fs) \in Nat /\ Len(gs) \in Nat
  BY SeqParts
<1>2. /\ Len(u) = Len(fs) + Len(gs)
      /\ \A i \in 1 .. Len(fs) + Len(gs) : u[i] = IF i <= Len(fs) THEN fs[i] ELSE gs[i - Len(fs)]
  BY ConcatProperties
<1> HIDE DEF u
<1>3. ASSUME NEW i \in 1 .. Len(u)
      PROVE  \/ i \in 1 .. Len(fs) /\ u[i] = fs[i]
             \/ i - Len(fs) \in 1 .. Len(gs) /\ u[i] = gs[i - Len(fs)]
  BY <1>1, <1>2
<1>4. \A v : Says(fs, v) /\ Says(gs, v) => Says(u, v)
  BY <1>3, Zenon DEF Says
<1>5. Mute(fs) /\ Mute(gs) => Mute(u)
  BY <1>3, Zenon DEF Mute
<1> QED BY <1>4, <1>5 DEF u

LEMMA FramesSay ==
  ASSUME NEW x
  PROVE  /\ AckOf(x).ack = x.recv /\ \A u : DataOf(x, u).ack = x.recv
         /\ "ACK" \notin Marker.bits /\ "ACK" \notin SynOf(x).bits
         /\ \A K : "ACK" \notin Frame({"EAK"}, x.sent, x.recv, NoMsg, K).bits
BY DEF AckOf, DataOf, Marker, SynOf, Frame

(* The engine after a write, and what it has not changed.                  *)
LEMMA WriteParts ==
  ASSUME NEW y \in Engines, NEW fs
  PROVE  /\ Write(y, fs).out = fs /\ Write(y, fs).up = <<>>
         /\ \A h \in Fields \ {"cum"} : Write(y, fs).e[h] = y[h]
         /\ Write(y, fs).e.cum \in {0, y.cum}
<1> DEFINE z == [y EXCEPT !.cum = 0]
<1>1. z.cum = 0 /\ \A h \in Fields \ {"cum"} : z[h] = y[h]
  BY DEF Fields, Engines
<1> HIDE DEF z
<1>2. Write(y, fs) = [e |-> IF fs = <<>> THEN y ELSE z, out |-> fs, up |-> <<>>]
  BY DEF Write, z
<1> QED BY <1>1, <1>2 DEF Fields

LEMMA QuietWrite ==
  ASSUME NEW x, NEW y \in Engines, NEW fs, y.recv = x.recv, y.held = x.held, Says(fs, x.recv),
         y.state \in Starting => x.state \in Starting,
         Pristine(x) => Pristine(y) /\ (y.state \in Starting => Mute(fs))
  PROVE  Quiet(x, Write(y, fs))
<1> DEFINE r == Write(y, fs)
<1>1. /\ r.out = fs /\ r.up = <<>> /\ r.e.cum \in {0, y.cum}
      /\ \A h \in Fields \ {"cum"} : r.e[h] = y[h]
  BY WriteParts
<1> HIDE DEF r
<1>2. /\ r.e.state = y.state /\ r.e.marker = y.marker /\ r.e.recv = y.recv /\ r.e.held = y.held
      /\ r.e.unack = y.unack /\ r.e.acked = y.acked /\ r.e.sent = y.sent
  BY <1>1 DEF Fields
<1>3. Pristine(y) => Pristine(r.e)
  BY <1>1, <1>2 DEF Pristine, Marked, Blank
<1>4. Quiet(x, r)
  BY <1>1, <1>2, <1>3 DEF Quiet
<1> QED BY <1>4 DEF r

LEMMA QuietRet ==
  ASSUME NEW x, NEW y, y.recv = x.recv, y.held = x.held,
         y.state \in Starting => x.state \in Starting, Pristine(x) => Pristine(y)
  PROVE  Quiet(x, Ret(y))
<1>1. Ret(y).e = y /\ Ret(y).out = <<>> /\ Ret(y).up = <<>>
  BY DEF Ret
<1> QED BY <1>1, SaysParts DEF Quiet

LEMMA QuietThen ==
  ASSUME NEW x, NEW r, NEW s, RetOK(r), RetOK(s), Quiet(x, r), Quiet(r.e, s)
  PROVE  Quiet(x, Then(r, s))
<1>1. Then(r, s).e = s.e /\ Then(r, s).out = r.out \o s.out /\ Then(r, s).up = r.up \o s.up
  BY DEF Then
<1>2. Says(r.out \o s.out, x.recv) /\ (Mute(r.out) /\ Mute(s.out) => Mute(r.out \o s.out))
  BY SaysConcat DEF RetOK, Quiet
<1>3. r.up \o s.up = <<>>
  BY DEF Quiet
<1> QED BY <1>1, <1>2, <1>3 DEF Quiet

LEMMA TransmitQuiet ==
  ASSUME NEW x, EngineOK(x), NEW ms \in Seq(1 .. MaxOut), x.state \notin Starting
  PROVE  Quiet(x, Transmit(x, ms)) /\ Transmit(x, ms).e.state = x.state
<1> DEFINE new == [i \in 1 .. Len(ms) |-> [psn |-> Next8(x.sent, i), m |-> ms[i], n |-> 0]]
           y == [x EXCEPT !.sent = Next8(@, Len(ms)), !.delayed = FALSE, !.lastAcked = x.recv]
           z == IF x.lsp.max_retransmissions > 0
                THEN [y EXCEPT !.unack = @ \o new, !.resend = TRUE,
                               !.due = @ \o [i \in 1 .. Len(ms) |-> new[i].psn]]
                ELSE [y EXCEPT !.acked = y.sent]
           w == IF ms = <<>> THEN x ELSE z
           fs == [i \in 1 .. Len(ms) |-> DataOf(x, new[i])]
<1>1. Len(ms) \in Nat
  BY SeqParts
<1>2. Says(fs, x.recv)
  <2>1. \A i \in 1 .. Len(ms) : fs[i].ack = x.recv
    BY FramesSay
  <2>2. DOMAIN fs = 1 .. Len(ms)
    OBVIOUS
  <2>3. Len(fs) = Len(ms)
    <3>1. fs \in [1 .. Len(ms) -> {fs[i] : i \in 1 .. Len(ms)}]
      OBVIOUS
    <3> HIDE DEF fs
    <3> QED BY <1>1, <3>1, FunSeq
  <2> QED BY <2>1, <2>3 DEF Says
<1>3. w.state = x.state /\ w.marker = x.marker /\ w.recv = x.recv /\ w.held = x.held
  BY DEF EngineOK, Engines
<1>4. RetOK(Transmit(x, ms)) /\ Transmit(x, ms) = Write(w, fs)
  BY TransmitOK DEF Transmit
<1> HIDE DEF w, fs
<1>5. Pristine(x) => Pristine(w)
  BY <1>3 DEF Pristine, Marked, Blank
<1> DEFINE r == Write(w, fs)
<1>6. r.e = (IF fs = <<>> THEN w ELSE [w EXCEPT !.cum = 0]) /\ r.out = fs /\ r.up = <<>>
  BY DEF Write
<1>7. /\ r.e.state = w.state /\ r.e.marker = w.marker /\ r.e.recv = w.recv /\ r.e.held = w.held
  <2>1. CASE fs = <<>>
    BY <1>6, <2>1
  <2>2. CASE fs # <<>>
    <3>1. r.e = [w EXCEPT !.cum = 0]
      BY <1>6, <2>2
    <3>2. r.e \in Engines
      BY <1>4 DEF RetOK, EngineOK
    <3> QED BY <3>1, <3>2
  <2> QED BY <2>1, <2>2
<1> HIDE DEF r
<1>8. Pristine(x) => Pristine(r.e)
  BY <1>3, <1>7 DEF Pristine, Marked, Blank
<1>9. Quiet(x, r) /\ r.e.state = x.state
  BY <1>2, <1>3, <1>6, <1>7, <1>8 DEF Quiet
<1> QED BY <1>4, <1>9 DEF r
LEMMA SendPacketQuiet ==
  ASSUME NEW x, EngineOK(x), NEW m \in 1 .. MaxOut PROVE Quiet(x, SendPacket(x, m))
<1> DEFINE y == [x EXCEPT !.queue = Append(@, m)]
<1>1. CASE Distance(x.sent, x.acked) > x.lsp.max_outgoing \/ x.state # "Normal"
  <2>1. SendPacket(x, m) = Ret(y)
    BY <1>1 DEF SendPacket
  <2>2. /\ y.recv = x.recv /\ y.held = x.held /\ y.state = x.state /\ y.marker = x.marker
        /\ y.unack = x.unack /\ y.acked = x.acked /\ y.sent = x.sent /\ y.cum = x.cum
    BY DEF EngineOK, Engines
  <2> HIDE DEF y
  <2>3. Pristine(x) => Pristine(y)
    BY <2>2 DEF Pristine, Marked, Blank
  <2> QED BY <2>1, <2>2, <2>3, QuietRet
<1>2. CASE ~(Distance(x.sent, x.acked) > x.lsp.max_outgoing \/ x.state # "Normal")
  <2>1. SendPacket(x, m) = Transmit(x, <<m>>) /\ x.state \notin Starting
    BY <1>2 DEF SendPacket, Starting
  <2> QED BY <2>1, One, TransmitQuiet
<1> QED BY <1>1, <1>2

(* An ack ends the handshake.                                              *)
LEMMA AckStep ==
  ASSUME NEW x, EngineOK(x), Marked(x), x.state \notin {"Idle", "Detect"}, NEW num \in Psn \cup {None}
  PROVE  LET r == HandleAck(x, num)
         IN  /\ r.e.recv = x.recv /\ r.e.held = x.held /\ r.up = <<>> /\ Says(r.out, x.recv)
             /\ r.e.state \notin Starting /\ Pristine(r.e)
<1> DEFINE y == Acknowledge(x, num)
           n == Room(y)
           q == SubSeq(y.queue, n + 1, Len(y.queue))
           z == [y EXCEPT !.queue = SubSeq(@, n + 1, Len(@))]
           ms == SubSeq(y.queue, 1, n)
<1>1. /\ EngineOK(y) /\ \A h \in Fields \ {"state", "acked", "unack", "due", "resend"} : y[h] = x[h]
      /\ y.state = IF x.state = "Negotiate" THEN "Normal" ELSE x.state
  BY AcknowledgeOK
<1> HIDE DEF y
<1>2. /\ y.recv = x.recv /\ y.held = x.held /\ y.marker = x.marker
      /\ y.state \notin Starting /\ y.state \in {"Normal", "Dead"}
  BY <1>1 DEF Fields, EngineOK, Engines, Starting
<1>3. y \in Engines /\ y.queue \in Seq(1 .. MaxOut)
  BY <1>1 DEF EngineOK, Engines
<1>4. n \in 0 .. Len(y.queue)
  BY <1>3, RoomIn
<1> HIDE DEF n
<1>5. n + 1 \in 1 .. Len(y.queue) + 1
  BY <1>3, <1>4, SeqParts
<1>6. q \in Seq(1 .. MaxOut) /\ ms \in Seq(1 .. MaxOut)
  BY <1>3, <1>4, <1>5, SuffixOK, PrefixOK
<1>7. z = [y EXCEPT !.queue = q]
  BY <1>3 DEF Engines
<1> HIDE DEF q, ms
<1>8. /\ z \in Engines /\ z.due = y.due /\ z.unack = y.unack /\ z.recv = y.recv
      /\ z.held = y.held /\ z.marker = y.marker /\ z.state = y.state
  BY <1>3, <1>6, <1>7 DEF Engines
<1>9. HandleAck(x, num) = Transmit(z, ms)
  BY DEF HandleAck, y, n, ms
<1> HIDE DEF z
<1>10. Quiet(z, Transmit(z, ms)) /\ Transmit(z, ms).e.state = z.state
  BY <1>1, <1>2, <1>6, <1>8, SameAligned, TransmitQuiet
<1>11. Marked(z)
  BY <1>1, <1>2, <1>8 DEF Marked, Starting
<1>12. Pristine(z)
  BY <1>2, <1>8, <1>11 DEF Pristine, Blank
<1> QED BY <1>2, <1>8, <1>9, <1>10, <1>12 DEF Quiet

LEMMA HandleEakQuiet ==
  ASSUME NEW x, EngineOK(x), NEW K PROVE Quiet(x, HandleEak(x, K))
<1> DEFINE hit == HitBy(x, K)
           a == AgainBy(x, K)
           z == [x EXCEPT !.unack = a, !.delayed = FALSE, !.resend = TRUE]
           fs == [i \in DOMAIN hit |-> DataOf(x, hit[i])]
           died == \E i \in DOMAIN hit : hit[i].n + 1 = x.lsp.max_retransmissions
<1>1. x \in Engines
  BY DEF EngineOK
<1>2. HandleEak(x, K) = IF x.state # "Normal" \/ hit = <<>> THEN Ret(x)
                        ELSE IF died THEN Ret(Bailout(x)) ELSE Write(z, fs)
  BY DEF HandleEak, HitBy, AgainBy
<1>3. hit \in Seq(Packets) /\ a \in Seq(Packets)
  BY <1>1, AgainOK
<1> HIDE DEF hit, a
<1>4. /\ z \in Engines /\ z.recv = x.recv /\ z.held = x.held /\ z.marker = x.marker
      /\ z.state = x.state
  BY <1>1, <1>3 DEF Engines
<1> HIDE DEF z, died
<1>5. Says(fs, x.recv)
  <2>1. Len(fs) = Len(hit) /\ DOMAIN hit = 1 .. Len(hit)
    BY <1>1, <1>3, DatasOK, SeqParts
  <2>2. \A i \in 1 .. Len(fs) : fs[i].ack = x.recv
    BY <2>1, FramesSay
  <2> QED BY <2>2 DEF Says
<1> HIDE DEF fs
<1>6. CASE x.state # "Normal" \/ hit = <<>>
  BY <1>2, <1>6, QuietRet
<1>7. CASE x.state = "Normal" /\ hit # <<>> /\ died
  <2>1. /\ Bailout(x).recv = x.recv /\ Bailout(x).held = x.held /\ Bailout(x).state = "Dead"
    BY <1>1 DEF Bailout, Engines
  <2>2. Pristine(Bailout(x)) /\ Bailout(x).state \notin Starting
    BY <2>1 DEF Pristine, Marked, Blank, Starting
  <2> QED BY <1>2, <1>7, <2>1, <2>2, QuietRet
<1>8. CASE x.state = "Normal" /\ hit # <<>> /\ ~died
  <2>1. z.state \notin Starting /\ (Pristine(x) => Pristine(z))
    BY <1>4, <1>8 DEF Pristine, Marked, Blank, Starting
  <2> QED BY <1>2, <1>4, <1>5, <1>8, <2>1, QuietWrite
<1> QED BY <1>6, <1>7, <1>8

LEMMA CumulativeQuiet ==
  ASSUME NEW x, EngineOK(x) PROVE Quiet(x, Cumulative(x))
<1> DEFINE y == [x EXCEPT !.lastAcked = x.recv]
           fs == <<AckOf(x)>>
<1>1. /\ y \in Engines /\ y.recv = x.recv /\ y.held = x.held /\ y.marker = x.marker
      /\ y.state = x.state /\ y.unack = x.unack /\ y.acked = x.acked /\ y.sent = x.sent
      /\ y.cum = x.cum
  BY DEF EngineOK, Engines
<1>2. Cumulative(x) = IF x.lsp.max_ack = 0 \/ x.cum < x.lsp.max_ack \/ x.state = "Dead"
                      THEN Ret(x) ELSE Write(y, fs)
  BY DEF Cumulative
<1> HIDE DEF y
<1>3. Says(fs, x.recv)
  BY SaysParts, FramesSay
<1> HIDE DEF fs
<1>4. Pristine(x) => Pristine(y)
  BY <1>1 DEF Pristine, Marked, Blank
<1>5. Blank(x) /\ x.state \in Starting => x.lsp.max_ack = 0 \/ x.cum < x.lsp.max_ack
  <2>1. PICK a : a = x.lsp.max_ack
    OBVIOUS
  <2>2. a \in 0 .. 255
    BY <2>1, LspsOK DEF EngineOK
  <2>3. a = 0 \/ 0 < a
    BY <2>2
  <2> QED BY <2>1, <2>3, Zenon DEF Blank
<1>6. CASE x.lsp.max_ack = 0 \/ x.cum < x.lsp.max_ack \/ x.state = "Dead"
  BY <1>2, <1>6, QuietRet
<1>7. CASE ~(x.lsp.max_ack = 0 \/ x.cum < x.lsp.max_ack \/ x.state = "Dead")
  <2>1. Pristine(x) => (y.state \in Starting => Mute(fs))
    BY <1>1, <1>5, <1>7 DEF Pristine
  <2> QED BY <1>1, <1>2, <1>3, <1>4, <1>7, <2>1, QuietWrite
<1> QED BY <1>6, <1>7

(* A SYN is taken in "Negotiate" only.                                     *)
LEMMA SynStep ==
  ASSUME NEW x, EngineOK(x), NEW f \in Frames(MaxIn)
  PROVE  LET r == HandleSyn(x, f)
         IN  /\ r.up = <<>> /\ r.e.held = x.held /\ r.e.state = x.state /\ r.e.marker = x.marker
             /\ Pristine(x) => Pristine(r.e)
             /\ r.e.recv = IF x.state = "Negotiate" THEN f.seq ELSE x.recv
             /\ Says(r.out, r.e.recv) /\ (x.state # "Negotiate" => r = Ret(x))
<1> DEFINE y == [x EXCEPT !.lsp = Lsp, !.recv = f.seq, !.lastAcked = f.seq]
           fs == <<AckOf(y)>>
<1>1. /\ y \in Engines /\ y.recv = f.seq /\ y.held = x.held /\ y.marker = x.marker
      /\ y.state = x.state /\ y.unack = x.unack /\ y.acked = x.acked /\ y.sent = x.sent
      /\ y.cum = x.cum
  BY DEF EngineOK, Engines, Frames
<1>2. HandleSyn(x, f) = IF x.state # "Negotiate" THEN Ret(x) ELSE Write(y, fs)
  BY DEF HandleSyn
<1> HIDE DEF y
<1>3. Says(fs, y.recv)
  BY SaysParts, FramesSay
<1> HIDE DEF fs
<1> DEFINE r == Write(y, fs)
<1>4. /\ r.out = fs /\ r.up = <<>> /\ r.e.cum \in {0, y.cum}
      /\ \A h \in Fields \ {"cum"} : r.e[h] = y[h]
  BY <1>1, WriteParts
<1> HIDE DEF r
<1>5. /\ r.e.state = y.state /\ r.e.marker = y.marker /\ r.e.recv = y.recv /\ r.e.held = y.held
      /\ r.e.unack = y.unack /\ r.e.acked = y.acked /\ r.e.sent = y.sent
  BY <1>4 DEF Fields
<1>6. Pristine(x) => Pristine(r.e)
  BY <1>1, <1>4, <1>5 DEF Pristine, Marked, Blank
<1>7. CASE x.state = "Negotiate"
  BY <1>1, <1>2, <1>3, <1>4, <1>5, <1>6, <1>7 DEF r
<1>8. CASE x.state # "Negotiate"
  <2>1. Ret(x).e = x /\ Ret(x).out = <<>> /\ Ret(x).up = <<>>
    BY DEF Ret
  <2> QED BY <1>2, <1>8, <2>1, SaysParts
<1> QED BY <1>7, <1>8

LEMMA OnExpectAckTimerQuiet ==
  ASSUME NEW x, EngineOK(x) PROVE Quiet(x, OnExpectAckTimer(x))
<1>1. x \in Engines
  BY DEF EngineOK
<1>2. CASE OnExpectAckTimer(x) = Ret([x EXCEPT !.resend = FALSE])
  <2> DEFINE y == [x EXCEPT !.resend = FALSE]
  <2>1. /\ y.recv = x.recv /\ y.held = x.held /\ y.state = x.state /\ y.marker = x.marker
        /\ y.unack = x.unack /\ y.acked = x.acked /\ y.sent = x.sent /\ y.cum = x.cum
    BY <1>1 DEF Engines
  <2>2. OnExpectAckTimer(x) = Ret(y)
    BY <1>2
  <2> HIDE DEF y
  <2>3. Pristine(x) => Pristine(y)
    BY <2>1 DEF Pristine, Marked, Blank
  <2> QED BY <2>1, <2>2, <2>3, QuietRet
<1>3. CASE OnExpectAckTimer(x) = Ret(Bailout(x))
  <2>1. /\ Bailout(x).recv = x.recv /\ Bailout(x).held = x.held /\ Bailout(x).state = "Dead"
    BY <1>1 DEF Bailout, Engines
  <2>2. Pristine(Bailout(x)) /\ Bailout(x).state \notin Starting
    BY <2>1 DEF Pristine, Marked, Blank, Starting
  <2> QED BY <1>3, <2>1, <2>2, QuietRet
<1>4. CASE /\ x.unack # <<>>
           /\ OnExpectAckTimer(x) = Write(Repeated(x), <<DataOf(x, x.unack[Oldest(x)])>>)
  <2> DEFINE y == Repeated(x)
             fs == <<DataOf(x, x.unack[Oldest(x)])>>
  <2>1. EngineOK(y) /\ \A h \in Fields \ {"unack", "due", "resend"} : y[h] = x[h]
    BY <1>4, RepeatedOK
  <2>2. Says(fs, x.recv)
    BY SaysParts, FramesSay
  <2>3. OnExpectAckTimer(x) = Write(y, fs)
    BY <1>4
  <2> HIDE DEF y, fs
  <2>4. /\ y \in Engines /\ y.recv = x.recv /\ y.held = x.held /\ y.state = x.state
        /\ y.marker = x.marker
    BY <2>1 DEF Fields, EngineOK
  <2>5. Blank(x) => x.state \notin Starting
    BY <1>4 DEF Blank
  <2>6. Pristine(x) => Pristine(y) /\ (y.state \in Starting => Mute(fs))
    BY <2>4, <2>5 DEF Pristine, Marked, Blank
  <2> QED BY <2>2, <2>3, <2>4, <2>6, QuietWrite
<1> QED BY <1>2, <1>3, <1>4, OnExpectAckTimerParts
-----------------------------------------------------------------------------
(***************************************************************************)
(* Receiving.  The engine has delivered the phone's messages 1 .. r, and   *)
(* its recv stands for r; it holds packets from r + 2 on.                  *)
(***************************************************************************)
Holds(x, r, s, t) ==
  \A q \in Range(x.held) : q.psn = PhonePsn(q.m) /\ q.m \in r + 2 .. s /\ q.m <= t

(* The numbers from lo + 1 to hi, in order; each may come several times.   *)
RunsOn(d, lo, hi) ==
  /\ Range(d) = lo + 1 .. hi
  /\ \A i \in DOMAIN d : {d[j] : j \in 1 .. i} = lo + 1 .. d[i]

LEMMA RunsOnEmpty == \A r \in Nat : RunsOn(<<>>, r, r)
<1>1. Range(<<>>) = {} /\ DOMAIN <<>> = {}
  BY DEF Range
<1>2. \A r \in Nat : r + 1 .. r = {}
  OBVIOUS
<1> QED BY <1>1, <1>2 DEF RunsOn

LEMMA RunsOnConcat ==
  ASSUME NEW d \in Seq(Nat), NEW t \in Seq(Nat), NEW lo \in Nat, NEW r \in Nat, NEW r2 \in Nat,
         lo <= r, r <= r2, RunsOn(d, lo, r), RunsOn(t, r, r2)
  PROVE  RunsOn(d \o t, lo, r2)
<1> DEFINE u == d \o t
           n == Len(d)
<1>1. /\ n \in Nat /\ DOMAIN d = 1 .. n /\ Len(t) \in Nat /\ DOMAIN t = 1 .. Len(t)
      /\ \A i \in 1 .. n : d[i] \in Nat
      /\ \A i \in 1 .. Len(t) : t[i] \in Nat
  BY SeqParts
<1>2. /\ u \in Seq(Nat) /\ Len(u) = n + Len(t)
      /\ \A i \in 1 .. n : u[i] = d[i]
      /\ \A i \in 1 .. Len(t) : u[i + n] = t[i]
      /\ Range(u) = Range(d) \cup Range(t)
  <2>1. u \in Seq(Nat) /\ Len(u) = n + Len(t)
    BY ConcatProperties
  <2>2. \A i \in 1 .. n + Len(t) : u[i] = IF i <= n THEN d[i] ELSE t[i - n]
    BY ConcatProperties
  <2>3. Range(u) = Range(d) \cup Range(t)
    BY RangeConcat
  <2> HIDE DEF u, n
  <2>4. ASSUME NEW i \in 1 .. n PROVE u[i] = d[i]
    <3>1. i \in 1 .. n + Len(t) /\ i <= n
      BY <1>1
    <3> QED BY <2>2, <3>1
  <2>5. ASSUME NEW i \in 1 .. Len(t) PROVE u[i + n] = t[i]
    <3>1. i + n \in 1 .. n + Len(t) /\ ~(i + n <= n) /\ (i + n) - n = i
      BY <1>1
    <3> QED BY <2>2, <3>1
  <2> QED BY <2>1, <2>3, <2>4, <2>5
<1>3. DOMAIN u = 1 .. n + Len(t)
  BY <1>2, SeqParts
<1> HIDE DEF u, n
<1>4. Range(u) = lo + 1 .. r2
  BY <1>2 DEF RunsOn
<1>5. ASSUME NEW i \in 1 .. n PROVE {u[j] : j \in 1 .. i} = lo + 1 .. u[i]
  <2>1. {d[j] : j \in 1 .. i} = lo + 1 .. d[i]
    BY <1>1 DEF RunsOn
  <2>2. \A j \in 1 .. i : j \in 1 .. n
    BY <1>1
  <2> QED BY <1>2, <2>1, <2>2
<1>6. ASSUME NEW k \in 1 .. Len(t) PROVE {u[j] : j \in 1 .. k + n} = lo + 1 .. u[k + n]
  <2>1. {t[j] : j \in 1 .. k} = r + 1 .. t[k] /\ t[k] \in Range(t) /\ Range(t) = r + 1 .. r2
    BY <1>1 DEF RunsOn, Range
  <2>2. {d[j] : j \in 1 .. n} = lo + 1 .. r
    BY <1>1 DEF RunsOn, Range
  <2>3. {u[j] : j \in 1 .. k + n} = {d[j] : j \in 1 .. n} \cup {t[j] : j \in 1 .. k}
    <3>1. ASSUME NEW j \in 1 .. k + n
          PROVE  u[j] \in {d[h] : h \in 1 .. n} \cup {t[h] : h \in 1 .. k}
      <4>1. CASE j <= n
        <5>1. j \in 1 .. n
          BY <1>1, <4>1
        <5> QED BY <1>2, <5>1
      <4>2. CASE ~(j <= n)
        <5>1. j - n \in 1 .. k /\ j - n \in 1 .. Len(t) /\ (j - n) + n = j
          BY <1>1, <4>2
        <5>2. u[j] = t[j - n]
          BY <1>2, <5>1
        <5> QED BY <5>1, <5>2
      <4> QED BY <4>1, <4>2
    <3>2. ASSUME NEW h \in 1 .. n PROVE d[h] \in {u[j] : j \in 1 .. k + n}
      <4>1. h \in 1 .. k + n
        BY <1>1
      <4> QED BY <1>2, <4>1
    <3>3. ASSUME NEW h \in 1 .. k PROVE t[h] \in {u[j] : j \in 1 .. k + n}
      <4>1. h + n \in 1 .. k + n /\ h \in 1 .. Len(t)
        BY <1>1
      <4> QED BY <1>2, <4>1
    <3> QED BY <3>1, <3>2, <3>3
  <2>4. u[k + n] = t[k] /\ t[k] \in r + 1 .. r2
    BY <1>2, <2>1
  <2>5. (lo + 1 .. r) \cup (r + 1 .. t[k]) = lo + 1 .. t[k]
    <3>1. PICK y \in r + 1 .. r2 : y = t[k]
      BY <2>4
    <3>2. (lo + 1 .. r) \cup (r + 1 .. y) = lo + 1 .. y
      OBVIOUS
    <3> QED BY <3>1, <3>2
  <2> QED BY <2>1, <2>2, <2>3, <2>4, <2>5
<1>7. ASSUME NEW i \in DOMAIN u PROVE {u[j] : j \in 1 .. i} = lo + 1 .. u[i]
  <2>1. CASE i <= n
    <3>1. i \in 1 .. n
      BY <1>1, <1>3, <2>1
    <3> QED BY <1>5, <3>1
  <2>2. CASE ~(i <= n)
    <3>1. i - n \in 1 .. Len(t) /\ (i - n) + n = i
      BY <1>1, <1>3, <2>2
    <3>2. PICK k \in 1 .. Len(t) : k + n = i
      BY <3>1
    <3> QED BY <1>6, <3>2
  <2> QED BY <2>1, <2>2
<1> QED BY <1>4, <1>7 DEF RunsOn, u

LEMMA WiderSeq ==
  ASSUME NEW X, NEW Y, NEW d \in Seq(X), \A v \in X : v \in Y PROVE d \in Seq(Y)
<1>1. Len(d) \in Nat /\ d \in [1 .. Len(d) -> X]
  BY SeqParts
<1>2. d \in [1 .. Len(d) -> Y]
  BY <1>1
<1> QED BY <1>1, <1>2, FunSeq

LEMMA SaidNothing == \A r \in Nat : RunsOn(Said(<<>>), r, r)
<1>1. Said(<<>>) = <<>>
  BY DEF Said
<1> QED BY <1>1, RunsOnEmpty

(* Numbers that never go back nor leave one out run on.                    *)
LEMMA Rising ==
  ASSUME NEW n \in Nat, NEW d \in Seq(Nat), Len(d) = n, NEW lo \in Nat,
         \A j, k \in 1 .. n : j <= k => d[j] <= d[k],
         \A j \in 1 .. n : d[j] > lo /\ d[j] <= (IF j = 1 THEN lo ELSE d[j - 1]) + 1
  PROVE  RunsOn(d, lo, IF n = 0 THEN lo ELSE d[n])
<1>1. DOMAIN d = 1 .. n /\ \A i \in 1 .. n : d[i] \in Nat
  BY SeqParts
<1>2. ASSUME NEW i \in 1 .. n PROVE {d[j] : j \in 1 .. i} = lo + 1 .. d[i]
  <2>1. ASSUME NEW j \in 1 .. i PROVE d[j] \in lo + 1 .. d[i]
    <3>1. j \in 1 .. n /\ j <= i
      OBVIOUS
    <3> QED BY <1>1, <3>1
  <2>2. ASSUME NEW x \in lo + 1 .. d[i] PROVE x \in {d[j] : j \in 1 .. i}
    <3> DEFINE N == {j \in 1 .. i : d[j] >= x}
    <3>1. N \in SUBSET Nat /\ i \in N
      BY <1>1
    <3> HIDE DEF N
    <3>2. PICK k : k = Least(N)
      OBVIOUS
    <3>3. k \in N /\ \A y \in N : k <= y
      BY <3>1, <3>2, LeastOf
    <3>4. k \in 1 .. i /\ d[k] >= x /\ k \in 1 .. n
      BY <3>3 DEF N
    <3>5. d[k] <= x
      <4>1. CASE k = 1
        BY <1>1, <3>4, <4>1
      <4>2. CASE k # 1
        <5>1. k - 1 \in 1 .. i /\ k - 1 \in 1 .. n /\ ~(k <= k - 1)
          BY <3>4, <4>2
        <5>2. ~(d[k - 1] >= x)
          BY <3>3, <5>1 DEF N
        <5>3. d[k] <= d[k - 1] + 1 /\ d[k] \in Nat /\ d[k - 1] \in Nat
          BY <1>1, <3>4, <4>2, <5>1
        <5> QED BY <5>2, <5>3
      <4> QED BY <4>1, <4>2
    <3>6. d[k] = x
      BY <1>1, <3>4, <3>5
    <3> QED BY <3>4, <3>6
  <2> QED BY <2>1, <2>2
<1>3. CASE n = 0
  BY <1>1, <1>2, <1>3 DEF RunsOn, Range
<1>4. CASE n # 0
  <2>1. n \in 1 .. n
    BY <1>4
  <2>2. Range(d) = lo + 1 .. d[n]
    BY <1>1, <1>2, <2>1 DEF Range
  <2> QED BY <1>1, <1>2, <1>4, <2>2 DEF RunsOn
<1> QED BY <1>3, <1>4

(* The next packet and those held behind it are delivered, up to the first *)
(* that is missing.                                                        *)
LEMMA DeliverStep ==
  ASSUME NEW x, EngineOK(x), NEW f \in Frames(MaxIn), f.m # NoMsg, f.seq = PhonePsn(f.m),
         NEW r \in Nat, NEW s \in Nat, NEW t \in Nat, x.recv = PhonePsn(r), Holds(x, r, s, t),
         f.m \in r + 1 .. s, f.m <= t, s - r <= 123, r <= s, r <= t
  PROVE  LET q == Deliver(x, f)
         IN  \E r2 \in r .. s :
               /\ r2 <= t /\ q.e.recv = PhonePsn(r2) /\ Holds(q.e, r2, s, t) /\ Says(q.out, q.e.recv)
               /\ q.e.state = x.state /\ q.e.marker = x.marker
               /\ RunsOn(Said(q.up), r, r2)
<1> DEFINE q == Deliver(x, f)
           all == AllHeld(x, f)
           line == LineOf(x, f)
           n == RunLength(x, f)
           M == Said(line)
           len == Len(line)
           r2 == IF n = 0 THEN r ELSE M[n]
<1>1. /\ all \in Seq(Parcels) /\ line \in Seq(Parcels) /\ Range(line) = Range(all)
      /\ \A j, k \in 1 .. len :
           j <= k => Distance(line[j].psn, x.recv) <= Distance(line[k].psn, x.recv)
      /\ n \in 0 .. len
      /\ \A j \in 1 .. n : j \notin GapsOf(x, f)
      /\ n < len => n + 1 \in GapsOf(x, f)
      /\ EngineOK(q.e) /\ q.up = SubSeq(line, 1, n) /\ q.up \in Seq(Parcels)
      /\ q.e.held = SubSeq(line, n + 1, len) /\ q.e.recv = LastOf(x, f, n)
      /\ \A h \in Fields \ {"held", "recv", "lastAcked", "delayed", "cum"} : q.e[h] = x[h]
      /\ q.out = <<>> \/ \E y \in Engines : q.out = <<AckOf(y)>> /\ y.recv = q.e.recv
  BY DeliverParts, Zenon
<1> HIDE DEF q
<1>2. Says(q.out, q.e.recv)
  <2>1. CASE q.out = <<>>
    BY <2>1, SaysParts
  <2>2. ASSUME NEW y \in Engines, q.out = <<AckOf(y)>>, y.recv = q.e.recv
        PROVE  Says(q.out, q.e.recv)
    <3>1. AckOf(y).ack = q.e.recv
      BY <2>2, FramesSay
    <3> QED BY <2>2, <3>1, SaysParts
  <2> QED BY <1>1, <2>1, <2>2
<1>3. q.e.state = x.state /\ q.e.marker = x.marker
  BY <1>1 DEF Fields
<1>4. /\ len \in Nat /\ DOMAIN line = 1 .. len /\ M \in Seq(1 .. MaxIn) /\ Len(M) = len
      /\ \A j \in 1 .. len : M[j] = line[j].m
  <2> HIDE DEF line
  <2> QED BY <1>1, SeqParts, SaidParts
<1>5. /\ \A j \in 1 .. len : j \in GapsOf(x, f) <=>
           Distance(line[j].psn, IF j = 1 THEN x.recv ELSE line[j - 1].psn) > 1
      /\ q.e.recv = IF n = 0 THEN x.recv ELSE line[n].psn
  <2>1. ASSUME NEW j \in 1 .. len
        PROVE  LastOf(x, f, j - 1) = IF j = 1 THEN x.recv ELSE line[j - 1].psn
    <3>1. j = 1 <=> j - 1 = 0
      OBVIOUS
    <3> QED BY <3>1 DEF LastOf
  <2>2. \A j : j \in GapsOf(x, f) <=>
          j \in DOMAIN line /\ Distance(line[j].psn, LastOf(x, f, j - 1)) > 1
    BY Zenon DEF GapsOf
  <2>3. LastOf(x, f, n) = IF n = 0 THEN x.recv ELSE line[n].psn
    BY DEF LastOf
  <2> HIDE DEF line, n
  <2> QED BY <1>1, <1>4, <2>1, <2>2, <2>3
<1>6. ASSUME NEW j \in 1 .. len
      PROVE  line[j].psn = PhonePsn(M[j]) /\ M[j] \in r + 1 .. s /\ M[j] <= t
  <2> DEFINE g == [psn |-> f.seq, m |-> f.m]
  <2>1. x.held \in Seq(Parcels) /\ g \in Parcels
    BY Iap2LinkAssumption DEF EngineOK, Engines, Frames, Parcels, NoMsg
  <2>2. Range(all) = Range(x.held) \cup {g}
    BY <2>1, RangeAppend DEF AllHeld
  <2>3. g.psn = PhonePsn(g.m) /\ g.m \in r + 1 .. s /\ g.m <= t
    OBVIOUS
  <2> HIDE DEF g, all, line, M
  <2>4. line[j] \in Range(x.held) \cup {g}
    BY <1>1, <1>4, <2>2 DEF Range
  <2>5. \A h \in r + 2 .. s : h \in r + 1 .. s
    OBVIOUS
  <2> QED BY <1>4, <2>3, <2>4, <2>5 DEF Holds
<1> HIDE DEF all, line, n, M, len
<1>7. ASSUME NEW j \in 1 .. len, NEW k \in 1 .. len, j <= k PROVE M[j] <= M[k]
  <2>1. PICK a \in r + 1 .. s, b \in r + 1 .. s : a = M[j] /\ b = M[k]
    BY <1>6
  <2>2. a - r \in 0 .. 255 /\ b - r \in 0 .. 255 /\ a \in Int /\ b \in Int /\ r \in Int
    OBVIOUS
  <2>3. Distance(PhonePsn(a), PhonePsn(r)) = a - r /\ Distance(PhonePsn(b), PhonePsn(r)) = b - r
    <3>1. Distance(PhonePsn(a), PhonePsn(r)) = a - r
      BY <2>2, PhoneDistance
    <3>2. Distance(PhonePsn(b), PhonePsn(r)) = b - r
      BY <2>2, PhoneDistance
    <3> QED BY <3>1, <3>2
  <2>4. Distance(line[j].psn, x.recv) <= Distance(line[k].psn, x.recv)
    BY <1>1, <1>7
  <2>5. a - r <= b - r
    <3>1. line[j].psn = PhonePsn(a) /\ line[k].psn = PhonePsn(b) /\ x.recv = PhonePsn(r)
      BY <1>6, <2>1
    <3> QED BY <2>3, <2>4, <3>1
  <2> QED BY <2>1, <2>5
<1>8. ASSUME NEW j \in 1 .. len
      PROVE  j \in GapsOf(x, f) <=> M[j] > (IF j = 1 THEN r ELSE M[j - 1]) + 1
  <2>1. PICK a \in r .. s : a = IF j = 1 THEN r ELSE M[j - 1]
    <3>1. j # 1 => j - 1 \in 1 .. len
      BY <1>4
    <3>2. j # 1 => M[j - 1] \in r .. s
      <4>1. \A h \in r + 1 .. s : h \in r .. s
        OBVIOUS
      <4> QED BY <1>6, <3>1, <4>1
    <3>3. r \in r .. s
      OBVIOUS
    <3> QED BY <3>2, <3>3
  <2>2. PICK b \in r + 1 .. s : b = M[j]
    BY <1>6
  <2>3. a <= b
    <3>1. j # 1 => j - 1 \in 1 .. len /\ j - 1 <= j
      BY <1>4
    <3>2. j # 1 => M[j - 1] <= M[j]
      BY <1>7, <3>1
    <3> QED BY <2>1, <2>2, <3>2
  <2>4. (IF j = 1 THEN x.recv ELSE line[j - 1].psn) = PhonePsn(a)
    <3>1. j # 1 => j - 1 \in 1 .. len
      BY <1>4
    <3> QED BY <1>6, <2>1, <3>1
  <2>5. Distance(PhonePsn(b), PhonePsn(a)) = b - a
    <3>1. b - a \in 0 .. 255 /\ a \in Int /\ b \in Int
      BY <2>3
    <3> QED BY <3>1, PhoneDistance
  <2>6. line[j].psn = PhonePsn(b)
    BY <1>6, <2>2
  <2>7. j \in GapsOf(x, f) <=> b - a > 1
    BY <1>5, <2>4, <2>5, <2>6
  <2>8. b - a > 1 <=> b > a + 1
    OBVIOUS
  <2> QED BY <2>1, <2>2, <2>7, <2>8
<1>9. n \in Nat /\ n <= len /\ \A j \in 1 .. n : j \in 1 .. len
  BY <1>1, <1>4
<1>10. r2 \in r .. s /\ r2 <= t /\ q.e.recv = PhonePsn(r2)
  <2>1. CASE n = 0
    BY <1>5, <2>1
  <2>2. CASE n # 0
    <3>1. n \in 1 .. len
      BY <1>9, <2>2
    <3>2. M[n] \in r + 1 .. s /\ M[n] <= t /\ line[n].psn = PhonePsn(M[n])
      BY <1>6, <3>1
    <3>3. \A h \in r + 1 .. s : h \in r .. s
      OBVIOUS
    <3> QED BY <1>5, <2>2, <3>2, <3>3
  <2> QED BY <2>1, <2>2
<1>11. RunsOn(Said(q.up), r, r2)
  <2> DEFINE d == Said(q.up)
  <2>1. Len(q.up) = n /\ \A j \in 1 .. n : q.up[j] = line[j]
    BY <1>1, <1>9, PrefixOK DEF len
  <2>2. d \in Seq(1 .. MaxIn) /\ Len(d) = n /\ \A j \in 1 .. n : d[j] = M[j]
    <3>1. d \in Seq(1 .. MaxIn) /\ Len(d) = n /\ \A j \in 1 .. n : d[j] = q.up[j].m
      BY <1>1, <2>1, SaidParts
    <3> HIDE DEF d
    <3> QED BY <1>4, <1>9, <2>1, <3>1
  <2> HIDE DEF d
  <2>3. \A j \in 1 .. n : d[j] \in r + 1 .. s
    BY <1>6, <1>9, <2>2
  <2>4. d \in Seq(Nat)
    <3>1. d \in [1 .. n -> 1 .. MaxIn]
      BY <2>2, SeqParts
    <3>2. d \in [1 .. n -> Nat]
      BY <2>3, <3>1
    <3> QED BY <1>9, <3>2, FunSeq
  <2>5. ASSUME NEW j \in 1 .. n, NEW k \in 1 .. n, j <= k PROVE d[j] <= d[k]
    BY <1>7, <1>9, <2>2, <2>5
  <2>6. ASSUME NEW j \in 1 .. n
        PROVE  d[j] > r /\ d[j] <= (IF j = 1 THEN r ELSE d[j - 1]) + 1
    <3>1. PICK a \in r + 1 .. s : a = d[j]
      BY <2>3
    <3>2. ~(M[j] > (IF j = 1 THEN r ELSE M[j - 1]) + 1)
      BY <1>1, <1>8, <1>9
    <3>3. j # 1 => j - 1 \in 1 .. n
      BY <1>9
    <3>4. PICK b \in Int : b = IF j = 1 THEN r ELSE d[j - 1]
      BY <2>3, <3>3
    <3>5. b = IF j = 1 THEN r ELSE M[j - 1]
      BY <2>2, <3>3, <3>4
    <3>6. a > r /\ a <= b + 1
      BY <2>2, <3>1, <3>2, <3>5
    <3> QED BY <3>1, <3>4, <3>6
  <2>7. RunsOn(d, r, IF n = 0 THEN r ELSE d[n])
    BY <1>9, <2>2, <2>4, <2>5, <2>6, Rising
  <2>8. n # 0 => d[n] = M[n]
    <3>1. n # 0 => n \in 1 .. n
      BY <1>9
    <3> QED BY <2>2, <3>1
  <2> QED BY <2>7, <2>8 DEF d
<1>12. Holds(q.e, r2, s, t)
  <2>1. n + 1 \in 1 .. len + 1
    BY <1>4, <1>9
  <2>2. /\ q.e.held \in Seq(Parcels) /\ Len(q.e.held) = len - (n + 1) + 1
        /\ \A i \in 1 .. len - (n + 1) + 1 : q.e.held[i] = line[n + 1 + i - 1]
    BY <1>1, <2>1, SuffixOK DEF len
  <2>3. DOMAIN q.e.held = 1 .. len - n
    <3>1. len - (n + 1) + 1 = len - n
      BY <1>4, <1>9
    <3> QED BY <2>2, <3>1, SeqParts
  <2>4. SUFFICES ASSUME NEW i \in 1 .. len - n
                 PROVE  /\ line[n + i].psn = PhonePsn(line[n + i].m)
                        /\ line[n + i].m \in r2 + 2 .. s /\ line[n + i].m <= t
    <3>1. ASSUME NEW i \in 1 .. len - n PROVE q.e.held[i] = line[n + i]
      <4>1. i \in 1 .. len - (n + 1) + 1 /\ n + 1 + i - 1 = n + i
        BY <1>4, <1>9
      <4> QED BY <2>2, <4>1
    <3> QED BY <2>3, <2>4, <3>1 DEF Holds, Range
  <2>5. n + i \in 1 .. len /\ n + 1 \in 1 .. len /\ n + 1 <= n + i /\ n < len
    BY <1>4, <1>9
  <2>6. PICK a \in r + 1 .. s, b \in r + 1 .. s : a = M[n + 1] /\ b = M[n + i]
    BY <1>6, <2>5
  <2>7. a <= b
    BY <1>7, <2>5, <2>6
  <2>8. a > r2 + 1
    <3>1. n + 1 \in GapsOf(x, f)
      BY <1>1, <2>5
    <3>2. (n + 1 = 1 <=> n = 0) /\ (n + 1) - 1 = n
      BY <1>9
    <3>3. (IF n + 1 = 1 THEN r ELSE M[(n + 1) - 1]) = r2
      BY <3>2
    <3> QED BY <1>8, <2>5, <2>6, <3>1, <3>3
  <2>9. b \in r2 + 2 .. s
    BY <1>10, <2>7, <2>8
  <2> QED BY <1>4, <1>6, <2>5, <2>6, <2>9
<1> HIDE DEF r2
<1>13. \E c \in r .. s :
         /\ c <= t /\ q.e.recv = PhonePsn(c) /\ Holds(q.e, c, s, t) /\ Says(q.out, q.e.recv)
         /\ q.e.state = x.state /\ q.e.marker = x.marker
         /\ RunsOn(Said(q.up), r, c)
  BY <1>2, <1>3, <1>10, <1>11, <1>12
<1> QED BY <1>13 DEF q

(* A packet that was received before is told from one ahead: the phone     *)
(* repeats no packet so old that its number seems to be ahead (f.m > b).   *)
LEMMA HandleDataStep ==
  ASSUME Lsp.max_outgoing <= 123,
         NEW x, EngineOK(x), Marked(x), x.state \notin Starting,
         NEW f \in Frames(MaxIn), f.m # NoMsg, f.seq = PhonePsn(f.m),
         NEW r \in Nat, NEW s \in Nat, NEW b \in Nat, x.recv = PhonePsn(r),
         Holds(x, r, s, b + Lsp.max_outgoing),
         f.m \in b + 1 .. s, f.m <= b + Lsp.max_outgoing,
         s - r <= Lsp.max_outgoing, r <= s, r <= b + Lsp.max_outgoing
  PROVE  LET q == HandleData(x, f)
         IN  \E r2 \in r .. s :
               /\ r2 <= b + Lsp.max_outgoing /\ q.e.recv = PhonePsn(r2)
               /\ Holds(q.e, r2, s, b + Lsp.max_outgoing) /\ Says(q.out, q.e.recv)
               /\ q.e.state = x.state /\ q.e.marker = x.marker
               /\ RunsOn(Said(q.up), r, r2)
<1> DEFINE d == Distance(f.seq, x.recv)
           w == Lsp.max_outgoing
           t == b + Lsp.max_outgoing
           q == HandleData(x, f)
<1>1. x \in Engines /\ w \in 1 .. 123 /\ x.lsp.max_outgoing \in 1 .. 123
  <2>1. x.lsp = OwnLsp \/ x.lsp = Lsp
    BY DEF EngineOK, Engines
  <2>2. Lsp.max_outgoing \in 1 .. 123
    BY Iap2LinkAssumption DEF Lsps
  <2>3. OwnLsp.max_outgoing = 4
    BY DEF OwnLsp
  <2> QED BY <2>1, <2>2, <2>3 DEF EngineOK
<1>2. PICK v : v = x.lsp.max_outgoing
  OBVIOUS
<1>3. q = CASE d = 0 \/ d > v + 10 -> Write(x, <<AckOf(x)>>)
            [] d = 1 -> Deliver(x, f)
            [] OTHER -> Hold(x, f, d)
  BY <1>2 DEF HandleData
<1>4. PICK m : m = f.m
  OBVIOUS
<1>5. /\ FirstPsn \in Int /\ f.seq = Next8(FirstPsn, m) /\ x.recv = Next8(FirstPsn, r)
      /\ m \in b + 1 .. s /\ m <= t /\ v \in 1 .. 123 /\ t \in Nat /\ r <= t /\ s - r <= 123
  BY <1>1, <1>2, <1>4, FirstIsPsn DEF PhonePsn
<1>6. /\ m - r \in 0 .. 255 => d = m - r
      /\ r - m \in 1 .. 255 => d = 256 - (r - m)
  <2>1. r \in Int /\ m \in Int /\ d = Distance(PhonePsn(m), PhonePsn(r))
    BY <1>4, <1>5
  <2> HIDE DEF d
  <2>2. /\ m - r \in 0 .. 255 => Distance(PhonePsn(m), PhonePsn(r)) = m - r
        /\ r - m \in 1 .. 255 => Distance(PhonePsn(m), PhonePsn(r)) = 256 - (r - m)
    BY <2>1, PhoneDistance
  <2> QED BY <2>1, <2>2
<1> HIDE DEF d
(* No message is delivered, and recv stays.                                *)
<1>7. ASSUME q.e.recv = x.recv, Holds(q.e, r, s, t), Says(q.out, x.recv),
             q.e.state = x.state, q.e.marker = x.marker, q.up = <<>>
      PROVE  \E r2 \in r .. s :
               /\ r2 <= t /\ q.e.recv = PhonePsn(r2) /\ Holds(q.e, r2, s, t) /\ Says(q.out, q.e.recv)
               /\ q.e.state = x.state /\ q.e.marker = x.marker
               /\ RunsOn(Said(q.up), r, r2)
  <2>1. RunsOn(Said(q.up), r, r)
    <3> HIDE DEF q
    <3> QED BY <1>7, SaidNothing
  <2>2. r \in r .. s
    OBVIOUS
  <2> HIDE DEF q, t
  <2> QED BY <1>5, <1>7, <2>1, <2>2
<1>8. CASE d = 0 \/ d > v + 10
  <2> DEFINE fs == <<AckOf(x)>>
  <2>1. d # 1
    BY <1>5, <1>8
  <2>2. q = Write(x, fs)
    BY <1>3, <1>8, <2>1
  <2>3. Says(fs, x.recv)
    BY SaysParts, FramesSay
  <2> HIDE DEF fs, q
  <2>4. q.out = fs /\ q.up = <<>> /\ \A h \in Fields \ {"cum"} : q.e[h] = x[h]
    BY <1>1, <2>2, WriteParts
  <2>5. q.e.recv = x.recv /\ q.e.held = x.held /\ q.e.state = x.state /\ q.e.marker = x.marker
    BY <2>4 DEF Fields
  <2>6. Holds(q.e, r, s, t)
    BY <2>5 DEF Holds
  <2> QED BY <1>7, <2>3, <2>4, <2>5, <2>6 DEF q
<1>9. CASE d # 0 /\ ~(d > v + 10)
  <2>1. m \in r + 1 .. s
    <3>1. CASE r < m
      BY <1>5, <3>1
    <3>2. CASE m = r
      BY <1>5, <1>6, <1>9, <3>2
    <3>3. CASE m < r
      <4>1. r - m \in 1 .. 122
        BY <1>1, <1>5, <3>3
      <4> QED BY <1>5, <1>6, <1>9, <4>1
    <3> QED BY <1>5, <3>1, <3>2, <3>3
  <2>2. CASE d = 1
    <3>1. q = Deliver(x, f)
      BY <1>3, <1>9, <2>2
    <3>2. Holds(x, r, s, t) /\ f.m \in r + 1 .. s /\ f.m <= t
      BY <1>4, <1>5, <2>1
    <3> HIDE DEF q, t
    <3>3. \E r2 \in r .. s :
            /\ r2 <= t /\ Deliver(x, f).e.recv = PhonePsn(r2) /\ Holds(Deliver(x, f).e, r2, s, t)
            /\ Says(Deliver(x, f).out, Deliver(x, f).e.recv)
            /\ Deliver(x, f).e.state = x.state /\ Deliver(x, f).e.marker = x.marker
            /\ RunsOn(Said(Deliver(x, f).up), r, r2)
      BY <1>5, <3>2, DeliverStep
    <3> QED BY <3>1, <3>3 DEF q, t
  <2>3. CASE d # 1
    <3>1. q = Hold(x, f, d)
      BY <1>3, <1>9, <2>3
    <3> DEFINE g == [psn |-> f.seq, m |-> f.m]
               y == [x EXCEPT !.held = Append(@, g)]
               z == [y EXCEPT !.delayed = FALSE]
               eak == Frame({"EAK"}, x.sent, x.recv, NoMsg, {Next8(x.recv, j) : j \in 1 .. d - 1})
    <3>2. g \in Parcels /\ x.held \in Seq(Parcels)
      BY <1>1, Iap2LinkAssumption DEF Engines, Frames, Parcels, NoMsg
    <3>3. g.psn = PhonePsn(g.m) /\ g.m \in r + 2 .. s /\ g.m <= t
      <4>1. m - r \in 0 .. 255 /\ m - r # 1
        BY <1>5, <1>6, <2>1, <2>3
      <4>2. m \in r + 2 .. s
        BY <2>1, <4>1
      <4> QED BY <1>4, <1>5, <4>2
    <3> HIDE DEF g, q
    <3>4. Append(x.held, g) \in Seq(Parcels) /\ Range(Append(x.held, g)) = Range(x.held) \cup {g}
      BY <3>2, AppendProperties, RangeAppend
    <3>5. /\ y \in Engines /\ y.held = Append(x.held, g) /\ y.recv = x.recv /\ y.state = x.state
          /\ y.marker = x.marker
      BY <1>1, <3>4 DEF Engines
    <3>6. Holds(y, r, s, t)
      BY <3>3, <3>4, <3>5 DEF Holds
    <3>7. q = IF d < x.lsp.max_outgoing THEN Ret(y) ELSE Write(z, <<eak>>)
      BY <3>1 DEF Hold, g
    <3> HIDE DEF y
    <3>8. /\ z \in Engines /\ z.held = y.held /\ z.recv = x.recv /\ z.state = x.state
          /\ z.marker = x.marker
      BY <3>5 DEF Engines
    <3>9. Says(<<eak>>, x.recv)
      <4>1. "ACK" \notin eak.bits
        BY DEF Frame
      <4> HIDE DEF eak
      <4> QED BY <4>1, SaysParts
    <3> HIDE DEF z, eak, t
    <3>10. CASE q = Ret(y)
      <4>1. q.e = y /\ q.out = <<>> /\ q.up = <<>>
        BY <3>10 DEF Ret
      <4> QED BY <1>7, <3>5, <3>6, <4>1, SaysParts DEF q, t
    <3>11. CASE q = Write(z, <<eak>>)
      <4>1. q.out = <<eak>> /\ q.up = <<>> /\ \A h \in Fields \ {"cum"} : q.e[h] = z[h]
        BY <3>8, <3>11, WriteParts
      <4>2. q.e.recv = x.recv /\ q.e.held = y.held /\ q.e.state = x.state /\ q.e.marker = x.marker
        BY <3>8, <4>1 DEF Fields
      <4>3. Holds(q.e, r, s, t)
        BY <3>6, <4>2 DEF Holds
      <4> QED BY <1>7, <3>9, <4>1, <4>2, <4>3 DEF q, t
    <3> QED BY <3>7, <3>10, <3>11
  <2> QED BY <2>2, <2>3
<1> QED BY <1>8, <1>9

(* What the engine has done before it looks at the data of a frame.        *)
Synchronizes(x, f) == "SYN" \in f.bits /\ x.state = "Negotiate"

LEMMA BeforeData ==
  ASSUME NEW x, EngineOK(x), Pristine(x), ~x.marker, x.state # "Dead", NEW f \in Frames(MaxIn)
  PROVE  LET c == EakPart(x, f)
         IN  /\ c.e.recv = (IF Synchronizes(x, f) THEN f.seq ELSE x.recv)
             /\ c.e.held = x.held /\ c.up = <<>> /\ Says(c.out, c.e.recv) /\ Pristine(c.e)
             /\ c.e.state \in Starting =>
                  /\ x.state \in Starting /\ "ACK" \notin f.bits
                  /\ Mute(c.out) \/ Synchronizes(x, f)
<1> DEFINE a == SynPart(x, f)
           y == CountedPart(x, f)
           b == AckPart(x, f)
           c == EakPart(x, f)
           v == IF Synchronizes(x, f) THEN f.seq ELSE x.recv
<1>1. /\ RetOK(a) /\ EngineOK(y) /\ RetOK(b) /\ RetOK(c)
  BY PartsOK
<1>2. Ret(x).e = x /\ Ret(x).out = <<>> /\ Ret(x).up = <<>>
  BY DEF Ret
<1>3. /\ a.e.recv = v /\ a.e.held = x.held /\ a.up = <<>> /\ Says(a.out, v) /\ Pristine(a.e)
      /\ a.e.state = x.state /\ a.e.marker = x.marker
      /\ Mute(a.out) \/ Synchronizes(x, f)
  <2>1. CASE "SYN" \in f.bits
    <3>1. a = HandleSyn(x, f)
      BY <2>1 DEF SynPart
    <3> HIDE DEF a
    <3> QED BY <1>2, <2>1, <3>1, SynStep, SaysParts DEF Synchronizes
  <2>2. CASE "SYN" \notin f.bits
    <3>1. a = Ret(x)
      BY <2>2 DEF SynPart
    <3> HIDE DEF a
    <3> QED BY <1>2, <2>2, <3>1, SaysParts DEF Synchronizes
  <2> QED BY <2>1, <2>2
<1>4. x.state \notin {"Idle", "Detect", "Dead"}
  BY DEF Pristine, Marked
<1>5. /\ b.e.recv = v /\ b.e.held = x.held /\ b.up = <<>> /\ Says(b.out, v) /\ Pristine(b.e)
      /\ b.e.state \in Starting => /\ x.state \in Starting /\ "ACK" \notin f.bits
                                   /\ Mute(b.out) \/ Synchronizes(x, f)
  <2>1. CASE "ACK" \notin f.bits
    <3>1. b = a
      BY <2>1 DEF AckPart
    <3> HIDE DEF a, b, v
    <3> QED BY <1>3, <2>1, <3>1
  <2>2. CASE "ACK" \in f.bits
    <3> DEFINE h == HandleAck(y, f.ack)
    <3>1. b = Then(a, h)
      BY <2>2 DEF AckPart
    <3>2. y = [a.e EXCEPT !.cum = @ + 1] /\ a.e \in Engines
      BY <1>1 DEF CountedPart, RetOK, EngineOK
    <3>3. f.ack \in Psn \cup {None}
      BY DEF Frames
    <3> HIDE DEF a, y, b, v
    <3>4. /\ y.recv = a.e.recv /\ y.held = a.e.held /\ y.state = a.e.state /\ y.marker = a.e.marker
      BY <3>2 DEF Engines
    <3>5. Marked(y)
      BY <1>3, <3>4 DEF Marked, Pristine
    <3>6. /\ h.e.recv = y.recv /\ h.e.held = y.held /\ h.up = <<>> /\ Says(h.out, y.recv)
          /\ h.e.state \notin Starting /\ Pristine(h.e)
      BY <1>1, <1>3, <1>4, <3>3, <3>4, <3>5, AckStep
    <3>7. RetOK(h)
      BY <1>1, <3>3, HandleAckOK
    <3> HIDE DEF h
    <3>8. b.e = h.e /\ b.out = a.out \o h.out /\ b.up = a.up \o h.up
      BY <3>1 DEF Then
    <3>9. Says(a.out \o h.out, v)
      BY <1>1, <1>3, <3>4, <3>6, <3>7, SaysConcat DEF RetOK
    <3>10. a.up \o h.up = <<>>
      BY <1>3, <3>6
    <3> QED BY <1>3, <3>4, <3>6, <3>8, <3>9, <3>10
  <2> QED BY <2>1, <2>2
<1> HIDE DEF a, b, v
<1>6. CASE "EAK" \notin f.bits
  <2>1. c = b
    BY <1>6 DEF EakPart, b
  <2> HIDE DEF c
  <2> QED BY <1>5, <2>1 DEF v, c
<1>7. CASE "EAK" \in f.bits
  <2> DEFINE h == HandleEak(b.e, f.missing)
  <2>1. c = Then(b, h)
    BY <1>7 DEF EakPart, b
  <2>2. Quiet(b.e, h) /\ RetOK(h)
    BY <1>1, HandleEakQuiet, HandleEakOK DEF RetOK
  <2> HIDE DEF h, c
  <2>3. c.e = h.e /\ c.out = b.out \o h.out /\ c.up = b.up \o h.up
    BY <2>1 DEF Then
  <2>4. b.up \o h.up = <<>>
    BY <1>5, <2>2 DEF Quiet
  <2>5. Says(b.out \o h.out, v) /\ (Mute(b.out) /\ Mute(h.out) => Mute(b.out \o h.out))
    BY <1>1, <1>5, <2>2, SaysConcat DEF RetOK, Quiet
  <2>6. /\ h.e.recv = v /\ h.e.held = x.held /\ Pristine(h.e)
        /\ h.e.state \in Starting => b.e.state \in Starting /\ Mute(h.out)
    BY <1>5, <2>2 DEF Quiet
  <2>7. c.e.state \in Starting => Mute(c.out) \/ Synchronizes(x, f)
    BY <1>5, <2>3, <2>5, <2>6
  <2> QED BY <1>5, <2>3, <2>4, <2>5, <2>6, <2>7 DEF v, c
<1> QED BY <1>6, <1>7
(* The rules for frames on their way: an ack names what the engine had     *)
(* received; data is of the window that was open at the phone.             *)
AckRule == {q \in Frames(MaxOut) \X Nat : "ACK" \in q[1].bits => q[1].ack = PhonePsn(q[2])}
DataRule == {q \in Frames(MaxIn) \X Nat : q[1].m # NoMsg =>
               q[1].seq = PhonePsn(q[1].m) /\ q[1].m \in q[2] + 1 .. q[2] + Lsp.max_outgoing}

Synced(r) == e.recv = PhonePsn(r) /\ Stamped(out, p.acked, r, AckRule)

(* An engine that took an ack without a SYN never gets the phone to open.  *)
Unsynced(r) ==
  /\ e.recv = 0 /\ FirstPsn # 0 /\ ~p.open /\ p.sent = 0 /\ Says(out, 0)
  /\ e.state \in Starting => Mute(out)

Receiving(r, lo) ==
  /\ RunsOn(delivered, 0, r)
  /\ lo <= p.acked /\ p.acked <= r /\ r <= p.sent
  /\ p.sent - p.acked <= Lsp.max_outgoing /\ r <= lo + Lsp.max_outgoing
  /\ Holds(e, r, p.sent, lo + Lsp.max_outgoing)
  /\ \A f \in Range(in) : f.m <= p.sent /\ ("SYN" \in f.bits => f.seq = FirstPsn)
  /\ Stamped(in, lo, p.acked, DataRule)
  /\ e.state \in Starting => r = 0
  /\ Synced(r) \/ Unsynced(r)

RInv == TInv /\ Pristine(e) /\ \E r, lo \in Nat : Receiving(r, lo)

LEMMA Rules ==
  /\ \A f \in Frames(MaxOut), b \in Nat :
       <<f, b>> \in AckRule <=> ("ACK" \in f.bits => f.ack = PhonePsn(b))
  /\ \A f \in Frames(MaxIn), b \in Nat :
       <<f, b>> \in DataRule <=>
         (f.m # NoMsg => f.seq = PhonePsn(f.m) /\ f.m \in b + 1 .. b + Lsp.max_outgoing)
BY DEF AckRule, DataRule

LEMMA TypesHere ==
  ASSUME TInv
  PROVE  /\ p \in Phones /\ p.acked \in Nat /\ p.sent \in Nat /\ p.acked <= p.sent /\ p.sent <= MaxIn
         /\ e \in Engines /\ EngineOK(e) /\ MaxIn \in Nat
         /\ Lsp.max_outgoing \in 1 .. 255
         /\ in \in Seq(Frames(MaxIn)) /\ out \in Seq(Frames(MaxOut))
<1>1. p.acked \in 0 .. MaxIn /\ p.sent \in 0 .. MaxIn /\ MaxIn \in Nat /\ p.acked <= p.sent
  BY Iap2LinkAssumption DEF TInv
<1>2. Lsp.max_outgoing \in 1 .. 255
  BY Iap2LinkAssumption DEF Lsps
<1>3. p \in Phones
  BY DEF TInv, Phones
<1> QED BY <1>1, <1>2, <1>3 DEF TInv, EngineOK

LEMMA SaysStamped ==
  ASSUME NEW fs \in Seq(Frames(MaxOut)), NEW r \in Nat, Says(fs, PhonePsn(r))
  PROVE  \A i \in 1 .. Len(fs) : <<fs[i], r>> \in AckRule
BY SeqParts, Rules DEF Says

LEMMA MuteStamped ==
  ASSUME NEW fs \in Seq(Frames(MaxOut)), NEW r \in Nat, NEW a \in Nat, a <= r, Mute(fs)
  PROVE  Stamped(fs, a, r, AckRule)
<1>1. \A i \in 1 .. Len(fs) : <<fs[i], r>> \in AckRule
  BY SeqParts, Rules DEF Mute
<1>2. <<>> \in Seq(Frames(MaxOut)) /\ Stamped(<<>>, a, r, AckRule)
  BY EmptySeq, StampedEmpty
<1>3. Stamped(<<>> \o fs, a, r, AckRule)
  <2>1. a \in Int /\ r \in Int /\ r <= r
    OBVIOUS
  <2>2. PICK R, es : R = AckRule /\ es = <<>>
    OBVIOUS
  <2>3. Stamped(es \o fs, a, r, R)
    BY <1>1, <1>2, <2>1, <2>2, StampedConcat
  <2> QED BY <2>2, <2>3
<1>4. <<>> \o fs = fs
  BY ConcatEmptySeq
<1> QED BY <1>3, <1>4

(* Acks of what was received before a frame, then of what is after it.     *)
LEMMA AcksFollow ==
  ASSUME NEW s \in Seq(Frames(MaxOut)), NEW fs \in Seq(Frames(MaxOut)), NEW gs \in Seq(Frames(MaxOut)),
         NEW a \in Nat, NEW r \in Nat, NEW r2 \in Nat, a <= r, r <= r2,
         Stamped(s, a, r, AckRule), Says(fs, PhonePsn(r)), Says(gs, PhonePsn(r2))
  PROVE  Stamped(s, a, r2, AckRule) /\ Stamped(s \o (fs \o gs), a, r2, AckRule)
<1>1. s \o fs \in Seq(Frames(MaxOut)) /\ Stamped(s \o fs, a, r, AckRule)
  <2>1. s \o fs \in Seq(Frames(MaxOut))
    BY ConcatProperties
  <2>2. \A i \in 1 .. Len(fs) : <<fs[i], r>> \in AckRule
    BY SaysStamped
  <2>3. a \in Int /\ r \in Int /\ r <= r
    OBVIOUS
  <2>4. PICK R : R = AckRule
    OBVIOUS
  <2>5. Stamped(s \o fs, a, r, R)
    BY <2>2, <2>3, <2>4, StampedConcat
  <2> QED BY <2>1, <2>4, <2>5
<1>2. Stamped((s \o fs) \o gs, a, r2, AckRule)
  <2>1. \A i \in 1 .. Len(gs) : <<gs[i], r2>> \in AckRule
    BY SaysStamped
  <2>2. PICK t : t = s \o fs
    OBVIOUS
  <2>3. a \in Int /\ r \in Int /\ r2 \in Int
    OBVIOUS
  <2>4. Stamped(t \o gs, a, r2, AckRule)
    BY <1>1, <2>1, <2>2, <2>3, StampedConcat
  <2> QED BY <2>2, <2>4
<1>3. (s \o fs) \o gs = s \o (fs \o gs)
  OBVIOUS
<1> QED BY <1>2, <1>3, StampedWiden

LEMMA ReceivedTo ==
  ASSUME TInv, TInv', NEW r \in Nat, NEW lo \in Nat, Receiving(r, lo),
         NEW r2 \in Nat, NEW lo2 \in Nat, r <= r2, r2 <= p.sent, lo2 <= p.acked,
         r2 <= lo2 + Lsp.max_outgoing,
         NEW q, RetOK(q), Becomes(q), p' = p, Range(in') \in SUBSET Range(in),
         Holds(q.e, r2, p.sent, lo2 + Lsp.max_outgoing), Stamped(in', lo2, p.acked, DataRule),
         q.e.state \in Starting => r2 = 0, (Synced(r2) \/ Unsynced(r2))',
         RunsOn(Said(q.up), r, r2)
  PROVE  Receiving(r2, lo2)'
<1>1. e' = q.e /\ delivered' = delivered \o Said(q.up)
  BY Zenon DEF Becomes, Said
<1>2. delivered \in Seq(Nat) /\ Said(q.up) \in Seq(Nat)
  <2>1. delivered \in Seq(1 .. MaxIn) /\ Said(q.up) \in Seq(1 .. MaxIn)
    BY SaidParts DEF TInv, RetOK
  <2>2. \A h \in 1 .. MaxIn : h \in Nat
    OBVIOUS
  <2> QED BY <2>1, <2>2, WiderSeq
<1>3. RunsOn(delivered', 0, r2)
  <2>1. RunsOn(delivered, 0, r)
    BY DEF Receiving
  <2>2. PICK d, u : d = delivered /\ u = Said(q.up)
    OBVIOUS
  <2>3. 0 \in Nat /\ 0 <= r
    OBVIOUS
  <2>4. RunsOn(d \o u, 0, r2)
    BY <1>2, <2>1, <2>2, <2>3, RunsOnConcat
  <2> QED BY <1>1, <2>2, <2>4
<1>4. \A f \in Range(in') : f.m <= p.sent /\ ("SYN" \in f.bits => f.seq = FirstPsn)
  BY DEF Receiving
<1>5. p.acked <= r2 /\ p.sent - p.acked <= Lsp.max_outgoing
  BY TypesHere DEF Receiving
<1> QED BY <1>1, <1>3, <1>4, <1>5 DEF Receiving
LEMMA QuietReceives ==
  ASSUME TInv, TInv', Pristine(e), NEW r \in Nat, NEW lo \in Nat, Receiving(r, lo),
         NEW q, RetOK(q), Quiet(e, q), Becomes(q), p' = p,
         in' = in \/ (in # <<>> /\ in' = Tail(in))
  PROVE  Pristine(e)' /\ Receiving(r, lo)'
<1>1. e' = q.e /\ (out' = out \/ out' = out \o q.out)
  BY Zenon DEF Becomes
<1>2. /\ q.e.recv = e.recv /\ q.e.held = e.held /\ q.up = <<>> /\ Says(q.out, e.recv)
      /\ q.e.state \in Starting => e.state \in Starting /\ Mute(q.out)
      /\ Pristine(q.e)
  BY DEF Quiet
<1>3. Range(in') \in SUBSET Range(in) /\ Stamped(in', lo, p.acked, DataRule)
  <2>1. Stamped(in, lo, p.acked, DataRule) /\ lo \in Int /\ p.acked \in Int
    BY TypesHere DEF Receiving
  <2>2. CASE in' = in
    BY <2>1, <2>2
  <2>3. CASE in # <<>> /\ in' = Tail(in)
    <3>1. PICK b \in lo .. p.acked : Stamped(Tail(in), b, p.acked, DataRule)
      BY <2>1, <2>3, StampedTail, TypesHere
    <3>2. Stamped(Tail(in), lo, p.acked, DataRule)
      BY <2>1, <3>1, StampedWiden
    <3>3. Range(Tail(in)) \in SUBSET Range(in)
      BY <2>3, RangeTail, TypesHere
    <3> QED BY <2>3, <3>2, <3>3
  <2> QED BY <2>2, <2>3
<1>4. /\ out \in Seq(Frames(MaxOut)) /\ q.out \in Seq(Frames(MaxOut))
  BY DEF TInv, RetOK
<1>5. ASSUME Synced(r) PROVE Synced(r)'
  <2>1. e.recv = PhonePsn(r) /\ Stamped(out, p.acked, r, AckRule)
    BY <1>5 DEF Synced
  <2>2. p.acked \in Int /\ r \in Int /\ p.acked <= r /\ r <= r
    BY TypesHere DEF Receiving
  <2>3. \A i \in 1 .. Len(q.out) : <<q.out[i], r>> \in AckRule
    BY <1>2, <1>4, <2>1, SaysStamped
  <2>4. Stamped(out \o q.out, p.acked, r, AckRule)
    BY <1>4, <2>1, <2>2, <2>3, StampedConcat
  <2> QED BY <1>1, <1>2, <2>1, <2>4 DEF Synced
<1>6. ASSUME Unsynced(r) PROVE Unsynced(r)'
  <2>1. Says(out, 0) /\ Says(q.out, 0) /\ e.recv = 0
    BY <1>2, <1>6 DEF Unsynced
  <2>2. /\ Says(out \o q.out, 0) /\ (Mute(out) /\ Mute(q.out) => Mute(out \o q.out))
    BY <1>4, <2>1, SaysConcat
  <2>3. Says(out', 0) /\ (e'.state \in Starting => Mute(out'))
    <3>1. e'.state \in Starting => Mute(out) /\ Mute(q.out)
      BY <1>1, <1>2, <1>6 DEF Unsynced
    <3> QED BY <1>1, <2>1, <2>2, <3>1
  <2> QED BY <1>1, <1>2, <1>6, <2>1, <2>3 DEF Unsynced
<1>7. (Synced(r) \/ Unsynced(r))'
  BY <1>5, <1>6 DEF Receiving
<1>8. Holds(q.e, r, p.sent, lo + Lsp.max_outgoing)
  BY <1>2 DEF Receiving, Holds
<1>9. /\ r <= r /\ r <= p.sent /\ lo <= p.acked /\ r <= lo + Lsp.max_outgoing
      /\ q.e.state \in Starting => r = 0
  BY <1>2 DEF Receiving
<1>10. RunsOn(Said(q.up), r, r)
  BY <1>2, SaidNothing
<1>11. Receiving(r, lo)'
  BY <1>3, <1>7, <1>8, <1>9, <1>10, ReceivedTo
<1> QED BY <1>1, <1>2, <1>11

LEMMA EnterNegotiateQuiet ==
  ASSUME NEW x, EngineOK(x), x.state \in {"Idle", "Detect"} PROVE Quiet(x, EnterNegotiate(x))
<1> DEFINE y == [x EXCEPT !.state = "Negotiate", !.marker = FALSE]
           fs == <<SynOf(y)>>
<1>1. /\ y \in Engines /\ y.recv = x.recv /\ y.held = x.held /\ y.state = "Negotiate"
      /\ y.marker = FALSE /\ y.unack = x.unack /\ y.acked = x.acked /\ y.sent = x.sent
      /\ y.cum = x.cum
  BY DEF EngineOK, Engines
<1>2. EnterNegotiate(x) = Write(y, fs)
  BY DEF EnterNegotiate
<1> HIDE DEF y
<1>3. Mute(fs) /\ Says(fs, x.recv)
  BY FramesSay, SaysParts
<1> HIDE DEF fs
<1>4. Pristine(x) => Pristine(y)
  BY <1>1 DEF Pristine, Marked, Blank, Starting
<1> QED BY <1>1, <1>2, <1>3, <1>4, QuietWrite DEF Starting

LEMMA StartQuiet ==
  ASSUME NEW x, EngineOK(x), x.state = "Idle", Pristine(x)
  PROVE  LET r == Write([x EXCEPT !.state = "Detect"], <<Marker>>)
         IN  Quiet(x, r) /\ Quiet(x, Then(r, EnterNegotiate(r.e)))
<1> DEFINE y == [x EXCEPT !.state = "Detect"]
           fs == <<Marker>>
           r == Write(y, fs)
<1>1. /\ y \in Engines /\ y.recv = x.recv /\ y.held = x.held /\ y.state = "Detect"
      /\ y.marker = x.marker /\ y.unack = x.unack /\ y.acked = x.acked /\ y.sent = x.sent
      /\ y.cum = x.cum /\ y.due = x.due
  BY DEF EngineOK, Engines
<1> HIDE DEF y
<1>2. Mute(fs) /\ Says(fs, x.recv)
  BY FramesSay, SaysParts
<1>3. RetOK(r) /\ EngineOK(y)
  BY <1>1, SameAligned, MarkerWritten
<1> HIDE DEF fs
<1>4. Pristine(y)
  BY <1>1 DEF Pristine, Marked, Blank, Starting
<1>5. Quiet(x, r)
  BY <1>1, <1>2, <1>4, QuietWrite DEF Starting
<1>6. r.e.state = "Detect"
  <2>1. \A h \in Fields \ {"cum"} : r.e[h] = y[h]
    BY <1>1, WriteParts
  <2> QED BY <1>1, <2>1 DEF Fields
<1> HIDE DEF r
<1>7. Quiet(r.e, EnterNegotiate(r.e)) /\ RetOK(EnterNegotiate(r.e))
  BY <1>3, <1>6, EnterNegotiateQuiet, EnterNegotiateOK DEF RetOK
<1>8. Quiet(x, Then(r, EnterNegotiate(r.e)))
  BY <1>3, <1>5, <1>7, QuietThen
<1> QED BY <1>5, <1>8 DEF r, y, fs

LEMMA BailoutQuiet ==
  ASSUME NEW x, EngineOK(x) PROVE Quiet(x, Ret(Bailout(x))) /\ Quiet(x, Ret(x))
<1>1. /\ Bailout(x).recv = x.recv /\ Bailout(x).held = x.held /\ Bailout(x).state = "Dead"
  BY DEF Bailout, Engines, EngineOK
<1>2. Pristine(Bailout(x)) /\ Bailout(x).state \notin Starting
  BY <1>1 DEF Pristine, Marked, Blank, Starting
<1> QED BY <1>1, <1>2, QuietRet
(* A frame without data: the engine is as it was, or has taken a SYN.      *)
LEMMA PlainFrame ==
  ASSUME NEW x, EngineOK(x), Pristine(x), ~x.marker, x.state # "Dead", NEW f \in Frames(MaxIn),
         ~(f.bits = {"ACK"} /\ f.m # NoMsg), "RST" \notin f.bits
  PROVE  LET q == ProcessFrame(x, f)
         IN  /\ q.e.recv = (IF Synchronizes(x, f) THEN f.seq ELSE x.recv)
             /\ q.e.held = x.held /\ q.up = <<>> /\ Says(q.out, q.e.recv) /\ Pristine(q.e)
             /\ q.e.state \in Starting => x.state \in Starting
             /\ ~Synchronizes(x, f) => Quiet(x, q)
<1> DEFINE c == EakPart(x, f)
           q == ProcessFrame(x, f)
           u == Cumulative(c.e)
           v == IF Synchronizes(x, f) THEN f.seq ELSE x.recv
<1>1. q = Then(c, u)
  <2>1. DataPart(x, f) = c
    BY DEF DataPart
  <2> QED BY <2>1, ProcessIs
<1>2. RetOK(c) /\ RetOK(u) /\ Quiet(c.e, u)
  BY PartsOK, CumulativeOK, CumulativeQuiet DEF RetOK
<1>3. /\ c.e.recv = v /\ c.e.held = x.held /\ c.up = <<>> /\ Says(c.out, v) /\ Pristine(c.e)
      /\ c.e.state \in Starting => /\ x.state \in Starting
                                   /\ Mute(c.out) \/ Synchronizes(x, f)
  BY BeforeData
<1> HIDE DEF c, u, q, v
<1>4. q.e = u.e /\ q.out = c.out \o u.out /\ q.up = c.up \o u.up
  BY <1>1 DEF Then
<1>5. /\ u.e.recv = v /\ u.e.held = x.held /\ u.up = <<>> /\ Says(u.out, v) /\ Pristine(u.e)
      /\ u.e.state \in Starting => c.e.state \in Starting /\ Mute(u.out)
  BY <1>2, <1>3 DEF Quiet
<1>6. Says(q.out, v) /\ (Mute(c.out) /\ Mute(u.out) => Mute(q.out))
  BY <1>2, <1>3, <1>4, <1>5, SaysConcat DEF RetOK
<1>7. q.up = <<>>
  BY <1>3, <1>4, <1>5
<1>8. ~Synchronizes(x, f) => Quiet(x, q)
  BY <1>3, <1>4, <1>5, <1>6, <1>7 DEF Quiet, v
<1> QED BY <1>3, <1>4, <1>5, <1>6, <1>7, <1>8 DEF q, v

LEMMA TakeReceives ==
  ASSUME Lsp.max_outgoing <= 123, TInv, TInv', Pristine(e), NEW r \in Nat, NEW lo \in Nat,
         Receiving(r, lo), Take
  PROVE  Pristine(e)' /\ \E r2, lo2 \in Nat : Receiving(r2, lo2)'
<1> DEFINE f == Head(in)
           w == Lsp.max_outgoing
           q == Feed(e, f)
           a == p.acked
           s == p.sent
<1>1. /\ e.state \notin {"Dead", "Idle"} /\ in # <<>> /\ in' = Tail(in) /\ Becomes(q) /\ p' = p
  BY DEF Take, Alive, phone
<1>2. /\ e \in Engines /\ EngineOK(e) /\ in \in Seq(Frames(MaxIn)) /\ out \in Seq(Frames(MaxOut))
      /\ a \in Nat /\ s \in Nat /\ s <= MaxIn /\ MaxIn \in Nat /\ w \in 1 .. 255
  BY TypesHere
<1>3. f \in Frames(MaxIn) /\ f \in Range(in) /\ Range(in') \in SUBSET Range(in)
  <2>1. f \in Frames(MaxIn) /\ Range(in) = {f} \cup Range(Tail(in))
    BY <1>1, <1>2, RangeTail
  <2> HIDE DEF f
  <2> QED BY <1>1, <2>1
<1>4. RetOK(q)
  BY <1>2, <1>3, FeedOK
<1>5. /\ lo <= a /\ a <= r /\ r <= s /\ s - a <= w /\ r <= lo + w
      /\ Holds(e, r, s, lo + w) /\ (e.state \in Starting => r = 0)
      /\ f.m <= s /\ ("SYN" \in f.bits => f.seq = FirstPsn)
      /\ Synced(r) \/ Unsynced(r)
  BY <1>3 DEF Receiving
<1>6. PICK b \in lo .. a : <<f, b>> \in DataRule /\ Stamped(Tail(in), b, a, DataRule)
  <2>1. Stamped(in, lo, p.acked, DataRule) /\ lo \in Int /\ p.acked \in Int
    BY TypesHere DEF Receiving
  <2>2. PICK b \in lo .. p.acked : /\ <<Head(in), b>> \in DataRule
                                 /\ Stamped(Tail(in), b, p.acked, DataRule)
    BY <1>1, <2>1, StampedTail, TypesHere
  <2> QED BY <2>2
<1>7. b \in Nat /\ lo <= b /\ b <= a
  BY <1>2, <1>6
<1> HIDE DEF f, w, a, s
(* Every frame but data and the SYN that synchronizes.                     *)
<1>8. ASSUME Quiet(e, q)
      PROVE  Pristine(e)' /\ \E r2, lo2 \in Nat : Receiving(r2, lo2)'
  <2> HIDE DEF q
  <2> QED BY <1>1, <1>4, <1>8, QuietReceives
<1>9. CASE e.marker
  <2>1. e.state \in {"Idle", "Detect"}
    BY <1>1, <1>9 DEF Pristine, Marked
  <2>2. q = EnterNegotiate(e) \/ q = Ret(Bailout(e))
    BY <1>9 DEF Feed
  <2> QED BY <1>2, <1>8, <2>1, <2>2, EnterNegotiateQuiet, BailoutQuiet
<1>10. CASE ~e.marker /\ f = Marker
  <2>1. q = Ret(e)
    BY <1>10 DEF Feed
  <2> QED BY <1>2, <1>8, <2>1, BailoutQuiet
<1>11. CASE ~e.marker /\ f # Marker /\ "RST" \in f.bits
  <2>1. q = Ret(Bailout(e))
    BY <1>11, ProcessIs DEF Feed
  <2> QED BY <1>2, <1>8, <2>1, BailoutQuiet
<1>12. CASE ~e.marker /\ f # Marker /\ "RST" \notin f.bits /\ ~(f.bits = {"ACK"} /\ f.m # NoMsg)
  <2>1. q = ProcessFrame(e, f)
    BY <1>12 DEF Feed
  <2> HIDE DEF q
  <2>2. /\ q.e.recv = (IF Synchronizes(e, f) THEN f.seq ELSE e.recv)
        /\ q.e.held = e.held /\ q.up = <<>> /\ Says(q.out, q.e.recv) /\ Pristine(q.e)
        /\ q.e.state \in Starting => e.state \in Starting
        /\ ~Synchronizes(e, f) => Quiet(e, q)
    BY <1>1, <1>2, <1>3, <1>12, <2>1, PlainFrame
  <2>3. CASE ~Synchronizes(e, f)
    BY <1>8, <2>2, <2>3 DEF q
  <2>4. CASE Synchronizes(e, f)
    <3>1. e.state \in Starting /\ "SYN" \in f.bits
      BY <2>4 DEF Synchronizes, Starting
    <3>2. r = 0 /\ a = 0 /\ lo = 0 /\ q.e.recv = PhonePsn(r)
      <4>1. r = 0 /\ a = 0 /\ lo = 0
        BY <1>2, <1>5, <3>1
      <4>2. FirstPsn = PhonePsn(0)
        BY Iap2LinkAssumption DEF PhonePsn, Next8
      <4> QED BY <1>5, <2>2, <2>4, <3>1, <4>1, <4>2
    <3>3. Stamped(out, a, r, AckRule)
      <4>1. CASE Synced(r)
        BY <4>1 DEF Synced, a
      <4>2. CASE Unsynced(r)
        <5>1. Mute(out)
          BY <3>1, <4>2 DEF Unsynced
        <5> QED BY <1>2, <1>5, <5>1, MuteStamped
      <4> QED BY <1>5, <4>1, <4>2
    <3>4. \A i \in 1 .. Len(q.out) : <<q.out[i], r>> \in AckRule
      BY <1>4, <2>2, <3>2, SaysStamped DEF RetOK
    <3>5. Stamped(out \o q.out, a, r, AckRule)
      <4>1. a \in Int /\ r \in Int /\ a <= r /\ r <= r
        BY <1>2, <1>5
      <4> QED BY <1>2, <1>4, <3>3, <3>4, <4>1, StampedConcat DEF RetOK
    <3>6. e' = q.e /\ (out' = out \/ out' = out \o q.out)
      BY <1>1, <2>1, Zenon DEF Becomes, q
    <3>7. Synced(r)'
      BY <1>1, <3>2, <3>3, <3>5, <3>6 DEF Synced, a
    <3>8. Holds(q.e, r, s, lo + w)
      BY <1>5, <2>2 DEF Holds
    <3>9. RunsOn(Said(q.up), r, r)
      BY <2>2, SaidNothing
    <3>10. Stamped(in', lo, a, DataRule)
      <4>1. lo \in Int /\ a \in Int /\ b \in Int
        BY <1>2, <1>7
      <4> QED BY <1>1, <1>6, <1>7, <4>1, StampedWiden
    <3>11. /\ r <= r /\ r <= p.sent /\ lo <= p.acked /\ r <= lo + Lsp.max_outgoing
           /\ q.e.state \in Starting => r = 0
           /\ Holds(q.e, r, p.sent, lo + Lsp.max_outgoing) /\ Stamped(in', lo, p.acked, DataRule)
      BY <1>5, <3>2, <3>8, <3>10 DEF a, s, w
    <3>12. Receiving(r, lo)'
      <4> HIDE DEF q
      <4>1. Becomes(q)
        BY <1>1
      <4> QED BY <1>1, <1>3, <1>4, <3>7, <3>9, <3>11, <4>1, ReceivedTo
    <3> QED BY <2>2, <3>6, <3>12
  <2> QED BY <2>3, <2>4
<1>13. CASE ~e.marker /\ f # Marker /\ f.bits = {"ACK"} /\ f.m # NoMsg
  <2> DEFINE c == EakPart(e, f)
             h == HandleData(c.e, f)
             d == Then(c, h)
             u == Cumulative(d.e)
  <2>1. q = Then(d, u)
    <3>1. q = ProcessFrame(e, f) /\ "RST" \notin f.bits
      BY <1>13 DEF Feed
    <3>2. DataPart(e, f) = d
      BY <1>13 DEF DataPart
    <3> QED BY <3>1, <3>2, ProcessIs
  <2>2. ~Synchronizes(e, f) /\ "ACK" \in f.bits
    BY <1>13 DEF Synchronizes
  <2>3. /\ c.e.recv = e.recv /\ c.e.held = e.held /\ c.up = <<>> /\ Says(c.out, e.recv)
        /\ Pristine(c.e) /\ c.e.state \notin Starting
    BY <1>1, <1>2, <1>3, <1>13, <2>2, BeforeData
  <2>4. RetOK(c) /\ EngineOK(c.e)
    BY <1>2, <1>3, PartsOK DEF RetOK
  <2> HIDE DEF c
  <2>5. RetOK(h)
    BY <1>3, <1>13, <2>4, HandleDataOK
  <2>6. f.seq = PhonePsn(f.m) /\ f.m \in b + 1 .. b + w
    BY <1>3, <1>6, <1>7, <1>13, Rules DEF w
  <2>7. f.m \in b + 1 .. s /\ f.m <= b + w /\ r <= b + w
    BY <1>2, <1>5, <1>7, <2>6
  <2>8. Synced(r)
    <3>1. s # 0
      BY <1>7, <2>7
    <3> QED BY <1>5, <3>1 DEF Unsynced, s
  <2>9. e.recv = PhonePsn(r) /\ Stamped(out, a, r, AckRule)
    BY <2>8 DEF Synced, a
  <2>10. Holds(c.e, r, s, b + w)
    <3>1. \A m \in r + 2 .. s : m <= lo + w => m <= b + w
      BY <1>2, <1>7
    <3> QED BY <1>5, <2>3, <3>1 DEF Holds
  <2>11. PICK r2 \in r .. s :
           /\ r2 <= b + w /\ h.e.recv = PhonePsn(r2) /\ Holds(h.e, r2, s, b + w)
           /\ Says(h.out, h.e.recv) /\ h.e.state = c.e.state /\ h.e.marker = c.e.marker
           /\ RunsOn(Said(h.up), r, r2)
    <3>1. s - r <= w
      <4>1. a \in Int /\ s \in Int /\ r \in Int /\ w \in Int
        BY <1>2
      <4>2. a <= r /\ s - a <= w
        BY <1>5
      <4> QED BY <4>1, <4>2
    <3>2. Marked(c.e) /\ c.e.recv = PhonePsn(r)
      BY <2>3, <2>9 DEF Pristine
    <3> QED
      BY <1>2, <1>3, <1>5, <1>7, <1>13, <2>3, <2>4, <2>6, <2>7, <2>10, <3>1, <3>2,
         HandleDataStep DEF w
  <2> HIDE DEF h
  <2>12. /\ d.e = h.e /\ d.out = c.out \o h.out /\ d.up = c.up \o h.up /\ RetOK(d)
    BY <2>4, <2>5, ThenOK DEF Then
  <2> HIDE DEF d
  <2>13. RetOK(u) /\ Quiet(d.e, u)
    BY <2>12, CumulativeOK, CumulativeQuiet DEF RetOK
  <2> HIDE DEF u, q
  <2>14. q.e = u.e /\ q.out = d.out \o u.out /\ q.up = d.up \o u.up
    BY <2>1 DEF Then
  <2>15. Pristine(d.e) /\ d.e.state \notin Starting
    BY <2>3, <2>11, <2>12 DEF Pristine, Marked, Blank
  <2>16. /\ q.e.recv = PhonePsn(r2) /\ q.e.held = h.e.held /\ u.up = <<>>
         /\ Says(u.out, PhonePsn(r2)) /\ Pristine(q.e) /\ q.e.state \notin Starting
    BY <2>11, <2>12, <2>13, <2>14, <2>15 DEF Quiet
  <2>17. /\ q.up = h.up /\ q.out = c.out \o (h.out \o u.out)
    <3>1. h.up \in Seq(Parcels) /\ c.out \in Seq(Frames(MaxOut)) /\ h.out \in Seq(Frames(MaxOut))
          /\ u.out \in Seq(Frames(MaxOut))
      BY <2>4, <2>5, <2>13 DEF RetOK
    <3>2. c.up \o h.up = h.up /\ h.up \o u.up = h.up
      BY <2>3, <2>16, <3>1, ConcatEmptySeq
    <3>3. (c.out \o h.out) \o u.out = c.out \o (h.out \o u.out)
      <4>1. PICK x, y, z : x = c.out /\ y = h.out /\ z = u.out
        OBVIOUS
      <4>2. (x \o y) \o z = x \o (y \o z)
        <5>1. x \in Seq(Frames(MaxOut)) /\ y \in Seq(Frames(MaxOut)) /\ z \in Seq(Frames(MaxOut))
          BY <3>1, <4>1
        <5> QED BY ONLY <5>1
      <4> QED BY <4>1, <4>2
    <3> QED BY <2>12, <2>14, <3>2, <3>3
  <2>18. Stamped(out, a, r2, AckRule) /\ Stamped(out \o q.out, a, r2, AckRule)
    <3>1. Says(h.out \o u.out, PhonePsn(r2)) /\ h.out \o u.out \in Seq(Frames(MaxOut))
      BY <2>5, <2>11, <2>13, <2>16, SaysConcat, ConcatProperties DEF RetOK
    <3>2. c.out \in Seq(Frames(MaxOut)) /\ Says(c.out, PhonePsn(r))
      BY <2>3, <2>4, <2>9 DEF RetOK
    <3>3. r2 \in Nat /\ r <= r2 /\ a <= r
      BY <1>2, <1>5, <2>11
    <3> QED BY <1>2, <2>9, <2>17, <3>1, <3>2, <3>3, AcksFollow
  <2>19. e' = q.e /\ (out' = out \/ out' = out \o q.out) /\ Becomes(q)
    BY <1>1, Zenon DEF Becomes, q
  <2>20. Synced(r2)'
    BY <1>1, <2>16, <2>18, <2>19 DEF Synced, a
  <2>21. Holds(q.e, r2, s, b + w)
    BY <2>11, <2>16 DEF Holds
  <2>22. /\ r2 \in Nat /\ r <= r2 /\ r2 <= p.sent /\ b <= p.acked /\ r2 <= b + Lsp.max_outgoing
         /\ Holds(q.e, r2, p.sent, b + Lsp.max_outgoing) /\ Stamped(in', b, p.acked, DataRule)
    BY <1>1, <1>2, <1>6, <1>7, <2>11, <2>21 DEF a, s, w
  <2>23. RunsOn(Said(q.up), r, r2)
    BY <2>11, <2>17
  <2>24. RetOK(q)
    BY <1>4
  <2>25. Receiving(r2, b)'
    BY <1>1, <1>3, <1>7, <2>16, <2>19, <2>20, <2>22, <2>23, <2>24, ReceivedTo
  <2> QED BY <1>7, <2>16, <2>19, <2>22, <2>25
<1> QED BY <1>9, <1>10, <1>11, <1>12, <1>13
(* The steps of the engine that take no frame.                             *)
LEMMA DelayedAckQuiet ==
  ASSUME TInv
  PROVE  LET x == [e EXCEPT !.delayed = FALSE]
             r == IF e.state # "Normal" THEN Ret(x)
                  ELSE Write([x EXCEPT !.lastAcked = x.recv], <<AckOf(x)>>)
         IN  RetOK(r) /\ Quiet(e, r)
<1> DEFINE x == [e EXCEPT !.delayed = FALSE]
           y == [x EXCEPT !.lastAcked = x.recv]
           r == IF e.state # "Normal" THEN Ret(x) ELSE Write(y, <<AckOf(x)>>)
<1>1. /\ x \in Engines /\ x.recv = e.recv /\ x.held = e.held /\ x.state = e.state
      /\ x.marker = e.marker /\ x.unack = e.unack /\ x.acked = e.acked /\ x.sent = e.sent
      /\ x.cum = e.cum /\ x.due = e.due
  BY DEF TInv, EngineOK, Engines
<1> HIDE DEF x
<1>2. /\ y \in Engines /\ y.recv = x.recv /\ y.held = x.held /\ y.state = x.state
      /\ y.marker = x.marker /\ y.unack = x.unack /\ y.acked = x.acked /\ y.sent = x.sent
      /\ y.cum = x.cum /\ y.due = x.due
  BY <1>1 DEF Engines
<1> HIDE DEF y
<1>3. EngineOK(x) /\ EngineOK(y)
  BY <1>1, <1>2, SameAligned DEF TInv
<1>4. <<AckOf(x)>> \in Seq(Frames(MaxOut)) /\ Says(<<AckOf(x)>>, e.recv)
  BY <1>1, FramesOK, One, FramesSay, SaysParts
<1>5. RetOK(r)
  BY <1>3, <1>4, RetIsOK, WriteOK
<1>6. Pristine(e) => Pristine(x) /\ Pristine(y)
  BY <1>1, <1>2 DEF Pristine, Marked, Blank
<1>7. CASE e.state # "Normal"
  <2>1. Quiet(e, Ret(x))
    BY <1>1, <1>6, QuietRet
  <2> QED BY <1>5, <1>7, <2>1 DEF x, y
<1>8. CASE e.state = "Normal"
  <2>1. y.state \notin Starting
    BY <1>1, <1>2, <1>8 DEF Starting
  <2>2. Quiet(e, Write(y, <<AckOf(x)>>))
    BY <1>1, <1>2, <1>4, <1>6, <2>1, QuietWrite
  <2> QED BY <1>5, <1>8, <2>2 DEF x, y
<1> QED BY <1>7, <1>8

LEMMA AgainQuiet ==
  ASSUME TInv, NEW f \in {Marker, SynOf(e)} PROVE RetOK(Write(e, <<f>>)) /\ Quiet(e, Write(e, <<f>>))
<1>1. Says(<<f>>, e.recv) /\ Mute(<<f>>)
  BY FramesSay, SaysParts
<1>2. Quiet(e, Write(e, <<f>>))
  BY <1>1, QuietWrite DEF TInv, EngineOK
<1> QED BY <1>2, MarkerWritten DEF TInv

LEMMA QuietSteps ==
  ASSUME TInv, TInv', Pristine(e), NEW r \in Nat, NEW lo \in Nat, Receiving(r, lo),
         \/ \E initiate \in BOOLEAN : Start(initiate)
         \/ Give \/ ConnectionEnds \/ DetectAgain \/ NegotiateAgain \/ DelayedAck \/ ExpectAckTimer
  PROVE  Pristine(e)' /\ Receiving(r, lo)'
<1>1. SUFFICES ASSUME p' = p, in' = in
               PROVE  \E q : RetOK(q) /\ Quiet(e, q) /\ Becomes(q)
  <2>1. p' = p /\ in' = in
    BY DEF Start, Give, ConnectionEnds, DetectAgain, NegotiateAgain, DelayedAck, ExpectAckTimer, phone
  <2> QED BY <1>1, <2>1, QuietReceives
<1>2. EngineOK(e)
  BY DEF TInv
<1>3. ASSUME NEW initiate \in BOOLEAN, Start(initiate)
      PROVE  \E q : RetOK(q) /\ Quiet(e, q) /\ Becomes(q)
  <2> DEFINE x == [e EXCEPT !.state = "Detect"]
             g == Write(x, <<Marker>>)
             q == IF initiate THEN Then(g, EnterNegotiate(g.e)) ELSE g
  <2>1. e.state = "Idle" /\ Becomes(q)
    BY <1>3 DEF Start
  <2>2. Quiet(e, g) /\ Quiet(e, Then(g, EnterNegotiate(g.e)))
    BY <1>2, <2>1, StartQuiet
  <2>3. EngineOK(x)
    <3>1. x \in Engines /\ x.due = e.due /\ x.unack = e.unack
      BY <1>2 DEF EngineOK, Engines
    <3> QED BY <1>2, <3>1, SameAligned
  <2> HIDE DEF x
  <2>4. RetOK(g)
    BY <2>3, MarkerWritten
  <2> HIDE DEF g
  <2>5. RetOK(Then(g, EnterNegotiate(g.e)))
    BY <2>4, EnterNegotiateOK, ThenOK DEF RetOK
  <2>6. RetOK(q) /\ Quiet(e, q)
    BY <2>2, <2>4, <2>5
  <2> HIDE DEF q
  <2> QED BY <2>1, <2>6
<1>4. CASE Give
  <2>1. given' \in 1 .. MaxOut
    BY <1>4, Iap2LinkAssumption DEF Give, TInv
  <2>2. RetOK(SendPacket(e, given')) /\ Quiet(e, SendPacket(e, given'))
    BY <1>2, <2>1, SendPacketOK, SendPacketQuiet
  <2> QED BY <1>4, <2>2 DEF Give
<1>5. CASE ConnectionEnds
  BY <1>2, <1>5, BailoutQuiet, RetIsOK, BailoutOK DEF ConnectionEnds
<1>6. CASE DetectAgain \/ NegotiateAgain
  BY <1>6, AgainQuiet DEF DetectAgain, NegotiateAgain
<1>7. CASE DelayedAck
  BY <1>7, DelayedAckQuiet DEF DelayedAck
<1>8. CASE ExpectAckTimer
  BY <1>2, <1>8, OnExpectAckTimerOK, OnExpectAckTimerQuiet DEF ExpectAckTimer
<1> QED BY <1>3, <1>4, <1>5, <1>6, <1>7, <1>8

(* A step of the phone: what is on the way to it is, or loses its first    *)
(* frame; what it writes is of the window that is open then.               *)
LEMMA TailMutes ==
  ASSUME NEW X, NEW s \in Seq(X), s # <<>>
  PROVE  (\A v : Says(s, v) => Says(Tail(s), v)) /\ (Mute(s) => Mute(Tail(s)))
<1>1. /\ Len(s) \in Nat /\ Len(Tail(s)) = Len(s) - 1
      /\ \A i \in 1 .. Len(s) - 1 : Tail(s)[i] = s[i + 1]
  BY RangeTail
<1>2. \A i \in 1 .. Len(Tail(s)) : i + 1 \in 1 .. Len(s) /\ Tail(s)[i] = s[i + 1]
  BY <1>1
<1> QED BY <1>2, Zenon DEF Says, Mute

LEMMA PhoneKeeps ==
  ASSUME TInv, TInv', NEW r \in Nat, NEW lo \in Nat, Receiving(r, lo),
         e' = e, delivered' = delivered, NEW fs \in Seq(Frames(MaxIn)), in' = in \o fs,
         p.sent <= p'.sent, p.acked <= p'.acked, p'.acked <= r,
         p'.sent - p'.acked <= Lsp.max_outgoing,
         \A i \in 1 .. Len(fs) : /\ fs[i].m <= p'.sent /\ ("SYN" \in fs[i].bits => fs[i].seq = FirstPsn)
                                 /\ <<fs[i], p'.acked>> \in DataRule,
         (Synced(r) \/ Unsynced(r))'
  PROVE  Receiving(r, lo)'
<1>1. /\ p.sent \in Nat /\ p'.sent \in Nat /\ p.acked \in Nat /\ p'.acked \in Nat
      /\ in \in Seq(Frames(MaxIn))
  <2>1. p.sent \in Nat /\ p.acked \in Nat /\ in \in Seq(Frames(MaxIn))
    BY TypesHere
  <2>2. p'.sent \in Nat /\ p'.acked \in Nat
    BY Iap2LinkAssumption DEF TInv
  <2> QED BY <2>1, <2>2
<1>2. Holds(e', r, p'.sent, lo + Lsp.max_outgoing)
  <2>1. Holds(e, r, p.sent, lo + Lsp.max_outgoing)
    BY DEF Receiving
  <2>2. \A m \in r + 2 .. p.sent : m \in r + 2 .. p'.sent
    BY <1>1
  <2> QED BY <2>1, <2>2 DEF Holds
<1>3. ASSUME NEW f \in Range(in')
      PROVE  f.m <= p'.sent /\ ("SYN" \in f.bits => f.seq = FirstPsn)
  <2>1. Range(in') = Range(in) \cup Range(fs)
    BY <1>1, RangeConcat
  <2>2. CASE f \in Range(in)
    <3>1. f \in Frames(MaxIn)
      BY <1>1, <2>2, SeqParts
    <3>2. f.m \in Int
      BY <3>1 DEF Frames
    <3>3. f.m <= p.sent /\ ("SYN" \in f.bits => f.seq = FirstPsn)
      BY <2>2 DEF Receiving
    <3>4. f.m <= p'.sent
      BY <1>1, <3>2, <3>3
    <3> QED BY <3>3, <3>4
  <2>3. CASE f \in Range(fs)
    <3>1. PICK i \in 1 .. Len(fs) : f = fs[i]
      BY <2>3 DEF Range
    <3> QED BY <3>1
  <2> QED BY <2>1, <2>2, <2>3
<1>4. Stamped(in', lo, p'.acked, DataRule)
  <2>1. Stamped(in, lo, p.acked, DataRule) /\ lo <= p.acked
    BY DEF Receiving
  <2>2. lo \in Int /\ p.acked \in Int /\ p'.acked \in Int
    BY <1>1
  <2>3. \A i \in 1 .. Len(fs) : <<fs[i], p'.acked>> \in DataRule
    OBVIOUS
  <2>4. Stamped(in \o fs, lo, p'.acked, DataRule)
    <3>1. PICK k : k = p'.acked
      OBVIOUS
    <3>2. Stamped(in \o fs, lo, k, DataRule)
      BY <1>1, <2>1, <2>2, <2>3, <3>1, StampedConcat
    <3> QED BY <3>1, <3>2
  <2> QED BY <2>4
<1>5. /\ lo <= p.acked /\ r <= p.sent /\ r <= lo + Lsp.max_outgoing
      /\ RunsOn(delivered, 0, r) /\ e.state \in Starting => r = 0
  BY DEF Receiving
<1>6. lo <= p'.acked /\ r <= p'.sent
  BY <1>1, <1>5
<1> QED BY <1>2, <1>3, <1>4, <1>5, <1>6 DEF Receiving

(* The frames of the phone keep the rules.                                 *)
LEMMA RuledFrames ==
  ASSUME NEW q, PhoneOK(q), q.sent - q.acked <= Lsp.max_outgoing
  PROVE  /\ \A f \in Frames(MaxIn) : f.m = NoMsg => <<f, q.acked>> \in DataRule
         /\ \A f \in Range(Missed(q)) : /\ f.m <= q.sent /\ "SYN" \notin f.bits
                                        /\ <<f, q.acked>> \in DataRule
<1>1. q.acked \in Nat /\ q.sent \in Nat /\ Lsp.max_outgoing \in Nat
  BY Iap2LinkAssumption DEF PhoneOK, Phones, Lsps
<1>2. \A f \in Frames(MaxIn) : f.m = NoMsg => <<f, q.acked>> \in DataRule
  BY <1>1, Rules
<1>3. ASSUME NEW f \in Range(Missed(q))
      PROVE  f.m <= q.sent /\ "SYN" \notin f.bits /\ <<f, q.acked>> \in DataRule
  <2>1. PICK j \in 1 .. q.sent - q.acked : f = PhoneData(q, q.acked + j)
    BY PhoneFrames DEF Range
  <2>2. q.acked + j \in 1 .. MaxIn /\ f \in Frames(MaxIn)
    BY <2>1, PhoneFrames
  <2>3. f.m = q.acked + j /\ f.seq = PhonePsn(q.acked + j) /\ "SYN" \notin f.bits
    BY <2>1 DEF PhoneData, Frame
  <2>4. q.acked + j <= q.sent /\ q.acked + j \in q.acked + 1 .. q.acked + Lsp.max_outgoing
    BY <1>1
  <2> QED BY <1>1, <2>2, <2>3, <2>4, Rules
<1> QED BY <1>2, <1>3

LEMMA PhoneWritesReceives ==
  ASSUME TInv, TInv', NEW r \in Nat, NEW lo \in Nat, Receiving(r, lo),
         PhoneSends \/ PhoneAcks \/ PhoneSynAgain \/ PhoneAgain \/ PhoneResets
  PROVE  Receiving(r, lo)'
<1>1. PhoneOK(p) /\ p \in Phones /\ p.acked \in Nat /\ p.sent \in Nat /\ p.acked <= r
      /\ p.sent - p.acked <= Lsp.max_outgoing /\ Lsp.max_outgoing \in 1 .. 255
  BY TypesHere DEF PhoneOK, Receiving
<1>2. ASSUME NEW q, NEW fs \in Seq(Frames(MaxIn)), PhoneWrites(q, fs), q.acked = p.acked,
             \/ q.sent = p.sent /\ q.open = p.open
             \/ p.open /\ q.sent = p.sent + 1 /\ q.sent - q.acked <= Lsp.max_outgoing,
             \A f \in Range(fs) : /\ f.m <= q.sent /\ ("SYN" \in f.bits => f.seq = FirstPsn)
                                  /\ <<f, q.acked>> \in DataRule
      PROVE  Receiving(r, lo)'
  <2>1. e' = e /\ out' = out /\ delivered' = delivered /\ p' = q /\ in' = in \o fs
    BY <1>2 DEF PhoneWrites
  <2>2. \A i \in 1 .. Len(fs) : fs[i] \in Range(fs)
    BY SeqParts DEF Range
  <2>3. (Synced(r) \/ Unsynced(r))'
    <3>1. CASE Synced(r)
      BY <1>2, <2>1, <3>1 DEF Synced
    <3>2. CASE Unsynced(r)
      BY <1>2, <2>1, <3>2 DEF Unsynced
    <3> QED BY <3>1, <3>2 DEF Receiving
  <2>4. p.sent <= p'.sent /\ p.acked <= p'.acked /\ p'.acked <= r
    BY <1>1, <1>2, <2>1
  <2>5. p'.sent - p'.acked <= Lsp.max_outgoing
    BY <1>1, <1>2, <2>1
  <2>6. \A i \in 1 .. Len(fs) : /\ fs[i].m <= p'.sent /\ ("SYN" \in fs[i].bits => fs[i].seq = FirstPsn)
                                /\ <<fs[i], p'.acked>> \in DataRule
    BY <1>2, <2>1, <2>2
  <2> QED BY <2>1, <2>3, <2>4, <2>5, <2>6, PhoneKeeps
<1>3. ASSUME NEW f \in Frames(MaxIn), NEW q, PhoneWrites(q, <<f>>), q.acked = p.acked,
             q.sent = p.sent, q.open = p.open, f.m = NoMsg, "SYN" \in f.bits => f.seq = FirstPsn
      PROVE  Receiving(r, lo)'
  <2>1. <<f>> \in Seq(Frames(MaxIn)) /\ Range(<<f>>) = {f}
    BY One DEF Range
  <2>2. f.m <= q.sent /\ <<f, q.acked>> \in DataRule
    BY <1>1, <1>3, RuledFrames DEF NoMsg
  <2> QED BY <1>2, <1>3, <2>1, <2>2
<1>4. CASE PhoneSends
  <2> DEFINE q == [p EXCEPT !.sent = @ + 1, !.owes = FALSE]
             f == PhoneData(p, p.sent + 1)
  <2>1. p.sent + 1 \in 1 .. MaxIn /\ p.open /\ p.sent - p.acked < Lsp.max_outgoing
    BY <1>1, <1>4, Iap2LinkAssumption DEF PhoneSends
  <2>2. q.acked = p.acked /\ q.sent = p.sent + 1
    BY <1>1 DEF Phones
  <2>3. f \in Frames(MaxIn)
    BY <1>1, <2>1, PhoneFrames
  <2>4. f.m = p.sent + 1 /\ f.seq = PhonePsn(p.sent + 1) /\ "SYN" \notin f.bits
    BY DEF PhoneData, Frame
  <2>5. PhoneWrites(q, <<f>>)
    BY <1>4 DEF PhoneSends
  <2> HIDE DEF q, f
  <2>6. <<f, q.acked>> \in DataRule /\ f.m <= q.sent /\ q.sent - q.acked <= Lsp.max_outgoing
    <3>1. p.sent + 1 \in p.acked + 1 .. p.acked + Lsp.max_outgoing
      <4>1. PICK s, a, w : s = p.sent /\ a = p.acked /\ w = Lsp.max_outgoing
        OBVIOUS
      <4>2. s \in Int /\ a \in Int /\ w \in Int /\ a <= s /\ s - a < w
        BY <1>1, <2>1, <4>1 DEF PhoneOK
      <4>3. s + 1 \in a + 1 .. a + w
        BY <4>2
      <4> QED BY <4>1, <4>3
    <3> QED BY <1>1, <2>1, <2>2, <2>3, <2>4, <3>1, Rules
  <2>7. <<f>> \in Seq(Frames(MaxIn)) /\ Range(<<f>>) = {f}
    BY <2>3, One DEF Range
  <2> QED BY <1>2, <2>1, <2>2, <2>4, <2>5, <2>6, <2>7
<1>5. CASE PhoneAcks
  <2> DEFINE q == [p EXCEPT !.owes = FALSE]
  <2>1. q.acked = p.acked /\ q.sent = p.sent /\ q.open = p.open
    BY <1>1 DEF Phones
  <2>2. PhoneAck(p) \in Frames(MaxIn) /\ PhoneAck(p).m = NoMsg /\ "SYN" \notin PhoneAck(p).bits
    BY <1>1, PhoneFrames DEF PhoneAck, Frame
  <2>3. PhoneWrites(q, <<PhoneAck(p)>>)
    BY <1>5 DEF PhoneAcks
  <2> HIDE DEF q
  <2> QED BY <1>3, <2>1, <2>2, <2>3
<1>6. CASE PhoneSynAgain
  <2> DEFINE f == [PhoneSyn EXCEPT !.bits = {"SYN", "ACK"}]
  <2>1. f = Frame({"SYN", "ACK"}, FirstPsn, p.recv, NoMsg, {})
    BY DEF PhoneSyn, Frame
  <2> HIDE DEF f
  <2>2. f \in Frames(MaxIn) /\ f.m = NoMsg /\ f.seq = FirstPsn
    BY <1>1, <2>1, PhoneFrames, FirstIsPsn DEF Bits, Frame
  <2>3. PhoneWrites(p, <<f>>)
    BY <1>6 DEF PhoneSynAgain, f
  <2> QED BY <1>3, <2>2, <2>3
<1>7. CASE PhoneAgain
  <2>1. PhoneWrites(p, Missed(p)) /\ Missed(p) \in Seq(Frames(MaxIn))
    BY <1>1, <1>7, PhoneFrames DEF PhoneAgain
  <2>2. \A f \in Range(Missed(p)) : /\ f.m <= p.sent /\ "SYN" \notin f.bits
                                    /\ <<f, p.acked>> \in DataRule
    BY <1>1, RuledFrames
  <2> QED BY <1>2, <2>1, <2>2
<1>8. CASE PhoneResets
  <2> DEFINE f == Frame({"RST"}, 0, 0, NoMsg, {})
  <2>1. f \in Frames(MaxIn) /\ f.m = NoMsg /\ "SYN" \notin f.bits
    BY Iap2LinkAssumption DEF Frame, Frames, Psn, Bits, NoMsg
  <2>2. PhoneWrites(p, <<f>>)
    BY <1>8 DEF PhoneResets
  <2> HIDE DEF f
  <2> QED BY <1>3, <2>1, <2>2
<1> QED BY <1>4, <1>5, <1>6, <1>7, <1>8

(* What is left of the frames to the phone when it has lost or taken one.  *)
LEMMA LessOut ==
  ASSUME TInv, NEW r \in Nat, NEW lo \in Nat, Receiving(r, lo), out # <<>>
  PROVE  /\ Synced(r) => Stamped(Tail(out), p.acked, r, AckRule)
         /\ Unsynced(r) => Says(Tail(out), 0) /\ (e.state \in Starting => Mute(Tail(out)))
<1>1. out \in Seq(Frames(MaxOut)) /\ p.acked \in Nat
  BY TypesHere
<1>2. ASSUME Synced(r) PROVE Stamped(Tail(out), p.acked, r, AckRule)
  <2>1. Stamped(out, p.acked, r, AckRule) /\ p.acked \in Int /\ r \in Int
    BY <1>1, <1>2 DEF Synced
  <2>2. PICK b \in p.acked .. r : Stamped(Tail(out), b, r, AckRule)
    BY <1>1, <2>1, StampedTail
  <2>3. b \in Int /\ p.acked <= b /\ r <= r
    BY <2>1
  <2> QED BY <2>1, <2>2, <2>3, StampedWiden
<1> QED BY <1>1, <1>2, TailMutes DEF Unsynced

LEMMA DamagedReceives ==
  ASSUME TInv, TInv', NEW r \in Nat, NEW lo \in Nat, Receiving(r, lo), Damaged
  PROVE  Receiving(r, lo)'
<1>1. e' = e /\ delivered' = delivered /\ p' = p
  BY DEF Damaged, phone
<1>2. CASE out' = out /\ in # <<>> /\ in' = Tail(in)
  <2>1. in \in Seq(Frames(MaxIn)) /\ p.acked \in Int /\ lo \in Int
        /\ Stamped(in, lo, p.acked, DataRule)
    BY TypesHere DEF Receiving
  <2>2. PICK b \in lo .. p.acked : Stamped(Tail(in), b, p.acked, DataRule)
    BY <1>2, <2>1, StampedTail
  <2>3. b \in Int /\ lo <= b /\ p.acked <= p.acked
    BY <2>1
  <2>4. Stamped(Tail(in), lo, p.acked, DataRule)
    BY <2>1, <2>2, <2>3, StampedWiden
  <2>5. Range(Tail(in)) \in SUBSET Range(in)
    BY <1>2, <2>1, RangeTail
  <2>6. Synced(r)' <=> Synced(r)
    BY <1>1, <1>2 DEF Synced
  <2>7. Unsynced(r)' <=> Unsynced(r)
    BY <1>1, <1>2 DEF Unsynced
  <2> QED BY <1>1, <1>2, <2>4, <2>5, <2>6, <2>7 DEF Receiving
<1>3. CASE in' = in /\ out # <<>> /\ out' = Tail(out)
  <2>1. (Synced(r) \/ Unsynced(r))'
    BY <1>1, <1>3, LessOut DEF Receiving, Synced, Unsynced
  <2> QED BY <1>1, <1>3, <2>1 DEF Receiving
<1> QED BY <1>2, <1>3 DEF Damaged

(* The phone takes an ack of the engine: it is of a position it knows.     *)
LEMMA ReadsReceives ==
  ASSUME TInv, TInv', NEW r \in Nat, NEW lo \in Nat, Receiving(r, lo), out # <<>>,
         PhoneReads(Head(out)), e' = e, delivered' = delivered, out' = Tail(out)
  PROVE  Receiving(r, lo)'
<1> DEFINE f == Head(out)
           q == Opened(f)
<1>1. /\ p \in Phones /\ p.acked \in Nat /\ p.sent \in Nat /\ p.acked <= r /\ r <= p.sent
      /\ p.sent - p.acked <= Lsp.max_outgoing /\ Lsp.max_outgoing \in 1 .. 255
      /\ out \in Seq(Frames(MaxOut)) /\ in \in Seq(Frames(MaxIn))
  BY TypesHere DEF Receiving
<1>14. PICK s \in Nat, a \in Nat, w \in 1 .. 255 :
         s = p.sent /\ a = p.acked /\ w = Lsp.max_outgoing /\ s - a <= w
  BY <1>1
<1>2. f \in Frames(MaxOut) /\ f = out[1] /\ 1 \in 1 .. Len(out)
  BY <1>1, RangeTail
<1>3. PhoneReads(f)
  OBVIOUS
<1> HIDE DEF f
<1>4. /\ PhoneOK(q) /\ q.open = (p.open \/ AcksIn(f) # {}) /\ q.recv = p.recv /\ q.owes = p.owes
      /\ q.sent = p.sent
      /\ \/ AcksIn(f) = {} /\ q.acked = p.acked
         \/ /\ AcksIn(f) # {} /\ q.acked \in AcksIn(f)
            /\ \A k \in AcksIn(f) : q.acked <= k
  BY OpenedOK
<1>5. /\ p' = [q EXCEPT !.recv = IF NextData(f) THEN f.seq ELSE @,
                        !.owes = @ \/ (f.m # NoMsg /\ q.open)]
      /\ Asked(f) \in Seq(Frames(MaxIn)) /\ Range(Asked(f)) \in SUBSET Range(Missed(q))
      /\ \/ in' = in \o Asked(f)
         \/ \E K \in SUBSET Psn :
              in' = in \o Asked(f) \o <<Frame({"EAK"}, PhonePsn(p.sent), p.recv, NoMsg, K)>>
  BY <1>2, <1>3, PhoneReadsParts
<1> HIDE DEF q
<1>6. p'.acked = q.acked /\ p'.sent = p.sent /\ p'.open = q.open
  BY <1>4, <1>5 DEF PhoneOK, Phones
<1>7. /\ p.acked <= q.acked /\ q.acked <= r /\ q.acked \in Nat
      /\ (Synced(r) => Stamped(Tail(out), q.acked, r, AckRule))
      /\ (Unsynced(r) => AcksIn(f) = {})
  <2>1. CASE Synced(r)
    <3>1. Stamped(out, p.acked, r, AckRule) /\ p.acked \in Int /\ r \in Int
      BY <1>1, <2>1 DEF Synced
    <3>2. PICK b \in p.acked .. r : <<f, b>> \in AckRule /\ Stamped(Tail(out), b, r, AckRule)
      BY <1>1, <3>1, StampedTail DEF f
    <3>3. b \in Nat /\ p.acked <= b /\ b <= r /\ b \in p.acked .. p.sent
      BY <1>1, <3>2
    <3>4. CASE "ACK" \notin f.bits
      <4>1. AcksIn(f) = {}
        BY <3>4 DEF AcksIn
      <4>2. Stamped(Tail(out), p.acked, r, AckRule)
        BY <2>1, LessOut
      <4> QED BY <1>1, <1>4, <4>1, <4>2
    <3>5. CASE "ACK" \in f.bits
      <4>1. f.ack = PhonePsn(b)
        BY <1>2, <3>2, <3>3, <3>5, Rules
      <4>2. ASSUME NEW k \in p.acked .. p.sent, PhonePsn(k) = f.ack PROVE k = b
        <5>5. k \in a .. s /\ b \in a .. s /\ s - a <= w
          BY <1>14, <3>3
        <5>3. k \in Int /\ b \in Int /\ k - b <= 255 /\ b - k <= 255
          BY <5>5
        <5>4. FirstPsn \in Int /\ Next8(FirstPsn, k) = Next8(FirstPsn, b)
          BY <4>1, <4>2, FirstIsPsn DEF PhonePsn
        <5> QED BY <5>3, <5>4, SameNumber
      <4>3. AcksIn(f) = {b}
        BY <3>3, <3>5, <4>1, <4>2 DEF AcksIn
      <4>4. q.acked = b
        BY <1>4, <4>3
      <4>5. ~Unsynced(r)
        <5>1. ASSUME Unsynced(r) PROVE FALSE
          <6>1. f.ack = 0 /\ FirstPsn # 0 /\ p.sent = 0
            BY <1>2, <3>5, <5>1 DEF Unsynced, Says
          <6>2. b = 0
            BY <1>1, <3>3, <6>1
          <6> QED BY <4>1, <6>1, <6>2, Iap2LinkAssumption DEF PhonePsn, Next8
        <5> QED BY <5>1
      <4> QED BY <3>2, <3>3, <4>4, <4>5
    <3> QED BY <3>4, <3>5
  <2>2. CASE Unsynced(r)
    <3>1. Says(out, 0) /\ FirstPsn # 0 /\ p.sent = 0
      BY <2>2 DEF Unsynced
    <3>2. p.acked = 0 /\ \A k \in p.acked .. p.sent : k = 0
      BY <1>1, <3>1
    <3>3. PhonePsn(0) # 0
      BY <3>1, Iap2LinkAssumption DEF PhonePsn, Next8
    <3>4. "ACK" \in f.bits => f.ack = 0
      BY <1>2, <3>1 DEF Says
    <3>5. AcksIn(f) = {}
      BY <3>2, <3>3, <3>4 DEF AcksIn
    <3> QED BY <1>1, <1>4, <2>1, <3>5
  <2> QED BY <2>1, <2>2 DEF Receiving
<1>8. (Synced(r) \/ Unsynced(r))'
  <2>1. CASE Synced(r)
    BY <1>6, <1>7, <2>1 DEF Synced
  <2>2. CASE Unsynced(r)
    <3>1. p'.open = FALSE /\ p'.sent = 0
      BY <1>4, <1>6, <1>7, <2>2 DEF Unsynced
    <3>2. Says(Tail(out), 0) /\ (e.state \in Starting => Mute(Tail(out)))
      BY <2>2, LessOut
    <3> QED BY <2>2, <3>1, <3>2 DEF Unsynced
  <2> QED BY <2>1, <2>2 DEF Receiving
<1>9. q.sent - q.acked <= Lsp.max_outgoing
  <2>1. PICK k \in Nat : k = q.acked /\ a <= k
    BY <1>7, <1>14
  <2>2. s \in Int /\ a \in Int /\ k \in Int /\ w \in Int
    BY <1>14, <2>1
  <2>3. s - a <= w /\ a <= k
    BY <1>14, <2>1
  <2>4. s - k <= w
    BY ONLY <2>2, <2>3
  <2> QED BY <1>4, <1>14, <2>1, <2>4
<1>10. /\ \A g \in Frames(MaxIn) : g.m = NoMsg => <<g, q.acked>> \in DataRule
       /\ \A g \in Range(Asked(f)) : /\ g.m <= q.sent /\ "SYN" \notin g.bits
                                     /\ <<g, q.acked>> \in DataRule
  BY <1>4, <1>5, <1>9, RuledFrames
<1>11. ASSUME NEW fs \in Seq(Frames(MaxIn)), in' = in \o fs,
              \A g \in Range(fs) : g \in Range(Asked(f)) \/ (g.m = NoMsg /\ "SYN" \notin g.bits)
       PROVE  Receiving(r, lo)'
  <2>1. ASSUME NEW i \in 1 .. Len(fs)
        PROVE  /\ fs[i].m <= p'.sent /\ ("SYN" \in fs[i].bits => fs[i].seq = FirstPsn)
               /\ <<fs[i], p'.acked>> \in DataRule
    <3>1. fs[i] \in Range(fs) /\ fs[i] \in Frames(MaxIn)
      BY SeqParts DEF Range
    <3>2. CASE fs[i] \in Range(Asked(f))
      BY <1>4, <1>6, <1>10, <3>2
    <3>3. CASE fs[i].m = NoMsg /\ "SYN" \notin fs[i].bits
      BY <1>1, <1>6, <1>10, <3>1, <3>3 DEF NoMsg
    <3> QED BY <1>11, <3>1, <3>2, <3>3
  <2>2. p.sent <= p'.sent /\ p.acked <= p'.acked /\ p'.acked <= r
        /\ p'.sent - p'.acked <= Lsp.max_outgoing
    BY <1>1, <1>4, <1>6, <1>7, <1>9
  <2> QED BY <1>8, <1>11, <2>1, <2>2, PhoneKeeps
<1>12. CASE in' = in \o Asked(f)
  <2>1. Asked(f) \in Seq(Frames(MaxIn)) /\ \A g \in Range(Asked(f)) : g \in Range(Asked(f))
    BY <1>5
  <2> QED BY <1>11, <1>12, <2>1
<1>13. ASSUME NEW K \in SUBSET Psn,
              in' = in \o Asked(f) \o <<Frame({"EAK"}, PhonePsn(p.sent), p.recv, NoMsg, K)>>
       PROVE  Receiving(r, lo)'
  <2> DEFINE g == Frame({"EAK"}, PhonePsn(p.sent), p.recv, NoMsg, K)
  <2>1. PhonePsn(p.sent) \in Psn /\ PhoneOK(p)
    <3>1. PhonePsn(p.sent) \in Psn
      <4>1. p.sent \in Int /\ FirstPsn \in Int
        BY <1>1, FirstIsPsn
      <4> QED BY <4>1, Next8Psn DEF PhonePsn
    <3> QED BY <1>1, <3>1, TypesHere DEF PhoneOK
  <2>2. g \in Frames(MaxIn) /\ g.m = NoMsg /\ "SYN" \notin g.bits
    BY <2>1, PhoneFrames DEF Bits, Frame
  <2>3. in' = (in \o Asked(f)) \o <<g>>
    BY <1>13
  <2> HIDE DEF g
  <2>4. <<g>> \in Seq(Frames(MaxIn)) /\ Range(<<g>>) = {g}
    BY <2>2, One DEF Range
  <2>5. /\ Asked(f) \o <<g>> \in Seq(Frames(MaxIn))
        /\ Range(Asked(f) \o <<g>>) = Range(Asked(f)) \cup {g}
    <3>1. PICK y, z : y = Asked(f) /\ z = <<g>>
      OBVIOUS
    <3>2. y \in Seq(Frames(MaxIn)) /\ z \in Seq(Frames(MaxIn)) /\ Range(z) = {g}
      BY <1>5, <2>4, <3>1
    <3>3. y \o z \in Seq(Frames(MaxIn)) /\ Range(y \o z) = Range(y) \cup {g}
      BY <3>2, ConcatProperties, RangeConcat
    <3> QED BY <3>1, <3>3
  <2>6. in' = in \o (Asked(f) \o <<g>>)
    <3>1. PICK x, y, z : x = in /\ y = Asked(f) /\ z = <<g>>
      OBVIOUS
    <3>2. (x \o y) \o z = x \o (y \o z)
      <4>1. x \in Seq(Frames(MaxIn)) /\ y \in Seq(Frames(MaxIn)) /\ z \in Seq(Frames(MaxIn))
        BY <1>1, <1>5, <2>4, <3>1
      <4> QED BY ONLY <4>1
    <3> QED BY <2>3, <3>1, <3>2, Zenon
  <2> QED BY <1>11, <2>2, <2>5, <2>6
<1> QED BY <1>5, <1>12, <1>13

LEMMA PhoneTakesReceives ==
  ASSUME TInv, TInv', NEW r \in Nat, NEW lo \in Nat, Receiving(r, lo), PhoneTakes
  PROVE  Receiving(r, lo)'
<1> DEFINE f == Head(out)
<1>1. /\ out # <<>> /\ out' = Tail(out) /\ e' = e /\ delivered' = delivered
      /\ \/ f = Marker /\ in' = Append(in, Marker) /\ p' = p
         \/ PhoneAnswers(f)
         \/ PhoneReads(f)
  BY DEF PhoneTakes, phone
<1>2. /\ p \in Phones /\ PhoneOK(p) /\ p.acked \in Nat /\ p.sent \in Nat /\ p.acked <= r
      /\ p.sent - p.acked <= Lsp.max_outgoing
      /\ out \in Seq(Frames(MaxOut)) /\ in \in Seq(Frames(MaxIn))
  BY TypesHere DEF Receiving, PhoneOK
<1>3. f \in Frames(MaxOut)
  BY <1>1, <1>2, RangeTail
<1> HIDE DEF f
<1>4. ASSUME NEW fs \in Seq(Frames(MaxIn)), in' = in \o fs,
             p'.sent = p.sent, p'.acked = p.acked, p'.open = p.open,
             \A g \in Range(fs) : g.m = NoMsg /\ ("SYN" \in g.bits => g.seq = FirstPsn)
      PROVE  Receiving(r, lo)'
  <2>1. (Synced(r) \/ Unsynced(r))'
    <3>1. CASE Synced(r)
      BY <1>1, <1>4, <3>1, LessOut DEF Synced
    <3>2. CASE Unsynced(r)
      BY <1>1, <1>4, <3>2, LessOut DEF Unsynced
    <3> QED BY <3>1, <3>2 DEF Receiving
  <2>2. ASSUME NEW i \in 1 .. Len(fs)
        PROVE  /\ fs[i].m <= p'.sent /\ ("SYN" \in fs[i].bits => fs[i].seq = FirstPsn)
               /\ <<fs[i], p'.acked>> \in DataRule
    <3>1. fs[i] \in Range(fs) /\ fs[i] \in Frames(MaxIn)
      BY SeqParts DEF Range
    <3>2. fs[i].m = NoMsg /\ ("SYN" \in fs[i].bits => fs[i].seq = FirstPsn)
      BY <1>4, <3>1
    <3> QED BY <1>2, <1>4, <3>1, <3>2, RuledFrames DEF NoMsg
  <2>3. p.sent <= p'.sent /\ p.acked <= p'.acked /\ p'.acked <= r
        /\ p'.sent - p'.acked <= Lsp.max_outgoing
    BY <1>2, <1>4
  <2> QED BY <1>1, <1>4, <2>1, <2>2, <2>3, PhoneKeeps
<1>5. CASE f = Marker /\ in' = Append(in, Marker) /\ p' = p
  <2>1. Marker \in Frames(MaxIn) /\ Marker.m = NoMsg /\ "SYN" \notin Marker.bits
    BY Iap2LinkAssumption DEF Marker, Frame, Frames, Psn, Bits, NoMsg
  <2>2. <<Marker>> \in Seq(Frames(MaxIn)) /\ Range(<<Marker>>) = {Marker}
    BY <2>1, One DEF Range
  <2>3. in' = in \o <<Marker>>
    <3>1. PICK g : g = Marker
      OBVIOUS
    <3>2. Append(in, g) = in \o <<g>>
      BY <1>2, <2>1, <3>1, AppendIsConcat
    <3> QED BY <1>5, <3>1, <3>2
  <2> QED BY <1>4, <1>5, <2>1, <2>2, <2>3
<1>6. CASE PhoneAnswers(f)
  <2> DEFINE q == [p EXCEPT !.recv = f.seq]
             syn == Frame({"SYN"}, FirstPsn, f.seq, NoMsg, {})
             both == [syn EXCEPT !.bits = {"SYN", "ACK"}]
             ack == PhoneAck(q)
  <2>1. /\ p' = q /\ (in' = in \o <<both>> \/ in' = in \o <<syn, ack>>)
    BY <1>6 DEF PhoneAnswers
  <2>2. /\ PhoneOK(q) /\ q.recv = f.seq /\ q.sent = p.sent /\ q.acked = p.acked
        /\ q.open = p.open
    <3>1. f.seq \in Psn
      BY <1>3 DEF Frames
    <3> QED BY <1>2, <3>1 DEF PhoneOK, Phones
  <2>3. both = Frame({"SYN", "ACK"}, FirstPsn, f.seq, NoMsg, {})
    BY DEF Frame
  <2> HIDE DEF q, both
  <2>4. syn \in Frames(MaxIn) /\ both \in Frames(MaxIn) /\ ack \in Frames(MaxIn)
    BY <2>2, <2>3, PhoneFrames, FirstIsPsn DEF Bits
  <2>5. /\ syn.m = NoMsg /\ both.m = NoMsg /\ ack.m = NoMsg
        /\ syn.seq = FirstPsn /\ both.seq = FirstPsn /\ "SYN" \notin ack.bits
    BY <2>3 DEF Frame, PhoneAck
  <2> HIDE DEF syn, ack
  <2>6. /\ <<both>> \in Seq(Frames(MaxIn)) /\ Range(<<both>>) = {both}
        /\ <<syn, ack>> \in Seq(Frames(MaxIn)) /\ Range(<<syn, ack>>) = {syn, ack}
    BY <2>4 DEF Range
  <2> QED BY <1>4, <2>1, <2>2, <2>5, <2>6
<1>7. CASE PhoneReads(f)
  BY <1>1, <1>7, ReadsReceives DEF f
<1> QED BY <1>1, <1>5, <1>6, <1>7

LEMMA NextReceives ==
  ASSUME Lsp.max_outgoing <= 123, TInv, TInv', Pristine(e), NEW r \in Nat, NEW lo \in Nat,
         Receiving(r, lo), [Next]_vars
  PROVE  Pristine(e)' /\ \E r2, lo2 \in Nat : Receiving(r2, lo2)'
<1>2. SUFFICES ASSUME ~Take PROVE Pristine(e)' /\ Receiving(r, lo)'
  BY TakeReceives
<1>3. SUFFICES ASSUME e' = e, delivered' = delivered PROVE Receiving(r, lo)'
  <2>1. CASE e' = e /\ delivered' = delivered
    BY <1>3, <2>1 DEF Pristine, Marked, Blank
  <2>2. ASSUME ~(e' = e /\ delivered' = delivered)
        PROVE  \/ \E initiate \in BOOLEAN : Start(initiate)
               \/ Give \/ ConnectionEnds \/ DetectAgain \/ NegotiateAgain \/ DelayedAck
               \/ ExpectAckTimer
    <3>1. UNCHANGED vars => e' = e /\ delivered' = delivered
      BY DEF vars
    <3>2. PhoneTakes \/ Damaged => e' = e /\ delivered' = delivered
      BY DEF PhoneTakes, Damaged
    <3>3. PhoneSends \/ PhoneAcks \/ PhoneSynAgain \/ PhoneAgain \/ PhoneResets
          => e' = e /\ delivered' = delivered
      BY DEF PhoneSends, PhoneAcks, PhoneSynAgain, PhoneAgain, PhoneResets, PhoneWrites
    <3> QED BY <1>2, <2>2, <3>1, <3>2, <3>3 DEF Next
  <2> QED BY <2>1, <2>2, QuietSteps
<1>4. CASE UNCHANGED vars
  BY <1>4 DEF vars, Receiving, Synced, Unsynced
<1>5. CASE \/ \E initiate \in BOOLEAN : Start(initiate)
           \/ Give \/ ConnectionEnds \/ DetectAgain \/ NegotiateAgain \/ DelayedAck \/ ExpectAckTimer
  BY <1>5, QuietSteps
<1> QED
  BY <1>2, <1>4, <1>5, PhoneTakesReceives, PhoneWritesReceives, DamagedReceives DEF Next

LEMMA InitReceives == ASSUME Init PROVE RInv
<1>1. TInv
  BY InitTypes
<1>2. Pristine(e)
  BY DEF Init, Pristine, Marked, Blank
<1>3. /\ e.recv = 0 /\ e.held = <<>> /\ in = <<>> /\ out = <<>> /\ ~p.open /\ p.sent = 0
      /\ p.acked = 0 /\ delivered = <<>>
  BY DEF Init
<1>4. Range(<<>>) = {} /\ Mute(<<>>) /\ \A v : Says(<<>>, v)
  BY SaysParts DEF Range
<1>5. Lsp.max_outgoing \in 1 .. 255
  BY <1>1, TypesHere
<1>6. Synced(0) \/ Unsynced(0)
  <2>1. CASE FirstPsn = 0
    <3>1. PhonePsn(0) = 0
      BY <2>1 DEF PhonePsn, Next8
    <3>2. Stamped(<<>>, 0, 0, AckRule)
      BY StampedEmpty
    <3> QED BY <1>3, <3>1, <3>2 DEF Synced
  <2>2. CASE FirstPsn # 0
    BY <1>3, <1>4, <2>2 DEF Unsynced
  <2> QED BY <2>1, <2>2
<1>7. Holds(e, 0, p.sent, 0 + Lsp.max_outgoing)
  BY <1>3, <1>4 DEF Holds
<1>8. Stamped(in, 0, p.acked, DataRule)
  <2>1. Stamped(<<>>, 0, 0, DataRule)
    BY StampedEmpty
  <2> QED BY <1>3, <2>1
<1>9. Receiving(0, 0)
  <2>1. RunsOn(delivered, 0, 0)
    BY <1>3, RunsOnEmpty
  <2>2. Range(in) = {}
    BY <1>3, <1>4
  <2>3. /\ 0 <= p.acked /\ p.acked <= 0 /\ 0 <= p.sent
        /\ p.sent - p.acked <= Lsp.max_outgoing /\ 0 <= 0 + Lsp.max_outgoing
    <3>1. PICK w \in 1 .. 255 : w = Lsp.max_outgoing
      BY <1>5
    <3>2. 0 - 0 <= w /\ 0 <= 0 + w /\ 0 <= 0
      OBVIOUS
    <3> QED BY <1>3, <3>1, <3>2
  <2> QED BY <1>6, <1>7, <1>8, <2>1, <2>2, <2>3 DEF Receiving
<1> QED BY <1>1, <1>2, <1>9 DEF RInv

(* In a window of up to 123 packets an old number is never taken for one    *)
(* ahead: d > max_outgoing + 10 tells them apart in eight bits.             *)
NarrowWindow == Lsp.max_outgoing <= 123

LEMMA NextRInv == ASSUME NarrowWindow, RInv, [Next]_vars PROVE RInv'
<1>1. TInv /\ TInv'
  BY NextTypes DEF RInv
<1>2. PICK r \in Nat, lo \in Nat : Receiving(r, lo)
  BY DEF RInv
<1>3. Pristine(e)' /\ \E r2, lo2 \in Nat : Receiving(r2, lo2)'
  BY <1>1, <1>2, NextReceives DEF RInv, NarrowWindow
<1> QED BY <1>1, <1>3 DEF RInv

(* What the phone takes to be acknowledged, and so forgets, was delivered,  *)
(* for every number of its first frame, any loss and any early timeout.     *)
THEOREM AlwaysAckedIsDelivered == NarrowWindow => (Spec => []AckedIsDelivered)
<1> SUFFICES ASSUME NarrowWindow PROVE Spec => []AckedIsDelivered
  OBVIOUS
<1>1. RInv => AckedIsDelivered
  <2> SUFFICES ASSUME RInv PROVE 1 .. p.acked \subseteq Range(delivered)
    BY DEF AckedIsDelivered
  <2>1. PICK r \in Nat, lo \in Nat : Receiving(r, lo)
    BY DEF RInv
  <2>2. p.acked \in Nat
    BY TypesHere DEF RInv
  <2>3. p.acked <= r /\ Range(delivered) = 0 + 1 .. r
    BY <2>1 DEF Receiving, RunsOn
  <2>4. 1 .. p.acked \subseteq 0 + 1 .. r
    BY <2>2, <2>3
  <2> QED BY <2>3, <2>4
<1>2. Init => RInv
  BY InitReceives
<1>3. RInv /\ [Next]_vars => RInv'
  BY NextRInv
<1> QED BY <1>1, <1>2, <1>3, PTL DEF Spec

(* The phone's messages come out in order: each after all that precede it,  *)
(* none after one that follows it, whatever is lost, repeated or held back; *)
(* and what the engine still holds is ahead of the next packet.             *)
THEOREM AlwaysInOrder == NarrowWindow => (Spec => []InOrder)
<1> SUFFICES ASSUME NarrowWindow PROVE Spec => []InOrder
  OBVIOUS
<1>1. RInv => InOrder
  <2> SUFFICES ASSUME RInv PROVE InOrder
    OBVIOUS
  <2>1. PICK r \in Nat, lo \in Nat : Receiving(r, lo)
    BY DEF RInv
  <2>2. ASSUME NEW i \in DOMAIN delivered
        PROVE  {delivered[j] : j \in 1 .. i} = 1 .. delivered[i]
    BY <2>1 DEF Receiving, RunsOn
  <2>3. ASSUME NEW i \in DOMAIN e.held PROVE Distance(e.held[i].psn, e.recv) > 1
    <3>1. PICK q : q = e.held[i]
      OBVIOUS
    <3>2. q \in Range(e.held)
      BY <3>1 DEF Range
    <3>3. q.psn = PhonePsn(q.m) /\ q.m \in r + 2 .. p.sent
      BY <2>1, <3>2 DEF Receiving, Holds
    <3>4. PICK m \in r + 2 .. p.sent : m = q.m
      BY <3>3
    <3>5. p.sent \in Nat /\ p.acked \in Nat /\ Lsp.max_outgoing \in Nat
      <4>1. p.sent \in Nat /\ p.acked \in Nat /\ Lsp.max_outgoing \in 1 .. 255
        BY TypesHere DEF RInv
      <4> QED BY <4>1
    <3>6. p.acked <= r /\ p.sent - p.acked <= Lsp.max_outgoing /\ Lsp.max_outgoing <= 123
      BY <2>1 DEF Receiving, NarrowWindow
    <3>7. m - r \in 0 .. 255 /\ m - r > 1 /\ m \in Int /\ r \in Int /\ p.sent # 0
      BY <3>5, <3>6
    <3>8. e.recv = PhonePsn(r)
      BY <2>1, <3>7 DEF Receiving, Synced, Unsynced
    <3>9. Distance(PhonePsn(m), PhonePsn(r)) = m - r
      BY <3>7, PhoneDistance
    <3> QED BY <3>1, <3>3, <3>4, <3>7, <3>8, <3>9
  <2> QED BY <2>2, <2>3 DEF InOrder
<1>2. Init => RInv
  BY InitReceives
<1>3. RInv /\ [Next]_vars => RInv'
  BY NextRInv
<1> QED BY <1>1, <1>2, <1>3, PTL DEF Spec
-----------------------------------------------------------------------------
(***************************************************************************)
(* Sending.  The phone has acknowledged the first a messages the engine    *)
(* sent; those after them are kept, in order, for repetition.              *)
(***************************************************************************)
OwnNum(j) == Next8(OwnPsn, j)
Retains(x) == x.lsp.max_retransmissions > 0
Waiting(x) == {x.unack[i].m : i \in 1 .. Len(x.unack)}

Numbered(x, a) ==
  /\ Marked(x)
  /\ x.sent = OwnNum(a + Len(x.unack)) /\ Len(x.unack) <= x.lsp.max_outgoing + 1
  /\ \A i \in 1 .. Len(x.unack) : x.unack[i].psn = OwnNum(a + i)
  /\ \/ x.acked = OwnNum(a) /\ x.state \notin Starting
     \/ x.acked = None /\ a = 0 /\ x.unack = <<>> /\ x.state # "Normal"

(* The stamp of a frame: 0 before the handshake is through, when SYNs are   *)
(* written; then the number of the first message not acknowledged.          *)
Stamp(x, a) == IF x.state \in Starting THEN 0 ELSE a + 1

OutRule(u, a) ==
  {q \in Frames(MaxOut) \X Nat :
     /\ "SYN" \in q[1].bits => q[1].seq = OwnPsn /\ q[2] = 0
     /\ q[1].m # NoMsg =>
          \E j \in q[2] .. q[2] + 245 :
            /\ q[2] >= 1 /\ j <= a + Len(u) /\ q[1].seq = OwnNum(j)
            /\ j > a => q[1].m = u[j - a].m}
InRule == {q \in Frames(MaxIn) \X Nat : "ACK" \in q[1].bits => q[1].ack = OwnNum(q[2])}

(* The packets kept never reach around the eight bits, nor into the numbers *)
(* an ack keeps.                                                            *)
ShortWindow == Lsp.max_outgoing + Lsp.max_ack <= 245

LEMMA OutRuled ==
  \A u, a : \A f \in Frames(MaxOut), b \in Nat :
    <<f, b>> \in OutRule(u, a) <=>
      /\ "SYN" \in f.bits => f.seq = OwnPsn /\ b = 0
      /\ f.m # NoMsg => \E j \in b .. b + 245 :
                          /\ b >= 1 /\ j <= a + Len(u) /\ f.seq = OwnNum(j)
                          /\ j > a => f.m = u[j - a].m
BY DEF OutRule

LEMMA InRuled ==
  \A f \in Frames(MaxIn), b \in Nat :
    <<f, b>> \in InRule <=> ("ACK" \in f.bits => f.ack = OwnNum(b))
BY DEF InRule

LEMMA OwnNumbers ==
  /\ \A j \in Int : OwnNum(j) \in Psn /\ OwnNum(j) # None
  /\ \A j, k \in Int : OwnNum(j) = OwnNum(k) /\ j - k <= 255 /\ k - j <= 255 => j = k
  /\ \A j, k \in Int : Next8(OwnNum(j), k) = OwnNum(j + k)
  /\ \A j, k \in Int : /\ j - k \in 0 .. 255 => Distance(OwnNum(j), OwnNum(k)) = j - k
                       /\ k - j \in 1 .. 255 => Distance(OwnNum(j), OwnNum(k)) = 256 - (k - j)
  /\ OwnNum(0) = OwnPsn
<1>1. OwnPsn \in Int
  BY DEF OwnPsn
<1>2. \A j \in Int : OwnNum(j) \in Psn
  BY <1>1, Next8Psn DEF OwnNum
<1>3. None \notin Psn
  BY DEF None, Psn
<1>4. \A j, k \in Int : OwnNum(j) = OwnNum(k) /\ j - k <= 255 /\ k - j <= 255 => j = k
  BY <1>1, SameNumber DEF OwnNum
<1>5. \A j, k \in Int : Next8(OwnNum(j), k) = OwnNum(j + k)
  BY <1>1, Next8Twice DEF OwnNum
<1>6. \A j, k \in Int : /\ j - k \in 0 .. 255 => Distance(OwnNum(j), OwnNum(k)) = j - k
                        /\ k - j \in 1 .. 255 => Distance(OwnNum(j), OwnNum(k)) = 256 - (k - j)
  BY <1>1, DistanceOf DEF OwnNum
<1>7. OwnNum(0) = OwnPsn
  BY DEF OwnNum, Next8, OwnPsn
<1> QED BY <1>2, <1>3, <1>4, <1>5, <1>6, <1>7

(* The windows an engine can have.                                         *)
LEMMA Windows ==
  ASSUME ShortWindow, NEW x \in Engines
  PROVE  /\ x.lsp.max_outgoing \in 1 .. 245 /\ x.lsp.max_ack \in 0 .. 244
         /\ x.lsp.max_outgoing + x.lsp.max_ack <= 245
<1>1. x.lsp = OwnLsp \/ x.lsp = Lsp
  BY DEF Engines
<1>2. OwnLsp.max_outgoing = 4 /\ OwnLsp.max_ack = 3
  BY DEF OwnLsp
<1>3. PICK w \in 1 .. 255, k \in 0 .. 255 : w = Lsp.max_outgoing /\ k = Lsp.max_ack
  BY Iap2LinkAssumption DEF Lsps
<1>4. w + k <= 245
  BY <1>3 DEF ShortWindow
<1>5. w \in 1 .. 245 /\ k \in 0 .. 244
  BY <1>4
<1>6. 4 \in 1 .. 245 /\ 3 \in 0 .. 244 /\ 4 + 3 <= 245
  OBVIOUS
<1>7. CASE x.lsp = OwnLsp
  BY <1>2, <1>6, <1>7
<1>8. CASE x.lsp = Lsp
  BY <1>3, <1>4, <1>5, <1>8
<1> QED BY <1>1, <1>7, <1>8

LEMMA WindowOf ==
  ASSUME ShortWindow, NEW x, EngineOK(x) PROVE \E w \in 1 .. 245 : w = x.lsp.max_outgoing
<1>1. x \in Engines
  BY DEF EngineOK
<1>2. x.lsp.max_outgoing \in 1 .. 245
  BY <1>1, Windows
<1> QED BY <1>2

(* What Transmit does to the engine: the packets go behind those kept.     *)
New(x, ms) == [i \in 1 .. Len(ms) |-> [psn |-> Next8(x.sent, i), m |-> ms[i], n |-> 0]]

LEMMA TransmitParts ==
  ASSUME NEW x, EngineOK(x), NEW ms \in Seq(1 .. MaxOut)
  PROVE  LET r == Transmit(x, ms)
         IN  /\ \A h \in {"state", "lsp", "marker", "queue"} : r.e[h] = x[h]
             /\ Retains(x) => r.e.acked = x.acked /\ r.e.sent = Next8(x.sent, Len(ms))
                              /\ r.e.unack = x.unack \o New(x, ms)
             /\ New(x, ms) \in Seq(Packets) /\ Len(New(x, ms)) = Len(ms)
             /\ r.out = [i \in 1 .. Len(ms) |-> DataOf(x, New(x, ms)[i])] /\ Len(r.out) = Len(ms)
<1> DEFINE new == New(x, ms)
           k == Len(ms)
           y == [x EXCEPT !.sent = Next8(@, k), !.delayed = FALSE, !.lastAcked = x.recv]
           ns == [i \in 1 .. k |-> new[i].psn]
           a == [y EXCEPT !.unack = @ \o new, !.resend = TRUE, !.due = @ \o ns]
           b == [y EXCEPT !.acked = y.sent]
           z == IF x.lsp.max_retransmissions > 0 THEN a ELSE b
           w == IF ms = <<>> THEN x ELSE z
           fs == [i \in 1 .. k |-> DataOf(x, new[i])]
<1>1. k \in Nat /\ \A i \in 1 .. k : ms[i] \in 1 .. MaxOut
  BY SeqParts
<1>2. x \in Engines /\ x.sent \in Int /\ x.sent \in Psn /\ x.unack \in Seq(Packets)
  <2>1. x \in Engines
    BY DEF EngineOK
  <2>2. x.sent \in Psn /\ x.unack \in Seq(Packets)
    BY <2>1 DEF Engines
  <2> QED BY <2>1, <2>2, FirstIsPsn, Zenon
<1>3. Transmit(x, ms) = Write(w, fs)
  BY DEF Transmit, New
<1>4. new \in [1 .. k -> Packets]
  BY <1>1, <1>2, Next8Psn DEF Packets, New
<1>5. new \in Seq(Packets) /\ Len(new) = k
  BY <1>1, <1>4, FunSeq
<1>6. fs \in Seq(Frames(MaxOut)) /\ Len(fs) = k
  <2> HIDE DEF new
  <2>1. fs \in [1 .. k -> Frames(MaxOut)]
    BY <1>2, <1>4, FramesOK
  <2> HIDE DEF fs, k
  <2> QED BY <1>1, <2>1, FunSeq
<1> HIDE DEF new, fs
<1>7. /\ \A h \in Fields \ {"sent", "delayed", "lastAcked"} : y[h] = x[h]
      /\ y.sent = Next8(x.sent, k) /\ DOMAIN y = Fields
  BY <1>2 DEF Engines, Fields
<1> HIDE DEF y, ns
<1>8. /\ \A h \in {"state", "lsp", "marker", "queue", "acked", "sent"} : a[h] = y[h]
      /\ a.unack = y.unack \o new /\ \A h \in {"state", "lsp", "marker", "queue"} : b[h] = y[h]
  BY <1>7 DEF Fields
<1> HIDE DEF a, b
<1>9. \A h \in {"state", "lsp", "marker", "queue"} : w[h] = x[h]
  BY <1>7, <1>8 DEF Fields
<1>10. Retains(x) => w.acked = x.acked /\ w.sent = Next8(x.sent, k) /\ w.unack = x.unack \o new
  <2>1. CASE ms # <<>>
    BY <1>7, <1>8, <2>1 DEF Retains, Fields
  <2>2. CASE ms = <<>>
    <3>1. k = 0
      BY <2>2
    <3>2. w = x
      BY <2>2
    <3>3. Next8(x.sent, 0) = x.sent
      <4>1. PICK s \in 0 .. 255 : s = x.sent
        BY <1>2 DEF Psn
      <4>2. (s + 0) % 256 = s
        OBVIOUS
      <4> QED BY <4>1, <4>2 DEF Next8
    <3>4. new = <<>>
      BY <1>5, <3>1, EmptySeq
    <3>5. x.unack \o <<>> = x.unack
      BY <1>2, ConcatEmptySeq
    <3> QED BY <3>1, <3>2, <3>3, <3>4, <3>5
  <2> QED BY <2>1, <2>2
<1>11. DOMAIN w = Fields
  <2>1. DOMAIN x = Fields
    BY <1>2 DEF Engines, Fields
  <2>2. DOMAIN a = Fields /\ DOMAIN b = Fields
    BY <1>7 DEF a, b
  <2> QED BY <2>1, <2>2
<1> HIDE DEF w
<1> DEFINE r == Write(w, fs)
<1>12. r.out = fs /\ \A h \in Fields \ {"cum"} : r.e[h] = w[h]
  <2>1. \A h \in Fields \ {"cum"} : [w EXCEPT !.cum = 0][h] = w[h]
    BY <1>11
  <2> QED BY <2>1 DEF Write
<1> HIDE DEF r
<1>13. \A h \in {"state", "lsp", "marker", "queue", "acked", "sent", "unack"} : r.e[h] = w[h]
  BY <1>12 DEF Fields
<1> QED BY <1>3, <1>5, <1>6, <1>9, <1>10, <1>12, <1>13 DEF r, fs, new

(* Engine y keeps what x kept, but for what is acknowledged in between.    *)
Carries(u, v, a, b) ==
  /\ a <= b /\ a + Len(u) <= b + Len(v)
  /\ \A j \in b + 1 .. a + Len(u) : v[j - b].m = u[j - a].m
Owed(x) == Range(x.queue) \cup Waiting(x)
Ruled(fs, y, b) == \A i \in 1 .. Len(fs) : <<fs[i], Stamp(y, b)>> \in OutRule(y.unack, b)
Bare(fs) == \A i \in 1 .. Len(fs) : "SYN" \notin fs[i].bits /\ fs[i].m = NoMsg

(* A handler takes engine x, of which the phone has acknowledged a, to one  *)
(* of which it has acknowledged b; the phone has heard the messages of H.   *)
Advances(x, r, a, b, H) ==
  /\ Retains(r.e) /\ Numbered(r.e, b) /\ Carries(x.unack, r.e.unack, a, b)
  /\ Ruled(r.out, r.e, b) /\ Owed(x) \cup H = Owed(r.e) \cup H
  /\ r.e.state \in Starting => x.state \in Starting

(* A handler that leaves the sending side alone.                           *)
Apart(x, r) ==
  /\ \A h \in {"state", "lsp", "marker", "sent", "acked", "unack", "queue"} : r.e[h] = x[h]
  /\ Bare(r.out)

LEMMA CarriesTrans ==
  ASSUME NEW u, NEW v, NEW w, NEW a \in Nat, NEW b \in Nat, NEW c \in Nat,
         Len(u) \in Nat, Len(v) \in Nat, Len(w) \in Nat, Carries(u, v, a, b), Carries(v, w, b, c)
  PROVE  Carries(u, w, a, c)
<1>1. /\ a <= b /\ b <= c /\ a + Len(u) <= b + Len(v) /\ b + Len(v) <= c + Len(w)
      /\ \A j \in b + 1 .. a + Len(u) : v[j - b].m = u[j - a].m
      /\ \A j \in c + 1 .. b + Len(v) : w[j - c].m = v[j - b].m
  BY DEF Carries
<1>2. PICK k \in Nat, l \in Nat, n \in Nat : k = Len(u) /\ l = Len(v) /\ n = Len(w)
  OBVIOUS
<1>3. a <= c /\ a + k <= c + n
  BY <1>1, <1>2
<1>4. ASSUME NEW j \in c + 1 .. a + k PROVE j \in b + 1 .. a + k /\ j \in c + 1 .. b + l
  BY <1>1, <1>2
<1>5. \A j \in c + 1 .. a + k : w[j - c].m = u[j - a].m
  <2> SUFFICES ASSUME NEW j \in c + 1 .. a + k PROVE w[j - c].m = u[j - a].m
    OBVIOUS
  <2>1. j \in b + 1 .. a + Len(u) /\ j \in c + 1 .. b + Len(v)
    BY <1>2, <1>4
  <2> QED BY <1>1, <2>1
<1> QED BY <1>2, <1>3, <1>5 DEF Carries

LEMMA CarriesSame ==
  ASSUME NEW u, NEW v, NEW a \in Nat, Len(u) \in Nat, Len(v) = Len(u),
         \A i \in 1 .. Len(u) : v[i].m = u[i].m
  PROVE  Carries(u, v, a, a)
<1>1. PICK k \in Nat : k = Len(u)
  OBVIOUS
<1>2. a <= a /\ a + k <= a + k /\ \A j \in a + 1 .. a + k : j - a \in 1 .. k
  OBVIOUS
<1>3. \A j \in a + 1 .. a + Len(u) : v[j - a].m = u[j - a].m
  BY <1>1, <1>2
<1> QED BY <1>1, <1>2, <1>3 DEF Carries

(* A frame on its way stays ruled while the engine advances.               *)
LEMMA RuleGrows ==
  ASSUME NEW u, NEW v, NEW a \in Nat, NEW b \in Nat, Len(u) \in Nat, Len(v) \in Nat,
         Carries(u, v, a, b), NEW f \in Frames(MaxOut), NEW k \in Nat,
         <<f, k>> \in OutRule(u, a)
  PROVE  <<f, k>> \in OutRule(v, b)
<1>1. /\ "SYN" \in f.bits => f.seq = OwnPsn /\ k = 0
      /\ f.m # NoMsg => \E j \in k .. k + 245 :
                          /\ k >= 1 /\ j <= a + Len(u) /\ f.seq = OwnNum(j)
                          /\ j > a => f.m = u[j - a].m
  BY DEF OutRule
<1>2. ASSUME f.m # NoMsg
      PROVE  \E j \in k .. k + 245 : /\ k >= 1 /\ j <= b + Len(v) /\ f.seq = OwnNum(j)
                                     /\ j > b => f.m = v[j - b].m
  <2>1. PICK j \in k .. k + 245 : /\ k >= 1 /\ j <= a + Len(u) /\ f.seq = OwnNum(j)
                                  /\ j > a => f.m = u[j - a].m
    BY <1>1, <1>2
  <2>2. a <= b /\ a + Len(u) <= b + Len(v)
    BY DEF Carries
  <2>3. PICK n \in Nat, l \in Nat : n = Len(u) /\ l = Len(v)
    OBVIOUS
  <2>4. j <= b + l
    BY <2>1, <2>2, <2>3
  <2>5. ASSUME j > b PROVE f.m = v[j - b].m
    <3>1. j > a /\ j \in b + 1 .. a + n
      BY <2>1, <2>2, <2>3, <2>5
    <3>2. v[j - b].m = u[j - a].m
      BY <2>3, <3>1 DEF Carries
    <3> QED BY <2>1, <3>1, <3>2
  <2> QED BY <2>1, <2>3, <2>4, <2>5
<1> QED BY <1>1, <1>2, OutRuled

LEMMA StampNat ==
  ASSUME NEW x, NEW a \in Nat PROVE Stamp(x, a) \in Nat
BY DEF Stamp

LEMMA BareRuled ==
  ASSUME NEW fs \in Seq(Frames(MaxOut)), Bare(fs), NEW y, NEW b \in Nat
  PROVE  Ruled(fs, y, b)
BY SeqParts, StampNat, OutRuled DEF Bare, Ruled

LEMMA UnackLen ==
  ASSUME NEW x, EngineOK(x)
  PROVE  /\ Len(x.unack) \in Nat /\ x.unack \in Seq(Packets) /\ DOMAIN x.unack = 1 .. Len(x.unack)
         /\ x \in Engines /\ x.queue \in Seq(1 .. MaxOut)
         /\ \A i \in 1 .. Len(x.unack) : x.unack[i] \in Packets /\ x.unack[i].m \in 1 .. MaxOut
<1>1. x \in Engines /\ x.unack \in Seq(Packets) /\ x.queue \in Seq(1 .. MaxOut)
  BY DEF EngineOK, Engines
<1>2. /\ Len(x.unack) \in Nat /\ DOMAIN x.unack = 1 .. Len(x.unack)
      /\ \A i \in 1 .. Len(x.unack) : x.unack[i] \in Packets
  BY <1>1, SeqParts
<1> QED BY <1>1, <1>2 DEF Packets

LEMMA ApartAdvances ==
  ASSUME NEW x, EngineOK(x), Retains(x), NEW a \in Nat, Numbered(x, a), NEW r, RetOK(r),
         Apart(x, r), NEW H
  PROVE  Advances(x, r, a, a, H)
<1>1. /\ r.e.state = x.state /\ r.e.lsp = x.lsp /\ r.e.marker = x.marker /\ r.e.sent = x.sent
      /\ r.e.acked = x.acked /\ r.e.unack = x.unack /\ r.e.queue = x.queue
  BY DEF Apart
<1>2. Retains(r.e) /\ Numbered(r.e, a) /\ Owed(r.e) = Owed(x)
  BY <1>1 DEF Retains, Numbered, Marked, Owed, Waiting
<1>3. Carries(x.unack, r.e.unack, a, a)
  BY <1>1, UnackLen, CarriesSame
<1>4. Ruled(r.out, r.e, a)
  BY BareRuled DEF RetOK, Apart
<1> QED BY <1>1, <1>2, <1>3, <1>4 DEF Advances

(* Handlers one after the other: the first writes no data, or the second   *)
(* takes no ack.                                                           *)
LEMMA AdvancesThen ==
  ASSUME NEW x, EngineOK(x), NEW r, NEW s, RetOK(r), RetOK(s), NEW a \in Nat, NEW b \in Nat,
         NEW c \in Nat, NEW H, Advances(x, r, a, b, H), Advances(r.e, s, b, c, H),
         \/ Bare(r.out)
         \/ c = b /\ (r.e.state \in Starting => s.e.state \in Starting)
  PROVE  Advances(x, Then(r, s), a, c, H)
<1>1. Then(r, s).e = s.e /\ Then(r, s).out = r.out \o s.out
  BY DEF Then
<1>2. /\ Len(x.unack) \in Nat /\ Len(r.e.unack) \in Nat /\ Len(s.e.unack) \in Nat
  BY UnackLen DEF RetOK
<1>3. Carries(x.unack, s.e.unack, a, c)
  BY <1>2, CarriesTrans DEF Advances
<1>4. Ruled(r.out, s.e, c)
  <2>1. CASE Bare(r.out)
    BY <2>1, BareRuled DEF RetOK
  <2>2. CASE c = b /\ (r.e.state \in Starting => s.e.state \in Starting)
    <3>1. Stamp(s.e, c) = Stamp(r.e, b) /\ Stamp(r.e, b) \in Nat
      BY <2>2, StampNat DEF Advances, Stamp
    <3>2. Carries(r.e.unack, s.e.unack, b, c)
      BY DEF Advances
    <3> SUFFICES ASSUME NEW i \in 1 .. Len(r.out)
                 PROVE  <<r.out[i], Stamp(s.e, c)>> \in OutRule(s.e.unack, c)
      BY DEF Ruled
    <3>3. r.out[i] \in Frames(MaxOut) /\ <<r.out[i], Stamp(r.e, b)>> \in OutRule(r.e.unack, b)
      BY SeqParts DEF Advances, Ruled, RetOK
    <3> QED BY <1>2, <3>1, <3>2, <3>3, RuleGrows
  <2> QED BY <2>1, <2>2
<1>5. Ruled(s.out, s.e, c)
  BY DEF Advances
<1>6. Ruled(r.out \o s.out, s.e, c)
  <2>1. PICK fs \in Seq(Frames(MaxOut)), gs \in Seq(Frames(MaxOut)) : fs = r.out /\ gs = s.out
    BY DEF RetOK
  <2>2. Len(fs) \in Nat /\ Len(gs) \in Nat
    BY SeqParts
  <2>3. /\ Len(fs \o gs) = Len(fs) + Len(gs)
        /\ \A i \in 1 .. Len(fs) + Len(gs) :
             (fs \o gs)[i] = IF i <= Len(fs) THEN fs[i] ELSE gs[i - Len(fs)]
    BY ConcatProperties
  <2>4. ASSUME NEW i \in 1 .. Len(fs) + Len(gs)
        PROVE  \/ i \in 1 .. Len(fs) /\ (fs \o gs)[i] = fs[i]
               \/ i - Len(fs) \in 1 .. Len(gs) /\ (fs \o gs)[i] = gs[i - Len(fs)]
    BY <2>2, <2>3
  <2>5. Ruled(fs, s.e, c) /\ Ruled(gs, s.e, c)
    BY <1>4, <1>5, <2>1
  <2>6. Ruled(fs \o gs, s.e, c)
    BY <2>3, <2>4, <2>5, Zenon DEF Ruled
  <2> QED BY <2>1, <2>6
<1> QED BY <1>1, <1>3, <1>6 DEF Advances

(* A packet sent, or sent again, is ruled.                                 *)
LEMMA DataRuled ==
  ASSUME ShortWindow, NEW x \in Engines, NEW u \in Packets, NEW y, EngineOK(y), NEW b \in Nat,
         Numbered(y, b), y.state \notin Starting,
         NEW i \in 1 .. Len(y.unack), u.psn = y.unack[i].psn, u.m = y.unack[i].m
  PROVE  <<DataOf(x, u), Stamp(y, b)>> \in OutRule(y.unack, b)
<1>1. Stamp(y, b) = b + 1
  BY DEF Stamp
<1>2. PICK n \in Nat : n = Len(y.unack)
  BY UnackLen
<1>3. n <= 246
  <2>1. PICK w \in 1 .. 245 : w = y.lsp.max_outgoing
    BY WindowOf
  <2>2. n <= w + 1
    BY <1>2, <2>1 DEF Numbered
  <2> QED BY <2>2
<1>4. u.psn = OwnNum(b + i)
  BY DEF Numbered
<1>5. DataOf(x, u) \in Frames(MaxOut) /\ b + 1 \in Nat
  BY FramesOK
<1>6. DataOf(x, u).seq = u.psn /\ DataOf(x, u).m = u.m /\ "SYN" \notin DataOf(x, u).bits
  BY DEF DataOf, Frame
<1>7. \E j \in b + 1 .. b + 1 + 245 :
        /\ b + 1 >= 1 /\ j <= b + Len(y.unack) /\ DataOf(x, u).seq = OwnNum(j)
        /\ j > b => DataOf(x, u).m = y.unack[j - b].m
  <2>1. PICK j \in Int : j = b + i
    BY <1>2
  <2>2. j \in b + 1 .. b + 1 + 245 /\ b + 1 >= 1 /\ j <= b + n /\ j - b = i
    BY <1>2, <1>3, <2>1
  <2> QED BY <1>2, <1>4, <1>6, <2>1, <2>2
<1> QED BY <1>1, <1>5, <1>6, <1>7, OutRuled

(* Messages put into the window go behind those kept.                      *)
LEMMA TransmitAdvances ==
  ASSUME ShortWindow, NEW x, EngineOK(x), Retains(x), NEW a \in Nat, Numbered(x, a), x.acked # None,
         NEW ms \in Seq(1 .. MaxOut), Len(x.unack) + Len(ms) <= x.lsp.max_outgoing + 1
  PROVE  LET r == Transmit(x, ms)
         IN  /\ Retains(r.e) /\ Numbered(r.e, a) /\ Carries(x.unack, r.e.unack, a, a)
             /\ Ruled(r.out, r.e, a) /\ Owed(r.e) = Owed(x) \cup Range(ms)
             /\ r.e.state = x.state
<1> DEFINE r == Transmit(x, ms)
           new == New(x, ms)
           u == x.unack
           v == u \o new
<1>1. /\ r.e.state = x.state /\ r.e.lsp = x.lsp /\ r.e.marker = x.marker /\ r.e.queue = x.queue
      /\ r.e.acked = x.acked /\ r.e.sent = Next8(x.sent, Len(ms)) /\ r.e.unack = v
      /\ new \in Seq(Packets) /\ Len(new) = Len(ms)
      /\ r.out = [i \in 1 .. Len(ms) |-> DataOf(x, new[i])] /\ Len(r.out) = Len(ms)
  BY TransmitParts
<1>2. RetOK(r)
  BY TransmitOK
<1> HIDE DEF r
<1>3. PICK k \in Nat, n \in Nat : k = Len(ms) /\ n = Len(u)
  BY UnackLen, SeqParts
<1>4. u \in Seq(Packets) /\ \A i \in 1 .. k : ms[i] \in 1 .. MaxOut
  BY <1>3, UnackLen, SeqParts
<1>5. \A i \in 1 .. k : new[i] = [psn |-> Next8(x.sent, i), m |-> ms[i], n |-> 0]
  BY <1>3 DEF New
<1> HIDE DEF new, u
<1>6. /\ Len(v) = n + k
      /\ \A i \in 1 .. n + k : v[i] = IF i <= n THEN u[i] ELSE new[i - n]
  <2>1. u \in Seq(Packets) /\ new \in Seq(Packets) /\ Len(u) = n /\ Len(new) = k
    BY <1>1, <1>3, <1>4
  <2>2. /\ Len(u \o new) = Len(u) + Len(new)
        /\ \A i \in 1 .. Len(u) + Len(new) :
             (u \o new)[i] = IF i <= Len(u) THEN u[i] ELSE new[i - Len(u)]
    BY <2>1, ConcatProperties
  <2> QED BY <2>1, <2>2
<1>7. /\ Marked(x) /\ x.sent = OwnNum(a + n) /\ \A i \in 1 .. n : u[i].psn = OwnNum(a + i)
      /\ x.acked = OwnNum(a) /\ x.state \notin Starting
  BY <1>3 DEF Numbered, u
<1> HIDE DEF v
<1>8. ASSUME NEW i \in 1 .. n + k
      PROVE  v[i].psn = OwnNum(a + i) /\ (i <= n => v[i] = u[i]) /\ (i > n => v[i].m = ms[i - n])
  <2>1. CASE i <= n
    <3>1. i \in 1 .. n /\ ~(i > n)
      BY <2>1
    <3> QED BY <1>6, <1>7, <2>1, <3>1
  <2>2. CASE i > n
    <3>1. PICK j \in 1 .. k : j = i - n
      BY <2>2
    <3>2. v[i] = new[j] /\ ~(i <= n)
      BY <1>6, <2>2, <3>1
    <3>3. Next8(OwnNum(a + n), j) = OwnNum((a + n) + j)
      <4>1. a + n \in Int /\ j \in Int
        OBVIOUS
      <4> QED BY <4>1, OwnNumbers
    <3>4. (a + n) + j = a + i
      BY <3>1
    <3>5. new[j].psn = Next8(OwnNum(a + n), j) /\ new[j].m = ms[j]
      <4>1. new[j] = [psn |-> Next8(x.sent, j), m |-> ms[j], n |-> 0]
        BY <1>5
      <4>2. new[j].psn = Next8(x.sent, j) /\ new[j].m = ms[j]
        BY <4>1
      <4>3. x.sent = OwnNum(a + n)
        BY <1>7
      <4> QED BY ONLY <4>2, <4>3
    <3> QED BY <2>2, <3>1, <3>2, <3>3, <3>4, <3>5
  <2> QED BY <2>1, <2>2
<1>9. r.e.sent = OwnNum(a + (n + k))
  <2>1. Next8(OwnNum(a + n), k) = OwnNum((a + n) + k)
    BY OwnNumbers
  <2>2. (a + n) + k = a + (n + k)
    OBVIOUS
  <2> QED BY <1>1, <1>3, <1>7, <2>1, <2>2
<1>10. n + k <= x.lsp.max_outgoing + 1
  BY <1>3 DEF u
<1>11. Numbered(r.e, a)
  BY <1>1, <1>6, <1>7, <1>8, <1>9, <1>10 DEF Numbered, Marked
<1>12. Carries(u, v, a, a)
  <2>1. a <= a /\ a + n <= a + (n + k) /\ \A j \in a + 1 .. a + n : j - a \in 1 .. n + k /\ j - a <= n
    OBVIOUS
  <2>2. \A j \in a + 1 .. a + Len(u) : v[j - a].m = u[j - a].m
    BY <1>3, <1>8, <2>1 DEF u
  <2> QED BY <1>3, <1>6, <2>1, <2>2 DEF Carries, u
<1>13. Ruled(r.out, r.e, a)
  <2> SUFFICES ASSUME NEW i \in 1 .. Len(r.out)
               PROVE  <<r.out[i], Stamp(r.e, a)>> \in OutRule(r.e.unack, a)
    BY DEF Ruled
  <2>1. i \in 1 .. k
    BY <1>1, <1>3
  <2>2. r.out[i] = DataOf(x, new[i]) /\ new[i] \in Packets
    BY <1>1, <1>3, <2>1, SeqParts
  <2>3. PICK j \in 1 .. Len(r.e.unack) : j = n + i /\ r.e.unack[j] = new[i]
    <3>1. n + i \in 1 .. n + k /\ ~(n + i <= n) /\ (n + i) - n = i
      BY <2>1
    <3>2. v[n + i] = new[i]
      BY <1>6, <3>1
    <3>3. n + i \in 1 .. Len(v)
      BY <1>6, <3>1
    <3> QED BY <1>1, <3>2, <3>3
  <2>4. x \in Engines /\ EngineOK(r.e) /\ r.e.state \notin Starting
    BY <1>1, <1>2, <1>7 DEF EngineOK, RetOK
  <2> QED BY <1>11, <2>2, <2>3, <2>4, DataRuled
<1>14. Waiting(r.e) = Waiting(x) \cup Range(ms)
  <2>1. Waiting(r.e) = {v[i].m : i \in 1 .. n + k} /\ Waiting(x) = {u[i].m : i \in 1 .. n}
    BY <1>1, <1>3, <1>6 DEF Waiting, u
  <2>2. Range(ms) = {ms[i] : i \in 1 .. k}
    <3>1. DOMAIN ms = 1 .. k
      BY <1>3, SeqParts
    <3> QED BY <3>1 DEF Range
  <2>3. ASSUME NEW i \in 1 .. n + k PROVE v[i].m \in {u[j].m : j \in 1 .. n} \cup {ms[j] : j \in 1 .. k}
    <3>1. CASE i <= n
      <4>1. i \in 1 .. n
        BY <3>1
      <4> QED BY <1>8, <3>1, <4>1
    <3>2. CASE i > n
      <4>1. i - n \in 1 .. k
        BY <3>2
      <4>2. PICK j \in 1 .. k : j = i - n
        BY <4>1
      <4>3. v[i].m = ms[j]
        BY <1>8, <3>2, <4>2
      <4>4. ms[j] \in {ms[h] : h \in 1 .. k}
        OBVIOUS
      <4> QED BY <4>3, <4>4, Zenon
    <3>3. i <= n \/ i > n
      OBVIOUS
    <3> QED BY <3>1, <3>2, <3>3, Zenon
  <2>4. ASSUME NEW i \in 1 .. n PROVE u[i].m \in {v[j].m : j \in 1 .. n + k}
    <3>1. i \in 1 .. n + k /\ i <= n
      OBVIOUS
    <3> QED BY <1>8, <3>1
  <2>5. ASSUME NEW i \in 1 .. k PROVE ms[i] \in {v[j].m : j \in 1 .. n + k}
    <3>1. n + i \in 1 .. n + k /\ n + i > n /\ (n + i) - n = i
      OBVIOUS
    <3>2. v[n + i].m = ms[i]
      BY <1>8, <3>1
    <3>3. PICK j \in 1 .. n + k : v[j].m = ms[i]
      BY <3>1, <3>2
    <3> QED BY <3>3
  <2>6. {v[i].m : i \in 1 .. n + k} = {u[i].m : i \in 1 .. n} \cup {ms[i] : i \in 1 .. k}
    BY <2>3, <2>4, <2>5
  <2> QED BY <2>1, <2>2, <2>6, Zenon
<1>15. Owed(r.e) = Owed(x) \cup Range(ms) /\ Retains(r.e)
  BY <1>1, <1>14 DEF Owed, Retains
<1> QED BY <1>1, <1>11, <1>12, <1>13, <1>15 DEF r, u

(* An ack of message s drops the packets up to it and keeps the others.    *)
LEMMA RestAfter ==
  ASSUME ShortWindow, NEW x, EngineOK(x), NEW a \in Nat, Numbered(x, a),
         NEW d \in 0 .. Len(x.unack)
  PROVE  LET v == RestBy(x, OwnNum(a + d))
         IN  /\ v \in Seq(Packets) /\ Len(v) = Len(x.unack) - d
             /\ \A i \in 1 .. Len(x.unack) - d : v[i] = x.unack[d + i]
<1> DEFINE u == x.unack
           kept == KeptBy(x, OwnNum(a + d))
           v == RestBy(x, OwnNum(a + d))
<1>1. PICK n \in Nat : n = Len(u) /\ u \in Seq(Packets) /\ DOMAIN u = 1 .. n
  BY UnackLen
<1>2. PICK w \in 1 .. 245, k \in 0 .. 244 :
        w = x.lsp.max_outgoing /\ k = x.lsp.max_ack /\ w + k <= 245
  BY Windows DEF EngineOK
<1>3. n <= w + 1 /\ \A i \in 1 .. n : u[i].psn = OwnNum(a + i)
  BY <1>1, <1>2 DEF Numbered
<1>4. d \in 0 .. n
  BY <1>1
<1>10. /\ n \in Nat /\ d \in 0 .. n /\ w \in 1 .. 245 /\ k \in 0 .. 244 /\ a \in Nat
       /\ w + k <= 245 /\ n <= w + 1
  BY <1>2, <1>3, <1>4
<1>5. kept = {i \in 1 .. n : Distance(u[i].psn, OwnNum(a + d)) \in 1 .. k + 10}
  BY <1>1, <1>2 DEF KeptBy
<1>6. v = IF kept = {} THEN <<>> ELSE SubSeq(u, Least(kept), n)
  BY <1>1 DEF RestBy
<1> HIDE DEF u, kept, v
<1>7. ASSUME NEW i \in 1 .. n, i <= d PROVE i \notin kept
  <2>1. a + i \in Int /\ a + d \in Int
    BY <1>4
  <2>2. CASE i = d
    <3>1. (a + i) - (a + d) \in 0 .. 255 /\ (a + i) - (a + d) = 0
      BY <1>4, <2>2
    <3>2. Distance(OwnNum(a + i), OwnNum(a + d)) = 0
      BY <2>1, <3>1, OwnNumbers
    <3>3. 0 \notin 1 .. k + 10
      OBVIOUS
    <3> QED BY <1>3, <1>5, <3>2, <3>3
  <2>3. CASE i < d
    <3>1. (a + d) - (a + i) = d - i /\ d - i \in 1 .. 255 /\ d - i <= w
      <4>1. i \in 1 .. n /\ i < d
        BY <2>3
      <4> QED BY ONLY <1>10, <4>1
    <3>2. Distance(OwnNum(a + i), OwnNum(a + d)) = 256 - (d - i)
      BY <2>1, <3>1, OwnNumbers
    <3>3. 256 - (d - i) \notin 1 .. k + 10
      <4>1. d - i \in Int /\ d - i <= w
        BY <3>1
      <4> QED BY ONLY <1>10, <4>1
    <3> QED BY <1>3, <1>5, <3>2, <3>3
  <2> QED BY <1>4, <1>7, <2>2, <2>3
<1>8. CASE d = n
  <2>1. kept = {}
    <3>1. \A i \in 1 .. n : i <= d
      BY <1>8
    <3>2. kept \in SUBSET (1 .. n)
      BY <1>5
    <3> QED BY <1>7, <3>1, <3>2
  <2>2. v = <<>> /\ Len(<<>>) = 0 /\ n - d = 0
    BY <1>6, <1>8, <2>1
  <2>3. v \in Seq(Packets)
    BY <2>2, EmptySeq
  <2> QED BY <1>1, <2>2, <2>3 DEF v, u
<1>9. CASE d < n
  <2>1. PICK c \in 1 .. n : c = d + 1
    BY <1>4, <1>9
  <2>2. c \in kept
    <3>1. (a + c) - (a + d) = 1 /\ 1 \in 0 .. 255 /\ a + c \in Int /\ a + d \in Int
      BY <1>4, <2>1
    <3>2. Distance(OwnNum(a + c), OwnNum(a + d)) = 1
      BY <3>1, OwnNumbers
    <3>3. 1 \in 1 .. k + 10
      BY ONLY <1>10
    <3> QED BY <1>3, <1>5, <3>2, <3>3
  <2>3. kept \in SUBSET Nat /\ kept \in SUBSET (1 .. n)
    BY <1>5
  <2>4. PICK b \in kept : b = Least(kept) /\ b <= c
    BY <2>2, <2>3, LeastOf
  <2>5. b = c
    <3>1. b \in 1 .. n /\ ~(b <= d)
      BY <1>7, <2>3
    <3> QED BY <1>4, <2>1, <2>4, <3>1
  <2>6. v = SubSeq(u, c, Len(u)) /\ c \in 1 .. Len(u) + 1
    BY <1>1, <1>6, <2>2, <2>4, <2>5
  <2>7. /\ v \in Seq(Packets) /\ Len(v) = n - c + 1 /\ \A i \in 1 .. n - c + 1 : v[i] = u[c + i - 1]
    BY <1>1, <2>6, SuffixOK
  <2>8. n - c + 1 = n - d /\ \A i \in 1 .. n - d : c + i - 1 = d + i
    BY <1>4, <2>1
  <2> QED BY <1>1, <2>7, <2>8 DEF v, u
<1> QED BY <1>4, <1>8, <1>9

(* The numbers between the two ends of the window, as the engine counts.   *)
LEMMA InFlight ==
  ASSUME ShortWindow, NEW x, EngineOK(x), NEW a \in Nat, Numbered(x, a)
  PROVE  Distance(x.sent, x.acked) = Len(x.unack)
<1>1. PICK n \in Nat : n = Len(x.unack)
  BY UnackLen
<1>2. PICK w \in 1 .. 245 : w = x.lsp.max_outgoing
  BY WindowOf
<1>3. n <= w + 1 /\ x.sent = OwnNum(a + n)
  BY <1>1, <1>2 DEF Numbered
<1>4. CASE x.acked = OwnNum(a)
  <2>1. n <= w + 1 /\ n \in Nat /\ w \in 1 .. 245 /\ a \in Nat
    BY <1>3
  <2>2. (a + n) - a \in 0 .. 255 /\ (a + n) - a = n /\ a + n \in Int /\ a \in Int
    BY ONLY <2>1
  <2>3. Distance(OwnNum(a + n), OwnNum(a)) = (a + n) - a
    BY <2>2, OwnNumbers
  <2> QED BY <1>1, <1>3, <1>4, <2>2, <2>3
<1>5. CASE x.acked = None /\ x.unack = <<>>
  BY <1>5 DEF Distance
<1> QED BY <1>4, <1>5 DEF Numbered

LEMMA RoomFits ==
  ASSUME ShortWindow, NEW x, EngineOK(x), Retains(x), NEW a \in Nat, Numbered(x, a)
  PROVE  Room(x) \in 0 .. Len(x.queue) /\ Len(x.unack) + Room(x) <= x.lsp.max_outgoing + 1
<1>1. PICK n \in Nat, l \in Nat : n = Len(x.unack) /\ l = Len(x.queue)
  BY UnackLen, SeqParts
<1>2. PICK w \in 1 .. 245 : w = x.lsp.max_outgoing
  BY WindowOf
<1>3. Room(x) \in 0 .. l /\ n <= w + 1
  BY <1>1, <1>2, RoomIn DEF EngineOK, Numbered
<1>4. PICK r \in Nat : r = Room(x)
  BY <1>3
<1>5. n + r <= w + 1
  <2>1. x.lsp.max_retransmissions # 0
    <3>1. PICK t \in 0 .. 255 : t = x.lsp.max_retransmissions
      BY LspsOK DEF EngineOK
    <3>2. t > 0
      BY <3>1 DEF Retains
    <3> QED BY <3>1, <3>2
  <2>2. r = IF n >= w THEN 0 ELSE Least({l, w - n})
    <3>1. Distance(x.sent, x.acked) = n
      BY <1>1, InFlight
    <3>2. r = IF Distance(x.sent, x.acked) >= w THEN 0
              ELSE Least({l, w - Distance(x.sent, x.acked)})
      BY <1>1, <1>2, <1>4, <2>1 DEF Room
    <3> QED BY <3>1, <3>2
  <2>3. CASE n >= w
    BY <1>3, <2>2, <2>3
  <2>4. CASE ~(n >= w)
    <3>1. {l, w - n} \in SUBSET Nat /\ {l, w - n} # {}
      BY <1>2, <2>4
    <3>2. Least({l, w - n}) <= w - n
      BY <3>1, LeastOf
    <3> QED BY <2>2, <2>4, <3>2
  <2> QED BY <2>3, <2>4
<1> QED BY <1>1, <1>2, <1>3, <1>4, <1>5

LEMMA AcknowledgeNumbers ==
  ASSUME ShortWindow, NEW x, EngineOK(x), Retains(x), NEW a \in Nat, Numbered(x, a),
         x.state \in {"Negotiate", "Normal"}, NEW d \in 0 .. Len(x.unack)
  PROVE  LET y == Acknowledge(x, OwnNum(a + d))
         IN  /\ EngineOK(y) /\ Retains(y) /\ Numbered(y, a + d) /\ y.acked # None
             /\ y.state = "Normal" /\ y.queue = x.queue /\ Carries(x.unack, y.unack, a, a + d)
             /\ Waiting(x) = Waiting(y) \cup {x.unack[i].m : i \in 1 .. d}
<1> DEFINE num == OwnNum(a + d)
           y == Acknowledge(x, num)
           u == x.unack
           v == RestBy(x, num)
<1>1. PICK n \in Nat : n = Len(u) /\ u \in Seq(Packets)
  BY UnackLen
<1>2. d \in 0 .. n /\ a + d \in Nat
  BY <1>1
<1>3. num \in Psn /\ num # None /\ num \in Psn \cup {None}
  <2>1. PICK c \in Int : c = a + d
    BY <1>2
  <2>2. OwnNum(c) \in Psn /\ OwnNum(c) # None
    BY OwnNumbers
  <2> QED BY <2>1, <2>2
<1>4. v \in Seq(Packets) /\ Len(v) = n - d /\ \A i \in 1 .. n - d : v[i] = u[d + i]
  BY <1>1, RestAfter
<1> HIDE DEF num
<1>5. /\ EngineOK(y) /\ y.acked = num /\ y.unack = v
      /\ \A h \in Fields \ {"state", "acked", "unack", "due", "resend"} : y[h] = x[h]
      /\ y.state = IF x.state = "Negotiate" THEN "Normal" ELSE x.state
  BY <1>3, AcknowledgeOK
<1> HIDE DEF y, u, v
<1>6. /\ y.lsp = x.lsp /\ y.sent = x.sent /\ y.queue = x.queue /\ y.marker = x.marker
      /\ y.state = "Normal"
  BY <1>5 DEF Fields
<1>7. /\ Marked(x) /\ x.sent = OwnNum(a + n) /\ n <= x.lsp.max_outgoing + 1
      /\ \A i \in 1 .. n : u[i].psn = OwnNum(a + i)
  BY <1>1 DEF Numbered, u
<1>8. Marked(y)
  BY <1>6, <1>7 DEF Marked
<1>9. y.sent = OwnNum((a + d) + (n - d))
  <2>1. (a + d) + (n - d) = a + n
    BY <1>2
  <2> QED BY <1>6, <1>7, <2>1
<1>10. n - d <= y.lsp.max_outgoing + 1
  <2>1. PICK w \in 1 .. 245 : w = x.lsp.max_outgoing
    BY WindowOf
  <2>2. n <= w + 1
    BY <1>7, <2>1
  <2>3. n - d <= w + 1
    BY ONLY <1>2, <2>2, <2>1
  <2> QED BY <1>6, <2>1, <2>3
<1>11. ASSUME NEW i \in 1 .. n - d PROVE v[i].psn = OwnNum((a + d) + i)
  <2>1. d + i \in 1 .. n /\ a + (d + i) = (a + d) + i
    BY <1>2
  <2> QED BY <1>4, <1>7, <2>1
<1>12. Numbered(y, a + d)
  BY <1>4, <1>5, <1>6, <1>8, <1>9, <1>10, <1>11 DEF Numbered, Starting, num
<1>13. Carries(u, v, a, a + d)
  <2>1. a <= a + d /\ a + n <= (a + d) + (n - d)
    BY <1>2
  <2>2. ASSUME NEW j \in (a + d) + 1 .. a + n PROVE v[j - (a + d)].m = u[j - a].m
    <3>1. j - (a + d) \in 1 .. n - d /\ d + (j - (a + d)) = j - a
      BY <1>2
    <3> QED BY <1>4, <3>1
  <2>3. Len(u) = n /\ Len(v) = n - d
    BY <1>1, <1>4 DEF u
  <2> QED BY <2>1, <2>2, <2>3 DEF Carries
<1>14. Waiting(x) = Waiting(y) \cup {u[i].m : i \in 1 .. d}
  <2>1. Waiting(x) = {u[i].m : i \in 1 .. n} /\ Waiting(y) = {v[i].m : i \in 1 .. n - d}
    BY <1>1, <1>4, <1>5 DEF Waiting, u
  <2>2. ASSUME NEW i \in 1 .. n - d PROVE v[i].m \in {u[j].m : j \in 1 .. n}
    <3>1. d + i \in 1 .. n
      BY <1>2
    <3> QED BY <1>4, <3>1
  <2>3. ASSUME NEW i \in 1 .. d PROVE i \in 1 .. n
    BY <1>2
  <2>4. ASSUME NEW i \in 1 .. n, i \notin 1 .. d PROVE u[i].m \in {v[j].m : j \in 1 .. n - d}
    <3>1. i - d \in 1 .. n - d /\ d + (i - d) = i
      BY <1>2, <2>4
    <3> QED BY <1>4, <3>1
  <2> QED BY <2>1, <2>2, <2>3, <2>4
<1> QED BY <1>3, <1>5, <1>6, <1>12, <1>13, <1>14 DEF y, u, num, Retains

LEMMA RangeSplit ==
  ASSUME NEW X, NEW s \in Seq(X), NEW k \in 0 .. Len(s)
  PROVE  Range(s) = Range(SubSeq(s, 1, k)) \cup Range(SubSeq(s, k + 1, Len(s)))
<1> DEFINE t == SubSeq(s, 1, k)
           r == SubSeq(s, k + 1, Len(s))
<1>1. PICK n \in Nat : n = Len(s) /\ DOMAIN s = 1 .. n
  BY SeqParts
<1>2. k \in 0 .. n /\ k + 1 \in 1 .. Len(s) + 1
  BY <1>1
<1>3. t \in Seq(X) /\ Len(t) = k /\ \A i \in 1 .. k : t[i] = s[i]
  BY PrefixOK
<1>4. r \in Seq(X) /\ Len(r) = n - (k + 1) + 1 /\ \A i \in 1 .. n - (k + 1) + 1 : r[i] = s[(k + 1) + i - 1]
  BY <1>1, <1>2, SuffixOK
<1> HIDE DEF t, r
<1>5. n - (k + 1) + 1 = n - k /\ \A i \in 1 .. n - k : (k + 1) + i - 1 = k + i
  BY <1>2
<1>6. DOMAIN t = 1 .. k /\ DOMAIN r = 1 .. n - k
  BY <1>3, <1>4, <1>5, SeqParts
<1>7. ASSUME NEW i \in 1 .. n PROVE s[i] \in Range(t) \cup Range(r)
  <2>1. CASE i <= k
    <3>1. i \in 1 .. k
      BY <2>1
    <3> QED BY <1>3, <1>6, <3>1 DEF Range
  <2>2. CASE i > k
    <3>1. i - k \in 1 .. n - k /\ k + (i - k) = i
      BY <1>2, <2>2
    <3>2. r[i - k] = s[i]
      BY <1>4, <1>5, <3>1
    <3> QED BY <1>6, <3>1, <3>2 DEF Range
  <2> QED BY <1>2, <2>1, <2>2
<1>8. ASSUME NEW i \in 1 .. k PROVE t[i] \in Range(s)
  <2>1. i \in 1 .. n
    BY <1>2
  <2> QED BY <1>1, <1>3, <2>1 DEF Range
<1>9. ASSUME NEW i \in 1 .. n - k PROVE r[i] \in Range(s)
  <2>1. k + i \in 1 .. n
    BY <1>2
  <2> QED BY <1>1, <1>4, <1>5, <2>1 DEF Range
<1>10. Range(s) = Range(t) \cup Range(r)
  <2>1. Range(s) \in SUBSET (Range(t) \cup Range(r))
    BY <1>1, <1>7 DEF Range
  <2>2. Range(t) \in SUBSET Range(s) /\ Range(r) \in SUBSET Range(s)
    BY <1>6, <1>8, <1>9 DEF Range
  <2> QED BY <2>1, <2>2
<1> QED BY <1>10 DEF t, r

LEMMA HandleAckAdvances ==
  ASSUME ShortWindow, NEW x, EngineOK(x), Retains(x), NEW a \in Nat, Numbered(x, a),
         x.state \in {"Negotiate", "Normal"}, NEW d \in 0 .. Len(x.unack),
         NEW H, \A i \in 1 .. d : x.unack[i].m \in H
  PROVE  LET r == HandleAck(x, OwnNum(a + d))
         IN  Advances(x, r, a, a + d, H) /\ r.e.state = "Normal"
<1> DEFINE num == OwnNum(a + d)
           y == Acknowledge(x, num)
           k == Room(y)
           q == SubSeq(y.queue, k + 1, Len(y.queue))
           z == [y EXCEPT !.queue = SubSeq(@, k + 1, Len(@))]
           ms == SubSeq(y.queue, 1, k)
           b == a + d
<1>1. /\ EngineOK(y) /\ Retains(y) /\ Numbered(y, b) /\ y.acked # None
      /\ y.state = "Normal" /\ y.queue = x.queue /\ Carries(x.unack, y.unack, a, b)
      /\ Waiting(x) = Waiting(y) \cup {x.unack[i].m : i \in 1 .. d}
  BY AcknowledgeNumbers
<1>2. b \in Nat
  BY UnackLen
<1> HIDE DEF y, b
<1>3. k \in 0 .. Len(y.queue) /\ Len(y.unack) + k <= y.lsp.max_outgoing + 1
  BY <1>1, <1>2, RoomFits
<1>4. y \in Engines /\ y.queue \in Seq(1 .. MaxOut)
  BY <1>1, UnackLen
<1>5. HandleAck(x, num) = Transmit(z, ms)
  BY DEF HandleAck, y
<1> HIDE DEF k, num
<1>6. k + 1 \in 1 .. Len(y.queue) + 1
  BY <1>3, <1>4, SeqParts
<1>7. q \in Seq(1 .. MaxOut) /\ ms \in Seq(1 .. MaxOut) /\ Len(ms) = k
  BY <1>3, <1>4, <1>6, SuffixOK, PrefixOK
<1>8. Range(y.queue) = Range(ms) \cup Range(q)
  BY <1>3, <1>4, RangeSplit
<1>9. z = [y EXCEPT !.queue = q]
  BY <1>4 DEF Engines
<1> HIDE DEF q, ms
<1>10. /\ z \in Engines /\ z.queue = q /\ z.due = y.due
       /\ \A h \in {"state", "lsp", "marker", "sent", "acked", "unack"} : z[h] = y[h]
  BY <1>4, <1>7, <1>9 DEF Engines
<1> HIDE DEF z
<1>11. /\ z.state = y.state /\ z.lsp = y.lsp /\ z.marker = y.marker /\ z.sent = y.sent
       /\ z.acked = y.acked /\ z.unack = y.unack
  BY <1>10
<1>12. EngineOK(z) /\ Retains(z) /\ Numbered(z, b) /\ z.acked # None /\ Waiting(z) = Waiting(y)
  BY <1>1, <1>10, <1>11, SameAligned DEF Retains, Numbered, Marked, Waiting
<1>13. Len(z.unack) + Len(ms) <= z.lsp.max_outgoing + 1
  BY <1>3, <1>7, <1>11
<1> DEFINE r == Transmit(z, ms)
<1>14. /\ Retains(r.e) /\ Numbered(r.e, b) /\ Carries(z.unack, r.e.unack, b, b)
       /\ Ruled(r.out, r.e, b) /\ Owed(r.e) = Owed(z) \cup Range(ms) /\ r.e.state = z.state
  BY <1>2, <1>7, <1>12, <1>13, TransmitAdvances
<1>15. RetOK(r)
  BY <1>7, <1>12, TransmitOK
<1> HIDE DEF r
<1>16. Carries(x.unack, r.e.unack, a, b)
  <2>1. Len(x.unack) \in Nat /\ Len(y.unack) \in Nat /\ Len(r.e.unack) \in Nat
    BY <1>1, <1>15, UnackLen DEF RetOK
  <2> QED BY <1>1, <1>2, <1>11, <1>14, <2>1, CarriesTrans
<1>17. Owed(x) \cup H = Owed(r.e) \cup H
  BY <1>1, <1>8, <1>10, <1>12, <1>14 DEF Owed
<1>18. r.e.state = "Normal"
  BY <1>1, <1>11, <1>14
<1>19. Advances(x, r, a, b, H)
  BY <1>14, <1>16, <1>17, <1>18 DEF Advances, Starting
<1> QED BY <1>5, <1>18, <1>19 DEF r, b, num

(* Packets that are sent again keep their number and message.              *)
LEMMA SameNumbered ==
  ASSUME NEW x, NEW a, Numbered(x, a), NEW y,
         \A h \in {"lsp", "marker", "sent", "acked", "queue", "state"} : y[h] = x[h],
         Len(y.unack) = Len(x.unack), Len(x.unack) \in Nat,
         \A i \in 1 .. Len(x.unack) : /\ y.unack[i].psn = x.unack[i].psn
                                      /\ y.unack[i].m = x.unack[i].m,
         x.unack # <<>>
  PROVE  Numbered(y, a) /\ Owed(y) = Owed(x)
<1>1. /\ y.lsp = x.lsp /\ y.marker = x.marker /\ y.sent = x.sent /\ y.acked = x.acked
      /\ y.queue = x.queue /\ y.state = x.state
  OBVIOUS
<1>2. Numbered(y, a)
  BY <1>1 DEF Numbered, Marked
<1>3. Waiting(y) = Waiting(x)
  BY DEF Waiting
<1> QED BY <1>1, <1>2, <1>3 DEF Owed

LEMMA BailoutAdvances ==
  ASSUME NEW x, EngineOK(x), Retains(x), NEW a \in Nat, Numbered(x, a), NEW H
  PROVE  Advances(x, Ret(Bailout(x)), a, a, H)
<1> DEFINE y == Bailout(x)
<1>1. /\ y.state = "Dead" /\ y.lsp = x.lsp /\ y.sent = x.sent /\ y.acked = x.acked
      /\ y.unack = x.unack /\ y.queue = x.queue
  BY DEF Bailout, EngineOK, Engines
<1>2. Ret(y).e = y /\ Ret(y).out = <<>> /\ Len(<<>>) = 0
  BY DEF Ret
<1> HIDE DEF y
<1>3. Numbered(y, a) /\ Retains(y) /\ Owed(y) = Owed(x)
  BY <1>1 DEF Numbered, Marked, Retains, Owed, Waiting, Starting
<1>4. Carries(x.unack, y.unack, a, a)
  BY <1>1, UnackLen, CarriesSame
<1>5. Ruled(<<>>, y, a)
  BY <1>2 DEF Ruled
<1>6. y.state \notin Starting
  BY <1>1 DEF Starting
<1> QED BY <1>2, <1>3, <1>4, <1>5, <1>6 DEF Advances, y

(* A handler that sends again what is kept.                                *)
LEMMA AgainAdvances ==
  ASSUME ShortWindow, NEW x, EngineOK(x), Retains(x), NEW a \in Nat, Numbered(x, a),
         NEW y, EngineOK(y),
         \A h \in {"lsp", "marker", "sent", "acked", "queue", "state"} : y[h] = x[h],
         Len(y.unack) = Len(x.unack), x.unack # <<>>,
         \A i \in 1 .. Len(x.unack) : /\ y.unack[i].psn = x.unack[i].psn
                                      /\ y.unack[i].m = x.unack[i].m,
         NEW us \in Seq(Packets), Range(us) \in SUBSET Range(x.unack),
         NEW H, NEW fs, Len(fs) = Len(us),
         \A i \in 1 .. Len(us) : fs[i] = DataOf(x, us[i])
  PROVE  Advances(x, Write(y, fs), a, a, H)
<1>1. Len(x.unack) \in Nat /\ x \in Engines /\ DOMAIN x.unack = 1 .. Len(x.unack)
      /\ y \in Engines /\ \A i \in 1 .. Len(us) : us[i] \in Packets
  BY UnackLen, SeqParts
<1>2. Numbered(y, a) /\ Owed(y) = Owed(x)
  BY <1>1, SameNumbered
<1>3. Carries(x.unack, y.unack, a, a)
  BY <1>1, CarriesSame
<1>4. y.state \notin Starting /\ y.state = x.state /\ y.lsp = x.lsp
  BY DEF Numbered
<1> DEFINE r == Write(y, fs)
<1>5. r.out = fs /\ \A h \in Fields \ {"cum"} : r.e[h] = y[h]
  BY <1>1, WriteParts
<1> HIDE DEF r
<1>6. /\ r.e.lsp = y.lsp /\ r.e.marker = y.marker /\ r.e.sent = y.sent /\ r.e.acked = y.acked
      /\ r.e.queue = y.queue /\ r.e.state = y.state /\ r.e.unack = y.unack
  BY <1>5 DEF Fields
<1>7. Numbered(r.e, a) /\ Owed(r.e) = Owed(x) /\ Retains(r.e)
  <2>1. Numbered(r.e, a)
    BY <1>2, <1>6 DEF Numbered, Marked
  <2>2. Owed(r.e) = Owed(y)
    BY <1>6 DEF Owed, Waiting
  <2>3. Owed(r.e) = Owed(x)
    BY <1>2, <2>2, Zenon
  <2> QED BY <1>4, <1>6, <2>1, <2>3, Zenon DEF Retains
<1>8. ASSUME NEW i \in 1 .. Len(fs) PROVE <<fs[i], Stamp(y, a)>> \in OutRule(y.unack, a)
  <2>1. us[i] \in Range(us)
    <3>1. DOMAIN us = 1 .. Len(us)
      BY SeqParts
    <3> QED BY <3>1 DEF Range
  <2>2. PICK j \in 1 .. Len(x.unack) : us[i] = x.unack[j]
    BY <1>1, <2>1 DEF Range
  <2>3. us[i].psn = y.unack[j].psn /\ us[i].m = y.unack[j].m /\ j \in 1 .. Len(y.unack)
    BY <2>2
  <2> QED BY <1>1, <1>2, <1>4, <2>3, DataRuled
<1>9. Ruled(fs, r.e, a)
  BY <1>6, <1>8 DEF Ruled, Stamp
<1>10. Advances(x, r, a, a, H)
  BY <1>3, <1>4, <1>5, <1>6, <1>7, <1>9 DEF Advances
<1> QED BY <1>10 DEF r

LEMMA HandleEakAdvances ==
  ASSUME ShortWindow, NEW x, EngineOK(x), Retains(x), NEW a \in Nat, Numbered(x, a), NEW K, NEW H
  PROVE  Advances(x, HandleEak(x, K), a, a, H)
         /\ (x.state \notin {"Normal"} => HandleEak(x, K) = Ret(x))
<1> DEFINE hit == HitBy(x, K)
           g == AgainBy(x, K)
           z == [x EXCEPT !.unack = g, !.delayed = FALSE, !.resend = TRUE]
           fs == [i \in DOMAIN hit |-> DataOf(x, hit[i])]
           died == \E i \in DOMAIN hit : hit[i].n + 1 = x.lsp.max_retransmissions
<1>1. x \in Engines /\ Len(x.unack) \in Nat /\ DOMAIN x.unack = 1 .. Len(x.unack)
  BY UnackLen
<1>2. HandleEak(x, K) = IF x.state # "Normal" \/ hit = <<>> THEN Ret(x)
                        ELSE IF died THEN Ret(Bailout(x)) ELSE Write(z, fs)
  BY DEF HandleEak, HitBy, AgainBy
<1>3. /\ hit \in Seq(Packets) /\ Range(hit) \in SUBSET Range(x.unack)
      /\ g \in Seq(Packets) /\ Len(g) = Len(x.unack) /\ DOMAIN g = DOMAIN x.unack
      /\ \A i \in DOMAIN x.unack : g[i].psn = x.unack[i].psn /\ g[i].m = x.unack[i].m
  BY <1>1, AgainOK
<1> HIDE DEF hit, g
<1>4. Len(fs) = Len(hit) /\ \A i \in 1 .. Len(hit) : fs[i] = DataOf(x, hit[i])
  <2>1. DOMAIN hit = 1 .. Len(hit)
    BY <1>3, SeqParts
  <2> QED BY <1>1, <1>3, <2>1, DatasOK
<1>5. /\ z \in Engines /\ z.unack = g /\ z.due = x.due
      /\ \A h \in {"lsp", "marker", "sent", "acked", "queue", "state"} : z[h] = x[h]
  BY <1>1, <1>3 DEF Engines
<1> HIDE DEF z, fs, died
<1>6. CASE x.state # "Normal" \/ hit = <<>>
  <2>1. Apart(x, Ret(x))
    BY DEF Apart, Ret, Bare
  <2> QED BY <1>2, <1>6, <2>1, ApartAdvances, RetIsOK
<1>7. CASE x.state = "Normal" /\ hit # <<>> /\ died
  BY <1>2, <1>7, BailoutAdvances
<1>8. CASE x.state = "Normal" /\ hit # <<>> /\ ~died
  <2>1. {g[i].psn : i \in DOMAIN g} = {x.unack[i].psn : i \in DOMAIN x.unack}
    BY <1>3
  <2>2. EngineOK(z)
    BY <1>5, <2>1 DEF EngineOK, Aligned
  <2>3. x.unack # <<>>
    <3>1. Len(hit) # 0 /\ DOMAIN hit = 1 .. Len(hit) /\ Len(hit) \in Nat
      BY <1>3, <1>8, EmptySeq, SeqParts
    <3>2. 1 \in DOMAIN hit
      BY <3>1
    <3>3. Range(hit) # {}
      BY <3>2 DEF Range
    <3>4. Range(<<>>) = {}
      BY DEF Range
    <3> QED BY <1>3, <3>3, <3>4
  <2>4. Advances(x, Write(z, fs), a, a, H)
    BY <1>1, <1>3, <1>4, <1>5, <2>2, <2>3, AgainAdvances
  <2> QED BY <1>2, <1>8, <2>4
<1> QED BY <1>6, <1>7, <1>8

LEMMA ExpectAckAdvances ==
  ASSUME ShortWindow, NEW x, EngineOK(x), Retains(x), NEW a \in Nat, Numbered(x, a), NEW H
  PROVE  Advances(x, OnExpectAckTimer(x), a, a, H)
<1>1. x \in Engines /\ Len(x.unack) \in Nat /\ DOMAIN x.unack = 1 .. Len(x.unack)
      /\ \A i \in 1 .. Len(x.unack) : x.unack[i] \in Packets
  BY UnackLen
<1>2. CASE OnExpectAckTimer(x) = Ret([x EXCEPT !.resend = FALSE])
  <2> DEFINE y == [x EXCEPT !.resend = FALSE]
  <2>1. /\ \A h \in {"state", "lsp", "marker", "sent", "acked", "unack", "queue"} : y[h] = x[h]
        /\ y \in Engines /\ y.due = x.due /\ y.unack = x.unack
    BY <1>1 DEF Engines
  <2>2. OnExpectAckTimer(x) = Ret(y)
    BY <1>2
  <2> HIDE DEF y
  <2>3. RetOK(Ret(y)) /\ Apart(x, Ret(y))
    BY <2>1, SameAligned, RetIsOK DEF Apart, Bare, Ret
  <2> QED BY <2>2, <2>3, ApartAdvances
<1>3. CASE OnExpectAckTimer(x) = Ret(Bailout(x))
  BY <1>3, BailoutAdvances
<1>4. CASE /\ x.unack # <<>>
           /\ OnExpectAckTimer(x) = Write(Repeated(x), <<DataOf(x, x.unack[Oldest(x)])>>)
  <2> DEFINE y == Repeated(x)
             u == x.unack[Oldest(x)]
             us == <<u>>
             fs == <<DataOf(x, u)>>
  <2>1. /\ Oldest(x) \in DOMAIN x.unack /\ EngineOK(y) /\ Len(y.unack) = Len(x.unack)
        /\ \A i \in DOMAIN x.unack : y.unack[i].psn = x.unack[i].psn /\ y.unack[i].m = x.unack[i].m
        /\ \A h \in Fields \ {"unack", "due", "resend"} : y[h] = x[h]
    BY <1>4, RepeatedOK
  <2>2. u \in Packets /\ u \in Range(x.unack)
    BY <1>1, <2>1 DEF Range
  <2>3. OnExpectAckTimer(x) = Write(y, fs)
    BY <1>4
  <2> HIDE DEF y, u
  <2>4. us \in Seq(Packets) /\ Len(us) = 1 /\ us[1] = u /\ Len(fs) = 1 /\ fs[1] = DataOf(x, u)
    BY <2>2
  <2>5. Range(us) \in SUBSET Range(x.unack)
    <3>1. DOMAIN us = 1 .. 1 /\ \A i \in 1 .. 1 : i = 1
      BY <2>4, SeqParts
    <3> QED BY <2>2, <2>4, <3>1 DEF Range
  <2>6. \A i \in 1 .. Len(us) : fs[i] = DataOf(x, us[i])
    <3>1. \A i \in 1 .. 1 : i = 1
      OBVIOUS
    <3> QED BY <2>4, <3>1
  <2> HIDE DEF us, fs
  <2>7. \A h \in {"lsp", "marker", "sent", "acked", "queue", "state"} : y[h] = x[h]
    BY <2>1 DEF Fields
  <2>8. Len(fs) = Len(us)
    BY <2>4
  <2>9. Advances(x, Write(y, fs), a, a, H)
    BY <1>1, <1>4, <2>1, <2>4, <2>5, <2>6, <2>7, <2>8, AgainAdvances
  <2> QED BY <2>3, <2>9
<1> QED BY <1>2, <1>3, <1>4, OnExpectAckTimerParts

(* The handlers that leave the sending side alone.                         *)
LEMMA BareOne ==
  /\ Bare(<<>>)
  /\ \A f : "SYN" \notin f.bits /\ f.m = NoMsg => Bare(<<f>>)
  /\ \A x : Bare(<<AckOf(x)>>) /\ Bare(<<Marker>>)
  /\ \A x, K : Bare(<<Frame({"EAK"}, x.sent, x.recv, NoMsg, K)>>)
<1>1. \A f : Len(<<f>>) = 1 /\ <<f>>[1] = f
  OBVIOUS
<1>2. Len(<<>>) = 0 /\ (\A i : i \notin 1 .. 0) /\ \A i \in 1 .. 1 : i = 1
  OBVIOUS
<1>3. \A f : "SYN" \notin f.bits /\ f.m = NoMsg => Bare(<<f>>)
  BY <1>1, <1>2, Zenon DEF Bare
<1>4. \A x : "SYN" \notin AckOf(x).bits /\ AckOf(x).m = NoMsg
  BY DEF AckOf, Frame
<1>5. "SYN" \notin Marker.bits /\ Marker.m = NoMsg
  BY DEF Marker, Frame
<1>6. \A x, K : LET f == Frame({"EAK"}, x.sent, x.recv, NoMsg, K)
                IN  "SYN" \notin f.bits /\ f.m = NoMsg
  BY DEF Frame
<1>7. Bare(<<>>)
  BY <1>2 DEF Bare
<1> QED BY <1>3, <1>4, <1>5, <1>6, <1>7

LEMMA ApartWrite ==
  ASSUME NEW x, NEW y \in Engines, NEW fs, Bare(fs),
         \A h \in {"state", "lsp", "marker", "sent", "acked", "unack", "queue"} : y[h] = x[h]
  PROVE  Apart(x, Write(y, fs))
<1> DEFINE r == Write(y, fs)
<1>1. r.out = fs /\ \A h \in Fields \ {"cum"} : r.e[h] = y[h]
  BY WriteParts
<1> HIDE DEF r
<1>2. Apart(x, r)
  BY <1>1 DEF Apart, Fields
<1> QED BY <1>2 DEF r

LEMMA HoldApart ==
  ASSUME NEW x, EngineOK(x), NEW f \in Frames(MaxIn), f.m # NoMsg, NEW d
  PROVE  Apart(x, Hold(x, f, d))
<1> DEFINE h == Append(x.held, [psn |-> f.seq, m |-> f.m])
           y == [x EXCEPT !.held = Append(@, [psn |-> f.seq, m |-> f.m])]
           z == [y EXCEPT !.delayed = FALSE]
           eak == Frame({"EAK"}, x.sent, x.recv, NoMsg, {Next8(x.recv, j) : j \in 1 .. d - 1})
<1>1. x \in Engines /\ x.held \in Seq(Parcels)
  BY DEF EngineOK, Engines
<1>2. [psn |-> f.seq, m |-> f.m] \in Parcels
  BY Iap2LinkAssumption DEF Frames, Parcels, NoMsg
<1>3. h \in Seq(Parcels) /\ y = [x EXCEPT !.held = h]
  BY <1>1, <1>2, AppendProperties DEF Engines
<1> HIDE DEF h
<1>4. /\ y \in Engines
      /\ \A g \in {"state", "lsp", "marker", "sent", "acked", "unack", "queue"} : y[g] = x[g]
  BY <1>1, <1>3 DEF Engines
<1> HIDE DEF y
<1>5. /\ z \in Engines
      /\ \A g \in {"state", "lsp", "marker", "sent", "acked", "unack", "queue"} : z[g] = x[g]
  BY <1>4 DEF Engines
<1>6. Hold(x, f, d) = IF d < x.lsp.max_outgoing THEN Ret(y) ELSE Write(z, <<eak>>)
  BY DEF Hold, y
<1>7. Apart(x, Ret(y))
  BY <1>4, BareOne DEF Apart, Ret
<1>8. Bare(<<eak>>)
  BY BareOne
<1> HIDE DEF z, eak
<1>9. Apart(x, Write(z, <<eak>>))
  BY <1>5, <1>8, ApartWrite
<1> QED BY <1>6, <1>7, <1>9

LEMMA HandleDataApart ==
  ASSUME NEW x, EngineOK(x), NEW f \in Frames(MaxIn), f.m # NoMsg
  PROVE  Apart(x, HandleData(x, f))
<1> DEFINE d == Distance(f.seq, x.recv)
<1>1. \/ HandleData(x, f) = Write(x, <<AckOf(x)>>)
      \/ HandleData(x, f) = Deliver(x, f)
      \/ HandleData(x, f) = Hold(x, f, d)
  <2> HIDE DEF d
  <2>1. HandleData(x, f) = CASE d = 0 \/ d > x.lsp.max_outgoing + 10 -> Write(x, <<AckOf(x)>>)
                             [] d = 1 -> Deliver(x, f)
                             [] OTHER -> Hold(x, f, d)
    BY DEF HandleData, d
  <2>2. CASE (d = 0 \/ d > x.lsp.max_outgoing + 10) /\ d # 1
    BY <2>1, <2>2
  <2>3. CASE d = 1
    <3>1. ~(d > x.lsp.max_outgoing + 10)
      <4>1. PICK w \in 1 .. 255 : w = x.lsp.max_outgoing
        BY LspsOK DEF EngineOK
      <4>2. ~(1 > w + 10)
        OBVIOUS
      <4> QED BY <2>3, <4>1, <4>2
    <3> QED BY <2>1, <2>3, <3>1
  <2>4. CASE d # 0 /\ d # 1 /\ ~(d > x.lsp.max_outgoing + 10)
    BY <2>1, <2>4
  <2> QED BY <2>2, <2>3, <2>4
<1>2. Apart(x, Hold(x, f, d))
  BY HoldApart
<1>3. Apart(x, Write(x, <<AckOf(x)>>))
  BY BareOne, ApartWrite DEF EngineOK
<1>4. Apart(x, Deliver(x, f))
  <2>1. PICK r : r = Deliver(x, f)
    OBVIOUS
  <2>5. /\ \A h \in Fields \ {"held", "recv", "lastAcked", "delayed", "cum"} : Deliver(x, f).e[h] = x[h]
        /\ Deliver(x, f).out = <<>> \/ \E y \in Engines : /\ Deliver(x, f).out = <<AckOf(y)>>
                                                         /\ y.recv = Deliver(x, f).e.recv
    BY DeliverParts, Zenon
  <2>2. /\ \A h \in Fields \ {"held", "recv", "lastAcked", "delayed", "cum"} : r.e[h] = x[h]
        /\ r.out = <<>> \/ \E y \in Engines : r.out = <<AckOf(y)>>
    BY <2>1, <2>5
  <2>3. Bare(r.out)
    BY <2>2, BareOne
  <2>4. Apart(x, r)
    BY <2>2, <2>3 DEF Apart, Fields
  <2> QED BY <2>1, <2>4
<1> QED BY <1>1, <1>2, <1>3, <1>4

LEMMA CumulativeApart ==
  ASSUME NEW x, EngineOK(x) PROVE Apart(x, Cumulative(x))
<1> DEFINE y == [x EXCEPT !.lastAcked = x.recv]
<1>1. /\ y \in Engines
      /\ \A h \in {"state", "lsp", "marker", "sent", "acked", "unack", "queue"} : y[h] = x[h]
  BY DEF EngineOK, Engines
<1>2. Cumulative(x) = Ret(x) \/ Cumulative(x) = Write(y, <<AckOf(x)>>)
  BY DEF Cumulative
<1> HIDE DEF y
<1>3. Apart(x, Ret(x))
  BY BareOne DEF Apart, Ret
<1>4. Apart(x, Write(y, <<AckOf(x)>>))
  BY <1>1, BareOne, ApartWrite
<1> QED BY <1>2, <1>3, <1>4

(* A SYN changes the window of an engine that has sent nothing.            *)
LEMMA SynAdvances ==
  ASSUME NEW x, EngineOK(x), NEW f \in Frames(MaxIn)
  PROVE  LET r == SynPart(x, f)
         IN  /\ \A h \in {"state", "marker", "sent", "acked", "unack", "queue"} : r.e[h] = x[h]
             /\ Bare(r.out) /\ (r.e.lsp = x.lsp \/ (x.state = "Negotiate" /\ r.e.lsp = Lsp))
<1> DEFINE y == [x EXCEPT !.lsp = Lsp, !.recv = f.seq, !.lastAcked = f.seq]
           fs == <<AckOf(y)>>
<1>1. /\ y \in Engines /\ y.lsp = Lsp
      /\ \A h \in {"state", "marker", "sent", "acked", "unack", "queue"} : y[h] = x[h]
  BY DEF EngineOK, Engines, Frames
<1>2. SynPart(x, f) = Ret(x) \/ (x.state = "Negotiate" /\ SynPart(x, f) = Write(y, fs))
  BY DEF SynPart, HandleSyn
<1> HIDE DEF y
<1>3. Bare(fs)
  BY BareOne
<1> HIDE DEF fs
<1> DEFINE r == Write(y, fs)
<1>4. r.out = fs /\ \A h \in Fields \ {"cum"} : r.e[h] = y[h]
  BY <1>1, WriteParts
<1> HIDE DEF r
<1>5. /\ \A h \in {"state", "marker", "sent", "acked", "unack", "queue"} : r.e[h] = x[h]
      /\ r.e.lsp = Lsp
  BY <1>1, <1>4 DEF Fields
<1>6. Ret(x).e = x /\ Bare(Ret(x).out)
  BY BareOne DEF Ret
<1>7. CASE SynPart(x, f) = Ret(x)
  BY <1>6, <1>7
<1>8. CASE x.state = "Negotiate" /\ SynPart(x, f) = r
  BY <1>3, <1>4, <1>5, <1>8
<1> QED BY <1>2, <1>7, <1>8 DEF r

(* Only a SYN changes the parameters.                                      *)
LEMMA HandleAckLsp ==
  ASSUME NEW x, EngineOK(x), NEW num \in Psn \cup {None}
  PROVE  HandleAck(x, num).e.lsp = x.lsp
<1> DEFINE y == Acknowledge(x, num)
           k == Room(y)
           q == SubSeq(y.queue, k + 1, Len(y.queue))
           z == [y EXCEPT !.queue = SubSeq(@, k + 1, Len(@))]
           ms == SubSeq(y.queue, 1, k)
<1>1. EngineOK(y) /\ y.lsp = x.lsp
  BY AcknowledgeOK DEF Fields
<1>2. HandleAck(x, num) = Transmit(z, ms)
  BY DEF HandleAck
<1> HIDE DEF y
<1>3. y \in Engines /\ y.queue \in Seq(1 .. MaxOut)
  BY <1>1, UnackLen
<1>4. k \in 0 .. Len(y.queue)
  BY <1>3, RoomIn
<1> HIDE DEF k
<1>5. k + 1 \in 1 .. Len(y.queue) + 1
  BY <1>3, <1>4, SeqParts
<1>6. q \in Seq(1 .. MaxOut) /\ ms \in Seq(1 .. MaxOut)
  BY <1>3, <1>4, <1>5, SuffixOK, PrefixOK
<1>7. z = [y EXCEPT !.queue = q]
  BY <1>3 DEF Engines
<1> HIDE DEF q, ms
<1>8. z \in Engines /\ z.due = y.due /\ z.unack = y.unack /\ z.lsp = y.lsp
  BY <1>3, <1>6, <1>7 DEF Engines
<1> HIDE DEF z
<1>9. EngineOK(z)
  BY <1>1, <1>8, SameAligned
<1>10. Transmit(z, ms).e.lsp = z.lsp
  BY <1>6, <1>9, TransmitParts
<1> QED BY <1>1, <1>2, <1>8, <1>10

LEMMA HandleEakLsp ==
  ASSUME NEW x, EngineOK(x), NEW K
  PROVE  HandleEak(x, K).e.lsp = x.lsp
<1> DEFINE hit == HitBy(x, K)
           z == [x EXCEPT !.unack = AgainBy(x, K), !.delayed = FALSE, !.resend = TRUE]
           fs == [i \in DOMAIN hit |-> DataOf(x, hit[i])]
<1>1. \/ HandleEak(x, K) = Ret(x) \/ HandleEak(x, K) = Ret(Bailout(x))
      \/ HandleEak(x, K) = Write(z, fs)
  BY DEF HandleEak, HitBy, AgainBy
<1>2. x \in Engines /\ AgainBy(x, K) \in Seq(Packets)
  BY AgainOK DEF EngineOK
<1>3. z \in Engines /\ z.lsp = x.lsp
  BY <1>2 DEF Engines
<1> HIDE DEF z, fs
<1>4. Write(z, fs).e.lsp = x.lsp
  BY <1>3, WriteParts DEF Fields
<1>5. Ret(x).e.lsp = x.lsp /\ Ret(Bailout(x)).e.lsp = x.lsp
  BY <1>2 DEF Ret, Bailout, Engines
<1> QED BY <1>1, <1>4, <1>5

LEMMA FrameLsp ==
  ASSUME NEW x, EngineOK(x), NEW f \in Frames(MaxIn), "RST" \notin f.bits
  PROVE  ProcessFrame(x, f).e.lsp = SynPart(x, f).e.lsp
<1>1. /\ RetOK(SynPart(x, f)) /\ EngineOK(CountedPart(x, f)) /\ RetOK(AckPart(x, f))
      /\ RetOK(EakPart(x, f)) /\ RetOK(DataPart(x, f))
  BY PartsOK
<1>2. AckPart(x, f).e.lsp = SynPart(x, f).e.lsp
  <2>1. CountedPart(x, f).lsp = SynPart(x, f).e.lsp
    BY <1>1 DEF CountedPart, RetOK, EngineOK, Engines
  <2>2. HandleAck(CountedPart(x, f), f.ack).e.lsp = CountedPart(x, f).lsp
    BY <1>1, HandleAckLsp DEF Frames
  <2> QED BY <2>1, <2>2 DEF AckPart, Then
<1>3. EakPart(x, f).e.lsp = AckPart(x, f).e.lsp
  <2>1. HandleEak(AckPart(x, f).e, f.missing).e.lsp = AckPart(x, f).e.lsp
    BY <1>1, HandleEakLsp DEF RetOK
  <2> QED BY <2>1 DEF EakPart, Then
<1>4. DataPart(x, f).e.lsp = EakPart(x, f).e.lsp
  <2>1. CASE f.m # NoMsg
    <3>1. HandleData(EakPart(x, f).e, f).e.lsp = EakPart(x, f).e.lsp
      BY <1>1, <2>1, HandleDataApart DEF RetOK, Apart
    <3> QED BY <3>1 DEF DataPart, Then
  <2>2. CASE f.m = NoMsg
    BY <2>2 DEF DataPart
  <2> QED BY <2>1, <2>2
<1>5. Cumulative(DataPart(x, f).e).e.lsp = DataPart(x, f).e.lsp
  BY <1>1, CumulativeApart DEF RetOK, Apart
<1>6. ProcessFrame(x, f).e = Cumulative(DataPart(x, f).e).e
  BY ProcessIs DEF Then
<1> QED BY <1>2, <1>3, <1>4, <1>5, <1>6

LEMMA AdvancesFrom ==
  ASSUME NEW x, NEW y, y.unack = x.unack, y.queue = x.queue, y.state = x.state,
         NEW r, NEW a, NEW b, NEW H, Advances(y, r, a, b, H)
  PROVE  Advances(x, r, a, b, H)
BY DEF Advances, Owed, Waiting

LEMMA FrameAdvances ==
  ASSUME ShortWindow, NEW x, EngineOK(x), Retains(x), NEW a \in Nat, Numbered(x, a),
         x.state \in {"Negotiate", "Normal"}, NEW f \in Frames(MaxIn),
         Retains(ProcessFrame(x, f).e), NEW d \in 0 .. Len(x.unack),
         "ACK" \in f.bits => f.ack = OwnNum(a + d),
         NEW H, \A i \in 1 .. d : x.unack[i].m \in H
  PROVE  \E b \in {a, a + d} : Advances(x, ProcessFrame(x, f), a, b, H)
<1>1. CASE "RST" \in f.bits
  BY <1>1, BailoutAdvances, ProcessIs
<1>2. CASE "RST" \notin f.bits
  <2> DEFINE s == SynPart(x, f)
             c == CountedPart(x, f)
             k == AckPart(x, f)
             g == EakPart(x, f)
             t == DataPart(x, f)
  <2>1. RetOK(s) /\ EngineOK(c) /\ RetOK(k) /\ RetOK(g) /\ RetOK(t)
    BY PartsOK
  <2>2. /\ s.e.state = x.state /\ s.e.marker = x.marker /\ s.e.sent = x.sent
        /\ s.e.acked = x.acked /\ s.e.unack = x.unack /\ s.e.queue = x.queue
        /\ Bare(s.out) /\ (s.e.lsp = x.lsp \/ (x.state = "Negotiate" /\ s.e.lsp = Lsp))
    BY SynAdvances
  <2>3. Retains(s.e)
    BY <1>2, FrameLsp DEF Retains
  <2>4. c.lsp = s.e.lsp /\ c.state = s.e.state /\ c.marker = s.e.marker /\ c.sent = s.e.sent
        /\ c.acked = s.e.acked /\ c.unack = s.e.unack /\ c.queue = s.e.queue
    BY <2>1 DEF CountedPart, RetOK, EngineOK, Engines
  <2>5. k = IF "ACK" \notin f.bits THEN s ELSE Then(s, HandleAck(c, f.ack))
    BY DEF AckPart
  <2>6. g = IF "EAK" \in f.bits THEN Then(k, HandleEak(k.e, f.missing)) ELSE k
    BY DEF EakPart
  <2>7. t = IF f.bits = {"ACK"} /\ f.m # NoMsg THEN Then(g, HandleData(g.e, f)) ELSE g
    BY DEF DataPart
  <2>8. ProcessFrame(x, f) = Then(t, Cumulative(t.e))
    BY <1>2, ProcessIs
  <2> HIDE DEF s, c, k, g, t
  <2>9. Numbered(s.e, a)
    <3>1. CASE s.e.lsp = x.lsp
      BY <2>2, <3>1 DEF Numbered, Marked
    <3>2. CASE x.state = "Negotiate"
      <4>1. x.unack = <<>>
        BY <3>2 DEF Numbered, Starting
      <4>2. Len(s.e.unack) <= s.e.lsp.max_outgoing + 1
        <5>1. PICK w \in 1 .. 255 : w = s.e.lsp.max_outgoing
          BY <2>1, LspsOK DEF RetOK, EngineOK
        <5>2. 0 <= w + 1
          OBVIOUS
        <5> QED BY <2>2, <4>1, <5>1, <5>2
      <4> QED BY <2>2, <4>2 DEF Numbered, Marked
    <3> QED BY <2>2, <3>1, <3>2
  <2>10. Advances(x, s, a, a, H)
    <3>1. Carries(x.unack, s.e.unack, a, a)
      BY <2>2, UnackLen, CarriesSame
    <3>2. Ruled(s.out, s.e, a)
      BY <2>1, <2>2, BareRuled DEF RetOK
    <3> QED BY <2>2, <2>3, <2>9, <3>1, <3>2 DEF Advances, Owed, Waiting
  <2>11. PICK b \in {a, a + d} :
           Advances(x, k, a, b, H) /\ (k.e.state \in Starting => k = s)
    <3>1. CASE "ACK" \notin f.bits
      BY <2>5, <2>10, <3>1
    <3>2. CASE "ACK" \in f.bits
      <4> DEFINE h == HandleAck(c, OwnNum(a + d))
      <4>1. Retains(c) /\ Numbered(c, a) /\ c.state \in {"Negotiate", "Normal"}
        BY <2>2, <2>3, <2>4, <2>9 DEF Retains, Numbered, Marked
      <4>2. d \in 0 .. Len(c.unack) /\ \A i \in 1 .. d : c.unack[i].m \in H
        BY <2>2, <2>4
      <4>3. Advances(c, h, a, a + d, H) /\ h.e.state = "Normal"
        BY <2>1, <4>1, <4>2, HandleAckAdvances
      <4>4. RetOK(h)
        BY <2>1, <3>2, HandleAckOK DEF Frames
      <4>5. k = Then(s, h)
        BY <2>5, <3>2
      <4> HIDE DEF h
      <4>6. Advances(s.e, h, a, a + d, H)
        BY <2>4, <4>3, AdvancesFrom
      <4>7. a + d \in Nat
        BY UnackLen
      <4>8. Advances(x, k, a, a + d, H)
        BY <2>1, <2>2, <2>10, <4>4, <4>5, <4>6, <4>7, AdvancesThen
      <4>9. k.e.state \notin Starting
        BY <4>3, <4>5 DEF Then, Starting
      <4> QED BY <4>8, <4>9
    <3> QED BY <3>1, <3>2
  <2>12. b \in Nat
    BY UnackLen
  <2>13. Advances(x, g, a, b, H)
    <3>1. CASE "EAK" \notin f.bits
      BY <2>6, <2>11, <3>1
    <3>2. CASE "EAK" \in f.bits
      <4> DEFINE h == HandleEak(k.e, f.missing)
      <4>1. EngineOK(k.e) /\ Retains(k.e) /\ Numbered(k.e, b)
        BY <2>1, <2>11 DEF Advances, RetOK
      <4>2. Advances(k.e, h, b, b, H) /\ (k.e.state \notin {"Normal"} => h = Ret(k.e))
        BY <2>12, <4>1, HandleEakAdvances
      <4>3. RetOK(h)
        BY <4>1, HandleEakOK
      <4>4. k.e.state \in Starting => h.e.state \in Starting
        BY <4>2 DEF Ret, Starting
      <4> HIDE DEF h
      <4>5. Advances(x, Then(k, h), a, b, H)
        BY <2>1, <2>11, <2>12, <4>2, <4>3, <4>4, AdvancesThen
      <4> QED BY <2>6, <3>2, <4>5 DEF h
    <3> QED BY <3>1, <3>2
  <2>14. ASSUME NEW q, RetOK(q), Advances(x, q, a, b, H), NEW h, RetOK(h), Apart(q.e, h)
         PROVE  Advances(x, Then(q, h), a, b, H)
    <3>1. EngineOK(q.e) /\ Retains(q.e) /\ Numbered(q.e, b)
      BY <2>14 DEF Advances, RetOK
    <3>2. Advances(q.e, h, b, b, H)
      BY <2>12, <2>14, <3>1, ApartAdvances
    <3>3. q.e.state \in Starting => h.e.state \in Starting
      BY <2>14 DEF Apart
    <3> QED BY <2>12, <2>14, <3>2, <3>3, AdvancesThen
  <2>15. Advances(x, t, a, b, H)
    <3>1. CASE f.m = NoMsg
      BY <2>7, <2>13, <3>1
    <3>2. CASE f.m # NoMsg
      <4>1. Apart(g.e, HandleData(g.e, f)) /\ RetOK(HandleData(g.e, f))
        BY <2>1, <3>2, HandleDataApart, HandleDataOK DEF RetOK
      <4> QED BY <2>1, <2>7, <2>13, <2>14, <4>1
    <3> QED BY <3>1, <3>2
  <2>16. Apart(t.e, Cumulative(t.e)) /\ RetOK(Cumulative(t.e))
    BY <2>1, CumulativeApart, CumulativeOK DEF RetOK
  <2>17. Advances(x, ProcessFrame(x, f), a, b, H)
    BY <2>1, <2>8, <2>14, <2>15, <2>16
  <2> QED BY <2>17
<1> QED BY <1>1, <1>2

(* What an engine writes that stays as it is, but for its state before the *)
(* handshake is through.                                                   *)
LEMMA WriteAdvances ==
  ASSUME NEW x, NEW y, EngineOK(y), Retains(y), NEW a \in Nat, Numbered(y, a),
         y.unack = x.unack, y.queue = x.queue, y.state \in Starting => x.state \in Starting,
         NEW fs \in Seq(Frames(MaxOut)), Ruled(fs, y, a), NEW H
  PROVE  Advances(x, Write(y, fs), a, a, H)
<1> DEFINE r == Write(y, fs)
<1>1. y \in Engines
  BY DEF EngineOK
<1>2. r.out = fs /\ \A h \in Fields \ {"cum"} : r.e[h] = y[h]
  BY <1>1, WriteParts
<1> HIDE DEF r
<1>3. /\ r.e.state = y.state /\ r.e.lsp = y.lsp /\ r.e.marker = y.marker /\ r.e.sent = y.sent
      /\ r.e.acked = y.acked /\ r.e.unack = y.unack /\ r.e.queue = y.queue
  BY <1>2 DEF Fields
<1>4. Retains(r.e) /\ Numbered(r.e, a)
  BY <1>3 DEF Retains, Numbered, Marked
<1>5. Carries(x.unack, r.e.unack, a, a)
  BY <1>3, UnackLen, CarriesSame
<1>6. Ruled(r.out, r.e, a)
  BY <1>2, <1>3 DEF Ruled, Stamp
<1>7. Owed(r.e) = Owed(x)
  BY <1>3 DEF Owed, Waiting
<1> QED BY <1>3, <1>4, <1>5, <1>6, <1>7 DEF Advances, r

LEMMA SynRuled ==
  ASSUME NEW y, EngineOK(y), NEW a \in Nat, Numbered(y, a), y.state = "Negotiate"
  PROVE  /\ <<SynOf(y)>> \in Seq(Frames(MaxOut)) /\ Ruled(<<SynOf(y)>>, y, a)
         /\ y.acked = None
<1>1. y.acked = None /\ a = 0 /\ y.unack = <<>> /\ y.sent = OwnNum(a + Len(y.unack))
  BY DEF Numbered, Starting
<1>2. y.sent = OwnPsn
  <2>1. a + Len(y.unack) = 0
    BY <1>1
  <2> QED BY <1>1, <2>1, OwnNumbers
<1>3. SynOf(y).bits = {"SYN"} /\ SynOf(y).seq = OwnPsn /\ SynOf(y).m = NoMsg
  BY <1>2 DEF SynOf, Frame
<1>4. SynOf(y) \in Frames(MaxOut)
  BY FramesOK DEF EngineOK
<1> DEFINE f == SynOf(y)
<1> HIDE DEF f
<1>5. Stamp(y, a) = 0 /\ 0 \in Nat
  BY DEF Stamp, Starting
<1>6. <<f, 0>> \in OutRule(y.unack, a)
  BY <1>3, <1>4, <1>5, OutRuled DEF f
<1>7. <<f>> \in Seq(Frames(MaxOut)) /\ Len(<<f>>) = 1 /\ <<f>>[1] = f
  BY <1>4, One DEF f
<1>8. Ruled(<<f>>, y, a)
  BY <1>5, <1>6, <1>7 DEF Ruled
<1> QED BY <1>1, <1>7, <1>8 DEF f

LEMMA EnterNegotiateAdvances ==
  ASSUME NEW x, EngineOK(x), Retains(x), NEW a \in Nat, Numbered(x, a),
         x.state \in {"Idle", "Detect"}, NEW H
  PROVE  /\ Advances(x, EnterNegotiate(x), a, a, H) /\ EnterNegotiate(x).e.acked = x.acked
         /\ EnterNegotiate(x).e.lsp = x.lsp
<1> DEFINE y == [x EXCEPT !.state = "Negotiate", !.marker = FALSE]
<1>1. /\ y \in Engines /\ y.state = "Negotiate" /\ y.marker = FALSE
      /\ \A h \in Fields \ {"state", "marker"} : y[h] = x[h]
  BY DEF EngineOK, Engines, Fields
<1>2. EnterNegotiate(x) = Write(y, <<SynOf(y)>>)
  BY DEF EnterNegotiate
<1> HIDE DEF y
<1>3. /\ y.lsp = x.lsp /\ y.sent = x.sent /\ y.acked = x.acked /\ y.unack = x.unack
      /\ y.queue = x.queue /\ y.due = x.due
  BY <1>1 DEF Fields
<1>4. EngineOK(y) /\ Retains(y)
  BY <1>1, <1>3, SameAligned DEF Retains
<1>5. Numbered(y, a)
  BY <1>1, <1>3 DEF Numbered, Marked, Starting
<1>6. <<SynOf(y)>> \in Seq(Frames(MaxOut)) /\ Ruled(<<SynOf(y)>>, y, a)
  BY <1>1, <1>4, <1>5, SynRuled
<1>7. x.state \in Starting
  BY DEF Starting
<1>8. Advances(x, Write(y, <<SynOf(y)>>), a, a, H)
  BY <1>3, <1>4, <1>5, <1>6, <1>7, WriteAdvances
<1>9. \A h \in Fields \ {"cum"} : Write(y, <<SynOf(y)>>).e[h] = y[h]
  BY <1>1, WriteParts
<1> QED BY <1>2, <1>3, <1>8, <1>9 DEF Fields

LEMMA FeedAdvances ==
  ASSUME ShortWindow, NEW x, EngineOK(x), Retains(x), NEW a \in Nat, Numbered(x, a),
         x.state \notin {"Idle", "Dead"}, NEW f \in Frames(MaxIn),
         Retains(Feed(x, f).e), NEW d \in 0 .. Len(x.unack),
         "ACK" \in f.bits => f.ack = OwnNum(a + d),
         NEW H, \A i \in 1 .. d : x.unack[i].m \in H
  PROVE  \E b \in {a, a + d} : Advances(x, Feed(x, f), a, b, H)
<1>1. x.state \in {"Detect", "Negotiate", "Normal"} /\ (x.marker <=> x.state = "Detect")
  BY DEF EngineOK, Engines, Numbered, Marked
<1>2. CASE x.marker /\ f = Marker
  <2>1. Advances(x, EnterNegotiate(x), a, a, H)
    BY <1>1, <1>2, EnterNegotiateAdvances
  <2> QED BY <1>2, <2>1 DEF Feed
<1>3. CASE x.marker /\ f # Marker
  BY <1>3, BailoutAdvances DEF Feed
<1>4. CASE ~x.marker /\ f = Marker
  <2>1. Apart(x, Ret(x)) /\ RetOK(Ret(x))
    BY BareOne, RetIsOK DEF Apart, Ret
  <2>2. Advances(x, Ret(x), a, a, H)
    BY <2>1, ApartAdvances
  <2> QED BY <1>4, <2>2 DEF Feed
<1>5. CASE ~x.marker /\ f # Marker
  <2>1. Feed(x, f) = ProcessFrame(x, f) /\ x.state \in {"Negotiate", "Normal"}
    BY <1>1, <1>5 DEF Feed
  <2> QED BY <2>1, FrameAdvances
<1> QED BY <1>2, <1>3, <1>4, <1>5

(* An engine that has not had an ack has none after a frame without one.   *)
LEMMA FeedStays ==
  ASSUME NEW x, EngineOK(x), Retains(x), NEW a \in Nat, Numbered(x, a),
         x.state \notin {"Idle", "Dead"}, NEW f \in Frames(MaxIn), x.acked = None,
         "ACK" \notin f.bits
  PROVE  Feed(x, f).e.acked = None
<1>1. x.state # "Normal" /\ x \in Engines
  BY OwnNumbers DEF Numbered, EngineOK
<1>2. EnterNegotiate(x).e.acked = x.acked
  <2> DEFINE y == [x EXCEPT !.state = "Negotiate", !.marker = FALSE]
  <2>1. y \in Engines /\ y.acked = x.acked
    BY <1>1 DEF Engines
  <2>2. EnterNegotiate(x) = Write(y, <<SynOf(y)>>)
    BY DEF EnterNegotiate
  <2> HIDE DEF y
  <2>3. Write(y, <<SynOf(y)>>).e.acked = y.acked
    BY <2>1, WriteParts DEF Fields
  <2> QED BY <2>1, <2>2, <2>3
<1>3. Ret(Bailout(x)).e.acked = x.acked /\ Ret(x).e.acked = x.acked
  BY <1>1 DEF Ret, Bailout, Engines
<1>4. ProcessFrame(x, f).e.acked = None
  <2>1. CASE "RST" \in f.bits
    BY <1>3, <2>1, ProcessIs
  <2>2. CASE "RST" \notin f.bits
    <3> DEFINE s == SynPart(x, f)
               g == EakPart(x, f)
    <3>1. RetOK(s) /\ RetOK(g) /\ s.e.acked = x.acked /\ s.e.state = x.state
      BY PartsOK, SynAdvances
    <3>2. AckPart(x, f) = s
      BY DEF AckPart
    <3>3. HandleEak(s.e, f.missing) = Ret(s.e)
      BY <1>1, <3>1 DEF HandleEak
    <3>4. g.e.acked = None
      BY <3>1, <3>2, <3>3 DEF EakPart, Then, Ret
    <3>5. DataPart(x, f) = g
      BY DEF DataPart
    <3> HIDE DEF s, g
    <3>6. Cumulative(g.e).e.acked = g.e.acked
      BY <3>1, CumulativeApart DEF RetOK, Apart
    <3> QED BY <2>2, <3>4, <3>5, <3>6, ProcessIs DEF Then
  <2> QED BY <2>1, <2>2
<1> QED BY <1>2, <1>3, <1>4 DEF Feed

(* The parameters of a link that retains nothing stay so.                  *)
LEMMA FeedLsp ==
  ASSUME NEW x, EngineOK(x), NEW f \in Frames(MaxIn)
  PROVE  Feed(x, f).e.lsp \in {x.lsp, Lsp}
<1>1. x \in Engines
  BY DEF EngineOK
<1>2. EnterNegotiate(x).e.lsp = x.lsp
  <2> DEFINE y == [x EXCEPT !.state = "Negotiate", !.marker = FALSE]
  <2>1. y \in Engines /\ y.lsp = x.lsp
    BY <1>1 DEF Engines
  <2>2. EnterNegotiate(x) = Write(y, <<SynOf(y)>>)
    BY DEF EnterNegotiate
  <2> HIDE DEF y
  <2>3. Write(y, <<SynOf(y)>>).e.lsp = y.lsp
    BY <2>1, WriteParts DEF Fields
  <2> QED BY <2>1, <2>2, <2>3
<1>3. Ret(Bailout(x)).e.lsp = x.lsp /\ Ret(x).e.lsp = x.lsp
  BY <1>1 DEF Ret, Bailout, Engines
<1>4. ProcessFrame(x, f).e.lsp \in {x.lsp, Lsp}
  <2>1. CASE "RST" \in f.bits
    BY <1>3, <2>1, ProcessIs
  <2>2. CASE "RST" \notin f.bits
    <3>1. SynPart(x, f).e.lsp = x.lsp \/ SynPart(x, f).e.lsp = Lsp
      BY SynAdvances
    <3> QED BY <2>2, <3>1, FrameLsp
  <2> QED BY <2>1, <2>2
<1> QED BY <1>2, <1>3, <1>4 DEF Feed

LEMMA SendPacketAdvances ==
  ASSUME ShortWindow, NEW x, EngineOK(x), Retains(x), NEW a \in Nat, Numbered(x, a),
         NEW m \in 1 .. MaxOut
  PROVE  LET r == SendPacket(x, m)
         IN  /\ Retains(r.e) /\ Numbered(r.e, a) /\ Carries(x.unack, r.e.unack, a, a)
             /\ Ruled(r.out, r.e, a) /\ Owed(r.e) = Owed(x) \cup {m}
             /\ r.e.state = x.state /\ (x.acked = None => r.e.acked = None)
<1> DEFINE late == Distance(x.sent, x.acked) > x.lsp.max_outgoing \/ x.state # "Normal"
           q == Append(x.queue, m)
           y == [x EXCEPT !.queue = q]
<1>1. x \in Engines /\ x.queue \in Seq(1 .. MaxOut)
  BY UnackLen
<1>2. q \in Seq(1 .. MaxOut) /\ Range(q) = Range(x.queue) \cup {m}
  <2>1. q \in Seq(1 .. MaxOut)
    BY <1>1, AppendProperties
  <2>2. Range(q) = Range(x.queue) \cup {m}
    <3>1. x.queue \in Seq(1 .. MaxOut) /\ m \in 1 .. MaxOut
      BY <1>1
    <3>2. PICK X, u, v : X = 1 .. MaxOut /\ u = x.queue /\ v = m
      OBVIOUS
    <3>3. u \in Seq(X) /\ v \in X
      BY <3>1, <3>2
    <3>4. Range(Append(u, v)) = Range(u) \cup {v}
      BY ONLY <3>3, RangeAppend
    <3> QED BY <3>2, <3>4
  <2> QED BY <2>1, <2>2
<1>3. SendPacket(x, m) = IF late THEN Ret(y) ELSE Transmit(x, <<m>>)
  BY <1>1 DEF SendPacket, Engines
<1> HIDE DEF late, q
<1>4. /\ y.queue = q /\ y.state = x.state /\ y.lsp = x.lsp /\ y.marker = x.marker
      /\ y.sent = x.sent /\ y.acked = x.acked /\ y.unack = x.unack
  BY <1>1 DEF Engines
<1> HIDE DEF y
<1>5. CASE late
  <2>1. SendPacket(x, m) = Ret(y)
    BY <1>3, <1>5
  <2>2. Ret(y).e = y /\ Ret(y).out = <<>>
    BY DEF Ret
  <2>3. Retains(y) /\ Numbered(y, a)
    BY <1>4 DEF Retains, Numbered, Marked
  <2>4. Carries(x.unack, y.unack, a, a)
    BY <1>4, UnackLen, CarriesSame
  <2>5. Ruled(<<>>, y, a)
    <3>1. Len(<<>>) = 0 /\ \A i : i \notin 1 .. 0
      OBVIOUS
    <3> QED BY <3>1 DEF Ruled
  <2>6. Owed(y) = Owed(x) \cup {m}
    BY <1>2, <1>4 DEF Owed, Waiting
  <2> QED BY <1>4, <2>1, <2>2, <2>3, <2>4, <2>5, <2>6
<1>6. CASE ~late
  <2>1. SendPacket(x, m) = Transmit(x, <<m>>) /\ x.state = "Normal"
        /\ ~(Distance(x.sent, x.acked) > x.lsp.max_outgoing)
    BY <1>3, <1>6 DEF late
  <2>2. x.acked # None
    <3>1. OwnNum(a) # None
      BY OwnNumbers
    <3> QED BY <2>1, <3>1 DEF Numbered
  <2>3. <<m>> \in Seq(1 .. MaxOut) /\ Len(<<m>>) = 1 /\ Range(<<m>>) = {m}
    <3>1. <<m>> \in Seq(1 .. MaxOut) /\ Len(<<m>>) = 1 /\ <<m>>[1] = m
      BY One
    <3>2. DOMAIN <<m>> = 1 .. 1
      OBVIOUS
    <3> QED BY <3>1, <3>2 DEF Range
  <2>4. Len(x.unack) + Len(<<m>>) <= x.lsp.max_outgoing + 1
    <3>1. PICK n \in Nat : n = Len(x.unack)
      BY UnackLen
    <3>2. PICK w \in 1 .. 245 : w = x.lsp.max_outgoing
      <4>1. x.lsp.max_outgoing \in 1 .. 245
        BY <1>1, Windows
      <4> QED BY <4>1
    <3>3. Distance(x.sent, x.acked) = n
      BY <3>1, InFlight
    <3>4. n <= w
      BY <2>1, <3>1, <3>2, <3>3
    <3>5. n + 1 <= w + 1
      BY <3>4
    <3> QED BY <2>3, <3>1, <3>2, <3>5
  <2> DEFINE ms == <<m>>
  <2> HIDE DEF ms
  <2>5. LET r == Transmit(x, ms)
        IN  /\ Retains(r.e) /\ Numbered(r.e, a) /\ Carries(x.unack, r.e.unack, a, a)
            /\ Ruled(r.out, r.e, a) /\ Owed(r.e) = Owed(x) \cup Range(ms)
            /\ r.e.state = x.state
    BY <2>2, <2>3, <2>4, TransmitAdvances DEF ms
  <2> QED BY <2>1, <2>2, <2>3, <2>5 DEF ms
<1> QED BY <1>5, <1>6
-----------------------------------------------------------------------------
(***************************************************************************)
(* The invariant of the sending side.  Of the messages the engine sent, the *)
(* phone has acknowledged a and heard those up to Len(heard).  The frames   *)
(* on their way to it are numbered behind lo; those on their way from it    *)
(* acknowledge what it had heard when it wrote them.                        *)
(***************************************************************************)
Hearing(a, lo) ==
  /\ lo <= Stamp(e, a) /\ a <= Len(heard) /\ Len(heard) <= a + Len(e.unack)
  /\ Len(heard) <= lo + 245 /\ (heard # <<>> => lo >= 1)
  /\ \A j \in a + 1 .. Len(heard) : heard[j] = e.unack[j - a].m
  /\ Stamped(out, lo, Stamp(e, a), OutRule(e.unack, a))
  /\ Stamped(in, a, Len(heard), InRule)
  /\ IF p.recv = None
     THEN e.acked = None /\ p.sent = 0 /\ \A f \in Range(in) : "ACK" \notin f.bits
     ELSE p.recv = OwnNum(Len(heard))
  /\ 1 .. given = Owed(e) \cup Range(heard)

SInv == TInv /\ (Retains(e) => \E a, lo \in Nat : Numbered(e, a) /\ Hearing(a, lo))

LEMMA HeardTypes ==
  ASSUME TInv
  PROVE  /\ Len(heard) \in Nat /\ heard \in Seq(1 .. MaxOut) /\ Len(e.unack) \in Nat
         /\ EngineOK(e) /\ in \in Seq(Frames(MaxIn)) /\ out \in Seq(Frames(MaxOut))
BY UnackLen, SeqParts DEF TInv

(* The engine makes a step: the phone has now acknowledged b.              *)
LEMMA EngineHears ==
  ASSUME TInv, TInv', NEW a \in Nat, NEW lo \in Nat, Numbered(e, a), Hearing(a, lo),
         NEW b \in Nat, a <= b, b <= Len(heard),
         NEW r, RetOK(r), Becomes(r), Numbered(r.e, b), Carries(e.unack, r.e.unack, a, b),
         Ruled(r.out, r.e, b), r.e.state \in Starting => e.state \in Starting,
         p' = p, heard' = heard, Stamped(in', b, Len(heard), InRule),
         Range(in') \in SUBSET Range(in), p.recv = None => r.e.acked = None,
         1 .. given' = Owed(r.e) \cup Range(heard)
  PROVE  Numbered(e, b)' /\ Hearing(b, lo)'
<1>1. e' = r.e /\ out' = IF r.e.state = "Dead" THEN out ELSE out \o r.out
  BY Zenon DEF Becomes
<1>2. PICK l \in Nat, n \in Nat, k \in Nat :
        l = Len(heard) /\ n = Len(e.unack) /\ k = Len(r.e.unack)
  <2>1. Len(r.e.unack) \in Nat
    BY UnackLen DEF RetOK
  <2> QED BY <2>1, HeardTypes
<1>3. PICK s \in Nat, t \in Nat : s = Stamp(e, a) /\ t = Stamp(r.e, b)
  BY StampNat
<1>4. s <= t
  BY <1>3 DEF Stamp
<1>5. /\ lo <= s /\ a <= l /\ l <= a + n /\ l <= lo + 245 /\ (heard # <<>> => lo >= 1)
      /\ \A j \in a + 1 .. l : heard[j] = e.unack[j - a].m
      /\ Stamped(out, lo, s, OutRule(e.unack, a))
  BY <1>2, <1>3 DEF Hearing
<1>6. a + n <= b + k /\ \A j \in b + 1 .. a + n : r.e.unack[j - b].m = e.unack[j - a].m
  BY <1>2 DEF Carries
<1>7. ASSUME NEW j \in b + 1 .. l PROVE heard[j] = r.e.unack[j - b].m
  <2>1. j \in a + 1 .. l /\ j \in b + 1 .. a + n
    BY <1>5
  <2> QED BY <1>5, <1>6, <2>1
<1>8. out \in Seq(Frames(MaxOut)) /\ r.out \in Seq(Frames(MaxOut))
  BY HeardTypes DEF RetOK
<1>9. Stamped(out, lo, s, OutRule(r.e.unack, b))
  <2>1. ASSUME NEW i \in 1 .. Len(out), NEW q \in lo .. s, <<out[i], q>> \in OutRule(e.unack, a)
        PROVE  <<out[i], q>> \in OutRule(r.e.unack, b)
    <3>1. out[i] \in Frames(MaxOut) /\ q \in Nat
      <4>1. q \in Nat
        BY <2>1
      <4> QED BY <1>8, <4>1, SeqParts
    <3>2. Len(e.unack) \in Nat /\ Len(r.e.unack) \in Nat
      BY <1>2
    <3> QED BY <2>1, <3>1, <3>2, RuleGrows
  <2> QED BY <1>5, <2>1, StampedRule
<1>10. Stamped(out, lo, t, OutRule(r.e.unack, b))
  BY <1>4, <1>9, StampedWiden
<1>11. Stamped(out \o r.out, lo, t, OutRule(r.e.unack, b))
  <2>1. \A i \in 1 .. Len(r.out) : <<r.out[i], t>> \in OutRule(r.e.unack, b)
    BY <1>3 DEF Ruled
  <2>2. lo <= s /\ s <= t
    BY <1>4, <1>5
  <2> QED BY <1>8, <1>9, <2>1, <2>2, StampedConcat
<1>12. Stamped(out', lo, t, OutRule(r.e.unack, b))
  BY <1>1, <1>10, <1>11
<1>13. IF p.recv = None
       THEN r.e.acked = None /\ p.sent = 0 /\ \A f \in Range(in') : "ACK" \notin f.bits
       ELSE p.recv = OwnNum(l)
  <2>1. IF p.recv = None
        THEN p.sent = 0 /\ \A f \in Range(in) : "ACK" \notin f.bits
        ELSE p.recv = OwnNum(Len(heard))
    BY DEF Hearing
  <2> QED BY <1>2, <2>1
<1>14. lo <= t /\ b <= l /\ l <= b + k
  <2>1. lo <= s /\ l <= a + n /\ a + n <= b + k
    BY <1>5, <1>6
  <2> QED BY <1>2, <1>4, <2>1
<1>15. Hearing(b, lo)'
  BY <1>1, <1>2, <1>3, <1>5, <1>7, <1>12, <1>13, <1>14 DEF Hearing, Stamp, Owed, Waiting
<1>16. Numbered(e, b)'
  BY <1>1 DEF Numbered, Marked
<1> QED BY <1>15, <1>16

LEMMA StillHears ==
  ASSUME TInv, TInv', NEW a \in Nat, NEW lo \in Nat, Numbered(e, a), Hearing(a, lo),
         NEW r, RetOK(r), Becomes(r), Advances(e, r, a, a, Range(heard)),
         e.acked = None => r.e.acked = None, in' = in, given' = given, p' = p, heard' = heard
  PROVE  Numbered(e, a)' /\ Hearing(a, lo)'
<1>1. /\ Numbered(r.e, a) /\ Carries(e.unack, r.e.unack, a, a) /\ Ruled(r.out, r.e, a)
      /\ Owed(e) \cup Range(heard) = Owed(r.e) \cup Range(heard)
      /\ r.e.state \in Starting => e.state \in Starting
  BY DEF Advances
<1>2. /\ a <= a /\ a <= Len(heard) /\ Stamped(in', a, Len(heard), InRule)
      /\ Range(in') \in SUBSET Range(in) /\ (p.recv = None => r.e.acked = None)
      /\ 1 .. given' = Owed(r.e) \cup Range(heard)
  BY <1>1 DEF Hearing
<1> QED BY <1>1, <1>2, EngineHears

LEMMA StartAdvances ==
  ASSUME NEW x, EngineOK(x), Retains(x), NEW a \in Nat, Numbered(x, a), x.state = "Idle", NEW H
  PROVE  LET r == Write([x EXCEPT !.state = "Detect"], <<Marker>>)
             s == Then(r, EnterNegotiate(r.e))
         IN  /\ RetOK(r) /\ Advances(x, r, a, a, H) /\ r.e.acked = x.acked
             /\ RetOK(s) /\ Advances(x, s, a, a, H) /\ s.e.acked = x.acked
<1> DEFINE y == [x EXCEPT !.state = "Detect"]
           fs == <<Marker>>
           r == Write(y, fs)
<1>1. /\ y \in Engines /\ y.state = "Detect" /\ y.due = x.due
      /\ y.lsp = x.lsp /\ y.marker = x.marker /\ y.sent = x.sent /\ y.acked = x.acked
      /\ y.unack = x.unack /\ y.queue = x.queue
  BY DEF EngineOK, Engines
<1> HIDE DEF y
<1>2. EngineOK(y) /\ Retains(y)
  BY <1>1, SameAligned DEF Retains
<1>3. Numbered(y, a)
  BY <1>1 DEF Numbered, Marked, Starting
<1>4. Bare(fs) /\ fs \in Seq(Frames(MaxOut))
  BY BareOne, FramesOK, One DEF EngineOK
<1>5. RetOK(r)
  BY <1>2, MarkerWritten
<1> HIDE DEF fs
<1>6. Ruled(fs, y, a)
  BY <1>4, BareRuled
<1>7. Advances(x, r, a, a, H)
  BY <1>1, <1>2, <1>3, <1>4, <1>6, WriteAdvances DEF Starting
<1>8. r.e.state = "Detect" /\ r.e.acked = x.acked /\ r.out = fs
  <2>1. r.out = fs /\ \A h \in Fields \ {"cum"} : r.e[h] = y[h]
    BY <1>1, WriteParts
  <2> QED BY <1>1, <2>1 DEF Fields
<1> HIDE DEF r
<1>9. EngineOK(r.e) /\ Retains(r.e) /\ Numbered(r.e, a)
  BY <1>5, <1>7 DEF Advances, RetOK
<1> DEFINE g == EnterNegotiate(r.e)
<1>10. RetOK(g) /\ Advances(r.e, g, a, a, H) /\ g.e.acked = r.e.acked
  BY <1>8, <1>9, EnterNegotiateAdvances, EnterNegotiateOK
<1> HIDE DEF g
<1>11. RetOK(Then(r, g)) /\ Then(r, g).e.acked = x.acked
  BY <1>5, <1>8, <1>10, ThenOK DEF Then
<1>12. Advances(x, Then(r, g), a, a, H)
  BY <1>4, <1>5, <1>7, <1>8, <1>10, AdvancesThen
<1> QED BY <1>5, <1>7, <1>8, <1>11, <1>12 DEF r, g, y, fs

LEMMA OwnSteps ==
  ASSUME ShortWindow, TInv, TInv', Retains(e), NEW a \in Nat, NEW lo \in Nat,
         Numbered(e, a), Hearing(a, lo),
         \/ \E initiate \in BOOLEAN : Start(initiate)
         \/ ConnectionEnds \/ DetectAgain \/ NegotiateAgain \/ DelayedAck \/ ExpectAckTimer
  PROVE  Numbered(e, a)' /\ Hearing(a, lo)'
<1> DEFINE H == Range(heard)
<1> SUFFICES \E r : /\ RetOK(r) /\ Becomes(r) /\ Advances(e, r, a, a, H)
                    /\ (e.acked = None => r.e.acked = None)
  <2>1. in' = in /\ given' = given /\ p' = p /\ heard' = heard
    BY DEF Start, ConnectionEnds, DetectAgain, NegotiateAgain, DelayedAck, ExpectAckTimer, phone
  <2> QED BY <2>1, StillHears
<1>1. EngineOK(e) /\ e \in Engines
  BY DEF TInv, EngineOK
<1> HIDE DEF H
<1>2. ASSUME NEW initiate \in BOOLEAN, Start(initiate)
      PROVE  \E r : /\ RetOK(r) /\ Becomes(r) /\ Advances(e, r, a, a, H)
                    /\ (e.acked = None => r.e.acked = None)
  <2> DEFINE r == Write([e EXCEPT !.state = "Detect"], <<Marker>>)
             s == Then(r, EnterNegotiate(r.e))
  <2>1. e.state = "Idle" /\ Becomes(IF initiate THEN s ELSE r)
    BY <1>2 DEF Start
  <2>2. /\ RetOK(r) /\ Advances(e, r, a, a, H) /\ r.e.acked = e.acked
        /\ RetOK(s) /\ Advances(e, s, a, a, H) /\ s.e.acked = e.acked
    BY <1>1, <2>1, StartAdvances
  <2> HIDE DEF r, s
  <2> QED BY <2>1, <2>2
<1>3. CASE ConnectionEnds
  <2> DEFINE r == Ret(Bailout(e))
  <2>1. RetOK(r) /\ Advances(e, r, a, a, H)
    BY <1>1, BailoutAdvances, RetIsOK, BailoutOK
  <2>2. r.e.acked = e.acked
    BY <1>1 DEF Ret, Bailout, Engines
  <2>3. Becomes(r)
    BY <1>3 DEF ConnectionEnds
  <2> HIDE DEF r
  <2> QED BY <2>1, <2>2, <2>3
<1>4. ASSUME NEW fs \in Seq(Frames(MaxOut)), Ruled(fs, e, a), Becomes(Write(e, fs))
      PROVE  \E r : /\ RetOK(r) /\ Becomes(r) /\ Advances(e, r, a, a, H)
                    /\ (e.acked = None => r.e.acked = None)
  <2> DEFINE r == Write(e, fs)
  <2>1. RetOK(r) /\ Advances(e, r, a, a, H)
    BY <1>1, <1>4, WriteOK, WriteAdvances
  <2>2. r.e.acked = e.acked
    BY <1>1, WriteParts DEF Fields
  <2> HIDE DEF r
  <2> QED BY <1>4, <2>1, <2>2 DEF r
<1>5. CASE DetectAgain
  <2>1. Bare(<<Marker>>) /\ <<Marker>> \in Seq(Frames(MaxOut))
    BY <1>1, BareOne, FramesOK, One
  <2>2. Ruled(<<Marker>>, e, a)
    BY <2>1, BareRuled
  <2> QED BY <1>4, <1>5, <2>1, <2>2 DEF DetectAgain
<1>6. CASE NegotiateAgain
  <2>1. <<SynOf(e)>> \in Seq(Frames(MaxOut)) /\ Ruled(<<SynOf(e)>>, e, a)
    BY <1>1, <1>6, SynRuled DEF NegotiateAgain
  <2> QED BY <1>4, <1>6, <2>1 DEF NegotiateAgain
<1>7. CASE DelayedAck
  <2> DEFINE x == [e EXCEPT !.delayed = FALSE]
             y == [x EXCEPT !.lastAcked = x.recv]
             fs == <<AckOf(x)>>
             r == IF e.state # "Normal" THEN Ret(x) ELSE Write(y, fs)
  <2>1. Becomes(r) /\ RetOK(r)
    BY <1>7, DelayedAckQuiet DEF DelayedAck
  <2>2. /\ y \in Engines
        /\ \A h \in {"state", "lsp", "marker", "sent", "acked", "unack", "queue"} :
             y[h] = e[h] /\ x[h] = e[h]
    BY <1>1 DEF Engines
  <2>3. Bare(fs) /\ Bare(<<>>)
    BY BareOne
  <2> HIDE DEF x, y, fs
  <2>4. Apart(e, Ret(x))
    BY <2>2, <2>3 DEF Apart, Ret
  <2>5. Apart(e, Write(y, fs))
    BY <2>2, <2>3, ApartWrite
  <2>6. Apart(e, r)
    BY <2>4, <2>5
  <2> HIDE DEF r
  <2>7. Advances(e, r, a, a, H)
    BY <1>1, <2>1, <2>6, ApartAdvances
  <2>8. r.e.acked = e.acked
    BY <2>6 DEF Apart
  <2> QED BY <2>1, <2>7, <2>8
<1>8. CASE ExpectAckTimer
  <2> DEFINE r == OnExpectAckTimer(e)
  <2>1. RetOK(r) /\ Advances(e, r, a, a, H)
    BY <1>1, ExpectAckAdvances, OnExpectAckTimerOK
  <2>2. Becomes(r)
    BY <1>8 DEF ExpectAckTimer
  <2>3. ASSUME e.acked = None PROVE r.e.acked = None
    <3>1. e.unack = <<>>
      BY <2>3, OwnNumbers DEF Numbered
    <3>2. r = Ret([e EXCEPT !.resend = FALSE])
      BY <3>1 DEF OnExpectAckTimer
    <3> QED BY <1>1, <2>3, <3>2 DEF Ret, Engines
  <2> HIDE DEF r
  <2> QED BY <2>1, <2>2, <2>3
<1> QED BY <1>2, <1>3, <1>5, <1>6, <1>7, <1>8

LEMMA GiveHears ==
  ASSUME ShortWindow, TInv, TInv', Retains(e), NEW a \in Nat, NEW lo \in Nat,
         Numbered(e, a), Hearing(a, lo), Give
  PROVE  Numbered(e, a)' /\ Hearing(a, lo)'
<1> DEFINE r == SendPacket(e, given')
<1>1. given' \in 1 .. MaxOut /\ 1 .. given' = (1 .. given) \cup {given'}
  <2>1. given \in 0 .. MaxOut /\ given < MaxOut /\ given' = given + 1 /\ MaxOut \in Nat
    BY Iap2LinkAssumption DEF Give, TInv
  <2>2. PICK g \in Nat, n \in Nat : g = given /\ n = MaxOut
    BY <2>1
  <2>3. g + 1 \in 1 .. n /\ 1 .. g + 1 = (1 .. g) \cup {g + 1}
    BY <2>1, <2>2
  <2> QED BY <2>1, <2>2, <2>3
<1>2. EngineOK(e) /\ RetOK(r)
  BY <1>1, SendPacketOK DEF TInv
<1>3. /\ Numbered(r.e, a) /\ Carries(e.unack, r.e.unack, a, a) /\ Ruled(r.out, r.e, a)
      /\ Owed(r.e) = Owed(e) \cup {given'} /\ r.e.state = e.state
      /\ (e.acked = None => r.e.acked = None)
  BY <1>1, <1>2, SendPacketAdvances
<1>4. Becomes(r) /\ in' = in /\ p' = p /\ heard' = heard
  BY DEF Give, phone
<1> HIDE DEF r
<1>5. /\ a <= a /\ a <= Len(heard) /\ Stamped(in', a, Len(heard), InRule)
      /\ Range(in') \in SUBSET Range(in) /\ (p.recv = None => r.e.acked = None)
      /\ 1 .. given' = Owed(r.e) \cup Range(heard)
  BY <1>1, <1>3, <1>4 DEF Hearing
<1> QED BY <1>2, <1>3, <1>4, <1>5, EngineHears

LEMMA TakeHears ==
  ASSUME ShortWindow, TInv, TInv', Retains(e), Retains(e)', NEW a \in Nat, NEW lo \in Nat,
         Numbered(e, a), Hearing(a, lo), Take
  PROVE  \E c \in Nat : Numbered(e, c)' /\ Hearing(c, lo)'
<1> DEFINE f == Head(in)
           r == Feed(e, f)
           H == Range(heard)
<1>1. in # <<>> /\ in' = Tail(in) /\ Becomes(r) /\ given' = given /\ p' = p /\ heard' = heard
      /\ e.state \notin {"Idle", "Dead"}
  BY DEF Take, Alive, phone
<1>2. PICK l \in Nat, n \in Nat : l = Len(heard) /\ n = Len(e.unack)
  BY HeardTypes
<1>3. /\ a <= l /\ l <= a + n /\ Stamped(in, a, l, InRule)
      /\ \A j \in a + 1 .. l : heard[j] = e.unack[j - a].m
  BY <1>2 DEF Hearing
<1>4. PICK b \in a .. l : <<f, b>> \in InRule /\ Stamped(Tail(in), b, l, InRule)
  <2>1. in \in Seq(Frames(MaxIn)) /\ in # <<>> /\ a \in Int /\ l \in Int
    BY <1>1, HeardTypes
  <2>2. PICK s, R : s = in /\ R = InRule
    OBVIOUS
  <2>3. \E b \in a .. l : <<Head(s), b>> \in R /\ Stamped(Tail(s), b, l, R)
    BY <1>3, <2>1, <2>2, StampedTail
  <2> QED BY <2>2, <2>3
<1>5. /\ f \in Frames(MaxIn) /\ f \in Range(in) /\ Range(Tail(in)) \in SUBSET Range(in)
  BY <1>1, HeardTypes, RangeTail
<1>6. RetOK(r) /\ EngineOK(e)
  BY <1>5, HeardTypes, FeedOK
<1>7. PICK d \in Int : d = b - a
  OBVIOUS
<1>8. d \in 0 .. n /\ a + d = b /\ b \in Nat /\ a <= b /\ b <= l
  BY <1>3, <1>4, <1>7
<1>9. "ACK" \in f.bits => f.ack = OwnNum(a + d)
  BY <1>4, <1>5, <1>8, InRuled
<1>10. ASSUME NEW i \in 1 .. d PROVE e.unack[i].m \in H
  <2>1. a + i \in a + 1 .. l /\ (a + i) - a = i /\ a + i \in 1 .. l
    BY <1>4, <1>8
  <2>2. heard[a + i] = e.unack[i].m
    BY <1>3, <2>1
  <2>3. a + i \in DOMAIN heard
    BY <1>2, <2>1, HeardTypes, SeqParts
  <2> QED BY <2>2, <2>3 DEF Range
<1>11. e' = r.e
  BY <1>1, Zenon DEF Becomes
<1> HIDE DEF f, r, H
<1>12. Retains(r.e)
  BY <1>11 DEF Retains
<1>13. PICK c \in {a, a + d} : Advances(e, r, a, c, H)
  <2>1. d \in 0 .. Len(e.unack)
    BY <1>2, <1>8
  <2>2. Retains(Feed(e, f).e)
    BY <1>12 DEF r
  <2>3. \E c \in {a, a + d} : Advances(e, Feed(e, f), a, c, H)
    BY <1>1, <1>5, <1>6, <1>9, <1>10, <2>1, <2>2, FeedAdvances
  <2> QED BY <2>3 DEF r
<1>14. c \in Nat /\ a <= c /\ c <= b /\ c <= l
  BY <1>8
<1>15. Stamped(in', c, l, InRule)
  BY <1>1, <1>4, <1>8, <1>14, StampedWiden
<1>16. p.recv = None => r.e.acked = None
  <2> SUFFICES ASSUME p.recv = None PROVE r.e.acked = None
    OBVIOUS
  <2>1. e.acked = None /\ "ACK" \notin f.bits
    BY <1>5 DEF Hearing
  <2> QED BY <1>1, <1>5, <1>6, <2>1, FeedStays DEF r
<1>17. /\ Numbered(r.e, c) /\ Carries(e.unack, r.e.unack, a, c) /\ Ruled(r.out, r.e, c)
       /\ Owed(e) \cup H = Owed(r.e) \cup H /\ (r.e.state \in Starting => e.state \in Starting)
  BY <1>13 DEF Advances
<1>18. 1 .. given' = Owed(r.e) \cup Range(heard)
  BY <1>1, <1>17 DEF Hearing, H
<1>19. Stamped(in', c, Len(heard), InRule) /\ c <= Len(heard) /\ Range(in') \in SUBSET Range(in)
  BY <1>1, <1>2, <1>5, <1>14, <1>15
<1>20. Numbered(e, c)' /\ Hearing(c, lo)'
  BY <1>1, <1>6, <1>14, <1>16, <1>17, <1>18, <1>19, EngineHears
<1> QED BY <1>14, <1>20

LEMMA SendPacketLsp ==
  ASSUME NEW x, EngineOK(x), NEW m \in 1 .. MaxOut PROVE SendPacket(x, m).e.lsp = x.lsp
<1>1. x \in Engines /\ <<m>> \in Seq(1 .. MaxOut)
  BY One DEF EngineOK
<1>2. Transmit(x, <<m>>).e.lsp = x.lsp
  BY <1>1, TransmitParts
<1>3. Ret([x EXCEPT !.queue = Append(@, m)]).e.lsp = x.lsp
  BY <1>1 DEF Ret, Engines
<1> QED BY <1>2, <1>3 DEF SendPacket

LEMMA OnExpectAckTimerLsp ==
  ASSUME NEW x, EngineOK(x) PROVE OnExpectAckTimer(x).e.lsp = x.lsp
<1>1. x \in Engines
  BY DEF EngineOK
<1>2. Ret([x EXCEPT !.resend = FALSE]).e.lsp = x.lsp /\ Ret(Bailout(x)).e.lsp = x.lsp
  BY <1>1 DEF Ret, Bailout, Engines
<1>3. ASSUME x.unack # <<>>, NEW fs PROVE Write(Repeated(x), fs).e.lsp = x.lsp
  <2>1. Repeated(x) \in Engines /\ Repeated(x).lsp = x.lsp
    BY <1>3, RepeatedOK DEF Fields, EngineOK
  <2> QED BY <2>1, WriteParts DEF Fields
<1> QED BY <1>2, <1>3, OnExpectAckTimerParts

(* A link that retains its packets did so before.                          *)
LEMMA LspStays ==
  ASSUME TInv, [Next]_vars, Retains(e)' PROVE Retains(e)
<1>1. EngineOK(e) /\ e \in Engines
  BY DEF TInv, EngineOK
<1> SUFFICES e'.lsp \in {e.lsp, Lsp}
  <2>1. OwnLsp.max_retransmissions > 0
    BY DEF OwnLsp
  <2>2. e.lsp = OwnLsp \/ e.lsp = Lsp
    BY <1>1 DEF Engines
  <2> QED BY <2>1, <2>2 DEF Retains
<1>2. ASSUME NEW r, Becomes(r), r.e.lsp \in {e.lsp, Lsp} PROVE e'.lsp \in {e.lsp, Lsp}
  <2>1. e' = r.e
    BY <1>2, Zenon DEF Becomes
  <2> QED BY <1>2, <2>1
<1>3. \A y \in Engines : \A fs : Write(y, fs).e.lsp = y.lsp
  BY WriteParts DEF Fields
<1>4. ASSUME NEW initiate \in BOOLEAN, Start(initiate) PROVE e'.lsp \in {e.lsp, Lsp}
  <2> DEFINE y == [e EXCEPT !.state = "Detect"]
             r == Write(y, <<Marker>>)
             z == [r.e EXCEPT !.state = "Negotiate", !.marker = FALSE]
             s == Then(r, EnterNegotiate(r.e))
  <2>1. y \in Engines /\ y.lsp = e.lsp /\ y.due = e.due /\ y.unack = e.unack
    BY <1>1 DEF Engines
  <2>2. Becomes(IF initiate THEN s ELSE r)
    BY <1>4 DEF Start
  <2> HIDE DEF y
  <2>3. r.e.lsp = e.lsp
    BY <1>3, <2>1
  <2>4. RetOK(r)
    BY <1>1, <2>1, SameAligned, MarkerWritten
  <2> HIDE DEF r
  <2>5. z \in Engines /\ z.lsp = r.e.lsp
    BY <2>4 DEF RetOK, EngineOK, Engines
  <2>6. EnterNegotiate(r.e) = Write(z, <<SynOf(z)>>)
    BY DEF EnterNegotiate
  <2> HIDE DEF z
  <2>7. s.e.lsp = e.lsp
    BY <1>3, <2>3, <2>5, <2>6 DEF Then
  <2> HIDE DEF s
  <2>8. (IF initiate THEN s ELSE r).e.lsp \in {e.lsp, Lsp}
    BY <2>3, <2>7
  <2> QED BY <1>2, <2>2, <2>8
<1>5. CASE Give
  <2>1. given' \in 1 .. MaxOut /\ Becomes(SendPacket(e, given'))
    BY <1>5, Iap2LinkAssumption DEF Give, TInv
  <2>2. SendPacket(e, given').e.lsp = e.lsp
    BY <1>1, <2>1, SendPacketLsp
  <2> QED BY <1>2, <2>1, <2>2
<1>6. CASE Take
  <2>1. Head(in) \in Frames(MaxIn) /\ Becomes(Feed(e, Head(in)))
    BY <1>6, RangeTail DEF Take, TInv
  <2> QED BY <1>1, <1>2, <2>1, FeedLsp
<1>7. CASE ConnectionEnds
  <2>1. Ret(Bailout(e)).e.lsp = e.lsp
    BY <1>1 DEF Ret, Bailout, Engines
  <2> QED BY <1>2, <1>7, <2>1 DEF ConnectionEnds
<1>8. CASE DetectAgain \/ NegotiateAgain
  BY <1>1, <1>2, <1>3, <1>8 DEF DetectAgain, NegotiateAgain
<1>9. CASE DelayedAck
  <2> DEFINE x == [e EXCEPT !.delayed = FALSE]
             y == [x EXCEPT !.lastAcked = x.recv]
             r == IF e.state # "Normal" THEN Ret(x) ELSE Write(y, <<AckOf(x)>>)
  <2>1. Becomes(r)
    BY <1>9 DEF DelayedAck
  <2>2. x.lsp = e.lsp /\ y \in Engines /\ y.lsp = e.lsp
    BY <1>1 DEF Engines
  <2> HIDE DEF x, y
  <2>3. Write(y, <<AckOf(x)>>).e.lsp = e.lsp /\ Ret(x).e.lsp = e.lsp
    BY <1>3, <2>2 DEF Ret
  <2>4. r.e.lsp = e.lsp
    BY <2>3
  <2> HIDE DEF r
  <2> QED BY <1>2, <2>1, <2>4
<1>10. CASE ExpectAckTimer
  BY <1>1, <1>2, <1>10, OnExpectAckTimerLsp DEF ExpectAckTimer
<1>11. CASE UNCHANGED vars \/ PhoneTakes \/ PhoneSends \/ PhoneAcks \/ PhoneSynAgain \/ PhoneAgain
            \/ PhoneResets \/ Damaged
  <2>1. e' = e
    BY <1>11 DEF vars, PhoneTakes, PhoneSends, PhoneAcks, PhoneSynAgain, PhoneAgain, PhoneResets,
                 PhoneWrites, Damaged
  <2> QED BY <2>1
<1> QED BY <1>4, <1>5, <1>6, <1>7, <1>8, <1>9, <1>10, <1>11 DEF Next
-----------------------------------------------------------------------------
(***************************************************************************)
(* The steps of the phone, and the frames that are lost.                   *)
(***************************************************************************)
LEMMA PhoneHears ==
  ASSUME TInv, TInv', NEW a \in Nat, NEW lo \in Nat, Numbered(e, a), Hearing(a, lo),
         e' = e, given' = given, NEW fs \in Seq(Frames(MaxIn)), in' = in \o fs,
         \A f \in Range(fs) : /\ "ACK" \in f.bits => f.ack = OwnNum(Len(heard))
                              /\ p'.recv = None => "ACK" \notin f.bits,
         IF p'.recv = None THEN p.recv = None /\ p'.sent = p.sent
                           ELSE p'.recv = OwnNum(Len(heard')),
         NEW lo2 \in Nat, lo2 <= Stamp(e, a),
         Stamped(out', lo2, Stamp(e, a), OutRule(e.unack, a)),
         NEW k \in Nat, k = Len(heard'), Len(heard) <= k, k <= a + Len(e.unack),
         k <= lo2 + 245, heard' # <<>> => lo2 >= 1,
         \A j \in a + 1 .. k : heard'[j] = e.unack[j - a].m,
         1 .. given = Owed(e) \cup Range(heard')
  PROVE  Numbered(e, a)' /\ Hearing(a, lo2)'
<1>1. PICK l \in Nat : l = Len(heard)
  BY HeardTypes
<1>2. in \in Seq(Frames(MaxIn)) /\ a <= l /\ l <= k /\ Stamped(in, a, l, InRule)
  BY <1>1, HeardTypes DEF Hearing
<1>3. \A i \in 1 .. Len(fs) : <<fs[i], l>> \in InRule
  <2> SUFFICES ASSUME NEW i \in 1 .. Len(fs) PROVE <<fs[i], l>> \in InRule
    OBVIOUS
  <2>1. fs[i] \in Range(fs) /\ fs[i] \in Frames(MaxIn)
    BY SeqParts DEF Range
  <2> QED BY <1>1, <2>1, InRuled
<1>4. Stamped(in \o fs, a, l, InRule)
  <2>1. l <= l
    OBVIOUS
  <2> QED BY <1>2, <1>3, <2>1, StampedConcat
<1>5. Stamped(in', a, k, InRule)
  BY <1>2, <1>4, StampedWiden
<1>6. Range(in') = Range(in) \cup Range(fs)
  BY <1>2, RangeConcat
<1>7. IF p'.recv = None
      THEN e.acked = None /\ p'.sent = 0 /\ \A f \in Range(in') : "ACK" \notin f.bits
      ELSE p'.recv = OwnNum(k)
  BY <1>6 DEF Hearing
<1>8. a <= k
  BY <1>2
<1>9. Hearing(a, lo2)'
  BY <1>5, <1>7, <1>8 DEF Hearing, Stamp, Owed, Waiting
<1> QED BY <1>9 DEF Numbered, Marked

(* What the frames on their way are when one is taken or lost.             *)
LEMMA FirstOut ==
  ASSUME TInv, NEW a \in Nat, NEW lo \in Nat, Hearing(a, lo), out # <<>>
  PROVE  \E s \in Nat : /\ lo <= s /\ s <= Stamp(e, a)
                        /\ <<Head(out), s>> \in OutRule(e.unack, a)
                        /\ Stamped(Tail(out), s, Stamp(e, a), OutRule(e.unack, a))
<1>1. PICK t, g, R :
        t \in Nat /\ t = Stamp(e, a) /\ g = out /\ R = OutRule(e.unack, a)
  BY StampNat
<1>2. g \in Seq(Frames(MaxOut)) /\ g # <<>> /\ Stamped(g, lo, t, R)
  BY <1>1, HeardTypes DEF Hearing
<1>3. PICK s \in lo .. t : <<Head(g), s>> \in R /\ Stamped(Tail(g), s, t, R)
  <2>1. lo \in Int /\ t \in Int
    BY <1>1
  <2> QED BY <1>2, <2>1, StampedTail
<1>4. s \in Nat /\ lo <= s /\ s <= t
  OBVIOUS
<1> QED BY <1>1, <1>3, <1>4

(* A step of the phone that accepts no message.                            *)
LEMMA PhoneWaits ==
  ASSUME TInv, TInv', NEW a \in Nat, NEW lo \in Nat, Numbered(e, a), Hearing(a, lo),
         e' = e, given' = given, heard' = heard,
         NEW fs \in Seq(Frames(MaxIn)), in' = in \o fs,
         \A f \in Range(fs) : /\ "ACK" \in f.bits => f.ack = OwnNum(Len(heard))
                              /\ p'.recv = None => "ACK" \notin f.bits,
         IF p'.recv = None THEN p.recv = None /\ p'.sent = p.sent
                           ELSE p'.recv = OwnNum(Len(heard)),
         NEW s \in Nat, lo <= s, s <= Stamp(e, a),
         Stamped(out', s, Stamp(e, a), OutRule(e.unack, a))
  PROVE  Numbered(e, a)' /\ Hearing(a, s)'
<1>1. PICK l \in Nat : l = Len(heard)
  BY HeardTypes
<1>2. /\ l <= a + Len(e.unack) /\ l <= lo + 245 /\ (heard # <<>> => lo >= 1)
      /\ \A j \in a + 1 .. l : heard[j] = e.unack[j - a].m
      /\ 1 .. given = Owed(e) \cup Range(heard)
  BY <1>1 DEF Hearing
<1>3. l <= s + 245 /\ (heard' # <<>> => s >= 1) /\ l = Len(heard') /\ l <= l
  BY <1>1, <1>2
<1>4. IF p'.recv = None THEN p.recv = None /\ p'.sent = p.sent
                        ELSE p'.recv = OwnNum(Len(heard'))
  OBVIOUS
<1>5. 1 .. given = Owed(e) \cup Range(heard')
  BY <1>2
<1>6. \A j \in a + 1 .. l : heard'[j] = e.unack[j - a].m
  BY <1>2
<1>7. Len(heard) <= l
  BY <1>1
<1> QED BY <1>2, <1>3, <1>4, <1>5, <1>6, <1>7, PhoneHears

LEMMA PhoneWritesHears ==
  ASSUME TInv, TInv', NEW a \in Nat, NEW lo \in Nat, Numbered(e, a), Hearing(a, lo),
         PhoneSends \/ PhoneAcks \/ PhoneSynAgain \/ PhoneAgain \/ PhoneResets
  PROVE  Numbered(e, a)' /\ Hearing(a, lo)'
<1>1. PhoneOK(p) /\ p \in Phones
  BY TypesHere DEF PhoneOK
<1>2. lo <= Stamp(e, a) /\ Stamped(out, lo, Stamp(e, a), OutRule(e.unack, a)) /\ lo <= lo
      /\ (p.recv # None => p.recv = OwnNum(Len(heard)))
  BY DEF Hearing
<1>3. ASSUME NEW q, NEW fs \in Seq(Frames(MaxIn)), PhoneWrites(q, fs), q.recv = p.recv,
             \A f \in Range(fs) : "ACK" \in f.bits => f.ack = p.recv
      PROVE  Numbered(e, a)' /\ Hearing(a, lo)'
  <2>1. /\ e' = e /\ out' = out /\ given' = given /\ heard' = heard /\ p' = q /\ in' = in \o fs
        /\ p.recv # None
    BY <1>3 DEF PhoneWrites, Connected
  <2>2. \A f \in Range(fs) : /\ "ACK" \in f.bits => f.ack = OwnNum(Len(heard))
                             /\ p'.recv = None => "ACK" \notin f.bits
    BY <1>2, <1>3, <2>1
  <2>3. IF p'.recv = None THEN p.recv = None /\ p'.sent = p.sent
                          ELSE p'.recv = OwnNum(Len(heard))
    BY <1>2, <1>3, <2>1
  <2>4. Stamped(out', lo, Stamp(e, a), OutRule(e.unack, a))
    BY <1>2, <2>1
  <2> QED BY <1>2, <2>1, <2>2, <2>3, <2>4, PhoneWaits
<1>4. ASSUME NEW f \in Frames(MaxIn), NEW q, PhoneWrites(q, <<f>>), q.recv = p.recv,
             "ACK" \in f.bits => f.ack = p.recv
      PROVE  Numbered(e, a)' /\ Hearing(a, lo)'
  <2>1. <<f>> \in Seq(Frames(MaxIn)) /\ Range(<<f>>) = {f}
    BY One DEF Range
  <2> QED BY <1>3, <1>4, <2>1
<1>5. CASE PhoneSends
  <2> DEFINE q == [p EXCEPT !.sent = @ + 1, !.owes = FALSE]
             f == PhoneData(p, p.sent + 1)
  <2>1. p.sent + 1 \in 1 .. MaxIn
    BY <1>5, TypesHere DEF PhoneSends
  <2>2. q.recv = p.recv /\ f \in Frames(MaxIn) /\ f.ack = p.recv
    BY <1>1, <2>1, PhoneFrames DEF Phones, PhoneData, Frame
  <2>3. PhoneWrites(q, <<f>>)
    BY <1>5 DEF PhoneSends
  <2> HIDE DEF q, f
  <2> QED BY <1>4, <2>2, <2>3
<1>6. CASE PhoneAcks
  <2> DEFINE q == [p EXCEPT !.owes = FALSE]
  <2>1. q.recv = p.recv /\ PhoneAck(p) \in Frames(MaxIn) /\ PhoneAck(p).ack = p.recv
    BY <1>1, PhoneFrames DEF Phones, PhoneAck, Frame
  <2>2. PhoneWrites(q, <<PhoneAck(p)>>)
    BY <1>6 DEF PhoneAcks
  <2> HIDE DEF q
  <2> QED BY <1>4, <2>1, <2>2
<1>7. CASE PhoneSynAgain
  <2> DEFINE f == [PhoneSyn EXCEPT !.bits = {"SYN", "ACK"}]
  <2>1. f = Frame({"SYN", "ACK"}, FirstPsn, p.recv, NoMsg, {})
    BY DEF PhoneSyn, Frame
  <2> HIDE DEF f
  <2>2. f \in Frames(MaxIn) /\ f.ack = p.recv
    BY <1>1, <2>1, PhoneFrames, FirstIsPsn DEF Bits, Frame
  <2>3. PhoneWrites(p, <<f>>)
    BY <1>7 DEF PhoneSynAgain, f
  <2> QED BY <1>4, <2>2, <2>3
<1>8. CASE PhoneAgain
  <2>1. PhoneWrites(p, Missed(p)) /\ Missed(p) \in Seq(Frames(MaxIn))
    BY <1>1, <1>8, PhoneFrames DEF PhoneAgain
  <2>2. \A f \in Range(Missed(p)) : f.ack = p.recv
    <3>1. DOMAIN Missed(p) = 1 .. p.sent - p.acked
      BY DEF Missed
    <3>2. \A j \in 1 .. p.sent - p.acked : Missed(p)[j].ack = p.recv
      BY DEF Missed, PhoneData, Frame
    <3> QED BY <3>1, <3>2 DEF Range
  <2> QED BY <1>3, <2>1, <2>2
<1>9. CASE PhoneResets
  <2> DEFINE f == Frame({"RST"}, 0, 0, NoMsg, {})
  <2>1. f \in Frames(MaxIn) /\ "ACK" \notin f.bits
    BY Iap2LinkAssumption DEF Frame, Frames, Psn, Bits, NoMsg
  <2>2. PhoneWrites(p, <<f>>)
    BY <1>9 DEF PhoneResets
  <2> HIDE DEF f
  <2> QED BY <1>4, <2>1, <2>2
<1> QED BY <1>5, <1>6, <1>7, <1>8, <1>9

LEMMA DamagedHears ==
  ASSUME TInv, TInv', NEW a \in Nat, NEW lo \in Nat, Numbered(e, a), Hearing(a, lo), Damaged
  PROVE  \E s \in Nat : Numbered(e, a)' /\ Hearing(a, s)'
<1>1. e' = e /\ given' = given /\ p' = p /\ heard' = heard
  BY DEF Damaged, phone
<1>2. CASE out # <<>> /\ out' = Tail(out) /\ in' = in
  <2>1. PICK s \in Nat : /\ lo <= s /\ s <= Stamp(e, a)
                         /\ Stamped(Tail(out), s, Stamp(e, a), OutRule(e.unack, a))
    BY <1>2, FirstOut
  <2>2. /\ <<>> \in Seq(Frames(MaxIn)) /\ in' = in \o <<>> /\ \A f \in Range(<<>>) : FALSE
    <3>1. in \in Seq(Frames(MaxIn))
      BY HeardTypes
    <3>2. in \o <<>> = in
      BY <3>1, ConcatEmptySeq
    <3>3. DOMAIN <<>> = {}
      OBVIOUS
    <3> QED BY <1>2, <3>2, <3>3, EmptySeq DEF Range
  <2>3. IF p'.recv = None THEN p.recv = None /\ p'.sent = p.sent
                          ELSE p'.recv = OwnNum(Len(heard))
    BY <1>1 DEF Hearing
  <2>4. Stamped(out', s, Stamp(e, a), OutRule(e.unack, a))
    BY <1>2, <2>1
  <2>5. Numbered(e, a)' /\ Hearing(a, s)'
    BY <1>1, <2>1, <2>2, <2>3, <2>4, PhoneWaits
  <2> QED BY <2>5
<1>3. CASE in # <<>> /\ in' = Tail(in) /\ out' = out
  <2>1. PICK l \in Nat : l = Len(heard)
    BY HeardTypes
  <2>2. Stamped(in, a, l, InRule)
    BY <2>1 DEF Hearing
  <2>3. PICK g, R : g = in /\ R = InRule
    OBVIOUS
  <2>4. g \in Seq(Frames(MaxIn)) /\ g # <<>> /\ Stamped(g, a, l, R) /\ a \in Int /\ l \in Int
    BY <1>3, <2>2, <2>3, HeardTypes
  <2>5. PICK b \in a .. l : Stamped(Tail(g), b, l, R)
    BY <2>4, StampedTail
  <2>6. a <= b /\ b \in Int /\ l <= l
    BY <2>5
  <2>7. Stamped(in', a, l, InRule)
    BY <1>3, <2>3, <2>4, <2>5, <2>6, StampedWiden
  <2>8. Range(in') \in SUBSET Range(in)
    BY <1>3, HeardTypes, RangeTail
  <2>9. Hearing(a, lo)'
    BY <1>1, <1>3, <2>1, <2>7, <2>8 DEF Hearing, Stamp, Owed, Waiting
  <2>10. Numbered(e, a)'
    BY <1>1 DEF Numbered, Marked
  <2> QED BY <2>9, <2>10
<1> QED BY <1>2, <1>3 DEF Damaged

(* What the phone writes when it reads a frame.                            *)
LEMMA ReadsWrites ==
  ASSUME TInv, NEW f \in Frames(MaxOut), PhoneReads(f)
  PROVE  \E fs \in Seq(Frames(MaxIn)) :
           /\ in' = in \o fs
           /\ \A g \in Range(fs) : "ACK" \in g.bits => g.ack = p.recv /\ p.sent # 0
<1> DEFINE q == Opened(f)
<1>1. /\ Asked(f) \in Seq(Frames(MaxIn)) /\ Range(Asked(f)) \in SUBSET Range(Missed(q))
      /\ \/ in' = in \o Asked(f)
         \/ \E K \in SUBSET Psn :
              in' = in \o Asked(f) \o <<Frame({"EAK"}, PhonePsn(p.sent), p.recv, NoMsg, K)>>
  BY PhoneReadsParts
<1>2. PhoneOK(q) /\ q.recv = p.recv /\ q.sent = p.sent
  BY OpenedOK
<1>3. p \in Phones /\ PhoneOK(p) /\ p.sent \in Nat /\ in \in Seq(Frames(MaxIn))
  BY TypesHere DEF PhoneOK
<1> HIDE DEF q
<1>4. ASSUME NEW g \in Range(Missed(q)) PROVE g.ack = p.recv /\ p.sent # 0
  <2>1. Len(Missed(q)) = q.sent - q.acked /\ Missed(q) \in Seq(Frames(MaxIn))
    BY <1>2, PhoneFrames
  <2>2. PICK j \in 1 .. q.sent - q.acked : g = Missed(q)[j]
    <3>1. DOMAIN Missed(q) = 1 .. q.sent - q.acked
      BY DEF Missed
    <3> QED BY <3>1 DEF Range
  <2>3. g.ack = p.recv
    BY <1>2, <2>2 DEF Missed, PhoneData, Frame
  <2>4. p.sent # 0
    <3>1. PICK s \in Nat, a \in Nat : s = q.sent /\ a = q.acked
      BY <1>2 DEF PhoneOK, Phones
    <3>2. j \in 1 .. s - a
      BY <2>2, <3>1
    <3>3. s # 0
      BY <3>1, <3>2
    <3> QED BY <1>2, <3>1, <3>3
  <2> QED BY <2>3, <2>4
<1>5. \A g \in Range(Asked(f)) : g.ack = p.recv /\ p.sent # 0
  BY <1>1, <1>4
<1>6. CASE in' = in \o Asked(f)
  BY <1>1, <1>5, <1>6
<1>7. ASSUME NEW K \in SUBSET Psn,
             in' = in \o Asked(f) \o <<Frame({"EAK"}, PhonePsn(p.sent), p.recv, NoMsg, K)>>
      PROVE  \E fs \in Seq(Frames(MaxIn)) :
               /\ in' = in \o fs
               /\ \A g \in Range(fs) : "ACK" \in g.bits => g.ack = p.recv /\ p.sent # 0
  <2> DEFINE h == Frame({"EAK"}, PhonePsn(p.sent), p.recv, NoMsg, K)
  <2>1. PhonePsn(p.sent) \in Psn
    <3>1. p.sent \in Int /\ FirstPsn \in Int
      BY <1>3, FirstIsPsn
    <3> QED BY <3>1, Next8Psn DEF PhonePsn
  <2>2. h \in Frames(MaxIn) /\ "ACK" \notin h.bits
    BY <1>3, <2>1, PhoneFrames DEF Bits, Frame
  <2>3. in' = (in \o Asked(f)) \o <<h>>
    BY <1>7
  <2> HIDE DEF h
  <2>4. <<h>> \in Seq(Frames(MaxIn)) /\ Range(<<h>>) = {h}
    BY <2>2, One DEF Range
  <2>5. PICK x, y, z : x = in /\ y = Asked(f) /\ z = <<h>>
    OBVIOUS
  <2>6. /\ x \in Seq(Frames(MaxIn)) /\ y \in Seq(Frames(MaxIn)) /\ z \in Seq(Frames(MaxIn))
        /\ Range(z) = {h}
    BY <1>1, <1>3, <2>4, <2>5
  <2>7. (x \o y) \o z = x \o (y \o z)
    BY ONLY <2>6
  <2>8. y \o z \in Seq(Frames(MaxIn)) /\ Range(y \o z) = Range(y) \cup {h}
    BY <2>6, ConcatProperties, RangeConcat
  <2>9. in' = in \o (y \o z)
    BY <2>3, <2>5, <2>7, Zenon
  <2>10. \A g \in Range(y \o z) : "ACK" \in g.bits => g.ack = p.recv /\ p.sent # 0
    BY <1>5, <2>2, <2>5, <2>8
  <2> QED BY <2>8, <2>9, <2>10
<1> QED BY <1>1, <1>6, <1>7

(* A SYN whose ack bit is set.                                             *)
LEMMA SynAndAck ==
  ASSUME NEW n
  PROVE  [Frame({"SYN"}, FirstPsn, n, NoMsg, {}) EXCEPT !.bits = {"SYN", "ACK"}]
         = Frame({"SYN", "ACK"}, FirstPsn, n, NoMsg, {})
<1> DEFINE x == Frame({"SYN"}, FirstPsn, n, NoMsg, {})
           y == Frame({"SYN", "ACK"}, FirstPsn, n, NoMsg, {})
           z == [x EXCEPT !.bits = {"SYN", "ACK"}]
<1>1. DOMAIN z = DOMAIN x /\ DOMAIN x = DOMAIN y
  BY DEF Frame
<1>2. ASSUME NEW i \in DOMAIN y PROVE z[i] = y[i]
  BY <1>2 DEF Frame
<1>3. z = [i \in DOMAIN x |-> z[i]] /\ y = [i \in DOMAIN y |-> y[i]]
  BY DEF Frame
<1> HIDE DEF x, y, z
<1>4. [i \in DOMAIN x |-> z[i]] = [i \in DOMAIN y |-> y[i]]
  BY <1>1, <1>2
<1>5. z = y
  BY <1>3, <1>4, Zenon
<1> QED BY <1>5 DEF z, y, x

(* The message the phone accepts is the next one.                          *)
LEMMA NextHeard ==
  ASSUME TInv, NEW a \in Nat, NEW lo \in Nat, Numbered(e, a), Hearing(a, lo),
         NEW f \in Frames(MaxOut), f.m # NoMsg, NEW s \in Nat, lo <= s, s <= Stamp(e, a),
         <<f, s>> \in OutRule(e.unack, a)
  PROVE  /\ p.recv # None /\ p.recv = OwnNum(Len(heard)) /\ s >= 1
         /\ f.seq = Next8(p.recv, 1) =>
              LET k == Len(heard) + 1
              IN  /\ k <= a + Len(e.unack) /\ k <= s + 245 /\ k - a \in 1 .. Len(e.unack)
                  /\ f.seq = OwnNum(k) /\ f.m = e.unack[k - a].m
<1>1. PICK l \in Nat, n \in Nat : l = Len(heard) /\ n = Len(e.unack)
  BY HeardTypes
<1>2. PICK j \in s .. s + 245 : /\ s >= 1 /\ j <= a + n /\ f.seq = OwnNum(j)
                                /\ j > a => f.m = e.unack[j - a].m
  <2>1. PICK u : u = e.unack
    OBVIOUS
  <2>2. \E j \in s .. s + 245 : /\ s >= 1 /\ j <= a + Len(u) /\ f.seq = OwnNum(j)
                                /\ j > a => f.m = u[j - a].m
    BY <2>1 DEF OutRule
  <2>3. PICK j \in s .. s + 245 : /\ s >= 1 /\ j <= a + Len(u) /\ f.seq = OwnNum(j)
                                  /\ j > a => f.m = u[j - a].m
    BY <2>2
  <2>4. Len(u) = n
    BY <1>1, <2>1
  <2>5. j <= a + n
    BY <2>3, <2>4
  <2>6. j > a => f.m = e.unack[j - a].m
    BY <2>1, <2>3, Zenon
  <2>7. s >= 1 /\ f.seq = OwnNum(j)
    BY <2>3
  <2> QED BY <2>5, <2>6, <2>7, Zenon
<1>3. p.recv # None
  <2> SUFFICES ASSUME p.recv = None PROVE FALSE
    OBVIOUS
  <2>1. e.acked = None
    BY DEF Hearing
  <2>2. OwnNum(a) # None
    BY OwnNumbers
  <2>3. a = 0 /\ e.unack = <<>>
    BY <2>1, <2>2 DEF Numbered
  <2>4. n = 0
    BY <1>1, <2>3
  <2> QED BY <1>2, <2>3, <2>4
<1>4. p.recv = OwnNum(l)
  BY <1>1, <1>3 DEF Hearing
<1>5. a <= l /\ l <= lo + 245 /\ s <= a + 1
  BY <1>1 DEF Hearing, Stamp
<1>6. ASSUME f.seq = Next8(p.recv, 1)
      PROVE  j = l + 1
  <2>1. PICK c \in Int : c = l + 1
    OBVIOUS
  <2>2. Next8(p.recv, 1) = OwnNum(c)
    BY <1>4, <2>1, OwnNumbers
  <2>3. OwnNum(j) = OwnNum(c)
    BY <1>2, <1>6, <2>2
  <2>4. j - c <= 255 /\ c - j <= 255
    BY <1>2, <1>5, <2>1
  <2>5. j \in Int
    OBVIOUS
  <2> QED BY <2>1, <2>3, <2>4, <2>5, OwnNumbers
<1>7. ASSUME f.seq = Next8(p.recv, 1)
      PROVE  /\ l + 1 <= a + n /\ l + 1 <= s + 245 /\ (l + 1) - a \in 1 .. n
             /\ f.seq = OwnNum(l + 1) /\ f.m = e.unack[(l + 1) - a].m
  <2>1. j = l + 1
    BY <1>6, <1>7
  <2>2. l + 1 <= a + n /\ l + 1 <= s + 245 /\ l + 1 > a /\ (l + 1) - a \in 1 .. n
    BY <1>2, <1>5, <2>1
  <2> QED BY <1>2, <2>1, <2>2
<1> QED BY <1>1, <1>2, <1>3, <1>4, <1>7

LEMMA ReadsHears ==
  ASSUME TInv, TInv', NEW a \in Nat, NEW lo \in Nat, Numbered(e, a), Hearing(a, lo),
         out # <<>>, PhoneReads(Head(out)), e' = e, given' = given, out' = Tail(out)
  PROVE  \E s \in Nat : Numbered(e, a)' /\ Hearing(a, s)'
<1> DEFINE f == Head(out)
<1>1. f \in Frames(MaxOut)
  BY HeardTypes, RangeTail
<1>2. PICK s \in Nat : /\ lo <= s /\ s <= Stamp(e, a) /\ <<f, s>> \in OutRule(e.unack, a)
                       /\ Stamped(out', s, Stamp(e, a), OutRule(e.unack, a))
  BY FirstOut
<1>3. PhoneReads(f)
  OBVIOUS
<1> HIDE DEF f
<1>4. PICK fs \in Seq(Frames(MaxIn)) :
        /\ in' = in \o fs
        /\ \A g \in Range(fs) : "ACK" \in g.bits => g.ack = p.recv /\ p.sent # 0
  BY <1>1, <1>3, ReadsWrites
<1>5. /\ p'.recv = IF NextData(f) THEN f.seq ELSE p.recv
      /\ p'.sent = p.sent
      /\ heard' = IF NextData(f) THEN Append(heard, f.m) ELSE heard
  <2>1. /\ p' = [Opened(f) EXCEPT !.recv = IF NextData(f) THEN f.seq ELSE @,
                                  !.owes = @ \/ (f.m # NoMsg /\ Opened(f).open)]
        /\ heard' = IF NextData(f) THEN Append(heard, f.m) ELSE heard
    BY <1>1, <1>3, PhoneReadsParts
  <2>2. PhoneOK(Opened(f)) /\ Opened(f).recv = p.recv /\ Opened(f).sent = p.sent
    BY OpenedOK
  <2> QED BY <2>1, <2>2 DEF PhoneOK, Phones
<1>6. /\ p.recv = None => p.sent = 0
      /\ p.recv # None => p.recv = OwnNum(Len(heard))
  BY DEF Hearing
<1>7. CASE ~NextData(f)
  <2>1. p'.recv = p.recv /\ p'.sent = p.sent /\ heard' = heard
    BY <1>5, <1>7
  <2>2. \A g \in Range(fs) : /\ "ACK" \in g.bits => g.ack = OwnNum(Len(heard))
                             /\ p'.recv = None => "ACK" \notin g.bits
    BY <1>4, <1>6, <2>1
  <2>3. IF p'.recv = None THEN p.recv = None /\ p'.sent = p.sent
                          ELSE p'.recv = OwnNum(Len(heard))
    BY <1>6, <2>1
  <2>4. Numbered(e, a)' /\ Hearing(a, s)'
    BY <1>2, <1>4, <2>1, <2>2, <2>3, PhoneWaits
  <2> QED BY <2>4
<1>8. CASE NextData(f)
  <2>1. f.m # NoMsg /\ f.seq = Next8(p.recv, 1)
    BY <1>8 DEF NextData
  <2>2. PICK l \in Nat, n \in Nat, k \in Nat :
          l = Len(heard) /\ n = Len(e.unack) /\ k = l + 1
    BY HeardTypes
  <2>3. /\ p.recv # None /\ p.recv = OwnNum(l) /\ s >= 1
        /\ k <= a + n /\ k <= s + 245 /\ k - a \in 1 .. n
        /\ f.seq = OwnNum(k) /\ f.m = e.unack[k - a].m
    <3>1. f.m # NoMsg /\ f.seq = Next8(p.recv, 1) /\ f \in Frames(MaxOut)
          /\ lo <= s /\ s <= Stamp(e, a) /\ <<f, s>> \in OutRule(e.unack, a)
      BY <1>1, <1>2, <2>1
    <3>2. /\ p.recv # None /\ p.recv = OwnNum(Len(heard)) /\ s >= 1
          /\ LET j == Len(heard) + 1
             IN  /\ j <= a + Len(e.unack) /\ j <= s + 245 /\ j - a \in 1 .. Len(e.unack)
                 /\ f.seq = OwnNum(j) /\ f.m = e.unack[j - a].m
      BY <3>1, NextHeard
    <3> QED BY <2>2, <3>2
  <2>4. heard' = Append(heard, f.m) /\ p'.recv = OwnNum(k)
    BY <1>5, <1>8, <2>3
  <2>5. f.m \in 1 .. MaxOut /\ heard \in Seq(1 .. MaxOut)
    BY <1>1, <2>1, HeardTypes, Iap2LinkAssumption DEF Frames, NoMsg
  <2>6. PICK X, h, m : X = 1 .. MaxOut /\ h = heard /\ m = f.m
    OBVIOUS
  <2>7. h \in Seq(X) /\ m \in X
    BY <2>5, <2>6
  <2>8. /\ Len(Append(h, m)) = Len(h) + 1 /\ Append(h, m)[Len(h) + 1] = m
        /\ \A i \in 1 .. Len(h) : Append(h, m)[i] = h[i]
    BY ONLY <2>7, AppendProperties
  <2>9. Range(Append(h, m)) = Range(h) \cup {m}
    BY ONLY <2>7, RangeAppend
  <2>10. /\ Len(heard') = k /\ heard'[k] = f.m /\ \A i \in 1 .. l : heard'[i] = heard[i]
         /\ Range(heard') = Range(heard) \cup {f.m}
    BY <2>2, <2>4, <2>6, <2>8, <2>9
  <2>11. \A j \in a + 1 .. l : heard[j] = e.unack[j - a].m
    BY <2>2 DEF Hearing
  <2>12. ASSUME NEW j \in a + 1 .. k PROVE heard'[j] = e.unack[j - a].m
    <3>1. CASE j = k
      BY <2>3, <2>10, <3>1
    <3>2. CASE j # k
      <4>1. j \in a + 1 .. l /\ j \in 1 .. l
        BY <2>2, <3>2
      <4> QED BY <2>10, <2>11, <4>1
    <3> QED BY <3>1, <3>2
  <2>13. 1 .. given = Owed(e) \cup Range(heard')
    <3>1. f.m \in Waiting(e)
      BY <2>2, <2>3 DEF Waiting
    <3>2. 1 .. given = Owed(e) \cup Range(heard)
      BY DEF Hearing
    <3> QED BY <2>10, <3>1, <3>2 DEF Owed
  <2>14. p'.recv # None
    BY <2>4, OwnNumbers
  <2>15. \A g \in Range(fs) : /\ "ACK" \in g.bits => g.ack = OwnNum(Len(heard))
                              /\ p'.recv = None => "ACK" \notin g.bits
    BY <1>4, <2>2, <2>3, <2>14
  <2>16. IF p'.recv = None THEN p.recv = None /\ p'.sent = p.sent
                           ELSE p'.recv = OwnNum(Len(heard'))
    BY <2>4, <2>10, <2>14
  <2>17. /\ k = Len(heard') /\ Len(heard) <= k /\ k <= a + Len(e.unack)
         /\ k <= s + 245 /\ (heard' # <<>> => s >= 1)
    BY <2>2, <2>3, <2>10
  <2>18. Numbered(e, a)' /\ Hearing(a, s)'
    BY <1>2, <1>4, <2>12, <2>13, <2>15, <2>16, <2>17, PhoneHears
  <2> QED BY <2>18
<1> QED BY <1>7, <1>8

LEMMA AnswersHears ==
  ASSUME TInv, TInv', NEW a \in Nat, NEW lo \in Nat, Numbered(e, a), Hearing(a, lo),
         out # <<>>, PhoneAnswers(Head(out)), "SYN" \in Head(out).bits,
         e' = e, given' = given, out' = Tail(out)
  PROVE  \E s \in Nat : Numbered(e, a)' /\ Hearing(a, s)'
<1> DEFINE f == Head(out)
           q == [p EXCEPT !.recv = f.seq]
           syn == Frame({"SYN"}, FirstPsn, f.seq, NoMsg, {})
           both == [syn EXCEPT !.bits = {"SYN", "ACK"}]
           ack == PhoneAck(q)
<1>1. f \in Frames(MaxOut)
  BY HeardTypes, RangeTail
<1>2. PICK s \in Nat : /\ lo <= s /\ s <= Stamp(e, a) /\ <<f, s>> \in OutRule(e.unack, a)
                       /\ Stamped(out', s, Stamp(e, a), OutRule(e.unack, a))
  BY FirstOut
<1>3. f.seq = OwnPsn /\ s = 0
  BY <1>1, <1>2, OutRuled
<1>4. Len(heard) = 0 /\ f.seq = OwnNum(Len(heard)) /\ f.seq # None
  <2>1. lo = 0
    BY <1>2, <1>3
  <2>2. heard = <<>>
    BY <2>1 DEF Hearing
  <2>3. Len(heard) = 0
    BY <2>2
  <2>4. OwnNum(0) = OwnPsn
    BY OwnNumbers
  <2>5. OwnPsn # None
    BY DEF OwnPsn, None
  <2> QED BY <1>3, <2>3, <2>4, <2>5
<1>5. /\ p' = q /\ heard' = heard /\ (in' = in \o <<both>> \/ in' = in \o <<syn, ack>>)
  BY DEF PhoneAnswers
<1>6. p \in Phones /\ PhoneOK(p)
  BY TypesHere DEF PhoneOK
<1>7. PhoneOK(q) /\ q.recv = f.seq
  <2>1. f.seq \in Psn
    BY <1>1 DEF Frames
  <2> QED BY <1>6, <2>1 DEF PhoneOK, Phones
<1> HIDE DEF q, f
<1>8. both = Frame({"SYN", "ACK"}, FirstPsn, f.seq, NoMsg, {})
  BY SynAndAck
<1> HIDE DEF both
<1>9. syn \in Frames(MaxIn) /\ both \in Frames(MaxIn) /\ ack \in Frames(MaxIn)
  BY <1>7, <1>8, PhoneFrames, FirstIsPsn DEF Bits
<1>10. syn.ack = f.seq /\ both.ack = f.seq /\ ack.ack = f.seq
  BY <1>7, <1>8 DEF Frame, PhoneAck
<1> HIDE DEF syn, ack
<1>11. /\ <<both>> \in Seq(Frames(MaxIn)) /\ Range(<<both>>) = {both}
       /\ <<syn, ack>> \in Seq(Frames(MaxIn)) /\ Range(<<syn, ack>>) = {syn, ack}
  BY <1>9 DEF Range
<1>12. PICK fs \in Seq(Frames(MaxIn)) : in' = in \o fs /\ \A g \in Range(fs) : g.ack = f.seq
  BY <1>5, <1>10, <1>11
<1>13. p'.recv = f.seq
  BY <1>5, <1>7
<1>14. /\ \A g \in Range(fs) : /\ "ACK" \in g.bits => g.ack = OwnNum(Len(heard))
                               /\ p'.recv = None => "ACK" \notin g.bits
       /\ IF p'.recv = None THEN p.recv = None /\ p'.sent = p.sent
                            ELSE p'.recv = OwnNum(Len(heard))
  BY <1>4, <1>12, <1>13
<1>15. Numbered(e, a)' /\ Hearing(a, s)'
  BY <1>2, <1>5, <1>12, <1>14, PhoneWaits
<1> QED BY <1>15

LEMMA PhoneTakesHears ==
  ASSUME TInv, TInv', NEW a \in Nat, NEW lo \in Nat, Numbered(e, a), Hearing(a, lo), PhoneTakes
  PROVE  \E s \in Nat : Numbered(e, a)' /\ Hearing(a, s)'
<1> DEFINE f == Head(out)
<1>1. /\ out # <<>> /\ out' = Tail(out) /\ e' = e /\ given' = given
      /\ \/ f = Marker /\ in' = Append(in, Marker) /\ UNCHANGED phone
         \/ "SYN" \in f.bits /\ PhoneAnswers(f)
         \/ PhoneReads(f)
  BY DEF PhoneTakes
<1>2. CASE f = Marker /\ in' = Append(in, Marker) /\ UNCHANGED phone
  <2>1. Marker \in Frames(MaxIn) /\ "ACK" \notin Marker.bits
    BY Iap2LinkAssumption DEF Marker, Frame, Frames, Psn, Bits, NoMsg
  <2>2. <<Marker>> \in Seq(Frames(MaxIn)) /\ Range(<<Marker>>) = {Marker}
    BY <2>1, One DEF Range
  <2>3. in' = in \o <<Marker>>
    <3>1. PICK g : g = Marker
      OBVIOUS
    <3>2. Append(in, g) = in \o <<g>>
      BY <2>1, <3>1, HeardTypes, AppendIsConcat
    <3> QED BY <1>2, <3>1, <3>2
  <2>4. p' = p /\ heard' = heard
    BY <1>2 DEF phone
  <2>5. PICK s \in Nat : /\ lo <= s /\ s <= Stamp(e, a)
                         /\ Stamped(out', s, Stamp(e, a), OutRule(e.unack, a))
    BY <1>1, FirstOut
  <2>6. IF p'.recv = None THEN p.recv = None /\ p'.sent = p.sent
                          ELSE p'.recv = OwnNum(Len(heard))
    BY <2>4 DEF Hearing
  <2>7. \A g \in Range(<<Marker>>) : /\ "ACK" \in g.bits => g.ack = OwnNum(Len(heard))
                                     /\ p'.recv = None => "ACK" \notin g.bits
    BY <2>1, <2>2
  <2> DEFINE fs == <<Marker>>
  <2> HIDE DEF fs
  <2>8. Numbered(e, a)' /\ Hearing(a, s)'
    BY <1>1, <2>2, <2>3, <2>4, <2>5, <2>6, <2>7, PhoneWaits DEF fs
  <2> QED BY <2>8
<1>3. CASE "SYN" \in f.bits /\ PhoneAnswers(f)
  BY <1>1, <1>3, AnswersHears
<1>4. CASE PhoneReads(f)
  BY <1>1, <1>4, ReadsHears
<1> QED BY <1>1, <1>2, <1>3, <1>4

(* Every step keeps what the phone is owed.                                 *)
LEMMA NextSInv == ASSUME ShortWindow, SInv, [Next]_vars PROVE SInv'
<1>1. TInv'
  BY NextTypes DEF SInv
<1>2. SUFFICES ASSUME Retains(e)'
               PROVE  \E c, s \in Nat : Numbered(e, c)' /\ Hearing(c, s)'
  BY <1>1 DEF SInv
<1>3. Retains(e)
  BY <1>2, LspStays DEF SInv
<1>4. PICK a \in Nat, lo \in Nat : Numbered(e, a) /\ Hearing(a, lo)
  BY <1>3 DEF SInv
<1>5. TInv
  BY DEF SInv
<1>6. CASE \/ \E initiate \in BOOLEAN : Start(initiate)
           \/ ConnectionEnds \/ DetectAgain \/ NegotiateAgain \/ DelayedAck \/ ExpectAckTimer
  BY <1>1, <1>3, <1>4, <1>5, <1>6, OwnSteps
<1>7. CASE Give
  BY <1>1, <1>3, <1>4, <1>5, <1>7, GiveHears
<1>8. CASE Take
  BY <1>1, <1>2, <1>3, <1>4, <1>5, <1>8, TakeHears
<1>9. CASE PhoneTakes
  BY <1>1, <1>4, <1>5, <1>9, PhoneTakesHears
<1>10. CASE PhoneSends \/ PhoneAcks \/ PhoneSynAgain \/ PhoneAgain \/ PhoneResets
  BY <1>1, <1>4, <1>5, <1>10, PhoneWritesHears
<1>11. CASE Damaged
  BY <1>1, <1>4, <1>5, <1>11, DamagedHears
<1>12. CASE UNCHANGED vars
  <2>1. /\ e' = e /\ out' = out /\ in' = in /\ given' = given
        /\ p' = p /\ heard' = heard
    BY <1>12 DEF vars, phone
  <2>2. Numbered(e, a)' /\ Hearing(a, lo)'
    BY <1>4, <2>1 DEF Numbered, Marked, Hearing, Owed, Waiting, Stamp
  <2> QED BY <2>2
<1> QED BY <1>6, <1>7, <1>8, <1>9, <1>10, <1>11, <1>12 DEF Next

LEMMA InitSInv == Init => SInv
<1> SUFFICES ASSUME Init PROVE SInv
  OBVIOUS
<1>1. TInv
  BY InitTypes
<1>2. /\ e.state = "Idle" /\ e.sent = OwnPsn /\ e.acked = None /\ e.unack = <<>>
      /\ e.queue = <<>> /\ e.marker = TRUE /\ e.lsp = OwnLsp
      /\ out = <<>> /\ in = <<>> /\ given = 0 /\ p.recv = None /\ p.sent = 0 /\ heard = <<>>
  BY DEF Init
<1>3. Len(e.unack) = 0 /\ Len(heard) = 0 /\ OwnNum(0) = OwnPsn
  BY <1>2, OwnNumbers
<1>4. Numbered(e, 0)
  BY <1>2, <1>3 DEF Numbered, Marked, OwnLsp
<1>5. Owed(e) \cup Range(heard) = {}
  BY <1>2, <1>3 DEF Owed, Waiting, Range
<1>6. Hearing(0, 0)
  BY <1>2, <1>3, <1>5, StampedEmpty DEF Hearing, Stamp, Starting, Range
<1> QED BY <1>1, <1>4, <1>6 DEF SInv

LEMMA KeptBySInv == SInv => Kept
<1> SUFFICES ASSUME SInv, e.lsp.max_retransmissions > 0
             PROVE  1 .. given = Range(e.queue) \cup {e.unack[i].m : i \in DOMAIN e.unack}
                                 \cup Range(heard)
  BY DEF Kept
<1>1. PICK a \in Nat, lo \in Nat : Hearing(a, lo)
  BY DEF SInv, Retains
<1>2. e.unack \in Seq(Packets)
  BY DEF SInv, TInv, EngineOK, Engines
<1>3. DOMAIN e.unack = 1 .. Len(e.unack)
  BY <1>2
<1> QED BY <1>1, <1>3 DEF Hearing, Owed, Waiting

LEMMA BoundBySInv == ASSUME ShortWindow, SInv PROVE WindowBound
<1> SUFFICES ASSUME e.lsp.max_retransmissions > 0
             PROVE  Distance(e.sent, e.acked) <= e.lsp.max_outgoing + 1
  BY DEF WindowBound
<1>1. PICK a \in Nat, lo \in Nat : Numbered(e, a)
  BY DEF SInv, Retains
<1>2. EngineOK(e)
  BY DEF SInv, TInv
<1>3. Distance(e.sent, e.acked) = Len(e.unack)
  BY <1>1, <1>2, InFlight
<1>4. Len(e.unack) <= e.lsp.max_outgoing + 1
  BY <1>1 DEF Numbered
<1> QED BY <1>3, <1>4

(* A message given to a link whose packets are kept is queued, waits for    *)
(* its ack or was heard by the phone, whatever is lost or sent again: none  *)
(* is dropped by an ack, a missing number of an EAK or the wrap to 0 of the *)
(* sequence numbers.                                                        *)
THEOREM AlwaysKept == ShortWindow => (Spec => []Kept)
<1> SUFFICES ASSUME ShortWindow PROVE Spec => []Kept
  OBVIOUS
<1>1. Init => SInv
  BY InitSInv
<1>2. SInv /\ [Next]_vars => SInv'
  BY NextSInv
<1>3. SInv => Kept
  BY KeptBySInv
<1> QED BY <1>1, <1>2, <1>3, PTL DEF Spec

(* The link never has more packets on their way than the window and one:   *)
(* send_packet counts those between the last number and the last ack.       *)
THEOREM AlwaysWindowBound == ShortWindow => (Spec => []WindowBound)
<1> SUFFICES ASSUME ShortWindow PROVE Spec => []WindowBound
  OBVIOUS
<1>1. Init => SInv
  BY InitSInv
<1>2. SInv /\ [Next]_vars => SInv'
  BY NextSInv
<1>3. SInv => WindowBound
  BY BoundBySInv
<1> QED BY <1>1, <1>2, <1>3, PTL DEF Spec

-----------------------------------------------------------------------------
(***************************************************************************)
(* A link that nothing disturbs.  No frame is lost or repeated, so the data *)
(* on its way to the phone is numbered from what the phone has heard up to  *)
(* what the engine has sent, without a gap.                                 *)
(***************************************************************************)
Follows(f, k, n) == IF f.m = NoMsg THEN n = k ELSE n = Next8(k, 1) /\ f.seq = n
Consecutive(fs, u, v) ==
  \E c \in [0 .. Len(fs) -> Psn] :
    c[0] = u /\ c[Len(fs)] = v /\ \A i \in 1 .. Len(fs) : Follows(fs[i], c[i - 1], c[i])

LEMMA ConsecutiveEmpty ==
  /\ \A u \in Psn : Consecutive(<<>>, u, u)
  /\ \A u, v : Consecutive(<<>>, u, v) => u = v
<1>1. Len(<<>>) = 0 /\ \A i : i \notin 1 .. 0
  OBVIOUS
<1>2. ASSUME NEW u \in Psn PROVE Consecutive(<<>>, u, u)
  <2> DEFINE c == [i \in 0 .. 0 |-> u]
  <2>1. c \in [0 .. 0 -> Psn] /\ c[0] = u
    OBVIOUS
  <2> HIDE DEF c
  <2> QED BY <1>1, <2>1 DEF Consecutive
<1>3. ASSUME NEW u, NEW v, Consecutive(<<>>, u, v) PROVE u = v
  BY <1>1, <1>3 DEF Consecutive
<1> QED BY <1>2, <1>3

LEMMA ConsecutiveBare ==
  ASSUME NEW X, NEW fs \in Seq(X), Bare(fs), NEW u \in Psn
  PROVE  Consecutive(fs, u, u)
<1>1. PICK n \in Nat : n = Len(fs)
  BY SeqParts
<1> DEFINE c == [i \in 0 .. n |-> u]
<1>2. c \in [0 .. n -> Psn] /\ c[0] = u /\ c[n] = u
      /\ \A i \in 1 .. n : c[i] = u /\ c[i - 1] = u
  BY <1>1
<1>3. \A i \in 1 .. n : fs[i].m = NoMsg
  BY <1>1 DEF Bare
<1> HIDE DEF c
<1>4. \A i \in 1 .. n : Follows(fs[i], c[i - 1], c[i])
  BY <1>2, <1>3 DEF Follows
<1> QED BY <1>1, <1>2, <1>4 DEF Consecutive

LEMMA ConsecutiveTail ==
  ASSUME NEW X, NEW fs \in Seq(X), fs # <<>>, NEW u, NEW v, Consecutive(fs, u, v)
  PROVE  \E w \in Psn : Follows(Head(fs), u, w) /\ Consecutive(Tail(fs), w, v)
<1>1. PICK n, t : n = Len(fs) /\ t = Tail(fs)
  OBVIOUS
<1>2. /\ Head(fs) = fs[1] /\ n \in Nat /\ n > 0 /\ Len(t) = n - 1
      /\ \A i \in 1 .. n - 1 : t[i] = fs[i + 1]
  BY <1>1, RangeTail
<1>3. PICK c \in [0 .. n -> Psn] :
             c[0] = u /\ c[n] = v /\ \A i \in 1 .. n : Follows(fs[i], c[i - 1], c[i])
  BY <1>1 DEF Consecutive
<1> DEFINE d == [i \in 0 .. n - 1 |-> c[i + 1]]
<1>4. 1 \in 1 .. n /\ 1 \in 0 .. n /\ n - 1 \in 0 .. n - 1 /\ (n - 1) + 1 = n /\ 1 - 1 = 0
      /\ 0 \in 0 .. n - 1 /\ 0 + 1 = 1
      /\ \A i \in 0 .. n - 1 : i + 1 \in 0 .. n
  BY <1>2
<1>5. d \in [0 .. n - 1 -> Psn] /\ d[0] = c[1] /\ d[n - 1] = v
  BY <1>3, <1>4
<1>6. ASSUME NEW i \in 1 .. n - 1 PROVE Follows(t[i], d[i - 1], d[i])
  <2>1. i + 1 \in 1 .. n /\ i \in 0 .. n - 1 /\ i - 1 \in 0 .. n - 1
        /\ (i - 1) + 1 = i /\ (i + 1) - 1 = i
    BY <1>2
  <2>2. d[i] = c[i + 1] /\ d[i - 1] = c[i]
    BY <2>1
  <2>3. t[i] = fs[i + 1]
    BY <1>2
  <2>4. Follows(fs[i + 1], c[i], c[i + 1])
    BY <1>3, <2>1
  <2> QED BY <2>2, <2>3, <2>4
<1> HIDE DEF d
<1>7. Consecutive(t, d[0], v)
  BY <1>2, <1>5, <1>6 DEF Consecutive
<1>8. c[1] \in Psn /\ Follows(fs[1], u, c[1])
  BY <1>3, <1>4
<1> QED BY <1>1, <1>2, <1>5, <1>7, <1>8

LEMMA ConsecutiveConcat ==
  ASSUME NEW X, NEW fs \in Seq(X), NEW gs \in Seq(X), NEW u, NEW v, NEW w,
         Consecutive(fs, u, v), Consecutive(gs, v, w)
  PROVE  Consecutive(fs \o gs, u, w)
<1>1. PICK n \in Nat, k \in Nat : n = Len(fs) /\ k = Len(gs)
  BY SeqParts
<1>2. PICK h : h = fs \o gs
  OBVIOUS
<1>3. Len(h) = n + k /\ \A i \in 1 .. n + k : h[i] = IF i <= n THEN fs[i] ELSE gs[i - n]
  BY <1>1, <1>2, ConcatProperties
<1>4. PICK c \in [0 .. n -> Psn] :
             c[0] = u /\ c[n] = v /\ \A i \in 1 .. n : Follows(fs[i], c[i - 1], c[i])
  BY <1>1 DEF Consecutive
<1>5. PICK d \in [0 .. k -> Psn] :
             d[0] = v /\ d[k] = w /\ \A i \in 1 .. k : Follows(gs[i], d[i - 1], d[i])
  BY <1>1 DEF Consecutive
<1> DEFINE b == [i \in 0 .. n + k |-> IF i <= n THEN c[i] ELSE d[i - n]]
<1>6. \A i \in 0 .. n + k : /\ i <= n => i \in 0 .. n /\ b[i] = c[i]
                            /\ i > n => i - n \in 1 .. k /\ b[i] = d[i - n] /\ ~(i <= n)
  OBVIOUS
<1>7. b \in [0 .. n + k -> Psn]
  BY <1>4, <1>5
<1> HIDE DEF b
<1>8. b[0] = u
  BY <1>4, <1>6
<1>9. b[n + k] = w
  <2>1. CASE k = 0
    BY <1>4, <1>5, <1>6, <2>1
  <2>2. CASE k > 0
    <3>1. n + k \in 0 .. n + k /\ n + k > n /\ (n + k) - n = k
      BY <2>2
    <3> QED BY <1>5, <1>6, <3>1
  <2> QED BY <2>1, <2>2
<1>10. ASSUME NEW i \in 1 .. n + k PROVE Follows(h[i], b[i - 1], b[i])
  <2>1. CASE i <= n
    <3>1. i \in 1 .. n /\ i \in 0 .. n + k /\ i - 1 \in 0 .. n + k /\ i - 1 <= n
      BY <2>1
    <3>2. b[i] = c[i] /\ b[i - 1] = c[i - 1] /\ h[i] = fs[i]
      BY <1>3, <1>6, <2>1, <3>1
    <3> QED BY <1>4, <3>1, <3>2
  <2>2. CASE i = n + 1
    <3>1. i \in 0 .. n + k /\ i - 1 = n /\ n \in 0 .. n + k /\ i - n = 1 /\ 1 \in 1 .. k /\ i > n
          /\ ~(i <= n) /\ 1 - 1 = 0
      BY <2>2
    <3>2. b[i] = d[1] /\ b[i - 1] = c[n] /\ h[i] = gs[1]
      BY <1>3, <1>6, <3>1
    <3>3. Follows(gs[1], d[0], d[1])
      BY <1>5, <3>1
    <3> QED BY <1>4, <1>5, <3>2, <3>3
  <2>3. CASE i > n + 1
    <3>1. PICK j \in 1 .. k : j = i - n
      BY <2>3
    <3>2. /\ i \in 0 .. n + k /\ i - 1 \in 0 .. n + k /\ i - 1 > n /\ (i - 1) - n = j - 1
          /\ i > n /\ ~(i <= n)
      BY <2>3, <3>1
    <3>3. b[i] = d[j] /\ b[i - 1] = d[j - 1] /\ h[i] = gs[j]
      BY <1>3, <1>6, <3>1, <3>2
    <3> QED BY <1>5, <3>3
  <2> QED BY <2>1, <2>2, <2>3
<1> QED BY <1>2, <1>3, <1>7, <1>8, <1>9, <1>10 DEF Consecutive

(* A handler writes data in its order, and no SYN; an engine that keeps no  *)
(* packets gets none.                                                       *)
Spare(x) == ~Retains(x) => x.unack = <<>>
Orderly(x, r) ==
  /\ Consecutive(r.out, x.sent, r.e.sent) /\ (Spare(x) => Spare(r.e))
  /\ \A i \in 1 .. Len(r.out) : "SYN" \notin r.out[i].bits

LEMMA SentIs == ASSUME NEW x, EngineOK(x) PROVE x.sent \in Psn /\ x \in Engines
BY DEF EngineOK, Engines

LEMMA OrderlyApart ==
  ASSUME NEW x, EngineOK(x), NEW r, RetOK(r), Apart(x, r) PROVE Orderly(x, r)
<1>1. r.e.sent = x.sent /\ r.e.unack = x.unack /\ r.e.lsp = x.lsp /\ Bare(r.out)
  BY DEF Apart
<1>2. Consecutive(r.out, x.sent, x.sent)
  BY <1>1, SentIs, ConsecutiveBare DEF RetOK
<1>3. \A i \in 1 .. Len(r.out) : "SYN" \notin r.out[i].bits
  BY <1>1 DEF Bare
<1>4. Spare(x) => Spare(r.e)
  BY <1>1 DEF Spare, Retains
<1> QED BY <1>1, <1>2, <1>3, <1>4 DEF Orderly

LEMMA OrderlyRet ==
  ASSUME NEW x, EngineOK(x), NEW y, y.sent = x.sent, Spare(x) => Spare(y)
  PROVE  Orderly(x, Ret(y))
<1>1. Ret(y).e = y /\ Ret(y).out = <<>> /\ Len(<<>>) = 0 /\ \A i : i \notin 1 .. 0
  BY DEF Ret
<1>2. Consecutive(<<>>, x.sent, x.sent)
  BY SentIs, ConsecutiveEmpty
<1> QED BY <1>1, <1>2 DEF Orderly

LEMMA OrderlyThen ==
  ASSUME NEW x, NEW r, NEW s, RetOK(r), RetOK(s), Orderly(x, r), Orderly(r.e, s)
  PROVE  Orderly(x, Then(r, s))
<1>1. PICK fs, gs : fs = r.out /\ gs = s.out
  OBVIOUS
<1>2. Then(r, s).e = s.e /\ Then(r, s).out = fs \o gs
  BY <1>1 DEF Then
<1>3. fs \in Seq(Frames(MaxOut)) /\ gs \in Seq(Frames(MaxOut))
  BY <1>1 DEF RetOK
<1>4. Consecutive(fs, x.sent, r.e.sent) /\ Consecutive(gs, r.e.sent, s.e.sent)
  BY <1>1 DEF Orderly
<1>5. Consecutive(fs \o gs, x.sent, s.e.sent)
  BY <1>3, <1>4, ConsecutiveConcat
<1>6. ASSUME NEW i \in 1 .. Len(fs \o gs) PROVE "SYN" \notin (fs \o gs)[i].bits
  <2>1. PICK n \in Nat, k \in Nat : n = Len(fs) /\ k = Len(gs)
    BY <1>3, SeqParts
  <2>2. Len(fs \o gs) = n + k
        /\ \A j \in 1 .. n + k : (fs \o gs)[j] = IF j <= n THEN fs[j] ELSE gs[j - n]
    BY <1>3, <2>1, ConcatProperties
  <2>3. i \in 1 .. n + k
    BY <2>2
  <2>4. \/ i \in 1 .. n /\ i <= n
        \/ i - n \in 1 .. k /\ ~(i <= n)
    BY <2>3
  <2>5. (\A j \in 1 .. n : "SYN" \notin fs[j].bits) /\ (\A j \in 1 .. k : "SYN" \notin gs[j].bits)
    BY <1>1, <2>1 DEF Orderly
  <2>6. CASE i \in 1 .. n /\ i <= n
    BY <2>2, <2>3, <2>5, <2>6
  <2>7. CASE i - n \in 1 .. k /\ ~(i <= n)
    BY <2>2, <2>3, <2>5, <2>7
  <2> QED BY <2>4, <2>6, <2>7
<1>7. Spare(x) => Spare(s.e)
  BY DEF Orderly
<1> QED BY <1>2, <1>5, <1>6, <1>7 DEF Orderly

LEMMA TransmitSent ==
  ASSUME NEW x, EngineOK(x), NEW ms \in Seq(1 .. MaxOut)
  PROVE  LET r == Transmit(x, ms)
         IN  r.e.sent = Next8(x.sent, Len(ms)) /\ (~Retains(x) => r.e.unack = x.unack)
<1> DEFINE new == [i \in 1 .. Len(ms) |-> [psn |-> Next8(x.sent, i), m |-> ms[i], n |-> 0]]
           y == [x EXCEPT !.sent = Next8(@, Len(ms)), !.delayed = FALSE, !.lastAcked = x.recv]
           a == [y EXCEPT !.unack = @ \o new, !.resend = TRUE,
                          !.due = @ \o [i \in 1 .. Len(ms) |-> new[i].psn]]
           b == [y EXCEPT !.acked = y.sent]
           w == IF ms = <<>> THEN x ELSE IF x.lsp.max_retransmissions > 0 THEN a ELSE b
           fs == [i \in 1 .. Len(ms) |-> DataOf(x, new[i])]
<1>1. x \in Engines /\ x.sent \in Psn
  BY SentIs
<1>2. Transmit(x, ms) = Write(w, fs)
  BY DEF Transmit
<1> HIDE DEF new, fs
<1>3. DOMAIN x = Fields
  BY <1>1 DEF Engines, Fields
<1>4. y.sent = Next8(x.sent, Len(ms)) /\ y.unack = x.unack /\ DOMAIN y = Fields
  BY <1>3 DEF Fields
<1> HIDE DEF y
<1>5. a.sent = y.sent /\ b.sent = y.sent /\ b.unack = y.unack
      /\ DOMAIN a = Fields /\ DOMAIN b = Fields
  BY <1>4 DEF Fields
<1> HIDE DEF a, b
<1>6. ms = <<>> => Next8(x.sent, Len(ms)) = x.sent
  <2>1. PICK s \in 0 .. 255 : s = x.sent
    BY <1>1 DEF Psn
  <2>2. (s + 0) % 256 = s
    OBVIOUS
  <2>3. ms = <<>> => Len(ms) = 0
    OBVIOUS
  <2> QED BY <2>1, <2>2, <2>3 DEF Next8
<1>7. w.sent = Next8(x.sent, Len(ms)) /\ (~Retains(x) => w.unack = x.unack)
      /\ DOMAIN w = Fields
  BY <1>3, <1>4, <1>5, <1>6 DEF Retains
<1> HIDE DEF w
<1>8. Write(w, fs).e.sent = w.sent /\ Write(w, fs).e.unack = w.unack
  BY <1>7 DEF Write, Fields
<1> QED BY <1>2, <1>7, <1>8

LEMMA TransmitOrderly ==
  ASSUME NEW x, EngineOK(x), NEW ms \in Seq(1 .. MaxOut)
  PROVE  Orderly(x, Transmit(x, ms))
<1> DEFINE r == Transmit(x, ms)
           new == New(x, ms)
<1>1. /\ r.e.lsp = x.lsp /\ new \in Seq(Packets) /\ Len(new) = Len(ms)
      /\ r.out = [i \in 1 .. Len(ms) |-> DataOf(x, new[i])] /\ Len(r.out) = Len(ms)
  BY TransmitParts
<1>2. r.e.sent = Next8(x.sent, Len(ms)) /\ (~Retains(x) => r.e.unack = x.unack)
  BY TransmitSent
<1>3. PICK k \in Nat : k = Len(ms) /\ \A i \in 1 .. k : ms[i] \in 1 .. MaxOut
  BY SeqParts
<1>4. \A i \in 1 .. k : new[i].psn = Next8(x.sent, i) /\ new[i].m = ms[i]
  BY <1>3 DEF New
<1> HIDE DEF new, r
<1>5. PICK v \in Psn : v = x.sent
  BY SentIs
<1>6. PICK fs : fs = r.out
  OBVIOUS
<1>7. \A i \in 1 .. k : /\ fs[i].seq = Next8(v, i) /\ fs[i].m # NoMsg
                        /\ "SYN" \notin fs[i].bits
  <2>1. \A u : DataOf(x, u).seq = u.psn /\ DataOf(x, u).m = u.m /\ DataOf(x, u).bits = {"ACK"}
    BY DEF DataOf, Frame
  <2>2. \A i \in 1 .. k : fs[i] = DataOf(x, new[i])
    BY <1>1, <1>3, <1>6
  <2> QED BY <1>3, <1>4, <1>5, <2>1, <2>2 DEF NoMsg
<1> DEFINE c == [i \in 0 .. k |-> Next8(v, i)]
<1>8. v \in 0 .. 255
  BY <1>5 DEF Psn
<1>9. c \in [0 .. k -> Psn]
  BY <1>8, Next8Psn
<1>10. c[0] = v /\ c[k] = Next8(v, k)
  <2>1. (v + 0) % 256 = v
    BY <1>8
  <2> QED BY <2>1 DEF Next8
<1>11. ASSUME NEW i \in 1 .. k PROVE Follows(fs[i], c[i - 1], c[i])
  <2>1. i - 1 \in 0 .. k /\ i \in 0 .. k /\ i - 1 \in Int /\ i \in Int
    OBVIOUS
  <2>2. c[i - 1] = Next8(v, i - 1) /\ c[i] = Next8(v, i)
    BY <2>1
  <2>3. Next8(Next8(v, i - 1), 1) = Next8(v, i)
    BY <1>8 DEF Next8
  <2> QED BY <1>7, <2>2, <2>3 DEF Follows
<1> HIDE DEF c
<1>12. Consecutive(fs, v, Next8(v, k))
  <2>1. Len(fs) = k
    BY <1>1, <1>3, <1>6
  <2> QED BY <1>9, <1>10, <1>11, <2>1 DEF Consecutive
<1>13. Consecutive(r.out, x.sent, r.e.sent)
  BY <1>2, <1>3, <1>5, <1>6, <1>12
<1>14. \A i \in 1 .. Len(r.out) : "SYN" \notin r.out[i].bits
  BY <1>1, <1>3, <1>6, <1>7
<1>15. Spare(x) => Spare(r.e)
  BY <1>1, <1>2 DEF Spare, Retains
<1>16. Orderly(x, r)
  BY <1>13, <1>14, <1>15, Zenon DEF Orderly
<1> QED BY <1>16 DEF r

(* Frames that acknowledge v.                                               *)
Acking(fs, v) == \A i \in 1 .. Len(fs) : "ACK" \in fs[i].bits /\ fs[i].ack = v

LEMMA AckingParts ==
  /\ \A v : Acking(<<>>, v)
  /\ \A x : Acking(<<AckOf(x)>>, x.recv)
<1>1. \A f : Len(<<f>>) = 1 /\ <<f>>[1] = f
  OBVIOUS
<1>2. Len(<<>>) = 0 /\ \A i : i \notin 1 .. 0
  OBVIOUS
<1>3. \A x : "ACK" \in AckOf(x).bits /\ AckOf(x).ack = x.recv
  BY DEF AckOf, Frame
<1>4. \A i \in 1 .. 1 : i = 1
  OBVIOUS
<1> QED BY <1>1, <1>2, <1>3, <1>4 DEF Acking

LEMMA AckingThen ==
  ASSUME NEW r, NEW s, RetOK(r), RetOK(s), NEW v, Acking(r.out, v), Acking(s.out, v)
  PROVE  Acking(Then(r, s).out, v)
<1>1. PICK fs, gs : fs = r.out /\ gs = s.out
  OBVIOUS
<1>2. Then(r, s).out = fs \o gs
  BY <1>1 DEF Then
<1>3. fs \in Seq(Frames(MaxOut)) /\ gs \in Seq(Frames(MaxOut))
  BY <1>1 DEF RetOK
<1>4. PICK n \in Nat, k \in Nat : n = Len(fs) /\ k = Len(gs)
  BY <1>3, SeqParts
<1>5. Len(fs \o gs) = n + k
      /\ \A j \in 1 .. n + k : (fs \o gs)[j] = IF j <= n THEN fs[j] ELSE gs[j - n]
  BY <1>3, <1>4, ConcatProperties
<1>6. /\ \A j \in 1 .. n : "ACK" \in fs[j].bits /\ fs[j].ack = v
      /\ \A j \in 1 .. k : "ACK" \in gs[j].bits /\ gs[j].ack = v
  BY <1>1, <1>4 DEF Acking
<1>7. ASSUME NEW i \in 1 .. n + k
      PROVE  "ACK" \in (fs \o gs)[i].bits /\ (fs \o gs)[i].ack = v
  <2>1. \/ i \in 1 .. n /\ i <= n
        \/ i - n \in 1 .. k /\ ~(i <= n)
    OBVIOUS
  <2>2. CASE i \in 1 .. n /\ i <= n
    BY <1>5, <1>6, <2>2
  <2>3. CASE i - n \in 1 .. k /\ ~(i <= n)
    BY <1>5, <1>6, <2>3
  <2> QED BY <2>1, <2>2, <2>3
<1> QED BY <1>2, <1>5, <1>7 DEF Acking

(* What an ack sends.                                                       *)
LEMMA AckSends ==
  ASSUME NEW x, EngineOK(x), NEW num \in Psn \cup {None}
  PROVE  \E z, ms :
           /\ EngineOK(z) /\ ms \in Seq(1 .. MaxOut) /\ HandleAck(x, num) = Transmit(z, ms)
           /\ z.lsp = x.lsp /\ z.sent = x.sent /\ z.recv = x.recv /\ z.acked = num
           /\ z.unack = RestBy(x, num) /\ z.state = IF x.state = "Negotiate" THEN "Normal" ELSE x.state
<1> DEFINE y == Acknowledge(x, num)
           k == Room(y)
           q == SubSeq(y.queue, k + 1, Len(y.queue))
           z == [y EXCEPT !.queue = SubSeq(@, k + 1, Len(@))]
           ms == SubSeq(y.queue, 1, k)
<1>1. EngineOK(y) /\ y.lsp = x.lsp /\ y.sent = x.sent /\ y.recv = x.recv
      /\ y.acked = num /\ y.unack = RestBy(x, num)
      /\ y.state = IF x.state = "Negotiate" THEN "Normal" ELSE x.state
  BY AcknowledgeOK DEF Fields
<1>2. HandleAck(x, num) = Transmit(z, ms)
  BY DEF HandleAck
<1> HIDE DEF y
<1>3. y \in Engines /\ y.queue \in Seq(1 .. MaxOut)
  BY <1>1, UnackLen
<1>4. k \in 0 .. Len(y.queue)
  BY <1>3, RoomIn
<1> HIDE DEF k
<1>5. k + 1 \in 1 .. Len(y.queue) + 1
  BY <1>3, <1>4, SeqParts
<1>6. q \in Seq(1 .. MaxOut) /\ ms \in Seq(1 .. MaxOut)
  BY <1>3, <1>4, <1>5, SuffixOK, PrefixOK
<1>7. z = [y EXCEPT !.queue = q]
  BY <1>3 DEF Engines
<1> HIDE DEF q, ms
<1>8. z \in Engines /\ z.due = y.due /\ z.unack = y.unack /\ z.lsp = y.lsp
      /\ z.sent = y.sent /\ z.recv = y.recv /\ z.acked = y.acked
      /\ z.state = y.state
  BY <1>3, <1>6, <1>7 DEF Engines
<1> HIDE DEF z
<1>9. EngineOK(z)
  BY <1>1, <1>8, SameAligned
<1> QED BY <1>1, <1>2, <1>6, <1>8, <1>9

LEMMA HandleAckOrderly ==
  ASSUME NEW x, EngineOK(x), NEW num \in Psn \cup {None}
  PROVE  LET r == HandleAck(x, num)
         IN  /\ Orderly(x, r) /\ (Retains(x) => r.e.acked = num) /\ Acking(r.out, x.recv)
             /\ r.e.state = IF x.state = "Negotiate" THEN "Normal" ELSE x.state
<1>1. PICK z, ms :
           /\ EngineOK(z) /\ ms \in Seq(1 .. MaxOut) /\ HandleAck(x, num) = Transmit(z, ms)
           /\ z.lsp = x.lsp /\ z.sent = x.sent /\ z.recv = x.recv /\ z.acked = num
           /\ z.unack = RestBy(x, num) /\ z.state = IF x.state = "Negotiate" THEN "Normal" ELSE x.state
  BY AckSends, Zenon
<1> DEFINE r == Transmit(z, ms)
<1>2. Orderly(z, r)
  BY <1>1, TransmitOrderly
<1>3. Spare(x) => Spare(z)
  <2>1. ASSUME x.unack = <<>> PROVE z.unack = <<>>
    <3>1. DOMAIN x.unack = {}
      BY <2>1
    <3>2. KeptBy(x, num) = {}
      BY <3>1 DEF KeptBy
    <3> QED BY <1>1, <3>2 DEF RestBy
  <2> QED BY <1>1, <2>1 DEF Spare, Retains
<1>4. Orderly(x, r)
  BY <1>1, <1>2, <1>3 DEF Orderly
<1>5. Retains(x) => r.e.acked = num
  BY <1>1, TransmitParts DEF Retains
<1>6. /\ r.out = [i \in 1 .. Len(ms) |-> DataOf(z, New(z, ms)[i])] /\ Len(r.out) = Len(ms)
  BY <1>1, TransmitParts
<1>7. \A u : "ACK" \in DataOf(z, u).bits /\ DataOf(z, u).ack = x.recv
  BY <1>1 DEF DataOf, Frame
<1> HIDE DEF r
<1>8. Acking(r.out, x.recv)
  BY <1>6, <1>7 DEF Acking
<1>9. HandleAck(x, num) = r
  BY <1>1 DEF r
<1>10. r.e.state = z.state
  BY <1>1, TransmitParts DEF r
<1> QED BY <1>1, <1>4, <1>5, <1>8, <1>9, <1>10

LEMMA SynOrderly ==
  ASSUME NEW x, EngineOK(x), Pristine(x), NEW f \in Frames(MaxIn)
  PROVE  LET r == SynPart(x, f)
         IN  /\ Orderly(x, r) /\ r.e.acked = x.acked /\ r.e.state = x.state
             /\ Acking(r.out, r.e.recv) /\ r.e.recv = IF Synchronizes(x, f) THEN f.seq ELSE x.recv
<1>1. CASE "SYN" \notin f.bits \/ x.state # "Negotiate"
  <2>1. SynPart(x, f) = Ret(x)
    BY <1>1 DEF SynPart, HandleSyn
  <2>2. Ret(x).e = x /\ Ret(x).out = <<>>
    BY DEF Ret
  <2>3. Orderly(x, Ret(x))
    BY OrderlyRet
  <2> QED BY <1>1, <2>1, <2>2, <2>3, AckingParts DEF Synchronizes
<1>2. CASE "SYN" \in f.bits /\ x.state = "Negotiate"
  <2> DEFINE y == [x EXCEPT !.lsp = Lsp, !.recv = f.seq, !.lastAcked = f.seq]
             r == Write(y, <<AckOf(y)>>)
  <2>1. SynPart(x, f) = r
    BY <1>2 DEF SynPart, HandleSyn
  <2>2. RetOK(r)
    BY <1>2, <2>1, HandleSynOK DEF SynPart
  <2>3. x \in Engines /\ x.unack = <<>>
    BY <1>2, SentIs DEF Pristine, Blank, Starting
  <2>4. /\ y.sent = x.sent /\ y.unack = x.unack /\ y.acked = x.acked /\ y.recv = f.seq
        /\ y.state = x.state /\ DOMAIN y = Fields
    BY <2>3 DEF Engines, Fields
  <2> HIDE DEF y
  <2>5. /\ r.e.sent = y.sent /\ r.e.unack = y.unack /\ r.e.acked = y.acked /\ r.e.recv = y.recv
        /\ r.e.state = y.state /\ r.out = <<AckOf(y)>>
    BY <2>4 DEF Write, Fields
  <2> HIDE DEF r
  <2>6. Bare(<<AckOf(y)>>) /\ <<AckOf(y)>> \in Seq(Frames(MaxOut))
    BY <2>2, <2>5, BareOne DEF RetOK
  <2>7. Consecutive(r.out, x.sent, r.e.sent)
    BY <2>4, <2>5, <2>6, SentIs, ConsecutiveBare
  <2>8. Orderly(x, r)
    BY <2>3, <2>4, <2>5, <2>6, <2>7 DEF Orderly, Spare, Bare
  <2>9. Acking(r.out, r.e.recv)
    BY <2>5, AckingParts
  <2> QED BY <1>2, <2>1, <2>4, <2>5, <2>8, <2>9 DEF Synchronizes
<1> QED BY <1>1, <1>2

LEMMA CumulativeAcking ==
  ASSUME NEW x, EngineOK(x) PROVE Acking(Cumulative(x).out, x.recv) /\ Cumulative(x).e.recv = x.recv
<1>1. Ret(x).out = <<>> /\ Acking(<<>>, x.recv)
  BY AckingParts DEF Ret
<1>2. Acking(<<AckOf(x)>>, x.recv)
  BY AckingParts
<1>3. \A y : Write(y, <<AckOf(x)>>).out = <<AckOf(x)>>
  BY DEF Write
<1>4. Cumulative(x).e.recv = x.recv
  BY CumulativeQuiet DEF Quiet
<1> QED BY <1>1, <1>2, <1>3, <1>4 DEF Cumulative

(* A frame that neither resets nor asks for a repeat.                       *)
LEMMA FrameOrderly ==
  ASSUME NEW x, EngineOK(x), Pristine(x), x.state \in {"Negotiate", "Normal"},
         NEW f \in Frames(MaxIn), "RST" \notin f.bits, "EAK" \notin f.bits
  PROVE  LET r == ProcessFrame(x, f)
         IN  /\ Orderly(x, r) /\ Pristine(r.e) /\ r.e.state \in {"Negotiate", "Normal"}
             /\ Retains(r.e) => r.e.acked = IF "ACK" \in f.bits THEN f.ack ELSE x.acked
             /\ r.e.state \in Starting => "ACK" \notin f.bits /\ x.state = "Negotiate"
             /\ f.m = NoMsg => /\ r.e.recv = IF Synchronizes(x, f) THEN f.seq ELSE x.recv
                               /\ Acking(r.out, r.e.recv)
<1> DEFINE s == SynPart(x, f)
           y == CountedPart(x, f)
           a == AckPart(x, f)
           d == DataPart(x, f)
           r == ProcessFrame(x, f)
<1>1. RetOK(s) /\ EngineOK(y) /\ RetOK(a) /\ RetOK(d) /\ EngineOK(a.e) /\ EngineOK(d.e)
  BY PartsOK DEF RetOK
<1>2. /\ Orderly(x, s) /\ s.e.acked = x.acked /\ s.e.state = x.state
      /\ Acking(s.out, s.e.recv) /\ s.e.recv = IF Synchronizes(x, f) THEN f.seq ELSE x.recv
  BY SynOrderly
<1>3. EakPart(x, f) = a
  BY DEF EakPart
<1>4. /\ Orderly(x, a) /\ (Retains(a.e) => a.e.acked = IF "ACK" \in f.bits THEN f.ack ELSE x.acked)
      /\ a.e.state = (IF "ACK" \in f.bits THEN "Normal" ELSE x.state)
      /\ Acking(a.out, s.e.recv)
  <2>1. CASE "ACK" \notin f.bits
    <3>1. a = s
      BY <2>1 DEF AckPart
    <3> QED BY <1>2, <2>1, <3>1
  <2>2. CASE "ACK" \in f.bits
    <3> DEFINE h == HandleAck(y, f.ack)
    <3>1. a = Then(s, h)
      BY <2>2 DEF AckPart
    <3>2. /\ y.sent = s.e.sent /\ y.unack = s.e.unack /\ y.lsp = s.e.lsp /\ y.recv = s.e.recv
          /\ y.state = s.e.state
      <4>1. s.e \in Engines
        BY <1>1 DEF RetOK, EngineOK
      <4> QED BY <4>1 DEF CountedPart, Engines
    <3>3. f.ack \in Psn \cup {None}
      BY DEF Frames
    <3>4. RetOK(h)
      BY <1>1, <3>3, HandleAckOK
    <3>5. /\ Orderly(y, h) /\ (Retains(y) => h.e.acked = f.ack) /\ Acking(h.out, y.recv)
          /\ h.e.state = IF y.state = "Negotiate" THEN "Normal" ELSE y.state
      BY <1>1, <3>3, HandleAckOrderly
    <3>6. h.e.lsp = y.lsp
      BY <1>1, <3>3, HandleAckLsp
    <3> HIDE DEF h, y, s
    <3>7. Orderly(s.e, h)
      BY <3>2, <3>5 DEF Orderly, Spare, Retains
    <3>8. Orderly(x, Then(s, h))
      BY <1>1, <1>2, <3>4, <3>7, OrderlyThen
    <3>9. Acking(Then(s, h).out, s.e.recv)
      BY <1>1, <1>2, <3>2, <3>4, <3>5, AckingThen
    <3>10. Then(s, h).e = h.e
      BY DEF Then
    <3> QED BY <1>2, <2>2, <3>1, <3>2, <3>5, <3>6, <3>8, <3>9, <3>10 DEF Retains
  <2> QED BY <2>1, <2>2
<1>5. Apart(a.e, Cumulative(d.e)) \/ Apart(d.e, Cumulative(d.e))
  BY <1>1, CumulativeApart
<1>6. /\ Orderly(x, d) /\ d.e.acked = a.e.acked /\ d.e.lsp = a.e.lsp /\ d.e.state = a.e.state
      /\ d.e.marker = a.e.marker /\ (f.m = NoMsg => d = a)
  <2>1. CASE f.bits = {"ACK"} /\ f.m # NoMsg
    <3> DEFINE h == HandleData(a.e, f)
    <3>1. d = Then(a, h)
      BY <1>3, <2>1 DEF DataPart
    <3>2. RetOK(h) /\ Apart(a.e, h)
      BY <1>1, <2>1, HandleDataOK, HandleDataApart
    <3>3. Orderly(a.e, h)
      BY <1>1, <3>2, OrderlyApart
    <3> HIDE DEF h, a
    <3>4. Orderly(x, Then(a, h)) /\ Then(a, h).e = h.e
      BY <1>1, <1>4, <3>2, <3>3, OrderlyThen DEF Then
    <3> QED BY <2>1, <3>1, <3>2, <3>4 DEF Apart
  <2>2. CASE ~(f.bits = {"ACK"} /\ f.m # NoMsg)
    <3>1. d = a
      BY <1>3, <2>2 DEF DataPart
    <3> QED BY <1>4, <3>1
  <2> QED BY <2>1, <2>2
<1> DEFINE h == Cumulative(d.e)
<1>7. r = Then(d, h)
  BY ProcessIs
<1>8. RetOK(h) /\ Apart(d.e, h) /\ Acking(h.out, d.e.recv) /\ h.e.recv = d.e.recv
  BY <1>1, CumulativeOK, CumulativeApart, CumulativeAcking
<1>9. Pristine(r.e)
  <2>1. ~x.marker /\ x.state # "Dead"
    BY DEF Pristine, Marked
  <2>2. CASE ~(f.bits = {"ACK"} /\ f.m # NoMsg)
    BY <2>1, <2>2, PlainFrame
  <2>3. CASE f.bits = {"ACK"} /\ f.m # NoMsg
    <3>1. Pristine(a.e)
      BY <1>3, <2>1, BeforeData
    <3>2. r.e.state = "Normal" /\ a.e.state = "Normal" /\ r.e.marker = a.e.marker
      BY <1>4, <1>6, <1>7, <1>8, <2>3 DEF Then, Apart
    <3> QED BY <3>1, <3>2 DEF Pristine, Marked, Blank, Starting
  <2> QED BY <2>2, <2>3
<1> HIDE DEF h, d, a, s, r
<1>10. Orderly(x, r)
  <2>1. Orderly(d.e, h)
    BY <1>1, <1>8, OrderlyApart
  <2> QED BY <1>1, <1>6, <1>7, <1>8, <2>1, OrderlyThen
<1>11. r.e = h.e /\ h.e.state = d.e.state /\ h.e.acked = d.e.acked /\ h.e.lsp = d.e.lsp
  BY <1>7, <1>8 DEF Then, Apart
<1>12. r.e.state \in {"Negotiate", "Normal"} /\ r.e.state = a.e.state
  BY <1>4, <1>6, <1>11
<1>13. Retains(r.e) => r.e.acked = IF "ACK" \in f.bits THEN f.ack ELSE x.acked
  BY <1>4, <1>6, <1>11 DEF Retains
<1>14. r.e.state \in Starting => "ACK" \notin f.bits /\ x.state = "Negotiate"
  BY <1>4, <1>12 DEF Starting
<1>15. ASSUME f.m = NoMsg
       PROVE  /\ r.e.recv = IF Synchronizes(x, f) THEN f.seq ELSE x.recv
              /\ Acking(r.out, r.e.recv)
  <2>1. ~x.marker /\ x.state # "Dead"
    BY DEF Pristine, Marked
  <2>2. r.e.recv = IF Synchronizes(x, f) THEN f.seq ELSE x.recv
    BY <1>15, <2>1, PlainFrame DEF r
  <2>3. d = a /\ d.e.recv = r.e.recv
    BY <1>6, <1>8, <1>11, <1>15
  <2>4. Acking(d.out, r.e.recv) /\ Acking(h.out, r.e.recv)
    BY <1>2, <1>4, <1>8, <2>2, <2>3
  <2> QED BY <1>1, <1>7, <1>8, <2>2, <2>4, AckingThen
<1> QED BY <1>9, <1>10, <1>12, <1>13, <1>14, <1>15 DEF r

-----------------------------------------------------------------------------
(* The frames fs on their way to engine x leave it with v as the last ack.  *)
Settled(x, fs, v) ==
  \E i \in 0 .. Len(fs) :
    /\ IF i = 0 THEN x.state \notin Starting /\ (Retains(x) => x.acked = v)
                ELSE "ACK" \in fs[i].bits
    /\ \A j \in 1 .. Len(fs) : j >= i /\ "ACK" \in fs[j].bits => fs[j].ack = v

LEMMA SettledEmpty ==
  ASSUME NEW x, NEW v, Settled(x, <<>>, v)
  PROVE  x.state \notin Starting /\ (Retains(x) => x.acked = v)
<1>1. Len(<<>>) = 0 /\ \A i \in 0 .. 0 : i = 0
  OBVIOUS
<1> QED BY <1>1 DEF Settled

LEMMA SettledSame ==
  ASSUME NEW x, NEW y, NEW fs, NEW v, Settled(x, fs, v),
         y.state \in Starting => x.state \in Starting,
         Retains(y) => Retains(x) /\ y.acked = x.acked
  PROVE  Settled(y, fs, v)
BY DEF Settled

LEMMA SettledConcat ==
  ASSUME NEW X, NEW fs \in Seq(X), NEW gs \in Seq(X), NEW x, NEW v, Says(gs, v),
         Settled(x, fs, v) \/ \E i \in 1 .. Len(gs) : "ACK" \in gs[i].bits
  PROVE  Settled(x, fs \o gs, v)
<1>1. PICK n \in Nat, k \in Nat : n = Len(fs) /\ k = Len(gs)
  BY SeqParts
<1>2. PICK h : h = fs \o gs
  OBVIOUS
<1>3. Len(h) = n + k /\ \A i \in 1 .. n + k : h[i] = IF i <= n THEN fs[i] ELSE gs[i - n]
  BY <1>1, <1>2, ConcatProperties
<1>4. \A i \in 1 .. n : i \in 1 .. n + k /\ h[i] = fs[i]
  <2>1. \A i \in 1 .. n : i \in 1 .. n + k /\ i <= n
    OBVIOUS
  <2> QED BY <1>3, <2>1
<1>5. \A i \in 1 .. k : n + i \in 1 .. n + k /\ h[n + i] = gs[i]
  <2>1. \A i \in 1 .. k : n + i \in 1 .. n + k /\ ~(n + i <= n) /\ (n + i) - n = i
    OBVIOUS
  <2> QED BY <1>3, <2>1
<1>6. ASSUME NEW j \in 1 .. n + k
      PROVE  \/ j \in 1 .. n
             \/ j > n /\ \E i \in 1 .. k : j = n + i
  <2>1. j <= n \/ (j > n /\ j - n \in 1 .. k /\ j = n + (j - n))
    OBVIOUS
  <2> QED BY <2>1
<1>7. \A i \in 1 .. k : "ACK" \in gs[i].bits => gs[i].ack = v
  BY <1>1 DEF Says
<1>8. CASE Settled(x, fs, v)
  <2>1. PICK i \in 0 .. n :
          /\ IF i = 0 THEN x.state \notin Starting /\ (Retains(x) => x.acked = v)
                      ELSE "ACK" \in fs[i].bits
          /\ \A j \in 1 .. n : j >= i /\ "ACK" \in fs[j].bits => fs[j].ack = v
    BY <1>1, <1>8 DEF Settled
  <2>2. ASSUME NEW j \in 1 .. n + k, j >= i, "ACK" \in h[j].bits PROVE h[j].ack = v
    <3>1. CASE j \in 1 .. n
      BY <1>4, <2>1, <2>2, <3>1
    <3>2. CASE \E l \in 1 .. k : j = n + l
      BY <1>5, <1>7, <2>2, <3>2
    <3> QED BY <1>6, <3>1, <3>2
  <2>3. i # 0 => "ACK" \in h[i].bits
    <3>1. i # 0 => i \in 1 .. n
      OBVIOUS
    <3> QED BY <1>4, <2>1, <3>1
  <2>4. i \in 0 .. n + k
    OBVIOUS
  <2> QED BY <1>2, <1>3, <2>1, <2>2, <2>3, <2>4 DEF Settled
<1>9. CASE \E i \in 1 .. k : "ACK" \in gs[i].bits
  <2>1. PICK i \in 1 .. k : "ACK" \in gs[i].bits
    BY <1>9
  <2>2. n + i \in 0 .. n + k /\ n + i # 0 /\ n + i > n
    OBVIOUS
  <2>3. "ACK" \in h[n + i].bits
    BY <1>5, <2>1
  <2>4. ASSUME NEW j \in 1 .. n + k, j >= n + i, "ACK" \in h[j].bits PROVE h[j].ack = v
    <3>1. CASE j \in 1 .. n
      BY <2>4, <3>1
    <3>2. CASE \E l \in 1 .. k : j = n + l
      BY <1>5, <1>7, <2>4, <3>2
    <3> QED BY <1>6, <3>1, <3>2
  <2>5. PICK m : m = n + i
    OBVIOUS
  <2>6. /\ m \in 0 .. n + k /\ m # 0 /\ "ACK" \in h[m].bits
        /\ \A j \in 1 .. n + k : j >= m /\ "ACK" \in h[j].bits => h[j].ack = v
    BY <2>2, <2>3, <2>4, <2>5
  <2> QED BY <1>2, <1>3, <2>6 DEF Settled
<1> QED BY <1>1, <1>8, <1>9

LEMMA SettledTail ==
  ASSUME NEW X, NEW fs \in Seq(X), fs # <<>>, NEW x, NEW y, NEW v, Settled(x, fs, v),
         "ACK" \in Head(fs).bits =>
           y.state \notin Starting /\ (Retains(y) => y.acked = Head(fs).ack),
         "ACK" \notin Head(fs).bits /\ x.state \notin Starting =>
           y.state \notin Starting /\ (Retains(y) => Retains(x) /\ y.acked = x.acked)
  PROVE  Settled(y, Tail(fs), v)
<1>1. PICK n, t, f : n = Len(fs) /\ t = Tail(fs) /\ f = Head(fs)
  OBVIOUS
<1>2. /\ f = fs[1] /\ n \in Nat /\ n > 0 /\ Len(t) = n - 1
      /\ \A j \in 1 .. n - 1 : t[j] = fs[j + 1]
  BY <1>1, RangeTail
<1>3. PICK i \in 0 .. n :
        /\ IF i = 0 THEN x.state \notin Starting /\ (Retains(x) => x.acked = v)
                    ELSE "ACK" \in fs[i].bits
        /\ \A j \in 1 .. n : j >= i /\ "ACK" \in fs[j].bits => fs[j].ack = v
  BY <1>1 DEF Settled
<1>4. CASE i > 1
  <2>1. PICK k \in 1 .. n - 1 : i = k + 1
    <3>1. i - 1 \in 1 .. n - 1 /\ i = (i - 1) + 1
      BY <1>2, <1>4
    <3> QED BY <3>1
  <2>2. "ACK" \in t[k].bits /\ k # 0 /\ k \in 0 .. n - 1
    BY <1>2, <1>3, <2>1
  <2>3. ASSUME NEW j \in 1 .. n - 1, j >= k, "ACK" \in t[j].bits PROVE t[j].ack = v
    <3>1. j + 1 \in 1 .. n /\ j + 1 >= i /\ t[j] = fs[j + 1]
      BY <1>2, <2>1, <2>3
    <3> QED BY <1>3, <2>3, <3>1
  <2>4. Settled(y, t, v)
    BY <1>2, <2>2, <2>3 DEF Settled
  <2> QED BY <1>1, <2>4
<1>5. CASE i <= 1
  <2>1. ASSUME NEW j \in 1 .. n - 1, "ACK" \in t[j].bits PROVE t[j].ack = v
    <3>1. j + 1 \in 1 .. n /\ j + 1 >= i /\ t[j] = fs[j + 1]
      BY <1>2, <1>5, <2>1
    <3> QED BY <1>3, <2>1, <3>1
  <2>2. y.state \notin Starting /\ (Retains(y) => y.acked = v)
    <3>1. 1 \in 1 .. n /\ 1 >= i
      BY <1>2, <1>5
    <3>2. "ACK" \in f.bits => f.ack = v
      BY <1>2, <1>3, <3>1
    <3>3. "ACK" \notin f.bits => i = 0
      BY <1>2, <1>3, <1>5
    <3> QED BY <1>1, <1>3, <3>2, <3>3
  <2>3. 0 \in 0 .. n - 1
    BY <1>2
  <2>4. Settled(y, t, v)
    BY <1>2, <2>1, <2>2, <2>3 DEF Settled
  <2> QED BY <1>1, <2>4
<1> QED BY <1>4, <1>5

-----------------------------------------------------------------------------
(* A link that nothing disturbs is in its handshake until the phone has the *)
(* engine's SYN; then nothing is missing in either direction, and an ack of *)
(* all the phone has heard is on its way, came, or is owed.                 *)
Clean(fs) ==
  \A i \in 1 .. Len(fs) : /\ "RST" \notin fs[i].bits /\ "EAK" \notin fs[i].bits
                          /\ "SYN" \in fs[i].bits => fs[i].seq = FirstPsn
Plain(fs) == \A i \in 1 .. Len(fs) : fs[i].m = NoMsg
Both(v) == Frame({"SYN", "ACK"}, FirstPsn, v, NoMsg, {})
Syn(v) == Frame({"SYN"}, FirstPsn, v, NoMsg, {})
Ack(v) == Frame({"ACK"}, FirstPsn, v, NoMsg, {})
Answers(v) == {<<Both(v)>>, <<Syn(v), Ack(v)>>}
Unread(x, o, i, v) ==
  /\ x.state = "Negotiate" /\ o = <<>>
  /\ i \in Answers(v) \/ (i # <<>> /\ Head(i) = Marker /\ Tail(i) \in Answers(v))

Greets(x, o, i, q) ==
  /\ q.recv = None /\ ~q.open /\ ~q.owes /\ q.sent = 0
  /\ \/ x.state = "Idle" /\ o = <<>> /\ i = <<>>
     \/ x.state = "Detect" /\ o = <<Marker>> /\ i = <<>>
     \/ x.state = "Detect" /\ o = <<>> /\ i = <<Marker>>
     \/ x.state = "Negotiate" /\ o = <<Marker, SynOf(x)>> /\ i = <<>>
     \/ x.state = "Negotiate" /\ o = <<SynOf(x)>> /\ (i = <<>> \/ i = <<Marker>>)
Unopened(x, o, i, q) ==
  /\ ~q.owes /\ q.sent = 0 /\ Plain(i) /\ Acking(o, FirstPsn)
  /\ x.recv = FirstPsn \/ Unread(x, o, i, q.recv)
Talks(x, o, i, q) ==
  /\ q.recv # None /\ x.state \in {"Negotiate", "Normal"}
  /\ Consecutive(o, q.recv, x.sent) /\ (\A j \in 1 .. Len(o) : "SYN" \notin o[j].bits)
  /\ Clean(i) /\ (~q.owes => Settled(x, i, q.recv))
  /\ q.open \/ Unopened(x, o, i, q)
Calms(x, o, i, q) == Pristine(x) /\ Spare(x) /\ (Greets(x, o, i, q) \/ Talks(x, o, i, q))

UInv == SInv /\ (faults = MaxFaults => Calms(e, out, in, p))

LEMMA AckingConcat ==
  ASSUME NEW X, NEW fs \in Seq(X), NEW gs \in Seq(X), NEW v, Acking(fs, v), Acking(gs, v)
  PROVE  Acking(fs \o gs, v)
<1>1. PICK n \in Nat, k \in Nat : n = Len(fs) /\ k = Len(gs)
  BY SeqParts
<1>2. Len(fs \o gs) = n + k
      /\ \A j \in 1 .. n + k : (fs \o gs)[j] = IF j <= n THEN fs[j] ELSE gs[j - n]
  BY <1>1, ConcatProperties
<1>3. ASSUME NEW i \in 1 .. n + k
      PROVE  "ACK" \in (fs \o gs)[i].bits /\ (fs \o gs)[i].ack = v
  <2>1. \/ i \in 1 .. n /\ i <= n
        \/ i - n \in 1 .. k /\ ~(i <= n)
    OBVIOUS
  <2>2. CASE i \in 1 .. n /\ i <= n
    BY <1>1, <1>2, <2>2 DEF Acking
  <2>3. CASE i - n \in 1 .. k /\ ~(i <= n)
    BY <1>1, <1>2, <2>3 DEF Acking
  <2> QED BY <2>1, <2>2, <2>3
<1> QED BY <1>2, <1>3 DEF Acking

LEMMA NoSynConcat ==
  ASSUME NEW X, NEW fs \in Seq(X), NEW gs \in Seq(X),
         \A i \in 1 .. Len(fs) : "SYN" \notin fs[i].bits,
         \A i \in 1 .. Len(gs) : "SYN" \notin gs[i].bits
  PROVE  \A i \in 1 .. Len(fs \o gs) : "SYN" \notin (fs \o gs)[i].bits
<1>1. PICK n \in Nat, k \in Nat : n = Len(fs) /\ k = Len(gs)
  BY SeqParts
<1>2. Len(fs \o gs) = n + k
      /\ \A j \in 1 .. n + k : (fs \o gs)[j] = IF j <= n THEN fs[j] ELSE gs[j - n]
  BY <1>1, ConcatProperties
<1>3. ASSUME NEW i \in 1 .. n + k PROVE "SYN" \notin (fs \o gs)[i].bits
  <2>1. \/ i \in 1 .. n /\ i <= n
        \/ i - n \in 1 .. k /\ ~(i <= n)
    OBVIOUS
  <2>2. CASE i \in 1 .. n /\ i <= n
    BY <1>1, <1>2, <2>2
  <2>3. CASE i - n \in 1 .. k /\ ~(i <= n)
    BY <1>1, <1>2, <2>3
  <2> QED BY <2>1, <2>2, <2>3
<1> QED BY <1>2, <1>3

(* The engine makes a step on a link in use.                                *)
LEMMA TalksEngine ==
  ASSUME TInv, Talks(e, out, in, p), NEW r, RetOK(r), Orderly(e, r), Becomes(r), p' = p,
         r.e.state \in {"Negotiate", "Normal"}, Clean(in'),
         ~p.owes => Settled(r.e, in', p.recv), p.open \/ Unopened(r.e, out \o r.out, in', p)
  PROVE  Talks(e', out', in', p')
<1>1. e' = r.e /\ out' = out \o r.out
  BY Zenon DEF Becomes
<1>2. out \in Seq(Frames(MaxOut)) /\ r.out \in Seq(Frames(MaxOut))
  BY DEF TInv, RetOK
<1>3. Consecutive(out, p.recv, e.sent) /\ Consecutive(r.out, e.sent, r.e.sent)
  BY DEF Talks, Orderly
<1>4. Consecutive(out \o r.out, p.recv, r.e.sent)
  BY <1>2, <1>3, ConsecutiveConcat
<1>5. \A i \in 1 .. Len(out \o r.out) : "SYN" \notin (out \o r.out)[i].bits
  BY <1>2, NoSynConcat DEF Talks, Orderly
<1> QED BY <1>1, <1>4, <1>5 DEF Talks

LEMMA TalksOn ==
  ASSUME TInv, Talks(e, out, in, p), NEW r, RetOK(r), Orderly(e, r), Becomes(r),
         p' = p, in' = in, r.e.state = e.state, r.e.recv = e.recv,
         Retains(r.e) => Retains(e) /\ r.e.acked = e.acked,
         Acking(r.out, e.recv), e.state = "Negotiate" => r.out = <<>>
  PROVE  Talks(e', out', in', p')
<1>1. r.e.state \in {"Negotiate", "Normal"} /\ Clean(in')
  BY DEF Talks
<1>2. ~p.owes => Settled(r.e, in', p.recv)
  <2> SUFFICES ASSUME ~p.owes PROVE Settled(r.e, in, p.recv)
    OBVIOUS
  <2>1. Settled(e, in, p.recv)
    BY DEF Talks
  <2> QED BY <2>1, SettledSame
<1>3. p.open \/ Unopened(r.e, out \o r.out, in', p)
  <2> SUFFICES ASSUME ~p.open PROVE Unopened(r.e, out \o r.out, in, p)
    OBVIOUS
  <2>1. Unopened(e, out, in, p)
    BY DEF Talks
  <2>2. out \in Seq(Frames(MaxOut)) /\ r.out \in Seq(Frames(MaxOut))
    BY DEF TInv, RetOK
  <2>3. CASE Unread(e, out, in, p.recv)
    <3>1. out = <<>> /\ r.out = <<>>
      BY <2>3 DEF Unread
    <3>2. out \o r.out = <<>>
      BY <3>1
    <3>3. Unread(r.e, out \o r.out, in, p.recv)
      BY <2>3, <3>2 DEF Unread
    <3>4. Acking(out \o r.out, FirstPsn)
      BY <3>2, AckingParts
    <3> QED BY <2>1, <3>3, <3>4 DEF Unopened
  <2>4. CASE e.recv = FirstPsn
    <3>1. Acking(out, FirstPsn) /\ Acking(r.out, FirstPsn)
      BY <2>1, <2>4 DEF Unopened
    <3>2. Acking(out \o r.out, FirstPsn)
      BY <2>2, <3>1, AckingConcat
    <3> QED BY <2>1, <2>4, <3>2 DEF Unopened
  <2> QED BY <2>1, <2>3, <2>4 DEF Unopened
<1> QED BY <1>1, <1>2, <1>3, TalksEngine

(* During the handshake the engine only changes what is not of it.          *)
LEMMA GreetsOn ==
  ASSUME TInv, Greets(e, out, in, p), NEW y \in Engines, Becomes(Ret(y)), p' = p, in' = in,
         y.state = e.state, y.sent = e.sent, y.recv = e.recv
  PROVE  Greets(e', out', in', p')
<1>1. Ret(y).e = y /\ Ret(y).out = <<>>
  BY DEF Ret
<1>2. e' = y /\ out' = IF y.state = "Dead" THEN out ELSE out \o <<>>
  BY <1>1, Zenon DEF Becomes
<1>3. out \o <<>> = out
  <2>1. PICK g, X : g = out /\ X = Frames(MaxOut)
    OBVIOUS
  <2>2. g \in Seq(X)
    BY <2>1 DEF TInv
  <2>3. g \o <<>> = g
    BY <2>2, ConcatEmptySeq
  <2> QED BY <2>1, <2>3
<1>4. out' = out /\ SynOf(y) = SynOf(e)
  BY <1>2, <1>3 DEF SynOf
<1> QED BY <1>2, <1>4 DEF Greets

LEMMA GiveCalms ==
  ASSUME TInv, Calms(e, out, in, p), Give PROVE Calms(e', out', in', p')
<1> DEFINE r == SendPacket(e, given')
           late == Distance(e.sent, e.acked) > e.lsp.max_outgoing \/ e.state # "Normal"
           q == Append(e.queue, given')
           y == [e EXCEPT !.queue = q]
<1>1. EngineOK(e) /\ e \in Engines /\ e.queue \in Seq(1 .. MaxOut)
  BY UnackLen DEF TInv
<1>2. given' \in 1 .. MaxOut
  BY Iap2LinkAssumption DEF Give, TInv
<1>3. Becomes(r) /\ p' = p /\ in' = in
  BY DEF Give, phone
<1>4. RetOK(r) /\ Quiet(e, r)
  BY <1>1, <1>2, SendPacketOK, SendPacketQuiet
<1>5. Pristine(r.e)
  BY <1>4 DEF Quiet, Calms
<1>6. r = IF late THEN Ret(y) ELSE Transmit(e, <<given'>>)
  BY <1>1 DEF SendPacket, Engines
<1> HIDE DEF r
<1>7. e' = r.e
  BY <1>3, Zenon DEF Becomes
<1>8. CASE late
  <2>1. q \in Seq(1 .. MaxOut)
    BY <1>1, <1>2, AppendProperties
  <2> HIDE DEF q
  <2>2. /\ y \in Engines /\ y.state = e.state /\ y.lsp = e.lsp /\ y.sent = e.sent
        /\ y.recv = e.recv /\ y.acked = e.acked /\ y.unack = e.unack
    BY <1>1, <2>1 DEF Engines
  <2> HIDE DEF y, late
  <2>3. r = Ret(y) /\ r.e = y /\ r.out = <<>>
    BY <1>6, <1>8 DEF Ret
  <2>4. (Spare(e) => Spare(y)) /\ (Retains(y) => Retains(e))
    BY <2>2 DEF Spare, Retains
  <2>5. Orderly(e, r)
    BY <1>1, <2>2, <2>3, <2>4, OrderlyRet
  <2>6. CASE Greets(e, out, in, p)
    <3>1. Greets(e', out', in', p')
      BY <1>3, <2>2, <2>3, <2>6, GreetsOn
    <3> QED BY <1>5, <1>7, <2>3, <2>4, <3>1 DEF Calms
  <2>7. CASE Talks(e, out, in, p)
    <3>1. Acking(r.out, e.recv)
      BY <2>3, AckingParts
    <3>2. Talks(e', out', in', p')
      BY <1>3, <1>4, <2>2, <2>3, <2>4, <2>5, <2>7, <3>1, TalksOn
    <3> QED BY <1>5, <1>7, <2>3, <2>4, <3>2 DEF Calms
  <2> QED BY <2>6, <2>7 DEF Calms
<1>9. CASE ~late
  <2> DEFINE ms == <<given'>>
  <2>1. e.state = "Normal" /\ r = Transmit(e, ms)
    BY <1>6, <1>9
  <2>2. ms \in Seq(1 .. MaxOut)
    BY <1>2, One
  <2> HIDE DEF ms, late
  <2>3. Talks(e, out, in, p)
    BY <2>1 DEF Calms, Greets
  <2>4. Orderly(e, r)
    BY <1>1, <2>1, <2>2, TransmitOrderly
  <2>5. /\ r.e.lsp = e.lsp /\ r.e.state = e.state /\ (Retains(e) => r.e.acked = e.acked)
        /\ r.out = [i \in 1 .. Len(ms) |-> DataOf(e, New(e, ms)[i])] /\ Len(r.out) = Len(ms)
    BY <1>1, <2>1, <2>2, TransmitParts DEF Retains
  <2>6. Acking(r.out, e.recv)
    <3>1. \A u : "ACK" \in DataOf(e, u).bits /\ DataOf(e, u).ack = e.recv
      BY DEF DataOf, Frame
    <3> QED BY <2>5, <3>1 DEF Acking
  <2>7. r.e.recv = e.recv /\ (Retains(r.e) => Retains(e))
    BY <1>4, <2>5 DEF Quiet, Retains
  <2>8. Talks(e', out', in', p')
    BY <1>3, <1>4, <2>1, <2>3, <2>4, <2>5, <2>6, <2>7, TalksOn
  <2> QED BY <1>5, <1>7, <2>4, <2>8 DEF Calms, Orderly
<1> QED BY <1>8, <1>9

LEMMA DelayedAckCalms ==
  ASSUME TInv, Calms(e, out, in, p), DelayedAck PROVE Calms(e', out', in', p')
<1> DEFINE x == [e EXCEPT !.delayed = FALSE]
           y == [x EXCEPT !.lastAcked = x.recv]
           fs == <<AckOf(x)>>
           r == IF e.state # "Normal" THEN Ret(x) ELSE Write(y, fs)
<1>1. EngineOK(e) /\ e \in Engines
  BY DEF TInv, EngineOK
<1>2. Becomes(r) /\ RetOK(r) /\ Quiet(e, r) /\ p' = p /\ in' = in
  BY DelayedAckQuiet DEF DelayedAck, phone
<1>3. /\ y \in Engines /\ x \in Engines /\ x.recv = e.recv
      /\ \A h \in {"state", "lsp", "marker", "sent", "acked", "unack", "queue"} :
           y[h] = e[h] /\ x[h] = e[h]
  BY <1>1 DEF Engines
<1>4. Bare(fs) /\ Bare(<<>>) /\ Acking(fs, e.recv) /\ Acking(<<>>, e.recv)
  <2>1. Acking(fs, x.recv)
    BY AckingParts
  <2> QED BY <1>3, <2>1, BareOne, AckingParts
<1> HIDE DEF x, y, fs
<1>5. Apart(e, Ret(x)) /\ Apart(e, Write(y, fs))
  <2>1. Apart(e, Ret(x))
    BY <1>3, <1>4 DEF Apart, Ret
  <2> QED BY <1>3, <1>4, <2>1, ApartWrite
<1>6. Ret(x).out = <<>> /\ Write(y, fs).out = fs
  BY DEF Ret, Write
<1>7. Apart(e, r) /\ Acking(r.out, e.recv) /\ (e.state # "Normal" => r = Ret(x) /\ r.out = <<>>)
  BY <1>4, <1>5, <1>6
<1> HIDE DEF r
<1>8. e' = r.e
  BY <1>2, Zenon DEF Becomes
<1>9. Orderly(e, r)
  BY <1>1, <1>2, <1>7, OrderlyApart
<1>10. Pristine(r.e) /\ Spare(r.e)
  BY <1>2, <1>9 DEF Calms, Quiet, Orderly
<1>11. CASE Greets(e, out, in, p)
  <2>1. e.state # "Normal"
    BY <1>11 DEF Greets
  <2>2. Greets(e', out', in', p')
    BY <1>2, <1>3, <1>7, <1>11, <2>1, GreetsOn
  <2> QED BY <1>8, <1>10, <2>2 DEF Calms
<1>12. CASE Talks(e, out, in, p)
  <2>1. /\ r.e.state = e.state /\ r.e.recv = e.recv /\ r.e.acked = e.acked
        /\ (Retains(r.e) => Retains(e))
    BY <1>2, <1>7 DEF Quiet, Apart, Retains
  <2>2. Talks(e', out', in', p')
    BY <1>2, <1>7, <1>9, <1>12, <2>1, TalksOn
  <2> QED BY <1>8, <1>10, <2>2 DEF Calms
<1> QED BY <1>11, <1>12 DEF Calms

LEMMA WhenQuiet ==
  ASSUME TInv, faults' = faults, Punctual /\ Fires PROVE out = <<>> /\ in = <<>> /\ ~p.owes
<1>1. faults \in Int
  BY Iap2LinkAssumption DEF TInv
<1> QED BY <1>1 DEF Punctual, Fires, Early

LEMMA TimersCalm ==
  ASSUME ShortWindow, SInv, Calms(e, out, in, p), faults' = faults,
         DetectAgain \/ NegotiateAgain \/ ExpectAckTimer
  PROVE  Calms(e', out', in', p')
<1>1. TInv /\ EngineOK(e) /\ e \in Engines
  BY DEF SInv, TInv, EngineOK
<1>2. Punctual /\ Fires
  BY DEF DetectAgain, NegotiateAgain, ExpectAckTimer
<1>3. out = <<>> /\ in = <<>> /\ ~p.owes
  BY <1>1, <1>2, WhenQuiet
<1>4. Talks(e, out, in, p) => /\ Settled(e, <<>>, p.recv) /\ Consecutive(<<>>, p.recv, e.sent)
  BY <1>3 DEF Talks
<1>5. Talks(e, out, in, p) => /\ e.state \notin Starting /\ (Retains(e) => e.acked = p.recv)
                              /\ p.recv = e.sent
  BY <1>4, SettledEmpty, ConsecutiveEmpty
<1>6. \A f, g : <<f>> # <<>> /\ <<f, g>> # <<>>
  OBVIOUS
<1>7. Greets(e, out, in, p) => e.state = "Idle"
  BY <1>3, <1>6 DEF Greets
<1>8. ExpectAckTimer
  <2>1. e.state \notin {"Detect", "Negotiate"}
    BY <1>5, <1>7 DEF Calms, Starting
  <2> QED BY <2>1 DEF DetectAgain, NegotiateAgain
<1>9. e.unack = <<>> \/ e.state # "Normal"
  <2> SUFFICES ASSUME e.state = "Normal" PROVE e.unack = <<>>
    OBVIOUS
  <2>1. Talks(e, out, in, p)
    BY <1>7 DEF Calms
  <2>2. CASE ~Retains(e)
    BY <2>2 DEF Calms, Spare
  <2>3. CASE Retains(e)
    <3>1. PICK a \in Nat : Numbered(e, a)
      BY <2>3 DEF SInv
    <3>2. e.sent = e.acked
      BY <1>5, <2>1, <2>3
    <3>3. Distance(e.sent, e.acked) = 0
      <4>1. PICK s \in 0 .. 255 : s = e.sent
        BY <1>1, SentIs DEF Psn
      <4>2. (s - s) % 256 = 0
        OBVIOUS
      <4> QED BY <3>2, <4>1, <4>2 DEF Distance
    <3>4. Len(e.unack) = 0
      BY <1>1, <3>1, <3>3, InFlight
    <3>5. PICK g, X : g = e.unack /\ X = Packets
      OBVIOUS
    <3>6. g \in Seq(X) /\ Len(g) = 0
      BY <1>1, <3>4, <3>5, UnackLen DEF Engines
    <3>7. g = <<>>
      BY <3>6, EmptySeq
    <3> QED BY <3>5, <3>7
  <2> QED BY <2>2, <2>3
<1> DEFINE y == [e EXCEPT !.resend = FALSE]
<1>10. Becomes(Ret(y)) /\ p' = p /\ in' = in
  <2>1. OnExpectAckTimer(e) = Ret(y)
    BY <1>9 DEF OnExpectAckTimer
  <2> QED BY <1>8, <2>1 DEF ExpectAckTimer, phone
<1>11. /\ y \in Engines /\ y.state = e.state /\ y.lsp = e.lsp /\ y.sent = e.sent
       /\ y.recv = e.recv /\ y.acked = e.acked /\ y.unack = e.unack /\ y.due = e.due
       /\ y.held = e.held /\ y.cum = e.cum /\ y.marker = e.marker
  BY <1>1 DEF Engines
<1> HIDE DEF y
<1>12. EngineOK(y) /\ RetOK(Ret(y))
  BY <1>1, <1>11, SameAligned, RetIsOK
<1>13. Pristine(y) /\ Spare(y)
  BY <1>11 DEF Calms, Pristine, Marked, Blank, Spare, Retains
<1>14. e' = y /\ Ret(y).e = y /\ Ret(y).out = <<>>
  <2>1. Ret(y).e = y /\ Ret(y).out = <<>>
    BY DEF Ret
  <2>2. e' = Ret(y).e
    BY <1>10, Zenon DEF Becomes
  <2> QED BY <2>1, <2>2
<1>15. CASE Greets(e, out, in, p)
  <2>1. Greets(e', out', in', p')
    BY <1>1, <1>10, <1>11, <1>15, GreetsOn
  <2> QED BY <1>13, <1>14, <2>1 DEF Calms
<1>16. CASE Talks(e, out, in, p)
  <2>1. Orderly(e, Ret(y))
    BY <1>1, <1>11, <1>13, OrderlyRet
  <2>2. Acking(<<>>, e.recv) /\ (Retains(y) => Retains(e))
    BY <1>11, AckingParts DEF Retains
  <2>3. Talks(e', out', in', p')
    BY <1>1, <1>10, <1>11, <1>12, <1>14, <1>16, <2>1, <2>2, TalksOn
  <2> QED BY <1>13, <1>14, <2>3 DEF Calms
<1> QED BY <1>15, <1>16 DEF Calms

LEMMA EnterParts ==
  ASSUME NEW x \in Engines
  PROVE  LET r == EnterNegotiate(x)
         IN  /\ r.e.state = "Negotiate" /\ r.e.unack = x.unack /\ r.e.lsp = x.lsp
             /\ r.out = <<SynOf(r.e)>>
<1> DEFINE y == [x EXCEPT !.state = "Negotiate", !.marker = FALSE]
           r == Write(y, <<SynOf(y)>>)
<1>1. /\ y \in Engines /\ y.state = "Negotiate" /\ y.unack = x.unack /\ y.lsp = x.lsp
  BY DEF Engines
<1>2. EnterNegotiate(x) = r
  BY DEF EnterNegotiate
<1> HIDE DEF y
<1>3. r.out = <<SynOf(y)>> /\ \A h \in Fields \ {"cum"} : r.e[h] = y[h]
  BY <1>1, WriteParts
<1> HIDE DEF r
<1>4. SynOf(r.e) = SynOf(y) /\ r.e.state = y.state /\ r.e.unack = y.unack /\ r.e.lsp = y.lsp
  BY <1>3 DEF SynOf, Fields
<1> QED BY <1>1, <1>2, <1>3, <1>4

LEMMA SingleTail == \A f : Head(<<f>>) = f /\ Tail(<<f>>) = <<>> /\ <<f>> # <<>>
OBVIOUS
LEMMA PairTail == \A f, g : Head(<<f, g>>) = f /\ Tail(<<f, g>>) = <<g>> /\ <<f, g>> # <<>>
OBVIOUS

LEMMA Pair ==
  ASSUME NEW X, NEW a \in X, NEW b \in X PROVE <<a>> \o <<b>> = <<a, b>>
<1>1. <<a>> \in Seq(X) /\ Len(<<a>>) = 1 /\ <<b>> \in Seq(X) /\ Len(<<b>>) = 1
      /\ <<a>>[1] = a /\ <<b>>[1] = b
  OBVIOUS
<1>2. <<a, b>> \in Seq(X) /\ Len(<<a, b>>) = 2 /\ <<a, b>>[1] = a /\ <<a, b>>[2] = b
  OBVIOUS
<1>3. PICK s, t, u : s = <<a>> /\ t = <<b>> /\ u = <<a, b>>
  OBVIOUS
<1>4. s \o t \in Seq(X) /\ Len(s \o t) = 2
      /\ \A i \in 1 .. 2 : (s \o t)[i] = IF i <= 1 THEN s[i] ELSE t[i - 1]
  BY <1>1, <1>3, ConcatProperties
<1>5. \A i \in 1 .. 2 : i = 1 \/ i = 2
  OBVIOUS
<1>6. (s \o t)[1] = a /\ (s \o t)[2] = b
  BY <1>1, <1>3, <1>4
<1>7. s \o t = u
  BY <1>2, <1>3, <1>4, <1>5, <1>6, SeqEqual
<1> QED BY <1>3, <1>7

(* The first frames, written to a phone that has none on its way.           *)
LEMMA FirstWritten ==
  ASSUME TInv, out = <<>>, NEW r, RetOK(r), Becomes(r), r.e.state # "Dead"
  PROVE  e' = r.e /\ out' = r.out
<1>1. e' = r.e /\ out' = out \o r.out
  BY Zenon DEF Becomes
<1>2. PICK g, X : g = r.out /\ X = Frames(MaxOut)
  OBVIOUS
<1>3. g \in Seq(X)
  BY <1>2 DEF RetOK
<1>4. <<>> \o g = g
  BY <1>3, ConcatEmptySeq
<1> QED BY <1>1, <1>2, <1>4

LEMMA StartCalms ==
  ASSUME TInv, Calms(e, out, in, p), NEW initiate \in BOOLEAN, Start(initiate)
  PROVE  Calms(e', out', in', p')
<1> DEFINE y == [e EXCEPT !.state = "Detect"]
           r == Write(y, <<Marker>>)
           n == EnterNegotiate(r.e)
           s == Then(r, n)
<1>1. EngineOK(e) /\ e \in Engines /\ e.state = "Idle" /\ p' = p /\ in' = in
      /\ Becomes(IF initiate THEN s ELSE r)
  BY DEF TInv, EngineOK, Start, phone
<1>2. out = <<>> /\ in = <<>> /\ Greets(e, out, in, p) /\ Pristine(e) /\ Spare(e)
  BY <1>1 DEF Calms, Greets, Talks
<1>3. /\ y \in Engines /\ y.state = "Detect" /\ y.unack = e.unack /\ y.lsp = e.lsp
      /\ y.due = e.due
  BY <1>1 DEF Engines
<1>4. RetOK(r) /\ Quiet(e, r) /\ Quiet(e, s)
  <2>1. EngineOK(y)
    BY <1>1, <1>3, SameAligned
  <2> QED BY <1>1, <1>2, <2>1, MarkerWritten, StartQuiet
<1> HIDE DEF y
<1>5. r.out = <<Marker>> /\ r.e.state = "Detect" /\ r.e.unack = e.unack /\ r.e.lsp = e.lsp
  <2>1. r.out = <<Marker>> /\ \A h \in Fields \ {"cum"} : r.e[h] = y[h]
    BY <1>3, WriteParts
  <2> QED BY <1>3, <2>1 DEF Fields
<1>6. Pristine(r.e) /\ Pristine(s.e)
  BY <1>2, <1>4 DEF Quiet
<1> HIDE DEF r
<1>7. RetOK(n) /\ r.e \in Engines
  BY <1>4, <1>5, EnterNegotiateOK DEF RetOK, EngineOK
<1>8. n.e.state = "Negotiate" /\ n.e.unack = e.unack /\ n.e.lsp = e.lsp /\ n.out = <<SynOf(n.e)>>
  BY <1>5, <1>7, EnterParts
<1> HIDE DEF n
<1>9. s.e = n.e /\ s.out = <<Marker, SynOf(n.e)>> /\ RetOK(s)
  <2>1. PICK f : f = SynOf(n.e)
    OBVIOUS
  <2>2. <<Marker>> \o <<f>> = <<Marker, f>>
    <3>1. PICK m, X : m = Marker /\ X = Frames(MaxOut)
      OBVIOUS
    <3>2. <<m>> \in Seq(X) /\ f \in X
      <4>1. <<m>> \in Seq(X) /\ n.out \in Seq(X)
        BY <1>4, <1>5, <1>7, <3>1 DEF RetOK
      <4>2. <<f>> \in Seq(X)
        BY <1>8, <2>1, <4>1
      <4>3. f \in X
        BY <4>2, SingleTail, RangeTail
      <4> QED BY <4>1, <4>3
    <3>3. m \in X
      BY <3>2, SingleTail, RangeTail
    <3>4. <<m>> \o <<f>> = <<m, f>>
      BY ONLY <3>2, <3>3, Pair
    <3> QED BY <3>1, <3>4
  <2>3. s.e = n.e /\ s.out = r.out \o n.out
    BY DEF Then
  <2> QED BY <1>4, <1>5, <1>7, <1>8, <2>1, <2>2, <2>3, ThenOK
<1> HIDE DEF s
<1>10. CASE initiate
  <2>1. e' = s.e /\ out' = s.out
    BY <1>1, <1>2, <1>8, <1>9, <1>10, FirstWritten
  <2>2. Greets(e', out', in', p')
    BY <1>1, <1>2, <1>8, <1>9, <2>1 DEF Greets
  <2>3. Spare(e')
    BY <1>2, <1>8, <1>9, <2>1 DEF Spare, Retains
  <2> QED BY <1>6, <2>1, <2>2, <2>3 DEF Calms
<1>11. CASE ~initiate
  <2>1. e' = r.e /\ out' = r.out
    BY <1>1, <1>2, <1>4, <1>5, <1>11, FirstWritten
  <2>2. Greets(e', out', in', p')
    BY <1>1, <1>2, <1>5, <2>1 DEF Greets
  <2>3. Spare(e')
    BY <1>2, <1>5, <2>1 DEF Spare, Retains
  <2> QED BY <1>6, <2>1, <2>2, <2>3 DEF Calms
<1> QED BY <1>10, <1>11

LEMMA CleanTail ==
  ASSUME NEW X, NEW fs \in Seq(X), fs # <<>>
  PROVE  /\ Clean(fs) => /\ Clean(Tail(fs)) /\ "RST" \notin Head(fs).bits
                         /\ "EAK" \notin Head(fs).bits
                         /\ "SYN" \in Head(fs).bits => Head(fs).seq = FirstPsn
         /\ Plain(fs) => Plain(Tail(fs)) /\ Head(fs).m = NoMsg
         /\ \A v : Acking(fs, v) =>
              Acking(Tail(fs), v) /\ "ACK" \in Head(fs).bits /\ Head(fs).ack = v
         /\ (\A i \in 1 .. Len(fs) : "SYN" \notin fs[i].bits) =>
              /\ "SYN" \notin Head(fs).bits
              /\ \A i \in 1 .. Len(Tail(fs)) : "SYN" \notin Tail(fs)[i].bits
<1>1. PICK n, t, f : n = Len(fs) /\ t = Tail(fs) /\ f = Head(fs)
  OBVIOUS
<1>2. /\ f = fs[1] /\ n \in Nat /\ n > 0 /\ Len(t) = n - 1
      /\ \A j \in 1 .. n - 1 : t[j] = fs[j + 1]
  BY <1>1, RangeTail
<1>3. 1 \in 1 .. n /\ \A j \in 1 .. n - 1 : j + 1 \in 1 .. n
  BY <1>2
<1>4. Clean(fs) => Clean(t) /\ "RST" \notin f.bits /\ "EAK" \notin f.bits
                            /\ ("SYN" \in f.bits => f.seq = FirstPsn)
  BY <1>1, <1>2, <1>3 DEF Clean
<1>5. Plain(fs) => Plain(t) /\ f.m = NoMsg
  BY <1>1, <1>2, <1>3 DEF Plain
<1>6. \A v : Acking(fs, v) => Acking(t, v) /\ "ACK" \in f.bits /\ f.ack = v
  BY <1>1, <1>2, <1>3 DEF Acking
<1>7. (\A i \in 1 .. Len(fs) : "SYN" \notin fs[i].bits) =>
         "SYN" \notin f.bits /\ \A i \in 1 .. Len(t) : "SYN" \notin t[i].bits
  BY <1>1, <1>2, <1>3
<1> QED BY <1>1, <1>4, <1>5, <1>6, <1>7



(* A marker that comes after the first is skipped.                          *)
LEMMA Skips ==
  ASSUME TInv, Becomes(Ret(e)) PROVE e' = e /\ out' = out
<1>1. Ret(e).e = e /\ Ret(e).out = <<>>
  BY DEF Ret
<1>2. e' = e /\ out' = IF e.state = "Dead" THEN out ELSE out \o <<>>
  BY <1>1, Zenon DEF Becomes
<1>3. PICK g, X : g = out /\ X = Frames(MaxOut)
  OBVIOUS
<1>4. g \in Seq(X)
  BY <1>3 DEF TInv
<1>5. g \o <<>> = g
  BY <1>4, ConcatEmptySeq
<1> QED BY <1>2, <1>3, <1>5

LEMMA AnswersAre ==
  ASSUME NEW v, NEW i \in Answers(v)
  PROVE  i # <<>> /\ Head(i) # Marker /\ "SYN" \in Head(i).bits
<1>1. /\ "SYN" \in Both(v).bits /\ "SYN" \in Syn(v).bits /\ "SYN" \notin Marker.bits
  BY DEF Both, Syn, Marker, Frame
<1>2. Head(i) \in {Both(v), Syn(v)} /\ i # <<>>
  BY SingleTail, PairTail DEF Answers
<1> QED BY <1>1, <1>2

LEMMA MarkerSkips ==
  ASSUME TInv, Talks(e, out, in, p), in # <<>>, Head(in) = Marker,
         e' = e, out' = out, in' = Tail(in), p' = p
  PROVE  Talks(e', out', in', p')
<1>1. in \in Seq(Frames(MaxIn)) /\ "ACK" \notin Marker.bits
  BY DEF TInv, Marker, Frame
<1>2. Clean(in')
  BY <1>1, CleanTail DEF Talks
<1>3. ASSUME ~p.owes PROVE Settled(e, in', p.recv)
  <2>1. Settled(e, in, p.recv) /\ "ACK" \notin Head(in).bits
    BY <1>1, <1>3 DEF Talks
  <2>2. Settled(e, Tail(in), p.recv)
    BY <1>1, <2>1, SettledTail
  <2> QED BY <2>2
<1>4. ASSUME ~p.open PROVE Unopened(e, out, in', p)
  <2>1. Unopened(e, out, in, p)
    BY <1>4 DEF Talks
  <2>2. Plain(in')
    BY <1>1, <2>1, CleanTail DEF Unopened
  <2>3. Unread(e, out, in, p.recv) => Unread(e, out, in', p.recv)
    BY AnswersAre DEF Unread
  <2> QED BY <2>1, <2>2, <2>3 DEF Unopened
<1> QED BY <1>2, <1>3, <1>4 DEF Talks

LEMMA FrameTalks ==
  ASSUME TInv, Pristine(e), Talks(e, out, in, p), in # <<>>, Head(in) # Marker,
         Becomes(ProcessFrame(e, Head(in))), in' = Tail(in), p' = p
  PROVE  Talks(e', out', in', p') /\ Pristine(e') /\ (Spare(e) => Spare(e'))
<1> DEFINE f == Head(in)
           r == ProcessFrame(e, f)
<1>1. EngineOK(e) /\ in \in Seq(Frames(MaxIn)) /\ f \in Frames(MaxIn)
      /\ e.state \in {"Negotiate", "Normal"} /\ out \in Seq(Frames(MaxOut))
  BY RangeTail DEF TInv, Talks
<1>2. /\ Clean(in') /\ "RST" \notin f.bits /\ "EAK" \notin f.bits
      /\ "SYN" \in f.bits => f.seq = FirstPsn
  BY <1>1, CleanTail DEF Talks
<1> HIDE DEF f
<1>3. RetOK(r)
  BY <1>1, ProcessFrameOK
<1>4. /\ Orderly(e, r) /\ Pristine(r.e) /\ r.e.state \in {"Negotiate", "Normal"}
      /\ Retains(r.e) => r.e.acked = IF "ACK" \in f.bits THEN f.ack ELSE e.acked
      /\ r.e.state \in Starting => "ACK" \notin f.bits /\ e.state = "Negotiate"
      /\ f.m = NoMsg => /\ r.e.recv = IF Synchronizes(e, f) THEN f.seq ELSE e.recv
                        /\ Acking(r.out, r.e.recv)
  BY <1>1, <1>2, FrameOrderly
<1>5. e.state \notin Starting /\ Retains(r.e) => Retains(e)
  <2> SUFFICES ASSUME e.state \notin Starting PROVE r.e.lsp = e.lsp
    BY DEF Retains
  <2>1. r.e.lsp = SynPart(e, f).e.lsp
    BY <1>1, <1>2, FrameLsp
  <2>2. SynPart(e, f) = Ret(e)
    BY DEF SynPart, HandleSyn, Starting
  <2> QED BY <2>1, <2>2 DEF Ret
<1> HIDE DEF r
<1>6. ASSUME ~p.owes PROVE Settled(r.e, in', p.recv)
  <2>1. Settled(e, in, p.recv)
    BY <1>6 DEF Talks
  <2>2. "ACK" \in f.bits => r.e.state \notin Starting /\ (Retains(r.e) => r.e.acked = f.ack)
    BY <1>4
  <2>3. "ACK" \notin f.bits /\ e.state \notin Starting =>
          r.e.state \notin Starting /\ (Retains(r.e) => Retains(e) /\ r.e.acked = e.acked)
    BY <1>4, <1>5 DEF Starting
  <2>4. Settled(r.e, Tail(in), p.recv)
    BY <1>1, <2>1, <2>2, <2>3, SettledTail DEF f
  <2> QED BY <2>4
<1>7. ASSUME ~p.open PROVE Unopened(r.e, out \o r.out, in', p)
  <2>1. Unopened(e, out, in, p)
    BY <1>7 DEF Talks
  <2>2. Plain(in') /\ f.m = NoMsg
    BY <1>1, <2>1, CleanTail DEF Unopened, f
  <2>3. /\ r.e.recv = IF Synchronizes(e, f) THEN f.seq ELSE e.recv
        /\ Acking(r.out, r.e.recv)
    BY <1>4, <2>2
  <2>4. r.e.recv = FirstPsn
    <3>1. CASE e.recv = FirstPsn
      BY <1>2, <2>3, <3>1 DEF Synchronizes
    <3>2. CASE Unread(e, out, in, p.recv)
      <4>1. "SYN" \in f.bits /\ e.state = "Negotiate"
        BY <3>2, AnswersAre DEF Unread, f
      <4> QED BY <1>2, <2>3, <4>1 DEF Synchronizes
    <3> QED BY <2>1, <3>1, <3>2 DEF Unopened
  <2>5. r.out \in Seq(Frames(MaxOut)) /\ Acking(out, FirstPsn) /\ Acking(r.out, FirstPsn)
    BY <1>3, <2>1, <2>3, <2>4 DEF RetOK, Unopened
  <2>6. Acking(out \o r.out, FirstPsn)
    BY <1>1, <2>5, AckingConcat
  <2> QED BY <2>1, <2>2, <2>4, <2>6 DEF Unopened
<1>8. Becomes(r)
  BY DEF r, f
<1>9. Talks(e', out', in', p')
  BY <1>2, <1>3, <1>4, <1>6, <1>7, <1>8, TalksEngine
<1>10. e' = r.e
  BY <1>8, Zenon DEF Becomes
<1> QED BY <1>4, <1>9, <1>10 DEF Orderly

LEMMA TakeCalms ==
  ASSUME TInv, Calms(e, out, in, p), Take PROVE Calms(e', out', in', p')
<1>1. /\ in # <<>> /\ in' = Tail(in) /\ Becomes(Feed(e, Head(in))) /\ p' = p
      /\ EngineOK(e) /\ e \in Engines
  BY DEF Take, phone, TInv, EngineOK
<1>2. CASE Greets(e, out, in, p)
  <2>1. /\ Head(in) = Marker /\ in' = <<>>
        /\ \/ e.state = "Detect" /\ out = <<>>
           \/ e.state = "Negotiate" /\ out = <<SynOf(e)>>
    BY <1>1, <1>2, SingleTail DEF Greets
  <2>2. CASE e.state = "Detect" /\ out = <<>>
    <3> DEFINE r == EnterNegotiate(e)
    <3>1. Feed(e, Head(in)) = r
      BY <2>1, <2>2 DEF Feed, Calms, Pristine, Marked
    <3>2. RetOK(r) /\ Quiet(e, r) /\ r.e.state = "Negotiate" /\ r.e.unack = e.unack
          /\ r.e.lsp = e.lsp /\ r.out = <<SynOf(r.e)>>
      BY <1>1, <2>2, EnterNegotiateOK, EnterNegotiateQuiet, EnterParts
    <3>3. Becomes(r)
      BY <1>1, <3>1
    <3> HIDE DEF r
    <3>4. e' = r.e /\ out' = r.out
      BY <2>2, <3>2, <3>3, FirstWritten
    <3>5. Pristine(e') /\ Spare(e')
      BY <3>2, <3>4 DEF Quiet, Calms, Spare, Retains
    <3>6. Greets(e', out', in', p')
      BY <1>1, <1>2, <2>1, <3>2, <3>4 DEF Greets
    <3> QED BY <3>5, <3>6 DEF Calms
  <2>3. CASE e.state = "Negotiate" /\ out = <<SynOf(e)>>
    <3>1. Feed(e, Head(in)) = Ret(e)
      BY <2>1, <2>3 DEF Feed, Calms, Pristine, Marked
    <3>2. e' = e /\ out' = out
      BY <1>1, <3>1, Skips
    <3>3. Greets(e', out', in', p')
      BY <1>1, <1>2, <2>1, <2>3, <3>2 DEF Greets
    <3> QED BY <3>2, <3>3 DEF Calms
  <2> QED BY <2>1, <2>2, <2>3
<1>3. CASE Talks(e, out, in, p)
  <2>1. ~e.marker
    BY <1>3 DEF Talks, Calms, Pristine, Marked
  <2>2. CASE Head(in) = Marker
    <3>1. Feed(e, Head(in)) = Ret(e)
      BY <2>1, <2>2 DEF Feed
    <3>2. e' = e /\ out' = out
      BY <1>1, <3>1, Skips
    <3>3. Talks(e', out', in', p')
      BY <1>1, <1>3, <2>2, <3>2, MarkerSkips
    <3> QED BY <3>2, <3>3 DEF Calms
  <2>3. CASE Head(in) # Marker
    <3>1. Feed(e, Head(in)) = ProcessFrame(e, Head(in))
      BY <2>1, <2>3 DEF Feed
    <3>2. Talks(e', out', in', p') /\ Pristine(e') /\ (Spare(e) => Spare(e'))
      BY <1>1, <1>3, <2>3, <3>1, FrameTalks DEF Calms
    <3> QED BY <3>2 DEF Calms
  <2> QED BY <2>2, <2>3
<1> QED BY <1>2, <1>3 DEF Calms

-----------------------------------------------------------------------------
(* The phone: what it writes on a link in use acknowledges all it has heard. *)
Replies(fs, v) == Clean(fs) /\ Says(fs, v)

LEMMA RepliesConcat ==
  ASSUME NEW X, NEW fs \in Seq(X), NEW gs \in Seq(X)
  PROVE  /\ Clean(fs) /\ Clean(gs) => Clean(fs \o gs)
         /\ Plain(fs) /\ Plain(gs) => Plain(fs \o gs)
         /\ \A v : Replies(fs, v) /\ Replies(gs, v) => Replies(fs \o gs, v)
<1>1. PICK n \in Nat, k \in Nat : n = Len(fs) /\ k = Len(gs)
  BY SeqParts
<1>2. PICK h : h = fs \o gs
  OBVIOUS
<1>3. Len(h) = n + k /\ \A j \in 1 .. n + k : h[j] = IF j <= n THEN fs[j] ELSE gs[j - n]
  BY <1>1, <1>2, ConcatProperties
<1>4. ASSUME NEW j \in 1 .. n + k
      PROVE  \/ j \in 1 .. n /\ h[j] = fs[j]
             \/ j - n \in 1 .. k /\ h[j] = gs[j - n]
  <2>1. \/ j \in 1 .. n /\ j <= n
        \/ j - n \in 1 .. k /\ ~(j <= n)
    OBVIOUS
  <2> QED BY <1>3, <2>1
<1>5. Clean(fs) /\ Clean(gs) => Clean(h)
  <2> SUFFICES ASSUME Clean(fs), Clean(gs), NEW j \in 1 .. n + k
               PROVE  /\ "RST" \notin h[j].bits /\ "EAK" \notin h[j].bits
                      /\ "SYN" \in h[j].bits => h[j].seq = FirstPsn
    BY <1>3 DEF Clean
  <2>1. \A i \in 1 .. n : /\ "RST" \notin fs[i].bits /\ "EAK" \notin fs[i].bits
                          /\ "SYN" \in fs[i].bits => fs[i].seq = FirstPsn
    BY <1>1 DEF Clean
  <2>2. \A i \in 1 .. k : /\ "RST" \notin gs[i].bits /\ "EAK" \notin gs[i].bits
                          /\ "SYN" \in gs[i].bits => gs[i].seq = FirstPsn
    BY <1>1 DEF Clean
  <2> QED BY <1>4, <2>1, <2>2, Zenon
<1>6. Plain(fs) /\ Plain(gs) => Plain(h)
  <2> SUFFICES ASSUME Plain(fs), Plain(gs), NEW j \in 1 .. n + k PROVE h[j].m = NoMsg
    BY <1>3 DEF Plain
  <2>1. (\A i \in 1 .. n : fs[i].m = NoMsg) /\ \A i \in 1 .. k : gs[i].m = NoMsg
    BY <1>1 DEF Plain
  <2> QED BY <1>4, <2>1, Zenon
<1>7. \A v : Says(fs, v) /\ Says(gs, v) => Says(h, v)
  BY <1>2, SaysConcat
<1> QED BY <1>2, <1>5, <1>6, <1>7 DEF Replies

LEMMA OneReply ==
  ASSUME NEW f, NEW v, "RST" \notin f.bits, "EAK" \notin f.bits,
         "SYN" \in f.bits => f.seq = FirstPsn, "ACK" \in f.bits => f.ack = v
  PROVE  Replies(<<f>>, v)
<1>1. Len(<<f>>) = 1 /\ <<f>>[1] = f /\ \A i \in 1 .. 1 : i = 1
  OBVIOUS
<1>2. Clean(<<f>>)
  BY <1>1, Zenon DEF Clean
<1>3. Says(<<f>>, v)
  BY <1>1, Zenon DEF Says
<1> QED BY <1>2, <1>3 DEF Replies

LEMMA PhoneReplies ==
  ASSUME NEW q
  PROVE  /\ \A k : Replies(<<PhoneData(q, k)>>, q.recv) /\ "ACK" \in PhoneData(q, k).bits
         /\ Replies(<<PhoneAck(q)>>, q.recv) /\ "ACK" \in PhoneAck(q).bits
         /\ \A v : Replies(<<Both(v)>>, v) /\ Replies(<<Syn(v)>>, v)
                   /\ "ACK" \in Both(v).bits /\ Both(v).m = NoMsg
                   /\ Syn(v).m = NoMsg /\ PhoneAck(q).m = NoMsg
<1>1. \A k : PhoneData(q, k).bits = {"ACK"} /\ PhoneData(q, k).ack = q.recv
  BY DEF PhoneData, Frame
<1>2. \A k : Replies(<<PhoneData(q, k)>>, q.recv)
  BY <1>1, OneReply
<1>3. PhoneAck(q).bits = {"ACK"} /\ PhoneAck(q).ack = q.recv /\ PhoneAck(q).m = NoMsg
  BY DEF PhoneAck, Frame
<1>4. Replies(<<PhoneAck(q)>>, q.recv)
  BY <1>3, OneReply
<1>5. ASSUME NEW v
      PROVE  /\ Replies(<<Both(v)>>, v) /\ Replies(<<Syn(v)>>, v)
             /\ "ACK" \in Both(v).bits /\ Both(v).m = NoMsg /\ Syn(v).m = NoMsg
  <2>1. /\ Both(v).bits = {"SYN", "ACK"} /\ Both(v).ack = v /\ Both(v).seq = FirstPsn
        /\ Both(v).m = NoMsg
    BY DEF Both, Frame
  <2>2. Syn(v).bits = {"SYN"} /\ Syn(v).ack = v /\ Syn(v).seq = FirstPsn /\ Syn(v).m = NoMsg
    BY DEF Syn, Frame
  <2>3. Replies(<<Both(v)>>, v)
    BY <2>1, OneReply
  <2>4. Replies(<<Syn(v)>>, v)
    BY <2>2, OneReply
  <2> QED BY <2>1, <2>2, <2>3, <2>4
<1> QED BY <1>1, <1>2, <1>3, <1>4, <1>5

(* All that is not acknowledged.                                            *)
LEMMA MissedReplies ==
  ASSUME NEW q, PhoneOK(q), NEW fs \in Seq(Frames(MaxIn)), Range(fs) \in SUBSET Range(Missed(q))
  PROVE  Replies(fs, q.recv)
<1>1. /\ Missed(q) \in Seq(Frames(MaxIn)) /\ Len(Missed(q)) = q.sent - q.acked
      /\ \A j \in 1 .. q.sent - q.acked : Missed(q)[j] = PhoneData(q, q.acked + j)
  BY PhoneFrames
<1>2. DOMAIN Missed(q) = 1 .. Len(Missed(q))
  BY <1>1, SeqParts
<1>3. ASSUME NEW f \in Range(Missed(q)) PROVE f.bits = {"ACK"} /\ f.ack = q.recv
  <2>1. PICK j \in 1 .. q.sent - q.acked : f = PhoneData(q, q.acked + j)
    BY <1>1, <1>2 DEF Range
  <2> QED BY <2>1 DEF PhoneData, Frame
<1>4. ASSUME NEW i \in 1 .. Len(fs) PROVE fs[i].bits = {"ACK"} /\ fs[i].ack = q.recv
  <2>1. fs[i] \in Range(fs)
    BY SeqParts DEF Range
  <2> QED BY <1>3, <2>1
<1> QED BY <1>4 DEF Replies, Clean, Says

LEMMA TalksWrites ==
  ASSUME TInv, Talks(e, out, in, p), NEW fs \in Seq(Frames(MaxIn)), in' = in \o fs,
         e' = e, out' = out, Replies(fs, p.recv), p'.recv = p.recv, p'.open = p.open,
         ~p'.owes => ~p.owes \/ \E i \in 1 .. Len(fs) : "ACK" \in fs[i].bits,
         p.open \/ (e.recv = FirstPsn /\ Plain(fs) /\ p' = p)
  PROVE  Talks(e', out', in', p')
<1>1. in \in Seq(Frames(MaxIn))
  BY DEF TInv
<1>2. Clean(in')
  BY <1>1, RepliesConcat DEF Replies, Talks
<1>3. ASSUME ~p'.owes PROVE Settled(e, in', p.recv)
  <2>1. Settled(e, in, p.recv) \/ \E i \in 1 .. Len(fs) : "ACK" \in fs[i].bits
    BY <1>3 DEF Talks
  <2>2. Settled(e, in \o fs, p.recv)
    BY <1>1, <2>1, SettledConcat DEF Replies
  <2> QED BY <2>2
<1>4. ASSUME ~p.open PROVE Unopened(e, out, in', p')
  <2>1. Unopened(e, out, in, p) /\ e.recv = FirstPsn /\ Plain(fs) /\ p' = p
    BY <1>4 DEF Talks
  <2>2. Plain(in')
    BY <1>1, <2>1, RepliesConcat DEF Unopened
  <2> QED BY <2>1, <2>2 DEF Unopened
<1> QED BY <1>2, <1>3, <1>4 DEF Talks

LEMMA PhoneWritesCalms ==
  ASSUME TInv, Calms(e, out, in, p), faults' = faults,
         PhoneSends \/ PhoneAcks \/ PhoneSynAgain \/ PhoneAgain
  PROVE  Calms(e', out', in', p')
<1>1. PhoneOK(p) /\ p \in Phones
  BY TypesHere DEF PhoneOK
<1>2. e' = e /\ out' = out /\ p.recv # None
  BY DEF PhoneSends, PhoneAcks, PhoneSynAgain, PhoneAgain, PhoneWrites, Connected
<1>3. Talks(e, out, in, p)
  BY <1>2 DEF Calms, Greets
<1>4. SUFFICES Talks(e', out', in', p')
  BY <1>2 DEF Calms
<1>5. \A f : Len(<<f>>) = 1 /\ <<f>>[1] = f /\ 1 \in 1 .. 1
  OBVIOUS
<1>6. p.open \/ Unopened(e, out, in, p)
  BY <1>3 DEF Talks
<1>7. CASE PhoneSends
  <2> DEFINE f == PhoneData(p, p.sent + 1)
             q == [p EXCEPT !.sent = @ + 1, !.owes = FALSE]
  <2>1. p' = q /\ in' = in \o <<f>> /\ p.open
    <3>1. p.open /\ PhoneWrites(q, <<f>>)
      BY <1>7 DEF PhoneSends
    <3> HIDE DEF f, q
    <3> QED BY <3>1 DEF PhoneWrites
  <2>2. q.recv = p.recv /\ q.open = p.open
    BY <1>1 DEF Phones
  <2>3. p.sent + 1 \in 1 .. MaxIn
    <3>1. p.sent < MaxIn
      BY <1>7 DEF PhoneSends
    <3>2. p.sent \in Nat /\ MaxIn \in Nat
      BY TypesHere
    <3> HIDE DEF f, q
    <3> QED BY <3>1, <3>2
  <2>4. <<f>> \in Seq(Frames(MaxIn)) /\ Replies(<<f>>, p.recv) /\ "ACK" \in f.bits
    BY <1>1, <2>3, PhoneFrames, PhoneReplies, One
  <2> HIDE DEF f, q
  <2> QED BY <1>2, <1>3, <1>5, <2>1, <2>2, <2>4, TalksWrites
<1>8. CASE PhoneAcks
  <2> DEFINE f == PhoneAck(p)
             q == [p EXCEPT !.owes = FALSE]
  <2>1. p' = q /\ in' = in \o <<f>> /\ p.owes
    BY <1>8 DEF PhoneAcks, PhoneWrites
  <2>2. q.recv = p.recv /\ q.open = p.open
    BY <1>1 DEF Phones
  <2>3. <<f>> \in Seq(Frames(MaxIn)) /\ Replies(<<f>>, p.recv) /\ "ACK" \in f.bits
    BY <1>1, PhoneFrames, PhoneReplies, One
  <2>4. p.open
    BY <1>6, <2>1 DEF Unopened
  <2> HIDE DEF f, q
  <2> QED BY <1>2, <1>3, <1>5, <2>1, <2>2, <2>3, <2>4, TalksWrites
<1>9. CASE PhoneSynAgain
  <2> DEFINE f == Both(p.recv)
  <2>1. p' = p /\ in' = in \o <<f>> /\ ~p.open /\ Punctual /\ Fires
    BY <1>9, SynAndAck DEF PhoneSynAgain, PhoneWrites, PhoneSyn, Both
  <2>2. in = <<>>
    BY <2>1, WhenQuiet
  <2>3. e.recv = FirstPsn
    BY <1>6, <2>1, <2>2, AnswersAre DEF Unopened, Unread
  <2>4. <<f>> \in Seq(Frames(MaxIn)) /\ Replies(<<f>>, p.recv) /\ f.m = NoMsg
    <3>1. f \in Frames(MaxIn)
      BY <1>1, PhoneFrames, FirstIsPsn DEF Both, Bits
    <3> QED BY <3>1, PhoneReplies, One
  <2>5. Plain(<<f>>)
    BY <1>5, <2>4 DEF Plain
  <2> HIDE DEF f
  <2> QED BY <1>2, <1>3, <2>1, <2>3, <2>4, <2>5, TalksWrites
<1>10. CASE PhoneAgain
  <2>1. p' = p /\ in' = in \o Missed(p) /\ p.acked < p.sent
    BY <1>10 DEF PhoneAgain, PhoneWrites
  <2>2. Missed(p) \in Seq(Frames(MaxIn)) /\ Replies(Missed(p), p.recv)
    BY <1>1, PhoneFrames, MissedReplies
  <2>3. p.open
    <3>1. p.acked \in Nat
      BY <1>1, Iap2LinkAssumption DEF Phones
    <3> QED BY <1>6, <2>1, <3>1 DEF Unopened
  <2> QED BY <1>2, <1>3, <2>1, <2>2, <2>3, TalksWrites
<1> QED BY <1>7, <1>8, <1>9, <1>10

LEMMA FirstFrame ==
  ASSUME NEW X, NEW m \in X, NEW s \in Seq(X)
  PROVE  <<m>> \o s # <<>> /\ Head(<<m>> \o s) = m /\ Tail(<<m>> \o s) = s
<1>1. PICK t, h, n : t = <<m>> /\ h = t \o s /\ n = Len(s)
  OBVIOUS
<1>2. t \in Seq(X) /\ Len(t) = 1 /\ t[1] = m /\ n \in Nat
  BY <1>1, SeqParts
<1>3. h \in Seq(X) /\ Len(h) = 1 + n
      /\ \A i \in 1 .. 1 + n : h[i] = IF i <= 1 THEN t[i] ELSE s[i - 1]
  BY <1>1, <1>2, ConcatProperties
<1>4. h # <<>>
  <2>1. Len(<<>>) = 0 /\ 1 + n # 0
    BY <1>2
  <2> QED BY <1>3, <2>1
<1>5. /\ Tail(h) \in Seq(X) /\ Head(h) = h[1] /\ Len(Tail(h)) = (1 + n) - 1
      /\ \A i \in 1 .. (1 + n) - 1 : Tail(h)[i] = h[i + 1]
  BY <1>3, <1>4, RangeTail
<1>6. PICK g : g = Tail(h)
  OBVIOUS
<1>7. ASSUME NEW i \in 1 .. n PROVE g[i] = s[i]
  <2>1. i + 1 \in 1 .. 1 + n /\ ~(i + 1 <= 1) /\ (i + 1) - 1 = i /\ i \in 1 .. (1 + n) - 1
    BY <1>2
  <2> QED BY <1>3, <1>5, <1>6, <2>1
<1>8. Len(g) = n
  BY <1>2, <1>5, <1>6
<1>9. g = s
  BY <1>1, <1>5, <1>6, <1>7, <1>8, SeqEqual
<1>10. Head(h) = m
  <2>1. 1 \in 1 .. 1 + n /\ 1 <= 1
    BY <1>2
  <2> QED BY <1>2, <1>3, <1>5, <2>1
<1> QED BY <1>1, <1>4, <1>6, <1>9, <1>10

LEMMA AnswersReply ==
  ASSUME NEW v \in Psn, NEW a \in Answers(v)
  PROVE  /\ a \in Seq(Frames(MaxIn)) /\ Replies(a, v) /\ Plain(a)
         /\ \E i \in 1 .. Len(a) : "ACK" \in a[i].bits
<1>1. Both(v) \in Frames(MaxIn) /\ Syn(v) \in Frames(MaxIn) /\ Ack(v) \in Frames(MaxIn)
  BY FirstIsPsn, Iap2LinkAssumption DEF Both, Syn, Ack, Frame, Frames, Bits, NoMsg
<1>2. Replies(<<Both(v)>>, v) /\ Replies(<<Syn(v)>>, v) /\ "ACK" \in Both(v).bits
      /\ Both(v).m = NoMsg /\ Syn(v).m = NoMsg
  BY PhoneReplies
<1>3. Ack(v).bits = {"ACK"} /\ Ack(v).ack = v /\ Ack(v).m = NoMsg
  BY DEF Ack, Frame
<1>4. Replies(<<Ack(v)>>, v)
  BY <1>3, OneReply
<1> DEFINE b == Both(v)
           s == Syn(v)
           k == Ack(v)
<1> HIDE DEF b, s, k
<1>5. b \in Frames(MaxIn) /\ Replies(<<b>>, v) /\ "ACK" \in b.bits /\ b.m = NoMsg
  BY <1>1, <1>2 DEF b
<1>6. s \in Frames(MaxIn) /\ Replies(<<s>>, v) /\ s.m = NoMsg
  BY <1>1, <1>2 DEF s
<1>7. k \in Frames(MaxIn) /\ Replies(<<k>>, v) /\ k.m = NoMsg /\ "ACK" \in k.bits
  BY <1>1, <1>3, <1>4 DEF k
<1>8. a = <<b>> \/ a = <<s, k>>
  BY DEF Answers, b, s, k
<1>9. CASE a = <<b>>
  <2>1. /\ <<b>> \in Seq(Frames(MaxIn)) /\ Len(<<b>>) = 1 /\ <<b>>[1] = b
        /\ \A i \in 1 .. 1 : i = 1
    BY <1>5
  <2>2. Plain(<<b>>)
    BY <1>5, <2>1 DEF Plain
  <2>3. \E i \in 1 .. Len(<<b>>) : "ACK" \in <<b>>[i].bits
    BY <1>5, <2>1
  <2> QED BY <1>5, <1>9, <2>1, <2>2, <2>3
<1>10. CASE a = <<s, k>>
  <2>1. /\ <<s>> \in Seq(Frames(MaxIn)) /\ <<k>> \in Seq(Frames(MaxIn))
        /\ <<s, k>> \in Seq(Frames(MaxIn)) /\ <<s>> \o <<k>> = <<s, k>>
    BY <1>6, <1>7, Pair
  <2>2. Replies(<<s>> \o <<k>>, v)
    BY <1>6, <1>7, <2>1, RepliesConcat
  <2>3. /\ Len(<<s, k>>) = 2 /\ <<s, k>>[1] = s /\ <<s, k>>[2] = k
        /\ \A i \in 1 .. 2 : i = 1 \/ i = 2
    OBVIOUS
  <2>4. Plain(<<s, k>>)
    BY <1>6, <1>7, <2>3 DEF Plain
  <2>5. \E i \in 1 .. Len(<<s, k>>) : "ACK" \in <<s, k>>[i].bits
    <3>1. 2 \in 1 .. 2
      OBVIOUS
    <3> QED BY <1>7, <2>3, <3>1
  <2> QED BY <1>10, <2>1, <2>2, <2>4, <2>5
<1> QED BY <1>8, <1>9, <1>10

(* The phone has the SYN: it answers.                                       *)
LEMMA AnswersCalm ==
  ASSUME TInv, Pristine(e), Greets(e, out, in, p), out # <<>>, Head(out) # Marker,
         PhoneAnswers(Head(out)), e' = e, out' = Tail(out)
  PROVE  Talks(e', out', in', p')
<1>1. /\ e.state = "Negotiate" /\ out = <<SynOf(e)>> /\ (in = <<>> \/ in = <<Marker>>)
      /\ ~p.open /\ ~p.owes /\ p.sent = 0
  BY SingleTail, PairTail DEF Greets
<1>2. e.sent = OwnPsn /\ OwnPsn \in Psn /\ OwnPsn # None
  BY <1>1, FirstIsPsn DEF Pristine, Blank, Starting, OwnPsn, None
<1>3. out' = <<>> /\ Head(out) = SynOf(e) /\ SynOf(e).seq = OwnPsn
  BY <1>1, <1>2, SingleTail DEF SynOf, Frame
<1> DEFINE v == OwnPsn
           q == [p EXCEPT !.recv = v]
<1>4. q.recv = v /\ q.sent = 0 /\ ~q.open /\ ~q.owes
  <2>1. p \in Phones
    BY TypesHere
  <2> QED BY <1>1, <2>1 DEF Phones
<1>5. p' = q /\ \E a \in Answers(v) : in' = in \o a
  <2> DEFINE syn == Frame({"SYN"}, FirstPsn, v, NoMsg, {})
  <2>1. /\ p' = q
        /\ \E a \in {<<[syn EXCEPT !.bits = {"SYN", "ACK"}]>>, <<syn, PhoneAck(q)>>} : in' = in \o a
    BY <1>3 DEF PhoneAnswers
  <2>2. [syn EXCEPT !.bits = {"SYN", "ACK"}] = Both(v)
    BY SynAndAck DEF Both
  <2>3. PhoneAck(q) = Ack(v)
    <3>1. PhonePsn(0) = FirstPsn
      <4>1. PICK b \in 0 .. 255 : b = FirstPsn
        BY FirstIsPsn DEF Psn
      <4>2. (b + 0) % 256 = b
        OBVIOUS
      <4> QED BY <4>1, <4>2 DEF PhonePsn, Next8
    <3> QED BY <1>4, <3>1 DEF PhoneAck, Ack
  <2>4. syn = Syn(v)
    BY DEF Syn
  <2> HIDE DEF syn, q
  <2> QED BY <2>1, <2>2, <2>3, <2>4 DEF Answers
<1>6. PICK a \in Answers(v) : in' = in \o a
  BY <1>5
<1> HIDE DEF q
<1>7. /\ a \in Seq(Frames(MaxIn)) /\ Replies(a, v) /\ Plain(a)
      /\ \E i \in 1 .. Len(a) : "ACK" \in a[i].bits
  BY <1>2, AnswersReply
<1>8. in \in Seq(Frames(MaxIn)) /\ Clean(in) /\ Plain(in)
  <2>1. in \in Seq(Frames(MaxIn))
    BY DEF TInv
  <2>2. \A f : Len(<<f>>) = 1 /\ <<f>>[1] = f
    OBVIOUS
  <2>3. Len(<<>>) = 0 /\ (\A i : i \notin 1 .. 0) /\ \A i \in 1 .. 1 : i = 1
    OBVIOUS
  <2>4. Clean(<<>>) /\ Plain(<<>>)
    BY <2>3 DEF Clean, Plain
  <2>5. Marker.bits = {"MARKER"} /\ Marker.m = NoMsg
    BY DEF Marker, Frame
  <2>6. Clean(<<Marker>>) /\ Plain(<<Marker>>)
    BY <2>2, <2>3, <2>5 DEF Clean, Plain
  <2> QED BY <1>1, <2>1, <2>4, <2>6
<1>9. Clean(in') /\ Plain(in') /\ Settled(e, in', v)
  BY <1>6, <1>7, <1>8, RepliesConcat, SettledConcat DEF Replies
<1>10. Unread(e, <<>>, in', v)
  <2>1. CASE in = <<>>
    <3>1. <<>> \o a = a
      BY <1>7, ConcatEmptySeq
    <3> QED BY <1>1, <1>6, <2>1, <3>1 DEF Unread
  <2>2. CASE in = <<Marker>>
    <3>1. Marker \in Frames(MaxIn)
      BY <1>8, <2>2, SingleTail, RangeTail
    <3>2. PICK m : m = Marker
      OBVIOUS
    <3>3. <<m>> \o a # <<>> /\ Head(<<m>> \o a) = m /\ Tail(<<m>> \o a) = a
      BY <1>7, <3>1, <3>2, FirstFrame
    <3> QED BY <1>1, <1>6, <2>2, <3>2, <3>3 DEF Unread
  <2> QED BY <1>1, <2>1, <2>2
<1>11. Consecutive(<<>>, v, e.sent)
  BY <1>2, ConsecutiveEmpty
<1>12. Unopened(e, <<>>, in', q)
  BY <1>4, <1>9, <1>10, AckingParts DEF Unopened
<1>13. \A i \in 1 .. Len(<<>>) : FALSE
  OBVIOUS
<1>14. Talks(e, <<>>, in', q)
  BY <1>1, <1>2, <1>4, <1>9, <1>11, <1>12, <1>13 DEF Talks
<1> QED BY <1>3, <1>5, <1>14

(* The phone takes the next frame of a link in use.                         *)
LEMMA ReadsCalm ==
  ASSUME TInv, Talks(e, out, in, p), out # <<>>, PhoneReads(Head(out)), e' = e, out' = Tail(out)
  PROVE  Talks(e', out', in', p')
<1> DEFINE f == Head(out)
           q == Opened(f)
           data == f.m # NoMsg /\ q.open
<1>1. out \in Seq(Frames(MaxOut)) /\ in \in Seq(Frames(MaxIn)) /\ f \in Frames(MaxOut)
      /\ p \in Phones /\ p.recv \in Psn
  BY TypesHere, RangeTail DEF TInv, Talks, Phones
<1>2. PICK w \in Psn : Follows(f, p.recv, w) /\ Consecutive(Tail(out), w, e.sent)
  BY <1>1, ConsecutiveTail DEF Talks
<1>3. \A i \in 1 .. Len(Tail(out)) : "SYN" \notin Tail(out)[i].bits
  BY <1>1, CleanTail DEF Talks
<1>4. PhoneOK(q) /\ q.open = (p.open \/ AcksIn(f) # {}) /\ q.recv = p.recv /\ q.owes = p.owes
  BY OpenedOK
<1>5. q.open
  <2> SUFFICES ASSUME ~p.open PROVE AcksIn(f) # {}
    BY <1>4
  <2>1. p.sent = 0 /\ Acking(out, FirstPsn)
    BY DEF Talks, Unopened
  <2>2. "ACK" \in f.bits /\ f.ack = FirstPsn
    BY <1>1, <2>1, CleanTail
  <2>3. PICK a \in Nat : a = p.acked /\ a <= 0
    BY <1>1, <2>1, Iap2LinkAssumption DEF TInv, Phones
  <2>4. 0 \in p.acked .. p.sent
    <3>1. 0 \in a .. 0
      BY <2>3
    <3> QED BY <2>1, <2>3, <3>1
  <2>5. PhonePsn(0) = FirstPsn
    <3>1. PICK b \in 0 .. 255 : b = FirstPsn
      BY FirstIsPsn DEF Psn
    <3>2. (b + 0) % 256 = b
      OBVIOUS
    <3> QED BY <3>1, <3>2 DEF PhonePsn, Next8
  <2> QED BY <2>2, <2>4, <2>5 DEF AcksIn
<1>6. PhoneReads(f)
  OBVIOUS
<1> HIDE DEF f
<1>7. /\ p' = [q EXCEPT !.recv = IF NextData(f) THEN f.seq ELSE @,
                        !.owes = @ \/ (f.m # NoMsg /\ q.open)]
      /\ Asked(f) \in Seq(Frames(MaxIn))
      /\ Range(Asked(f)) \in SUBSET Range(Missed(q))
      /\ in' = in \o Asked(f) \/ (f.m # NoMsg /\ Distance(f.seq, p.recv) \in 2 .. Lsp.max_outgoing)
  BY <1>1, <1>6, PhoneReadsParts
<1> HIDE DEF q
<1>8. /\ p'.recv = IF NextData(f) THEN f.seq ELSE p.recv
      /\ p'.open /\ p'.owes = (p.owes \/ f.m # NoMsg)
  BY <1>4, <1>5, <1>7 DEF PhoneOK, Phones
<1>9. p'.recv = w
  <2>1. CASE f.m = NoMsg
    BY <1>2, <1>8, <2>1 DEF Follows, NextData
  <2>2. CASE f.m # NoMsg
    <3>1. w = Next8(p.recv, 1) /\ f.seq = w
      BY <1>2, <2>2 DEF Follows
    <3>2. NextData(f)
      BY <1>5, <2>2, <3>1 DEF NextData, q
    <3> QED BY <1>8, <3>1, <3>2
  <2> QED BY <2>1, <2>2
<1>10. in' = in \o Asked(f)
  <2> SUFFICES ASSUME f.m # NoMsg PROVE Distance(f.seq, p.recv) = 1
    <3>1. \A k : 1 \notin 2 .. k
      OBVIOUS
    <3> QED BY <1>7, <3>1
  <2>1. f.seq = Next8(p.recv, 1)
    BY <1>2 DEF Follows
  <2>2. PICK b \in 0 .. 255 : b = p.recv
    BY <1>1 DEF Psn
  <2>3. b \in Int /\ 0 \in Int /\ 1 \in Int /\ 1 - 0 \in 0 .. 255 /\ 1 - 0 = 1
    OBVIOUS
  <2>4. Distance(Next8(b, 1), Next8(b, 0)) = 1
    BY <2>3, DistanceOf
  <2>5. Next8(b, 0) = b
    BY DEF Next8
  <2> QED BY <2>1, <2>2, <2>4, <2>5
<1>11. Replies(Asked(f), p.recv)
  BY <1>4, <1>7, MissedReplies
<1>12. Clean(in')
  BY <1>1, <1>7, <1>10, <1>11, RepliesConcat DEF Replies, Talks
<1>13. ASSUME ~p'.owes PROVE Settled(e, in', p'.recv)
  <2>1. ~p.owes /\ f.m = NoMsg
    BY <1>8, <1>13
  <2>2. p'.recv = p.recv
    BY <1>8, <2>1 DEF NextData
  <2>3. Settled(e, in, p.recv) /\ Says(Asked(f), p.recv)
    BY <1>11, <2>1 DEF Talks, Replies
  <2>4. Settled(e, in \o Asked(f), p.recv)
    BY <1>1, <1>7, <2>3, SettledConcat
  <2> QED BY <1>10, <2>2, <2>4
<1>14. w # None
  BY DEF Psn, None
<1> QED BY <1>2, <1>3, <1>8, <1>9, <1>12, <1>13, <1>14 DEF Talks

LEMMA PhoneTakesCalms ==
  ASSUME TInv, Calms(e, out, in, p), PhoneTakes PROVE Calms(e', out', in', p')
<1> DEFINE f == Head(out)
<1>1. /\ out # <<>> /\ out' = Tail(out) /\ e' = e
      /\ \/ f = Marker /\ in' = Append(in, Marker) /\ p' = p
         \/ "SYN" \in f.bits /\ PhoneAnswers(f)
         \/ f # Marker /\ "SYN" \notin f.bits /\ PhoneReads(f)
  <2>1. \/ f = Marker /\ in' = Append(in, Marker) /\ UNCHANGED phone
        \/ "SYN" \in f.bits /\ PhoneAnswers(f)
        \/ f # Marker /\ "SYN" \notin f.bits /\ PhoneReads(f)
    BY DEF PhoneTakes
  <2>2. UNCHANGED phone => p' = p
    BY DEF phone
  <2>3. out # <<>> /\ out' = Tail(out) /\ e' = e
    BY DEF PhoneTakes
  <2> QED BY <2>1, <2>2, <2>3
<1>2. SUFFICES Greets(e', out', in', p') \/ Talks(e', out', in', p')
  BY <1>1 DEF Calms
<1>3. "SYN" \in SynOf(e).bits /\ Marker.bits = {"MARKER"} /\ Marker.m = NoMsg
  BY DEF SynOf, Marker, Frame
<1>4. in \in Seq(Frames(MaxIn)) /\ out \in Seq(Frames(MaxOut)) /\ Marker \in Frames(MaxIn)
  <2>1. Marker \in Frames(MaxIn)
    BY Iap2LinkAssumption DEF Marker, Frame, Frames, Psn, Bits, NoMsg
  <2> QED BY <2>1 DEF TInv
<1>5. CASE Greets(e, out, in, p)
  <2>1. CASE f = Marker /\ in' = Append(in, Marker) /\ p' = p
    <3>1. SynOf(e) # Marker
      BY <1>3
    <3>2. \/ e.state = "Detect" /\ out = <<Marker>> /\ in = <<>>
          \/ e.state = "Negotiate" /\ out = <<Marker, SynOf(e)>> /\ in = <<>>
      BY <1>1, <1>5, <2>1, <3>1, SingleTail DEF Greets
    <3>3. in' = <<Marker>>
      <4>1. \A m : Append(<<>>, m) = <<m>>
        OBVIOUS
      <4> QED BY <2>1, <3>2, <4>1
    <3>4. \/ e.state = "Detect" /\ out' = <<>>
          \/ e.state = "Negotiate" /\ out' = <<SynOf(e)>>
      BY <1>1, <3>2, SingleTail, PairTail
    <3> QED BY <1>1, <1>5, <2>1, <3>3, <3>4 DEF Greets
  <2>2. CASE "SYN" \in f.bits /\ PhoneAnswers(f)
    <3>1. f # Marker
      BY <1>3, <2>2
    <3>2. Pristine(e)
      BY DEF Calms
    <3>3. Talks(e', out', in', p')
      BY <1>1, <1>5, <2>2, <3>1, <3>2, AnswersCalm
    <3> QED BY <3>3
  <2>3. CASE f # Marker /\ "SYN" \notin f.bits /\ PhoneReads(f)
    <3>1. f = Marker \/ f = SynOf(e)
      BY <1>1, <1>5, SingleTail, PairTail DEF Greets
    <3> QED BY <1>3, <2>3, <3>1
  <2> QED BY <1>1, <2>1, <2>2, <2>3
<1>6. CASE Talks(e, out, in, p)
  <2>1. CASE f = Marker /\ in' = Append(in, Marker) /\ p' = p
    <3>1. PICK w \in Psn : Follows(f, p.recv, w) /\ Consecutive(Tail(out), w, e.sent)
      BY <1>1, <1>4, <1>6, ConsecutiveTail DEF Talks
    <3>2. w = p.recv
      BY <1>3, <2>1, <3>1 DEF Follows
    <3>3. \A i \in 1 .. Len(Tail(out)) : "SYN" \notin Tail(out)[i].bits
      BY <1>1, <1>4, <1>6, CleanTail DEF Talks
    <3>4. p.open
      <4> SUFFICES ASSUME ~p.open PROVE FALSE
        OBVIOUS
      <4>1. Acking(out, FirstPsn)
        BY <1>6 DEF Talks, Unopened
      <4>2. "ACK" \in f.bits
        BY <1>1, <1>4, <4>1, CleanTail
      <4> QED BY <1>3, <2>1, <4>2
    <3>5. Talks(e, Tail(out), in, p)
      BY <1>6, <3>1, <3>2, <3>3, <3>4 DEF Talks
    <3>6. PICK m : m = Marker
      OBVIOUS
    <3>7. in' = in \o <<m>> /\ <<m>> \in Seq(Frames(MaxIn)) /\ Replies(<<m>>, p.recv)
      <4>1. m \in Frames(MaxIn)
        BY <1>4, <3>6
      <4>2. in' = in \o <<m>>
        <5>1. Append(in, m) = in \o <<m>>
          BY <1>4, <4>1, AppendIsConcat
        <5> QED BY <2>1, <3>6, <5>1
      <4>3. <<m>> \in Seq(Frames(MaxIn))
        BY <4>1, One
      <4>4. m.bits = {"MARKER"}
        BY <1>3, <3>6
      <4>5. "SYN" \notin m.bits /\ "EAK" \notin m.bits /\ "ACK" \notin m.bits /\ "RST" \notin m.bits
        BY <4>4
      <4>6. Replies(<<m>>, p.recv)
        BY <4>1, <4>4, <4>5, OneReply
      <4> QED BY <4>2, <4>3, <4>6
    <3>8. Clean(in')
      BY <1>4, <1>6, <3>7, RepliesConcat DEF Replies, Talks
    <3>9. ASSUME ~p.owes PROVE Settled(e, in', p.recv)
      BY <1>4, <1>6, <3>7, <3>9, SettledConcat DEF Replies, Talks
    <3>10. Talks(e, Tail(out), in', p)
      BY <3>4, <3>5, <3>8, <3>9 DEF Talks
    <3> QED BY <1>1, <2>1, <3>10
  <2>2. CASE "SYN" \in f.bits /\ PhoneAnswers(f)
    <3>1. "SYN" \notin f.bits
      BY <1>1, <1>4, <1>6, CleanTail DEF Talks
    <3> QED BY <2>2, <3>1
  <2>3. CASE f # Marker /\ "SYN" \notin f.bits /\ PhoneReads(f)
    BY <1>1, <1>6, <2>3, ReadsCalm
  <2> QED BY <1>1, <2>1, <2>2, <2>3
<1> QED BY <1>5, <1>6 DEF Calms

(* No step that spends no fault disturbs the link.                          *)
LEMMA NextUInv == ASSUME ShortWindow, UInv, [Next]_vars PROVE UInv'
<1>1. TInv /\ SInv'
  BY NextSInv DEF UInv, SInv
<1>2. SUFFICES ASSUME faults' = MaxFaults PROVE Calms(e', out', in', p')
  BY <1>1 DEF UInv
<1>3. faults \in 0 .. MaxFaults /\ MaxFaults \in Nat
  BY <1>1, Iap2LinkAssumption DEF TInv
<1>4. ~(faults' = faults - 1)
  BY <1>2, <1>3
<1>5. CASE UNCHANGED vars
  <2>1. e' = e /\ out' = out /\ in' = in /\ p' = p /\ faults' = faults
    BY <1>5 DEF vars, phone
  <2> QED BY <1>2, <2>1 DEF UInv
<1>6. CASE Next
  <2>1. faults' = faults
    BY <1>4, <1>6 DEF Next, Start, Give, Take, ConnectionEnds, DetectAgain, NegotiateAgain,
                      DelayedAck, ExpectAckTimer, Fires, PhoneTakes, PhoneSends, PhoneAcks,
                      PhoneSynAgain, PhoneAgain, PhoneResets, Damaged
  <2>2. Calms(e, out, in, p) /\ SInv
    BY <1>2, <2>1 DEF UInv
  <2>3. ASSUME NEW initiate \in BOOLEAN, Start(initiate) PROVE Calms(e', out', in', p')
    BY <1>1, <2>2, <2>3, StartCalms
  <2>4. CASE Give
    BY <1>1, <2>2, <2>4, GiveCalms
  <2>5. CASE Take
    BY <1>1, <2>2, <2>5, TakeCalms
  <2>6. CASE DetectAgain \/ NegotiateAgain \/ ExpectAckTimer
    BY <2>1, <2>2, <2>6, TimersCalm
  <2>7. CASE DelayedAck
    BY <1>1, <2>2, <2>7, DelayedAckCalms
  <2>8. CASE PhoneTakes
    BY <1>1, <2>2, <2>8, PhoneTakesCalms
  <2>9. CASE PhoneSends \/ PhoneAcks \/ PhoneSynAgain \/ PhoneAgain
    BY <1>1, <2>1, <2>2, <2>9, PhoneWritesCalms
  <2>10. CASE ConnectionEnds \/ PhoneResets \/ Damaged
    BY <1>4, <2>10 DEF ConnectionEnds, PhoneResets, Damaged
  <2> QED BY <1>6, <2>3, <2>4, <2>5, <2>6, <2>7, <2>8, <2>9, <2>10 DEF Next
<1> QED BY <1>5, <1>6

LEMMA InitUInv == Init => UInv
<1> SUFFICES ASSUME Init PROVE SInv /\ Calms(e, out, in, p)
  BY DEF UInv
<1>1. SInv
  BY InitSInv
<1>2. Pristine(e) /\ Spare(e)
  BY DEF Init, Pristine, Marked, Blank, Starting, Spare
<1>3. Greets(e, out, in, p)
  BY DEF Init, Greets
<1> QED BY <1>1, <1>2, <1>3 DEF Calms

(* A link on which no frame is damaged, no peer resets and no deadline      *)
(* passes while an answer is on its way never bails out: no ack is missing  *)
(* when the retransmission deadline passes, so no packet is sent in vain.   *)
THEOREM AlwaysUndisturbed == ShortWindow => (Spec => []Undisturbed)
<1> SUFFICES ASSUME ShortWindow PROVE Spec => []Undisturbed
  OBVIOUS
<1>1. Init => UInv
  BY InitUInv
<1>2. UInv /\ [Next]_vars => UInv'
  BY NextUInv
<1>3. UInv => Undisturbed
  <2> SUFFICES ASSUME UInv, e.state = "Dead" PROVE faults < MaxFaults
    BY DEF Undisturbed
  <2>1. ~Calms(e, out, in, p)
    BY DEF Calms, Greets, Talks
  <2>2. faults \in 0 .. MaxFaults /\ MaxFaults \in Nat
    BY Iap2LinkAssumption DEF UInv, SInv, TInv
  <2> QED BY <2>1, <2>2 DEF UInv
<1> QED BY <1>1, <1>2, <1>3, PTL DEF Spec
=============================================================================
