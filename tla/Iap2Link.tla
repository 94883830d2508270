------------------------------ MODULE Iap2Link ------------------------------
(***************************************************************************)
(* The iAP2 link engine (iap2-link/src/lib.rs) between the head unit and   *)
(* an iPhone: a handshake, then a sliding window in both directions with 8 *)
(* bit packet sequence numbers (PSN), piggybacked and delayed acks,        *)
(* retransmission by timer and on request (EAK), and death after too many  *)
(* attempts.  The pump that drives it (livi-runtime/src/driver.rs) feeds   *)
(* it what arrives and fires its deadlines.  The phone is not part of the  *)
(* repository: it numbers, acknowledges and repeats as the engine expects. *)
(* Frames arrive in order, but one that is damaged is dropped.             *)
(***************************************************************************)
EXTENDS Integers, Sequences, FiniteSets, Functions

CONSTANTS Lsp,         \* the parameters the phone sends in its SYN
          FirstPsn,    \* the sequence number of the phone's SYN
          MaxOut,      \* messages the head unit sends
          MaxIn,       \* messages the phone sends
          MaxFaults,   \* damaged frames and deadlines that pass too early
          Cap          \* frames on the way at which a sender waits

Lsps == [max_outgoing : 1 .. 255, max_retransmissions : 0 .. 255, max_ack : 0 .. 255]

ASSUME Iap2LinkAssumption ==
  /\ Lsp \in Lsps /\ FirstPsn \in 0 .. 255
  /\ MaxOut \in Nat /\ MaxIn \in Nat /\ MaxFaults \in Nat /\ Cap \in Nat \ {0}

Psn == 0 .. 255
None == -1                  \* no packet acknowledged yet
NoMsg == 0                  \* a frame without data
OwnLsp == [max_outgoing |-> 4, max_retransmissions |-> 4, max_ack |-> 3]
OwnPsn == 99                \* sent_psn of a new engine, the number of its SYN

VARIABLES
  e,            \* the engine: state, lsp, sent, acked, unack, due, queue, recv,
                \* lastAcked, held, cum, marker, delayed, resend
  out,          \* frames on their way to the phone
  in,           \* frames on their way from the phone
  given,        \* messages the application has given to send()
  delivered,    \* messages of the phone that were delivered, in order
  p,            \* the phone: open, recv, owes, sent, acked
  heard,        \* messages the phone has accepted, in order
  faults        \* faults left

vars == <<e, out, in, given, delivered, p, heard, faults>>
phone == <<p, heard>>

Distance(a, b) == IF b = None THEN 0 ELSE (a - b) % 256
Next8NoWrap(a, k) == a + k        \* mutant: the number grows beyond its byte
Next8(a, k) == (a + k) % 256
Least(S) == CHOOSE x \in S : \A y \in S : x <= y

(* The elements of s at the indexes of K, in their order: a SelectSeq that *)
(* proofs can use.                                                         *)
Nth(K, j) == CHOOSE i \in K : Cardinality({h \in K : h <= i}) = j
Keep(s, K) == [j \in 1 .. Cardinality(K) |-> s[Nth(K, j)]]

(* Packets in the order of their distance from a number; those with equal  *)
(* distances stay in the order in which they are held.                     *)
Place(s, a, i) ==
  Cardinality({h \in DOMAIN s :
                 \/ Distance(s[h].psn, a) < Distance(s[i].psn, a)
                 \/ Distance(s[h].psn, a) = Distance(s[i].psn, a) /\ h <= i})
Unsorted(s, a) == s               \* mutant: as they arrived
Sorted(s, a) == [j \in DOMAIN s |-> s[CHOOSE i \in DOMAIN s : Place(s, a, i) = j]]

(* Frames: the control bits, sequence number, ack, the data or the missing *)
(* numbers of an EAK.  The marker precedes the first frame.                *)
Frame(bits, seq, ack, m, missing) ==
  [bits |-> bits, seq |-> seq, ack |-> ack, m |-> m, missing |-> missing]
Marker == Frame({"MARKER"}, 0, 0, NoMsg, {})
SynOf(x) == Frame({"SYN"}, x.sent, x.recv, NoMsg, {})
AckOf(x) == Frame({"ACK"}, x.sent, x.recv, NoMsg, {})
DataOf(x, u) == Frame({"ACK"}, u.psn, x.recv, u.m, {})

Init ==
  /\ e = [state |-> "Idle", lsp |-> OwnLsp, sent |-> OwnPsn, acked |-> None,
          unack |-> <<>>, due |-> <<>>, queue |-> <<>>, recv |-> 0, lastAcked |-> None,
          held |-> <<>>, cum |-> 0, marker |-> TRUE, delayed |-> FALSE, resend |-> FALSE]
  /\ out = <<>> /\ in = <<>> /\ given = 0 /\ delivered = <<>>
  /\ p = [open |-> FALSE, recv |-> None, owes |-> FALSE, sent |-> 0, acked |-> 0]
  /\ heard = <<>> /\ faults = MaxFaults

-----------------------------------------------------------------------------
(* The handlers.  A handler takes the engine and returns r: the engine r.e *)
(* after it, the frames r.out it writes and the packets r.up it delivers.  *)
Ret(x) == [e |-> x, out |-> <<>>, up |-> <<>>]
Write(x, fs) == [e |-> IF fs = <<>> THEN x ELSE [x EXCEPT !.cum = 0], out |-> fs, up |-> <<>>]
Then(r, s) == [e |-> s.e, out |-> r.out \o s.out, up |-> r.up \o s.up]

Bailout(x) == [x EXCEPT !.state = "Dead", !.delayed = FALSE, !.resend = FALSE]

(* send_packet, for packets that fit the window.                           *)
Transmit(x, ms) ==
  LET new == [i \in 1 .. Len(ms) |-> [psn |-> Next8(x.sent, i), m |-> ms[i], n |-> 0]]
      y == [x EXCEPT !.sent = Next8(@, Len(ms)), !.delayed = FALSE, !.lastAcked = x.recv]
      z == IF x.lsp.max_retransmissions > 0
           THEN [y EXCEPT !.unack = @ \o new, !.resend = TRUE,
                          !.due = @ \o [i \in 1 .. Len(ms) |-> new[i].psn]]
           ELSE [y EXCEPT !.acked = y.sent]
  IN Write(IF ms = <<>> THEN x ELSE z, [i \in 1 .. Len(ms) |-> DataOf(x, new[i])])

SendPacket(x, m) ==
  IF Distance(x.sent, x.acked) > x.lsp.max_outgoing \/ x.state # "Normal"
  THEN Ret([x EXCEPT !.queue = Append(@, m)])
  ELSE Transmit(x, <<m>>)

HandleSyn(x, f) ==
  IF x.state # "Negotiate" THEN Ret(x)
  ELSE LET y == [x EXCEPT !.lsp = Lsp, !.recv = f.seq, !.lastAcked = f.seq]
       IN Write(y, <<AckOf(y)>>)

(* Mutants: an ack stops the timer; it drops everything; it keeps what it  *)
(* covers.                                                                 *)
AcknowledgeStops(x, num) ==
  [x EXCEPT !.state = IF @ = "Negotiate" THEN "Normal" ELSE @, !.acked = num,
            !.unack = SelectSeq(@, LAMBDA u : Distance(u.psn, num) \in 1 .. x.lsp.max_ack + 10),
            !.due = SelectSeq(@, LAMBDA psn : Distance(psn, num) \in 1 .. x.lsp.max_ack + 10),
            !.resend = FALSE]
AcknowledgeAll(x, num) ==
  [x EXCEPT !.state = IF @ = "Negotiate" THEN "Normal" ELSE @, !.acked = num,
            !.unack = <<>>, !.due = <<>>, !.resend = FALSE]
AcknowledgeLess(x, num) ==
  [x EXCEPT !.state = IF @ = "Negotiate" THEN "Normal" ELSE @, !.acked = num,
            !.unack = SelectSeq(@, LAMBDA u : Distance(u.psn, num) \in 0 .. x.lsp.max_ack + 10),
            !.due = SelectSeq(@, LAMBDA psn : Distance(psn, num) \in 0 .. x.lsp.max_ack + 10)]

(* An ack drops what it covers and lets the queue send into the window.    *)
Acknowledge(x, num) ==
  LET kept == {i \in DOMAIN x.unack :
                 Distance(x.unack[i].psn, num) \in 1 .. x.lsp.max_ack + 10}
      rest == IF kept = {} THEN <<>> ELSE SubSeq(x.unack, Least(kept), Len(x.unack))
      Unacked == {j \in DOMAIN x.due : \E i \in DOMAIN rest : rest[i].psn = x.due[j]}
  IN [x EXCEPT !.state = IF @ = "Negotiate" THEN "Normal" ELSE @, !.acked = num,
               !.unack = rest, !.due = Keep(@, Unacked), !.resend = kept # {}]

(* Mutants: the queue ignores the window; it is never served.              *)
RoomForAll(x) == Len(x.queue)
RoomForNone(x) == 0

Room(x) ==
  IF Distance(x.sent, x.acked) >= x.lsp.max_outgoing THEN 0
  ELSE IF x.lsp.max_retransmissions = 0 THEN Len(x.queue)
       ELSE Least({Len(x.queue), x.lsp.max_outgoing - Distance(x.sent, x.acked)})

HandleAck(x, num) ==
  LET y == Acknowledge(x, num)
      n == Room(y)
  IN Transmit([y EXCEPT !.queue = SubSeq(@, n + 1, Len(@))], SubSeq(y.queue, 1, n))

(* The packets the phone misses are repeated, if they may be once more.    *)
HandleEak(x, missing) ==
  LET hit == Keep(x.unack, {i \in DOMAIN x.unack : x.unack[i].psn \in missing})
      again == [i \in DOMAIN x.unack |->
                  IF x.unack[i].psn \in missing
                  THEN [x.unack[i] EXCEPT !.n = @ + 1] ELSE x.unack[i]]
  IN IF x.state # "Normal" \/ hit = <<>> THEN Ret(x)
     ELSE IF \E i \in DOMAIN hit : hit[i].n + 1 = x.lsp.max_retransmissions
     THEN Ret(Bailout(x))
     ELSE Write([x EXCEPT !.unack = again, !.delayed = FALSE, !.resend = TRUE],
                [i \in DOMAIN hit |-> DataOf(x, hit[i])])

(* Mutants: a packet ahead is delivered at once; it counts as received.    *)
HoldDelivers(x, f, d) == [Ret(x) EXCEPT !.up = <<[psn |-> f.seq, m |-> f.m]>>]
HoldReceives(x, f, d) ==
  Ret([x EXCEPT !.held = Append(@, [psn |-> f.seq, m |-> f.m]), !.recv = f.seq])

(* A packet ahead of the sequence is held.                                 *)
Hold(x, f, d) ==
  LET y == [x EXCEPT !.held = Append(@, [psn |-> f.seq, m |-> f.m])]
  IN IF d < x.lsp.max_outgoing THEN Ret(y)
     ELSE Write([y EXCEPT !.delayed = FALSE],
                <<Frame({"EAK"}, x.sent, x.recv, NoMsg, {Next8(x.recv, j) : j \in 1 .. d - 1})>>)

(* The next packet, and what was held behind it: of the sorted packets,    *)
(* those before the first gap.                                             *)
Deliver(x, f) ==
  LET line == Sorted(Append(x.held, [psn |-> f.seq, m |-> f.m]), x.recv)
      Last(j) == IF j = 0 THEN x.recv ELSE line[j].psn
      gaps == {j \in DOMAIN line : Distance(line[j].psn, Last(j - 1)) > 1}
      n == Least(gaps \cup {Len(line) + 1}) - 1
      y == [x EXCEPT !.held = SubSeq(line, n + 1, Len(line)), !.recv = Last(n)]
      r == IF x.lsp.max_ack = 0 THEN Ret(y)
           ELSE IF Distance(y.recv, x.lastAcked) >= x.lsp.max_outgoing
           THEN Write([y EXCEPT !.delayed = FALSE, !.lastAcked = y.recv], <<AckOf(y)>>)
           ELSE Ret([y EXCEPT !.delayed = TRUE])
  IN [r EXCEPT !.up = SubSeq(line, 1, n)]

HandleData(x, f) ==
  LET d == Distance(f.seq, x.recv)
  IN CASE d = 0 \/ d > x.lsp.max_outgoing + 10 -> Write(x, <<AckOf(x)>>)
       [] d = 1 -> Deliver(x, f)
       [] OTHER -> Hold(x, f, d)

(* The ack that is due after max_ack frames without one.                   *)
Cumulative(x) ==
  IF x.lsp.max_ack = 0 \/ x.cum < x.lsp.max_ack \/ x.state = "Dead" THEN Ret(x)
  ELSE Write([x EXCEPT !.lastAcked = x.recv], <<AckOf(x)>>)

ProcessFrame(x, f) ==
  LET a == IF "SYN" \in f.bits THEN HandleSyn(x, f) ELSE Ret(x)
      b == IF "ACK" \notin f.bits THEN a
           ELSE Then(a, HandleAck([a.e EXCEPT !.cum = @ + 1], f.ack))
      c == IF "EAK" \in f.bits THEN Then(b, HandleEak(b.e, f.missing)) ELSE b
      d == IF f.bits = {"ACK"} /\ f.m # NoMsg THEN Then(c, HandleData(c.e, f)) ELSE c
  IN IF "RST" \in f.bits THEN Ret(Bailout(x)) ELSE Then(d, Cumulative(d.e))

EnterNegotiate(x) ==
  LET y == [x EXCEPT !.state = "Negotiate", !.marker = FALSE] IN Write(y, <<SynOf(y)>>)

Feed(x, f) ==
  IF x.marker THEN IF f = Marker THEN EnterNegotiate(x) ELSE Ret(Bailout(x))
  ELSE IF f = Marker THEN Ret(x) ELSE ProcessFrame(x, f)

-----------------------------------------------------------------------------
(* The pump: what the engine writes goes out, unless it died; the pump ends *)
(* then, and nothing is sent any more.                                      *)
Becomes(result) ==
  \E r \in {result} :
    /\ e' = r.e
    /\ out' = IF r.e.state = "Dead" THEN out ELSE out \o r.out
    /\ delivered' = delivered \o [i \in DOMAIN r.up |-> r.up[i].m]

Alive == e.state # "Dead" /\ Len(out) < Cap
Early == out # <<>> \/ in # <<>> \/ p.owes      \* an answer is still on its way
Fires == faults' = IF Early THEN faults - 1 ELSE faults
Punctual == Early => faults > 0

Start(initiate) ==
  /\ e.state = "Idle"
  /\ Becomes(LET r == Write([e EXCEPT !.state = "Detect"], <<Marker>>)
             IN IF initiate THEN Then(r, EnterNegotiate(r.e)) ELSE r)
  /\ UNCHANGED <<in, given, phone, faults>>

Give ==
  /\ Alive /\ e.state # "Idle" /\ given < MaxOut
  /\ given' = given + 1
  /\ Becomes(SendPacket(e, given'))
  /\ UNCHANGED <<in, phone, faults>>

Take ==
  /\ Alive /\ e.state # "Idle" /\ in # <<>>
  /\ in' = Tail(in)
  /\ Becomes(Feed(e, Head(in)))
  /\ UNCHANGED <<given, phone, faults>>

ConnectionEnds ==
  /\ e.state \notin {"Idle", "Dead"} /\ faults > 0 /\ faults' = faults - 1
  /\ Becomes(Ret(Bailout(e)))
  /\ UNCHANGED <<in, given, phone>>

(* The deadlines of advance_time.                                          *)
DetectAgain ==
  /\ Alive /\ e.state = "Detect" /\ Punctual /\ Fires
  /\ Becomes(Write(e, <<Marker>>))
  /\ UNCHANGED <<in, given, phone>>

NegotiateAgain ==
  /\ Alive /\ e.state = "Negotiate" /\ Punctual /\ Fires
  /\ Becomes(Write(e, <<SynOf(e)>>))
  /\ UNCHANGED <<in, given, phone>>

DelayedAck ==
  /\ Alive /\ e.delayed
  /\ Becomes(LET x == [e EXCEPT !.delayed = FALSE]
             IN IF e.state # "Normal" THEN Ret(x)
                ELSE Write([x EXCEPT !.lastAcked = x.recv], <<AckOf(x)>>))
  /\ UNCHANGED <<in, given, phone, faults>>

(* The packet whose timeout is the oldest is sent again.                   *)
OnExpectAckTimer(x) ==
  LET psn == Head(x.due)
      i == CHOOSE j \in DOMAIN x.unack : x.unack[j].psn = psn
      y == [x EXCEPT !.unack[i].n = @ + 1, !.due = Append(Tail(@), psn), !.resend = TRUE]
  IN IF x.unack = <<>> \/ x.state # "Normal" THEN Ret([x EXCEPT !.resend = FALSE])
     ELSE IF y.unack[i].n = x.lsp.max_retransmissions THEN Ret(Bailout(x))
     ELSE Write(y, <<DataOf(x, x.unack[i])>>)

ExpectAckTimer ==
  /\ Alive /\ e.resend /\ Punctual /\ Fires
  /\ Becomes(OnExpectAckTimer(e))
  /\ UNCHANGED <<in, given, phone>>

-----------------------------------------------------------------------------
(* The phone.                                                              *)
PhonePsn(k) == Next8(FirstPsn, k)
PhoneSyn == Frame({"SYN"}, FirstPsn, p.recv, NoMsg, {})
PhoneAck(q) == Frame({"ACK"}, PhonePsn(q.sent), q.recv, NoMsg, {})
PhoneData(q, k) == Frame({"ACK"}, PhonePsn(k), q.recv, k, {})
Missed(q) == [j \in 1 .. q.sent - q.acked |-> PhoneData(q, q.acked + j)]   \* or unacknowledged
Connected == p.recv # None /\ e.state # "Dead"

(* It answers a SYN with its own and an ack, in one frame or in two.       *)
PhoneAnswers(f) ==
  LET q == [p EXCEPT !.recv = f.seq]
      syn == Frame({"SYN"}, FirstPsn, f.seq, NoMsg, {})
  IN /\ p' = q /\ UNCHANGED heard
     /\ \E answer \in {<<[syn EXCEPT !.bits = {"SYN", "ACK"}]>>, <<syn, PhoneAck(q)>>} :
          in' = in \o answer

(* It takes acks and the data that comes next; a packet further ahead it   *)
(* drops, and may ask for what it misses.                                  *)
PhoneReads(f) ==
  LET acks == {k \in p.acked .. p.sent : "ACK" \in f.bits /\ PhonePsn(k) = f.ack}
      q == [p EXCEPT !.open = @ \/ acks # {}, !.acked = IF acks = {} THEN @ ELSE Least(acks)]
      data == f.m # NoMsg /\ q.open
      next == data /\ f.seq = Next8(p.recv, 1)
      ahead == IF data THEN Distance(f.seq, p.recv) ELSE 0
      eak == Frame({"EAK"}, PhonePsn(p.sent), p.recv, NoMsg,
                   {Next8(p.recv, j) : j \in 1 .. ahead - 1})
      asked == {j \in DOMAIN Missed(q) : Missed(q)[j].seq \in f.missing}
  IN /\ p' = [q EXCEPT !.recv = IF next THEN f.seq ELSE @, !.owes = @ \/ data]
     /\ heard' = IF next THEN Append(heard, f.m) ELSE heard
     /\ \E ask \in BOOLEAN :
          /\ ask => ahead \in 2 .. Lsp.max_outgoing
          /\ in' = in \o Keep(Missed(q), asked) \o (IF ask THEN <<eak>> ELSE <<>>)

PhoneTakes ==
  /\ out # <<>> /\ e.state # "Dead"
  /\ out' = Tail(out)
  /\ LET f == Head(out)
     IN CASE f = Marker -> in' = Append(in, Marker) /\ UNCHANGED phone
          [] "SYN" \in f.bits -> PhoneAnswers(f)
          [] OTHER -> PhoneReads(f)
  /\ UNCHANGED <<e, given, delivered, faults>>

PhoneWrites(q, fs) ==
  /\ Connected /\ Len(in) < Cap
  /\ p' = q /\ in' = in \o fs
  /\ UNCHANGED <<e, out, given, delivered, heard>>

PhoneSends ==
  /\ p.open /\ p.sent < MaxIn /\ p.sent - p.acked < Lsp.max_outgoing
  /\ PhoneWrites([p EXCEPT !.sent = @ + 1, !.owes = FALSE], <<PhoneData(p, p.sent + 1)>>)
  /\ UNCHANGED faults

PhoneAcks ==
  /\ p.owes
  /\ PhoneWrites([p EXCEPT !.owes = FALSE], <<PhoneAck(p)>>)
  /\ UNCHANGED faults

(* Without an answer it repeats its SYN, or what is not acknowledged.      *)
PhoneSynAgain ==
  /\ ~p.open /\ Punctual /\ Fires
  /\ PhoneWrites(p, <<[PhoneSyn EXCEPT !.bits = {"SYN", "ACK"}]>>)

PhoneAgain ==
  /\ p.acked < p.sent
  /\ LET early == Early \/ e.delayed
     IN /\ early => faults > 0
        /\ faults' = IF early THEN faults - 1 ELSE faults
  /\ PhoneWrites(p, Missed(p))

PhoneResets ==
  /\ faults > 0 /\ faults' = faults - 1
  /\ PhoneWrites(p, <<Frame({"RST"}, 0, 0, NoMsg, {})>>)

(* A damaged frame is dropped.                                             *)
Damaged ==
  /\ faults > 0 /\ faults' = faults - 1
  /\ \/ /\ in # <<>> /\ Head(in) # Marker /\ in' = Tail(in) /\ UNCHANGED out
     \/ /\ out # <<>> /\ Head(out) # Marker /\ out' = Tail(out) /\ UNCHANGED in
  /\ UNCHANGED <<e, given, delivered, phone>>

Next ==
  \/ \E initiate \in BOOLEAN : Start(initiate)
  \/ Give \/ Take \/ ConnectionEnds
  \/ DetectAgain \/ NegotiateAgain \/ DelayedAck \/ ExpectAckTimer
  \/ PhoneTakes \/ PhoneSends \/ PhoneAcks \/ PhoneSynAgain \/ PhoneAgain \/ PhoneResets
  \/ Damaged

(* The pump reads and its deadlines pass; the phone answers.  Of the steps *)
(* of Next, those that read are the ones of Take.                          *)
Reads == Alive /\ e.state # "Idle" /\ in # <<>> /\ in' = Tail(in) /\ UNCHANGED faults
Fairness ==
  /\ WF_vars(\E initiate \in BOOLEAN : Start(initiate)) /\ WF_in(Reads)
  /\ WF_vars(DetectAgain) /\ WF_vars(NegotiateAgain)
  /\ WF_vars(DelayedAck) /\ SF_vars(ExpectAckTimer)
  /\ WF_vars(PhoneTakes) /\ WF_vars(PhoneAcks)
  /\ WF_vars(PhoneSynAgain) /\ WF_vars(PhoneAgain)
Spec == Init /\ [][Next]_vars /\ Fairness

-----------------------------------------------------------------------------
TypeOK ==
  /\ e.state \in {"Idle", "Detect", "Negotiate", "Normal", "Dead"} /\ e.lsp \in {OwnLsp, Lsp}
  /\ e.sent \in Psn /\ e.acked \in Psn \cup {None} /\ e.recv \in Psn
  /\ e.lastAcked \in Psn \cup {None} /\ e.cum \in Nat
  /\ e.unack \in Seq([psn : Psn, m : 1 .. MaxOut, n : Nat]) /\ e.due \in Seq(Psn)
  /\ Range(e.due) = {e.unack[i].psn : i \in DOMAIN e.unack}
  /\ e.queue \in Seq(1 .. MaxOut) /\ e.held \in Seq([psn : Psn, m : 1 .. MaxIn])
  /\ {e.marker, e.delayed, e.resend} \subseteq BOOLEAN
  /\ given \in 0 .. MaxOut /\ delivered \in Seq(1 .. MaxIn) /\ faults \in 0 .. MaxFaults

(* While a packet is unacknowledged, the retransmission deadline runs.     *)
Watched == e.state = "Normal" /\ e.unack # <<>> => e.resend

(* Nothing the application gave is lost: it waits, is kept for repetition, *)
(* or the phone has it.                                                    *)
Kept ==
  e.lsp.max_retransmissions > 0 =>
    1 .. given = Range(e.queue) \cup {e.unack[i].m : i \in DOMAIN e.unack} \cup Range(heard)

(* What the phone may forget, because it is acknowledged, was delivered.   *)
AckedIsDelivered == 1 .. p.acked \subseteq Range(delivered)

(* No more packets are on their way than the window and one, when they are  *)
(* kept until they are acknowledged.                                       *)
WindowBound ==
  e.lsp.max_retransmissions > 0 => Distance(e.sent, e.acked) <= e.lsp.max_outgoing + 1

(* The phone's messages are delivered in order, none left out: whatever is *)
(* delivered comes after all that precede it and before all that follow    *)
(* (one that is held twice is delivered twice, one copy after the other).  *)
(* And nothing that could be delivered stays behind: what is held is ahead *)
(* of the next packet.                                                     *)
InOrder ==
  /\ \A i \in DOMAIN delivered : {delivered[j] : j \in 1 .. i} = 1 .. delivered[i]
  /\ \A i \in DOMAIN e.held : Distance(e.held[i].psn, e.recv) > 1

(* A link that nothing disturbs does not die.                              *)
Undisturbed == e.state = "Dead" => faults < MaxFaults

(* What the application gives reaches the phone, or the link dies.         *)
Arrives == []<>(1 .. given = Range(heard) \/ e.state = "Dead")

(* The phone hears the messages in the order they were given.              *)
HeardInOrder == \A i \in DOMAIN heard : heard[i] = i
=============================================================================
