----------------------------- MODULE AaSession -----------------------------
(***************************************************************************)
(* One Android Auto session of the core: the protocol                      *)
(* (livi-aa-stack/src/protocol.rs), the driver that feeds it and carries   *)
(* out what it asks for (driver.rs) and the bridge that puts its events    *)
(* into LIVI's terms (bridge.rs).                                          *)
(*                                                                         *)
(* The driver is one task: it takes a message of the phone or the helper,  *)
(* a command, a ping tick or a timer, and finishes with it before it takes *)
(* the next; so one such turn is one step.  The record aa is the driver's  *)
(* Phone and its Session; methods are operators from record to record.     *)
(* Timers that fall due together are turns one after the other here.       *)
(*                                                                         *)
(* The phone and the helper are external.  The phone opens its channels    *)
(* once it was answered, and answers pings until it is away or has left.   *)
(* Left out: input, sensors, metadata, audio and the media sinks.          *)
(***************************************************************************)
EXTENDS Integers, Sequences

CONSTANTS Budget   \* bound: [talk: what a phone may say more than once,
                   \*         cmds: commands of the manager]

ASSUME BudgetAssumption == Budget \in [{"talk", "cmds"} -> Nat]

VARIABLES aa, phone, left
vars == <<aa, phone, left>>

Early == {"Init", "ServiceDiscovery", "ChannelSetup"}
States == Early \cup {"Running", "Closed"}
News == {"connected", "focusOn", "focusOff", "micOn", "micOff", "gone"}

(* The fields of protocol.rs, then those of driver.rs. *)
Session ==
  [state : States,
   ready : BOOLEAN, mic : BOOLEAN,   \* the helper's ready, with a microphone socket
   disc : BOOLEAN,                   \* the driver was told of the disconnection
   ping : BOOLEAN, seen : BOOLEAN,   \* the main picture has come
   wanted : BOOLEAN, pending : BOOLEAN,   \* the cluster's picture
   waiting : Nat,                    \* goodbyes that wait for their answer
   main : {"none", "native", "projected"},   \* the focus the phone was told last
   cluster : {"none", "native", "projected", "granted"},
   open : BOOLEAN, closed : BOOLEAN, up : BOOLEAN, down : BOOLEAN,
   tap : BOOLEAN, focus : BOOLEAN, pend : BOOLEAN, closing : BOOLEAN,
   done : BOOLEAN, over : BOOLEAN,   \* over: the driver's loop has ended
   watch : BOOLEAN, mainFollowUp : Nat, clusterFollowUp : Nat, bye : Nat,  \* timers
   said : Seq(News)]                 \* what the manager hears

Init ==
  /\ \E active \in BOOLEAN :
       aa = [state |-> "Init", ready |-> FALSE, mic |-> FALSE, disc |-> FALSE,
             ping |-> FALSE, seen |-> FALSE, wanted |-> active,
             pending |-> FALSE, waiting |-> 0, main |-> "none",
             cluster |-> "none",
             open |-> TRUE, closed |-> FALSE, up |-> FALSE, down |-> FALSE,
             tap |-> FALSE, focus |-> FALSE, pend |-> FALSE,
             closing |-> FALSE, done |-> FALSE, over |-> FALSE,
             watch |-> TRUE, mainFollowUp |-> 0, clusterFollowUp |-> 0,
             bye |-> 0, said |-> <<>>]
  /\ phone = [is |-> "here", cluster |-> FALSE]
  /\ left = Budget

-----------------------------------------------------------------------------
(* The driver and its bridge. *)

Say(words, when, e) == IF when THEN Append(words, e) ELSE words

(* Once the session is gone nothing else is said. *)
Emit(s, e) == [s EXCEPT !.said = Say(s.said, ~ s.down, e)]

DropMicTap(s) == IF s.tap THEN Emit([s EXCEPT !.tap = FALSE], "micOff") ELSE s

(* Mutant: the microphone tap is left to its owner. *)
EmitDownTapped(s) ==
  IF s.down THEN s
  ELSE [s EXCEPT !.up = FALSE, !.focus = FALSE, !.down = TRUE,
                 !.said = Append(Say(s.said, s.focus, "focusOff"), "gone")]

EmitDown(s) ==
  IF s.down THEN s
  ELSE [s EXCEPT !.up = FALSE, !.focus = FALSE, !.tap = FALSE, !.down = TRUE,
                 !.said = Append(Say(Say(s.said, s.focus, "focusOff"), s.tap, "micOff"),
                                 "gone")]

(* The bridge forgets the picture, after the end too. *)
OnDisconnected(s) == [EmitDown(s) EXCEPT !.focus = FALSE, !.pend = TRUE]

OnProjected(s) == Emit([s EXCEPT !.focus = TRUE], "focusOn")

OnConnected(s) ==
  IF s.up THEN s ELSE Emit([s EXCEPT !.up = TRUE], "connected")

(* The host may have no microphone to tap. *)
StartMic(s, captured) ==
  IF s.tap \/ s.down \/ ~ s.mic \/ ~ captured THEN s
  ELSE Emit([s EXCEPT !.tap = TRUE], "micOn")

-----------------------------------------------------------------------------
(* The protocol. *)

(* Messages to the phone about who has the picture. *)
TellMain(s, mode) ==
  IF s.state \in {"Init", "Closed"} THEN s ELSE [s EXCEPT !.main = mode]
TellCluster(s, mode) ==
  IF s.state \in {"Init", "Closed"} THEN s ELSE [s EXCEPT !.cluster = mode]

Closes(s) ==
  LET c == [s EXCEPT !.state = "Closed", !.ping = FALSE]
  IN IF c.disc THEN c ELSE OnDisconnected([c EXCEPT !.disc = TRUE])

RequestClusterStream(s) ==
  IF ~ s.wanted THEN s
  ELSE IF s.state # "Running" \/ ~ s.seen THEN [s EXCEPT !.pending = TRUE]
  ELSE TellCluster([s EXCEPT !.pending = FALSE], "projected")

SetClusterStreamActive(s, active) ==
  IF s.wanted = active THEN s
  ELSE IF active THEN RequestClusterStream([s EXCEPT !.wanted = TRUE])
  ELSE LET c == [s EXCEPT !.wanted = FALSE, !.pending = FALSE]
       IN IF s.state = "Running" THEN TellCluster(c, "native") ELSE c

RequestMainKeyframe(s) ==
  IF s.state # "Running" THEN s
  ELSE [TellMain(s, "native") EXCEPT !.mainFollowUp = @ + 1]

ForceClusterKeyframe(s) ==
  IF s.state # "Running" \/ ~ s.wanted THEN s
  ELSE [TellCluster(s, "native") EXCEPT !.clusterFollowUp = @ + 1]

RequestShutdown(s) ==
  IF s.state = "Closed" THEN [s EXCEPT !.done = TRUE]
  ELSE [s EXCEPT !.waiting = @ + 1, !.bye = @ + 1]

FinishShutdown(s) == [Closes(s) EXCEPT !.done = TRUE]

(* Mutant: what the shutdown said is forgotten. *)
BeginCloseLate(s) ==
  IF s.closed THEN s
  ELSE [RequestShutdown([EmitDown([s EXCEPT !.closed = TRUE]) EXCEPT !.closing = TRUE])
        EXCEPT !.done = FALSE]

BeginClose(s) ==
  IF s.closed THEN s
  ELSE RequestShutdown([EmitDown([s EXCEPT !.closed = TRUE])
                        EXCEPT !.closing = TRUE, !.done = FALSE])

(* The driver takes one thing at a time, and looks at the end of its turn  *)
(* whether the session is to be closed or is over.                         *)
Turn(s) ==
  /\ ~ aa.over
  /\ \E t \in {s} :
       \E c \in {IF t.pend THEN BeginClose([t EXCEPT !.pend = FALSE]) ELSE t} :
         aa' = IF c.closing /\ c.done
               THEN [Closes(c) EXCEPT !.pend = FALSE, !.over = TRUE] ELSE c

-----------------------------------------------------------------------------
(* The helper. *)

Hears == aa.open /\ phone.is = "here"

Ready(mic) ==
  /\ Hears /\ ~ aa.ready
  /\ Turn([aa EXCEPT !.ready = TRUE, !.mic = mic,
                     !.state = IF @ = "Init" THEN "ServiceDiscovery" ELSE @])
  /\ UNCHANGED <<phone, left>>

FirstFrame ==
  /\ Hears /\ ~ aa.seen /\ aa.state = "Running"
  /\ LET s == [aa EXCEPT !.seen = TRUE]
         c == IF s.pending THEN RequestClusterStream(s) ELSE s
     IN Turn(IF c.focus THEN c ELSE OnProjected(c))
  /\ UNCHANGED <<phone, left>>

(* The phone's side of the connection ends; the helper goes on. *)
Eof ==
  /\ Hears
  /\ Turn([aa EXCEPT !.ping = FALSE])
  /\ phone' = [phone EXCEPT !.is = "left"]
  /\ UNCHANGED left

HelperClosed ==
  /\ aa.open /\ phone.is # "gone"
  /\ Turn(Closes(aa))
  /\ phone' = [phone EXCEPT !.is = "gone"]
  /\ UNCHANGED left

LinkClosed ==
  /\ aa.open
  /\ Turn(Closes([aa EXCEPT !.open = FALSE]))
  /\ phone' = [phone EXCEPT !.is = "gone"]
  /\ UNCHANGED left

-----------------------------------------------------------------------------
(* The phone. *)

Spends(what) == left[what] > 0 /\ left' = [left EXCEPT ![what] = @ - 1]
Talks == Hears /\ Spends("talk") /\ UNCHANGED phone

(* Mutant: the pings are not started. *)
DiscoverySilent ==
  /\ Hears /\ aa.state = "ServiceDiscovery"
  /\ Turn([aa EXCEPT !.state = "ChannelSetup"])
  /\ UNCHANGED <<phone, left>>

Discovery ==
  /\ Hears /\ aa.state = "ServiceDiscovery"
  /\ Turn([aa EXCEPT !.state = "ChannelSetup", !.ping = TRUE])
  /\ UNCHANGED <<phone, left>>

Answered == aa.state \in {"ChannelSetup", "Running"}

SetupVideo ==
  /\ Talks /\ Answered
  /\ Turn(OnConnected([TellMain(aa, "projected") EXCEPT !.state = "Running"]))

SetupCluster ==
  /\ Hears /\ Answered /\ Spends("talk")
  /\ Turn(RequestClusterStream(aa))
  /\ phone' = [phone EXCEPT !.cluster = TRUE]

(* The phone asks for the picture, or wants to show the host's. *)
FocusRequest(projected) ==
  /\ Talks /\ Answered
  /\ LET s == TellMain(aa, "projected")
     IN Turn(IF projected THEN OnProjected(s) ELSE s)

ClusterFocusRequest ==
  /\ Talks /\ Answered /\ phone.cluster
  /\ Turn(TellCluster(aa, "granted"))

MicStart(captured) == Talks /\ Answered /\ Turn(StartMic(aa, captured))
MicStop == Talks /\ Answered /\ Turn(DropMicTap(aa))

Bye ==
  /\ Hears /\ Answered
  /\ Turn(Closes(aa))
  /\ phone' = [phone EXCEPT !.is = "left"]
  /\ UNCHANGED left

ByeAnswer ==
  /\ Hears /\ aa.waiting > 0 /\ aa.state \notin {"Init", "Closed"}
  /\ Turn(FinishShutdown([aa EXCEPT !.waiting = 0]))
  /\ UNCHANGED <<phone, left>>

(* The phone is out of reach and nothing says so. *)
GoesAway ==
  /\ phone.is = "here" /\ ~ aa.over
  /\ phone' = [phone EXCEPT !.is = "away"]
  /\ UNCHANGED <<aa, left>>

-----------------------------------------------------------------------------
(* Ticks and timers. *)

PingTimeout ==
  /\ aa.ping /\ phone.is = "away"
  /\ Turn(Closes(aa))
  /\ UNCHANGED <<phone, left>>

(* Mutant: only a phone that never came is given up. *)
WatchdogInit ==
  /\ aa.watch
  /\ LET s == [aa EXCEPT !.watch = FALSE]
     IN Turn(IF s.state = "Init" THEN Closes(s) ELSE s)
  /\ UNCHANGED <<phone, left>>

Watchdog ==
  /\ aa.watch
  /\ LET s == [aa EXCEPT !.watch = FALSE]
     IN Turn(IF s.state \in Early THEN Closes(s) ELSE s)
  /\ UNCHANGED <<phone, left>>

MainFollowUp ==
  /\ aa.mainFollowUp > 0
  /\ LET s == [aa EXCEPT !.mainFollowUp = @ - 1]
     IN Turn(IF s.state = "Running" THEN TellMain(s, "projected") ELSE s)
  /\ UNCHANGED <<phone, left>>

(* Mutant: it is not asked whether the picture is still wanted. *)
ClusterFollowUpAnyway ==
  /\ aa.clusterFollowUp > 0
  /\ LET s == [aa EXCEPT !.clusterFollowUp = @ - 1]
     IN Turn(IF s.state = "Running" THEN TellCluster(s, "projected") ELSE s)
  /\ UNCHANGED <<phone, left>>

ClusterFollowUp ==
  /\ aa.clusterFollowUp > 0
  /\ LET s == [aa EXCEPT !.clusterFollowUp = @ - 1]
     IN Turn(IF s.state = "Running" /\ s.wanted
             THEN TellCluster(s, "projected") ELSE s)
  /\ UNCHANGED <<phone, left>>

ShutdownTimeout ==
  /\ aa.bye > 0
  /\ LET s == [aa EXCEPT !.bye = @ - 1]
     IN Turn(IF s.waiting > 0 THEN FinishShutdown([s EXCEPT !.waiting = @ - 1])
             ELSE s)
  /\ UNCHANGED <<phone, left>>

-----------------------------------------------------------------------------
(* The manager's commands. *)
Command(s) == Spends("cmds") /\ Turn(s) /\ UNCHANGED phone

Close == Command(BeginClose(aa))               \* also PowerDown
Disconnect == Command(RequestShutdown(aa))
Keyframe == Command(ForceClusterKeyframe(RequestMainKeyframe(aa)))
ClusterFocus == Command(RequestClusterStream(aa))
ClusterActive(active) == Command(SetClusterStreamActive(aa, active))

Next ==
  \/ \E mic \in BOOLEAN : Ready(mic) \/ MicStart(mic)
  \/ FirstFrame \/ Eof \/ HelperClosed \/ LinkClosed
  \/ Discovery \/ SetupVideo \/ SetupCluster \/ ClusterFocusRequest
  \/ \E on \in BOOLEAN : FocusRequest(on) \/ ClusterActive(on)
  \/ MicStop \/ Bye \/ ByeAnswer \/ GoesAway
  \/ PingTimeout \/ Watchdog \/ MainFollowUp \/ ClusterFollowUp \/ ShutdownTimeout
  \/ Close \/ Disconnect \/ Keyframe \/ ClusterFocus

(* Time passes: ticks and timers come. *)
Fairness == WF_vars(PingTimeout) /\ WF_vars(Watchdog) /\ WF_vars(ShutdownTimeout)
Spec == Init /\ [][Next]_vars /\ Fairness

-----------------------------------------------------------------------------
TypeOK ==
  /\ aa \in Session /\ ~ aa.pend
  /\ ~ aa.over => aa.waiting = aa.bye   \* each goodbye has its timer
  /\ phone \in [is : {"here", "away", "left", "gone"}, cluster : BOOLEAN]
  /\ left \in [{"talk", "cmds"} -> Nat]

At(words, e) == {i \in DOMAIN words : words[i] = e}
Ended(words, on, off) ==
  \A i \in At(words, on) : \E j \in At(words, off) : i < j

(* The manager drops a session when it hears that it is gone, and takes    *)
(* everything it heard as current until then: "gone" is the last word,     *)
(* said once, "connected" is said once at most, and before a session is    *)
(* gone its microphone and its picture were taken back, whichever side     *)
(* ends it and whatever still comes while it says goodbye; no microphone   *)
(* stays open afterwards.                                                  *)
LastWord ==
  /\ \A i \in At(aa.said, "gone") : i = Len(aa.said)
  /\ \A i, j \in At(aa.said, "connected") : i = j
  /\ aa.down => /\ At(aa.said, "gone") # {} /\ ~ aa.tap
                /\ Ended(aa.said, "micOn", "micOff")
                /\ Ended(aa.said, "focusOn", "focusOff")
  /\ aa.over => aa.down /\ aa.state = "Closed"

(* While a session runs, the phone streams the cluster when somebody wants *)
(* it and stops when nobody does, except while a key frame is fetched or   *)
(* when the phone asked for it itself; the main picture comes back after   *)
(* every key frame.                                                        *)
PictureFollows ==
  aa.state = "Running" =>
    /\ aa.cluster = "projected" => aa.wanted
    /\ aa.wanted /\ aa.seen /\ phone.cluster /\ aa.clusterFollowUp = 0
         => aa.cluster \in {"projected", "granted"}
    /\ aa.mainFollowUp = 0 => aa.main = "projected"

(* A session comes up or ends: none hangs in its set-up, wherever the      *)
(* phone or the helper stops.                                              *)
SetsUp == <>(aa.state = "Running" \/ aa.over)

(* A session that was asked to end does so, also when the phone does not   *)
(* answer, ends by itself at that moment, or is asked twice.               *)
CloseEnds == (aa.closing \/ aa.waiting > 0) ~> aa.over

(* A phone that goes out of reach without a word is noticed.               *)
AwayEnds == (phone.is = "away") ~> aa.over
=============================================================================
