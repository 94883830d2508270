------------------------------ MODULE CableStart ------------------------------
(***************************************************************************)
(* How a phone is brought over to its cable.  The manager                  *)
(* (livi-cp/src/manager.rs) repeats the start once the session of the air  *)
(* made room, and has the phone's USB reset when no session came after a   *)
(* start; the helper (livi-helper/src/wired.rs, livi-runtime/src/          *)
(* bringup.rs) passes the start to the phone and reports each one sent.    *)
(* One phone; the manager keeps all of this per UDID.                      *)
(*                                                                         *)
(* A timer is a task that sleeps and then sends its tick.  The map of the  *)
(* manager holds its handle: aborting it stops a task that still sleeps,   *)
(* not a tick that is in the channel, and a handle that is dropped leaves  *)
(* its task running (loose).  Timers fire at any time here.                *)
(***************************************************************************)
EXTENDS Integers, Sequences

CONSTANTS Tries,    \* RESTART_TRIES
          MaxAirs,  \* bound: sessions of the air
          MaxPlugs  \* bound: times the cable is plugged in

ASSUME CableStartAssumption == Tries \in Nat \ {0} /\ MaxAirs \in Nat /\ MaxPlugs \in Nat

VARIABLES air,       \* the phone's session of the air: "no", "runs" or "cabled"
          over,      \* its session of the cable, likewise
          airs, plugs,
          plugged,   \* the helper talks iAP2 over the cable
          named, offered, \* the phone named itself, offered CarPlay there
          told,      \* the phone was told to start and did not yet
          feed,      \* the helper's events on their way to the manager
          wired, addr, \* the manager knows the cable, its address
          rpcs,      \* start-wired requests on their way to the helper
          asked, again, \* permits of the helper's two Notify
          toCable, loose, ticks,       \* timers of the next start
          awaiting, looseStuck, stucks, \* timers of the reset
          resetOnce,
          left,      \* a session made room, and none came over since
          starts,    \* starts asked for since
          resets     \* resets asked for since a session came or the cable went

phone == <<air, over, airs, plugs, plugged, named, offered, told>>
helper == <<rpcs, asked, again>>
restart == <<toCable, loose, ticks, left, starts>>
stuck == <<awaiting, looseStuck, stucks, resetOnce, resets>>
vars == <<phone, feed, wired, addr, helper, restart, stuck>>

NoTimer == [is |-> "none", n |-> 0]
Asleep(n) == [is |-> "asleep", n |-> n]
Fired(n) == [is |-> "fired", n |-> n]

Init ==
  /\ air = "no" /\ over = "no" /\ airs = 0 /\ plugs = 0
  /\ plugged = FALSE /\ named = FALSE /\ offered = FALSE /\ told = FALSE
  /\ feed = <<>> /\ wired = FALSE /\ addr = FALSE
  /\ rpcs = 0 /\ asked = FALSE /\ again = FALSE
  /\ toCable = NoTimer /\ loose = <<>> /\ ticks = <<>>
  /\ awaiting = "none" /\ looseStuck = 0 /\ stucks = 0 /\ resetOnce = FALSE
  /\ left = FALSE /\ starts = 0 /\ resets = 0

-----------------------------------------------------------------------------
(* What the manager does. *)

(* The next start after a while; the timer before it is aborted. *)
StartAgain == toCable' = Asleep(1)

(* Mutant: the timer of the next start is left running. *)
CameOverTimed ==
  /\ awaiting' = "none" /\ resetOnce' = FALSE
  /\ left' = FALSE /\ starts' = 0 /\ resets' = 0
  /\ UNCHANGED <<toCable, loose, ticks, looseStuck, stucks>>

CameOver ==
  /\ awaiting' = "none" /\ resetOnce' = FALSE /\ toCable' = NoTimer
  /\ left' = FALSE /\ starts' = 0 /\ resets' = 0
  /\ UNCHANGED <<loose, ticks, looseStuck, stucks>>

(* Mutant: every start has its own reset. *)
AwaitEachTime ==
  /\ awaiting' = "asleep"
  /\ UNCHANGED <<looseStuck, stucks, resetOnce, resets>>

AwaitSession ==
  /\ awaiting' = IF resetOnce THEN "none" ELSE "asleep"
  /\ UNCHANGED <<looseStuck, stucks, resetOnce, resets>>

(* Mutant: the session's mark is dropped before it ends, as supersede()     *)
(* does for one that another took over.                                    *)
MadeRoomUnmarked == left' = TRUE /\ starts' = 0 /\ UNCHANGED <<toCable, loose, ticks>>

(* A session that was to leave for the cable made room: the start is       *)
(* repeated.                                                               *)
MadeRoom == StartAgain /\ left' = TRUE /\ starts' = 0 /\ UNCHANGED <<loose, ticks>>

(* A session ends, by itself or because the other one took over.           *)
Ends(session, other) ==
  \/ session = "cabled" /\ MadeRoom
  \/ (session # "cabled" \/ other # "no") /\ UNCHANGED restart

(* A phone is named with its UDID: a session that it named itself to, and  *)
(* that has a controller, is to leave for the cable.                       *)
Device ==
  /\ Head(feed) = "device"
  /\ wired' = TRUE
  /\ \/ UNCHANGED <<air, over>>
     \/ ~wired /\ air = "runs" /\ air' = "cabled" /\ UNCHANGED over
     \/ ~wired /\ over = "runs" /\ over' = "cabled" /\ UNCHANGED air
  /\ UNCHANGED <<addr, restart, stuck>>

WiredStart ==
  /\ Head(feed) = "wired-start"
  /\ addr' = TRUE /\ AwaitSession
  /\ air' = IF air = "cabled" THEN "no" ELSE air
  /\ over' = IF over = "cabled" THEN "no" ELSE over
  /\ IF air = "cabled" \/ over = "cabled" THEN MadeRoom ELSE UNCHANGED restart
  /\ UNCHANGED wired

(* The session of the cable ends with it when it knows the UDID. *)
DeviceGone ==
  /\ Head(feed) = "device-gone"
  /\ wired' = FALSE /\ addr' = FALSE /\ CameOver
  /\ air' = IF air = "cabled" THEN "runs" ELSE air
  /\ IF over = "cabled" THEN over' = "runs" ELSE over' \in {over, "no"}

Reads ==
  /\ feed # <<>> /\ feed' = Tail(feed)
  /\ Device \/ WiredStart \/ DeviceGone
  /\ UNCHANGED <<airs, plugs, plugged, named, offered, told, helper>>

(* Mutant: the last try has another one after it. *)
StartTickOnceMore ==
  /\ ticks # <<>> /\ ticks' = Tail(ticks)
  /\ LET n == Head(ticks)
     IN IF toCable = NoTimer THEN UNCHANGED <<toCable, loose, starts, rpcs>>
        ELSE /\ rpcs' = rpcs + 1 /\ starts' = starts + 1
             /\ loose' = IF toCable.is = "asleep" THEN Append(loose, toCable.n) ELSE loose
             /\ toCable' = IF n <= Tries THEN Asleep(n + 1) ELSE NoTimer
  /\ UNCHANGED <<phone, feed, wired, addr, asked, again, left, stuck>>

(* A tick counts only while the map holds a timer, whichever it is. *)
StartTick ==
  /\ ticks # <<>> /\ ticks' = Tail(ticks)
  /\ LET n == Head(ticks)
     IN IF toCable = NoTimer THEN UNCHANGED <<toCable, loose, starts, rpcs>>
        ELSE /\ rpcs' = rpcs + 1 /\ starts' = starts + 1
             /\ loose' = IF toCable.is = "asleep" THEN Append(loose, toCable.n) ELSE loose
             /\ toCable' = IF n < Tries THEN Asleep(n + 1) ELSE NoTimer
  /\ UNCHANGED <<phone, feed, wired, addr, asked, again, left, stuck>>

StuckTick ==
  /\ stucks > 0 /\ stucks' = stucks - 1
  /\ IF awaiting = "none" THEN UNCHANGED <<looseStuck, resetOnce, resets>>
     ELSE /\ resetOnce' = TRUE /\ resets' = resets + 1
          /\ looseStuck' = looseStuck + (IF awaiting = "asleep" THEN 1 ELSE 0)
  /\ awaiting' = "none"
  /\ UNCHANGED <<phone, feed, wired, addr, helper, restart>>

TimerFires ==
  /\ \/ /\ toCable.is = "asleep" /\ toCable' = Fired(toCable.n)
        /\ ticks' = Append(ticks, toCable.n) /\ UNCHANGED loose
     \/ /\ loose # <<>> /\ loose' = Tail(loose)
        /\ ticks' = Append(ticks, Head(loose)) /\ UNCHANGED toCable
  /\ UNCHANGED <<phone, feed, wired, addr, helper, left, starts, stuck>>

StuckFires ==
  /\ \/ awaiting = "asleep" /\ awaiting' = "fired" /\ UNCHANGED looseStuck
     \/ looseStuck > 0 /\ looseStuck' = looseStuck - 1 /\ UNCHANGED awaiting
  /\ stucks' = stucks + 1
  /\ UNCHANGED <<phone, feed, wired, addr, helper, restart, resetOnce, resets>>

-----------------------------------------------------------------------------
(* What the helper and the phone do. *)

Reports(e) == feed' = Append(feed, e)

Plug ==
  /\ ~plugged /\ plugs < MaxPlugs
  /\ plugged' = TRUE /\ plugs' = plugs + 1
  /\ named' = FALSE /\ offered' = FALSE /\ told' = FALSE
  /\ asked' = FALSE /\ again' = FALSE
  /\ UNCHANGED <<air, over, airs, feed, wired, addr, rpcs, restart, stuck>>

Unplug ==
  /\ plugged /\ plugged' = FALSE /\ told' = FALSE
  /\ Reports("device-gone")
  /\ UNCHANGED <<air, over, airs, plugs, named, offered, wired, addr, helper, restart, stuck>>

NamesItself ==
  /\ plugged /\ ~named /\ named' = TRUE
  /\ Reports("device")
  /\ UNCHANGED <<air, over, airs, plugs, plugged, offered, told, wired, addr, helper, restart, stuck>>

SendsStart == told' = TRUE /\ Reports("wired-start")

Offers ==
  /\ plugged /\ ~offered /\ offered' = TRUE
  /\ SendsStart
  /\ UNCHANGED <<air, over, airs, plugs, plugged, named, wired, addr, helper, restart, stuck>>

RequestArrives ==
  /\ rpcs > 0 /\ rpcs' = rpcs - 1
  /\ asked' = (asked \/ plugged)
  /\ UNCHANGED <<phone, feed, wired, addr, again, restart, stuck>>

(* Once the MFi chip is there, the request goes on. *)
Forwards ==
  /\ plugged /\ asked /\ asked' = FALSE /\ again' = TRUE
  /\ UNCHANGED <<phone, feed, wired, addr, rpcs, restart, stuck>>

StartsAgain ==
  /\ plugged /\ again /\ again' = FALSE
  /\ IF offered THEN SendsStart ELSE UNCHANGED <<told, feed>>
  /\ UNCHANGED <<air, over, airs, plugs, plugged, named, offered, wired, addr, rpcs, asked,
                 restart, stuck>>

AirComes ==
  /\ air = "no" /\ airs < MaxAirs
  /\ air' = "runs" /\ airs' = airs + 1
  /\ UNCHANGED <<over, plugs, plugged, named, offered, told, feed, wired, addr,
                 helper, restart, stuck>>

AirEnds ==
  /\ air # "no" /\ air' = "no" /\ Ends(air, over)
  /\ UNCHANGED <<over, airs, plugs, plugged, named, offered, told, feed, wired, addr,
                 helper, stuck>>

(* The phone opens its session over the cable. *)
PhoneComes ==
  /\ plugged /\ told /\ over = "no"
  /\ over' = "runs" /\ told' = FALSE
  /\ IF addr THEN CameOver ELSE UNCHANGED <<restart, stuck>>
  /\ UNCHANGED <<air, airs, plugs, plugged, named, offered, feed, wired, addr, helper>>

CableEnds ==
  /\ over # "no" /\ over' = "no" /\ Ends(over, air)
  /\ UNCHANGED <<air, airs, plugs, plugged, named, offered, told, feed, wired, addr,
                 helper, stuck>>

Next ==
  \/ Reads \/ StartTick \/ StuckTick \/ TimerFires \/ StuckFires
  \/ Plug \/ Unplug \/ NamesItself \/ Offers
  \/ RequestArrives \/ Forwards \/ StartsAgain
  \/ AirComes \/ AirEnds \/ PhoneComes \/ CableEnds

(* The timers run out and the manager reads its ticks. *)
Spec == Init /\ [][Next]_vars /\ WF_vars(TimerFires) /\ WF_vars(StartTick)

-----------------------------------------------------------------------------
Timers == {NoTimer} \cup {Asleep(n) : n \in 1..Tries} \cup {Fired(n) : n \in 1..Tries}

TypeOK ==
  /\ air \in {"no", "runs", "cabled"} /\ over \in {"no", "runs", "cabled"}
  /\ toCable \in Timers /\ loose \in Seq(1..Tries) /\ ticks \in Seq(1..Tries)
  /\ awaiting \in {"none", "asleep", "fired"} /\ looseStuck \in Nat /\ stucks \in Nat
  /\ rpcs \in Nat /\ starts \in Nat /\ resets \in Nat

(* A phone that never opens its session is reset once, however often it    *)
(* hears the start and however late a tick comes.                          *)
ResetOnce == resets <= 1

(* Once the phone came over, or its cable went, no start is asked for,     *)
(* also when a tick was on its way.                                        *)
StartsOnlyForLeft == [][rpcs' > rpcs => left]_vars

(* A phone whose session of the air made room hears the start again.       *)
LeftHearsStart == left /\ starts = 0 ~> starts > 0 \/ ~left
=============================================================================
