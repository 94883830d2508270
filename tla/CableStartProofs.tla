--------------------------- MODULE CableStartProofs ---------------------------
(***************************************************************************)
(* For every number of tries, of sessions and of pluggings: the phone is   *)
(* reset once until a session came or its cable went, and is told to start *)
(* only while it is to come over.  The argument looks at what the map of   *)
(* the manager may hold; ticks and tasks that it does not hold any more    *)
(* may come at any time.                                                   *)
(***************************************************************************)
EXTENDS CableStart, SequenceTheorems, TLAPS

(* Once the reset was spent no timer for another is armed, and a phone that *)
(* was reset has spent it.                                                 *)
Spent ==
  /\ resetOnce => awaiting = "none"
  /\ ~resetOnce => resets = 0
  /\ resets <= 1 /\ resetOnce \in BOOLEAN

(* The map holds a timer of the next start for no phone but one that is to *)
(* come over.                                                              *)
HeldForLeft == toCable # NoTimer => left

IInv == TypeOK /\ Spent /\ HeldForLeft

(* A timer that is held carries the number of one of the tries. *)
LEMMA HeldTry ==
  ASSUME TypeOK
  PROVE  /\ toCable.is = "asleep" => toCable.n \in 1..Tries
         /\ \A n \in 1..Tries : Asleep(n) \in Timers /\ Fired(n) \in Timers
         /\ toCable.is = "asleep" => toCable # NoTimer
<1>1. \A n \in 1..Tries : Asleep(n) \in Timers /\ Fired(n) \in Timers  BY DEF Timers
<1>2. toCable \in Timers  BY DEF TypeOK
<1>3. CASE toCable = NoTimer  BY <1>1, <1>3 DEF NoTimer
<1>4. ASSUME NEW n \in 1..Tries, toCable = Asleep(n) \/ toCable = Fired(n)
      PROVE  /\ toCable.is = "asleep" => toCable.n \in 1..Tries
             /\ toCable.is = "asleep" => toCable # NoTimer
  BY <1>4 DEF NoTimer, Asleep, Fired
<1> QED  BY <1>1, <1>2, <1>3, <1>4 DEF Timers

LEMMA OneTry == Asleep(1) \in Timers
BY CableStartAssumption DEF Timers, Asleep

(* A start asked for by the session that ends: a fresh timer for a phone   *)
(* that is to come over.                                                   *)
LEMMA MadeRoomKeeps ==
  ASSUME IInv, MadeRoom \/ UNCHANGED restart
  PROVE  /\ toCable' \in Timers /\ loose' = loose /\ ticks' = ticks /\ starts' \in Nat
         /\ HeldForLeft'
<1>1. CASE MadeRoom
  BY <1>1, OneTry DEF MadeRoom, StartAgain, HeldForLeft, IInv, TypeOK
<1>2. CASE UNCHANGED restart
  BY <1>2 DEF restart, HeldForLeft, IInv, TypeOK
<1> QED  BY <1>1, <1>2

LEMMA EndsKeeps ==
  ASSUME IInv, NEW session, NEW other, Ends(session, other), UNCHANGED <<stuck, rpcs>>,
         air' \in {"no", "runs", "cabled"}, over' \in {"no", "runs", "cabled"}
  PROVE  IInv'
<1>1. MadeRoom \/ UNCHANGED restart  BY DEF Ends
<1>2. TypeOK'  BY <1>1, MadeRoomKeeps DEF IInv, TypeOK, stuck
<1>3. Spent'  BY DEF IInv, Spent, stuck
<1> QED  BY <1>1, <1>2, <1>3, MadeRoomKeeps DEF IInv

(* A phone that came over is waited for no longer, in either way. *)
LEMMA CameOverKeeps ==
  ASSUME IInv, CameOver, rpcs' = rpcs,
         air' \in {"no", "runs", "cabled"}, over' \in {"no", "runs", "cabled"}
  PROVE  IInv'
<1>1. toCable' = NoTimer /\ HeldForLeft'  BY DEF CameOver, HeldForLeft
<1>2. TypeOK'  BY <1>1 DEF CameOver, IInv, TypeOK, Timers
<1>3. Spent'
  <2>1. ~resetOnce' /\ resetOnce' \in BOOLEAN /\ awaiting' = "none" /\ resets' = 0
    BY Zenon DEF CameOver
  <2> QED  BY <2>1 DEF Spent
<1> QED  BY <1>1, <1>2, <1>3 DEF IInv

-----------------------------------------------------------------------------
(* One lemma per action that touches a timer. *)

LEMMA DeviceKeeps == ASSUME IInv, Device, UNCHANGED rpcs PROVE IInv'
BY DEF Device, restart, stuck, IInv, TypeOK, Spent, HeldForLeft

(* A start that was sent arms the reset, unless it was spent. *)
LEMMA WiredStartKeeps == ASSUME IInv, WiredStart, UNCHANGED rpcs PROVE IInv'
<1>1. MadeRoom \/ UNCHANGED restart  BY DEF WiredStart
<1>2. /\ awaiting' = IF resetOnce THEN "none" ELSE "asleep"
      /\ UNCHANGED <<looseStuck, stucks, resetOnce, resets>>
  BY DEF WiredStart, AwaitSession
<1>3. Spent'  BY <1>2 DEF IInv, Spent
<1>4. air' \in {"no", "runs", "cabled"} /\ over' \in {"no", "runs", "cabled"}
  BY DEF WiredStart, IInv, TypeOK
<1>5. TypeOK'  BY <1>1, <1>2, <1>4, MadeRoomKeeps DEF IInv, TypeOK
<1> QED  BY <1>1, <1>3, <1>5, MadeRoomKeeps DEF IInv

LEMMA DeviceGoneKeeps == ASSUME IInv, DeviceGone, UNCHANGED rpcs PROVE IInv'
<1>1. air' \in {"no", "runs", "cabled"} /\ over' \in {"no", "runs", "cabled"}
  BY DEF DeviceGone, IInv, TypeOK
<1> QED  BY <1>1, CameOverKeeps DEF DeviceGone

LEMMA ReadsKeeps == ASSUME IInv, Reads PROVE IInv'
BY DeviceKeeps, WiredStartKeeps, DeviceGoneKeeps DEF Reads, helper

(* The tick that is read may belong to a timer that was replaced; a start  *)
(* is asked for because of the timer that is held.                         *)
LEMMA StartTickKeeps == ASSUME IInv, StartTick PROVE IInv' /\ (rpcs' > rpcs => left)
<1> DEFINE n == Head(ticks)
<1>1. n \in 1..Tries /\ ticks' \in Seq(1..Tries)
  BY HeadTailProperties DEF StartTick, IInv, TypeOK
<1>2. rpcs \in Nat /\ starts \in Nat /\ loose \in Seq(1..Tries)  BY DEF IInv, TypeOK
<1>3. CASE toCable = NoTimer
  <2>1. UNCHANGED <<toCable, loose, starts, rpcs, left>>  BY <1>3 DEF StartTick
  <2>2. UNCHANGED <<phone, stuck>>  BY DEF StartTick
  <2>3. TypeOK'  BY <1>1, <2>1, <2>2 DEF IInv, TypeOK, phone, stuck
  <2> QED  BY <1>2, <2>1, <2>2, <2>3 DEF IInv, Spent, HeldForLeft, stuck
<1>4. CASE toCable # NoTimer
  <2>1. /\ rpcs' = rpcs + 1 /\ starts' = starts + 1
        /\ loose' = IF toCable.is = "asleep" THEN Append(loose, toCable.n) ELSE loose
        /\ toCable' = IF n < Tries THEN Asleep(n + 1) ELSE NoTimer
        /\ left' = left
    BY <1>4 DEF StartTick
  <2>2. UNCHANGED <<phone, stuck>>  BY DEF StartTick
  <2>3. toCable' \in Timers
    <3>1. n < Tries => n + 1 \in 1..Tries  BY <1>1, CableStartAssumption
    <3>2. NoTimer \in Timers  BY DEF Timers
    <3> HIDE DEF n
    <3> QED  BY <2>1, <3>1, <3>2, HeldTry DEF IInv
  <2>4. loose' \in Seq(1..Tries)
    <3>1. CASE toCable.is = "asleep"
      <4>1. toCable.n \in 1..Tries  BY <3>1, HeldTry DEF IInv
      <4>2. loose' = Append(loose, toCable.n)  BY <2>1, <3>1
      <4> QED  BY <1>2, <4>1, <4>2, AppendProperties
    <3>2. CASE toCable.is # "asleep"  BY <1>2, <2>1, <3>2
    <3> QED  BY <3>1, <3>2
  <2>5. left /\ HeldForLeft'  BY <1>4, <2>1 DEF IInv, HeldForLeft
  <2>6. TypeOK'  BY <1>1, <1>2, <2>1, <2>2, <2>3, <2>4 DEF IInv, TypeOK, phone, stuck
  <2> QED  BY <2>2, <2>5, <2>6 DEF IInv, Spent, stuck
<1> QED  BY <1>3, <1>4

(* A tick of the reset counts for whichever timer the map holds; what it   *)
(* finds, it spends.                                                       *)
LEMMA StuckTickKeeps == ASSUME IInv, StuckTick PROVE IInv'
<1>1. UNCHANGED <<phone, helper, restart>>  BY DEF StuckTick
<1>2. TypeOK'
  BY <1>1 DEF StuckTick, IInv, TypeOK, phone, helper, restart
<1>3. Spent'
  <2>1. CASE awaiting = "none"  BY <2>1 DEF StuckTick, IInv, Spent
  <2>2. CASE awaiting # "none"
    <3>1. ~resetOnce /\ resets = 0  BY <2>2 DEF IInv, Spent
    <3> QED  BY <2>2, <3>1 DEF StuckTick, Spent
  <2> QED  BY <2>1, <2>2
<1> QED  BY <1>1, <1>2, <1>3 DEF IInv, HeldForLeft, restart

LEMMA TimerFiresKeeps == ASSUME IInv, TimerFires PROVE IInv'
<1>1. UNCHANGED <<phone, rpcs, left, starts, stuck>>  BY DEF TimerFires, helper
<1>2. toCable' \in Timers /\ (toCable' # NoTimer => toCable # NoTimer)
  BY HeldTry DEF TimerFires, IInv, TypeOK
<1>3. ticks' \in Seq(1..Tries) /\ loose' \in Seq(1..Tries)
  <2>1. ticks \in Seq(1..Tries) /\ loose \in Seq(1..Tries)  BY DEF IInv, TypeOK
  <2>2. ASSUME toCable.is = "asleep", ticks' = Append(ticks, toCable.n), loose' = loose
        PROVE  ticks' \in Seq(1..Tries) /\ loose' \in Seq(1..Tries)
    <3>1. toCable.n \in 1..Tries  BY <2>2, HeldTry DEF IInv
    <3> QED  BY <2>1, <2>2, <3>1, AppendProperties
  <2>3. ASSUME loose # <<>>, ticks' = Append(ticks, Head(loose)), loose' = Tail(loose)
        PROVE  ticks' \in Seq(1..Tries) /\ loose' \in Seq(1..Tries)
    <3>1. Head(loose) \in 1..Tries /\ Tail(loose) \in Seq(1..Tries)
      BY <2>1, <2>3, HeadTailProperties
    <3> QED  BY <2>1, <2>3, <3>1, AppendProperties
  <2> QED  BY <2>2, <2>3 DEF TimerFires
<1>4. TypeOK'  BY <1>1, <1>2, <1>3 DEF IInv, TypeOK, phone, stuck
<1> QED  BY <1>1, <1>2, <1>4 DEF IInv, Spent, HeldForLeft, stuck

LEMMA StuckFiresKeeps == ASSUME IInv, StuckFires PROVE IInv'
BY DEF StuckFires, phone, helper, restart, IInv, TypeOK, Spent, HeldForLeft

LEMMA PhoneComesKeeps == ASSUME IInv, PhoneComes PROVE IInv'
<1>1. /\ rpcs' = rpcs
      /\ air' \in {"no", "runs", "cabled"} /\ over' \in {"no", "runs", "cabled"}
  BY DEF PhoneComes, helper, IInv, TypeOK
<1>2. CASE addr  BY <1>1, <1>2, CameOverKeeps DEF PhoneComes
<1>3. CASE ~addr
  BY <1>1, <1>3 DEF PhoneComes, restart, stuck, IInv, TypeOK, Spent, HeldForLeft
<1> QED  BY <1>2, <1>3

(* What else the helper and the phone do concerns no timer. *)
LEMMA OthersKeep ==
  ASSUME IInv, UNCHANGED <<over, restart, stuck>>, rpcs' \in Nat,
         air' \in {"no", "runs", "cabled"}
  PROVE  IInv'
BY DEF restart, stuck, IInv, TypeOK, Spent, HeldForLeft

LEMMA HelperKeeps ==
  ASSUME IInv,
         \/ Plug \/ Unplug \/ NamesItself \/ Offers
         \/ RequestArrives \/ Forwards \/ StartsAgain \/ AirComes
  PROVE  IInv'
<1>1. rpcs \in Nat /\ air \in {"no", "runs", "cabled"}  BY DEF IInv, TypeOK
<1>2. UNCHANGED <<over, restart, stuck>>
  BY DEF Plug, Unplug, NamesItself, Offers, RequestArrives, Forwards, StartsAgain, AirComes, phone
<1>3. rpcs' \in Nat
  BY <1>1 DEF Plug, Unplug, NamesItself, Offers, RequestArrives, Forwards, StartsAgain, AirComes,
              helper
<1>4. air' \in {"no", "runs", "cabled"}
  BY <1>1 DEF Plug, Unplug, NamesItself, Offers, RequestArrives, Forwards, StartsAgain, AirComes,
              phone
<1> QED  BY <1>2, <1>3, <1>4, OthersKeep

LEMMA SessionEndsKeeps == ASSUME IInv, AirEnds \/ CableEnds PROVE IInv'
<1>1. CASE AirEnds
  BY <1>1, EndsKeeps DEF AirEnds, IInv, TypeOK, helper
<1>2. CASE CableEnds
  BY <1>2, EndsKeeps DEF CableEnds, IInv, TypeOK, helper
<1> QED  BY <1>1, <1>2

-----------------------------------------------------------------------------
LEMMA StartsTrue == Init => IInv
<1> SUFFICES ASSUME Init PROVE IInv  OBVIOUS
<1>1. <<>> \in Seq(1..Tries)  OBVIOUS
<1>2. TypeOK  BY <1>1 DEF Init, TypeOK, Timers
<1>3. Spent
  <2>1. ~resetOnce /\ resetOnce \in BOOLEAN /\ awaiting = "none" /\ resets = 0
    BY Zenon DEF Init
  <2> QED  BY <2>1 DEF Spent
<1>4. HeldForLeft  BY DEF Init, HeldForLeft
<1> QED  BY <1>2, <1>3, <1>4 DEF IInv

LEMMA StepKeeps == IInv /\ [Next]_vars => IInv'
<1> SUFFICES ASSUME IInv, [Next]_vars PROVE IInv'  OBVIOUS
<1>1. CASE UNCHANGED vars
  BY <1>1 DEF vars, phone, helper, restart, stuck, IInv, TypeOK, Spent, HeldForLeft
<1>2. CASE Next
  BY <1>2, ReadsKeeps, StartTickKeeps, StuckTickKeeps, TimerFiresKeeps, StuckFiresKeeps,
     PhoneComesKeeps, HelperKeeps, SessionEndsKeeps DEF Next
<1> QED  BY <1>1, <1>2

LEMMA AlwaysIInv == Spec => []IInv
BY StartsTrue, StepKeeps, PTL DEF Spec

(* Timers and their ticks carry the number of one of the tries, also the   *)
(* tasks whose handle was dropped: the manager starts the phone no oftener *)
(* with one timer than RESTART_TRIES says.                                 *)
THEOREM TypeCorrect == Spec => []TypeOK
<1>1. IInv => TypeOK  BY DEF IInv
<1> QED  BY <1>1, AlwaysIInv, PTL

(* A phone that never opens its session is reset once, however often it    *)
(* hears the start and however late a tick comes.                          *)
THEOREM AlwaysResetOnce == Spec => []ResetOnce
<1>1. IInv => ResetOnce  BY DEF IInv, Spent, ResetOnce
<1> QED  BY <1>1, AlwaysIInv, PTL

(* A start is asked for only while the phone is to come over. *)
THEOREM AlwaysStartsOnlyForLeft == Spec => StartsOnlyForLeft
<1>1. IInv /\ [Next]_vars => [rpcs' > rpcs => left]_vars
  <2> SUFFICES ASSUME IInv, Next, rpcs' > rpcs PROVE left  OBVIOUS
  <2>1. rpcs \in Nat  BY DEF IInv, TypeOK
  <2>2. ~(rpcs > rpcs) /\ ~(rpcs - 1 > rpcs)  BY <2>1
  <2>3. StartTick
    <3>1. CASE rpcs' = rpcs  BY <3>1, <2>2
    <3>2. CASE rpcs' = rpcs - 1  BY <3>2, <2>2
    <3> QED
      BY <3>1, <3>2 DEF Next, Reads, StuckTick, TimerFires, StuckFires, Plug, Unplug, NamesItself,
         Offers, RequestArrives, Forwards, StartsAgain, AirComes, AirEnds, PhoneComes, CableEnds,
         helper
  <2> QED  BY <2>3, StartTickKeeps
<1> QED  BY <1>1, AlwaysIInv, PTL DEF Spec, StartsOnlyForLeft
=============================================================================
