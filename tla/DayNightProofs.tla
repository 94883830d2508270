--------------------------- MODULE DayNightProofs ---------------------------
(***************************************************************************)
(* For any phones, and however user, sun, car and tasks interleave: the    *)
(* theme in the telemetry and the one in the config are the same once      *)
(* nothing is on its way.  Of the state only what a theme passes through   *)
(* matters, so only that is typed here.                                    *)
(***************************************************************************)
EXTENDS DayNight, SequenceTheorems, TLAPS

Tasks == [mode : Modes, theme : Looks, next : Maybe, owed : Maybe, saving : Maybe]
ThemeTypes ==
  /\ config \in [mode : Modes, theme : Looks] /\ snap \in Snaps
  /\ news \subseteq Watchers
  /\ patches \in [Senders -> Seq(Patches)]
  /\ task \in Tasks /\ sun \in Looks

(* What the telemetry task still has to do is the difference of the two:   *)
(* a theme published and not compared is the snapshot's; and the task has  *)
(* the config's theme, or goes on with it, unless the hub has news for it. *)
Owes == IF task.owed = "none" THEN snap.theme \in {"none", task.theme}
        ELSE snap.theme = task.owed
Knows ==
  "telemetry" \notin news =>
     /\ task.owed = "none" /\ task.saving = "none"
     /\ IF task.next = "none" THEN task.theme = config.theme
        ELSE task.next = config.theme
IInv == ThemeTypes /\ Owes /\ Knows

-----------------------------------------------------------------------------
LEMMA InitHolds == Init => IInv
<1> SUFFICES ASSUME Init PROVE IInv
  OBVIOUS
<1>1. config \in [mode : Modes, theme : Looks] /\ NightMode(config.mode) \in Maybe
  BY DEF Init, NightMode, Modes, Looks, Maybe
<1>2. snap = [night |-> NightMode(config.mode), cluster |-> "none", theme |-> "none"]
  BY DEF Init, NoSnap
<1>3. snap \in Snaps
  BY <1>1, <1>2 DEF Snaps, Maybe
<1>4. news \subseteq Watchers
  BY DEF Init, Watchers
<1>5. patches \in [Senders -> Seq(Patches)]
  <2>1. patches = [from \in Senders |-> <<>>] /\ <<>> \in Seq(Patches)
    BY DEF Init
  <2> QED BY <2>1
<1>6. task \in Tasks /\ sun \in Looks
  BY <1>1 DEF Init, Tasks, Maybe, Looks
<1>7. Owes /\ Knows
  BY <1>2 DEF Init, Owes, Knows
<1> QED BY <1>1, <1>3, <1>4, <1>5, <1>6, <1>7 DEF IInv, ThemeTypes

(* A step that lets the theme and the task alone and hides no news from it *)
(* keeps all of it.                                                        *)
LEMMA Undisturbed ==
  ASSUME IInv, UNCHANGED <<snap, task>>, config' = [config EXCEPT !.mode = config'.mode],
         config'.mode \in Modes, news' \subseteq Watchers, sun' \in Looks,
         "telemetry" \in news => "telemetry" \in news',
         patches' \in [Senders -> Seq(Patches)]
  PROVE  IInv'
<1>1. config' \in [mode : Modes, theme : Looks] /\ config'.theme = config.theme
  BY DEF IInv, ThemeTypes
<1>2. ThemeTypes'
  BY <1>1 DEF IInv, ThemeTypes
<1>3. Owes' /\ Knows'
  BY <1>1 DEF IInv, Owes, Knows
<1> QED BY <1>2, <1>3 DEF IInv

(* What a patch of the two senders does to the telemetry.                  *)
LEMMA PushTells ==
  ASSUME snap \in Snaps, NEW patch \in Patches, NEW t \in Tasks, Push(patch, t)
  PROVE  /\ snap' \in Snaps /\ task' \in Tasks /\ news' = Watchers
         /\ snap'.theme = IF patch.theme = "keep" THEN snap.theme ELSE patch.theme
         /\ task'.owed = IF patch.theme = "keep" THEN "none" ELSE patch.theme
         /\ task'.theme = t.theme /\ task'.next = t.next /\ task'.saving = t.saving
<1>1. DOMAIN snap = {"night", "cluster", "theme"}
  BY DEF Snaps
<1>2. snap' = [night |-> IF patch.night = "keep" THEN snap.night ELSE patch.night,
               cluster |-> IF patch.cluster = "keep" THEN snap.cluster ELSE patch.cluster,
               theme |-> IF patch.theme = "keep" THEN snap.theme ELSE patch.theme]
  BY <1>1 DEF Push, Merge
<1>3. snap' \in Snaps
  BY <1>2 DEF Snaps, Patches, Maybe, Looks
<1>4. task' = [t EXCEPT !.owed = IF patch.theme = "keep" THEN "none" ELSE patch.theme]
  BY DEF Push, Patches, Looks
<1>5. task' \in Tasks
  BY <1>4 DEF Tasks, Patches, Maybe, Looks
<1> QED BY <1>2, <1>3, <1>4, <1>5 DEF Push, Tasks

(* So it keeps the invariant when the task owed nothing before it.         *)
LEMMA PushHolds ==
  ASSUME IInv, NEW patch \in Patches, NEW t \in Tasks, Push(patch, t),
         patch.theme = "keep" => task.owed = "none" /\ t.theme = task.theme,
         UNCHANGED <<config, sun>>, patches' \in [Senders -> Seq(Patches)]
  PROVE  IInv'
<1>1. snap \in Snaps
  BY DEF IInv, ThemeTypes
<1>2. /\ snap' \in Snaps /\ task' \in Tasks /\ news' = Watchers
      /\ snap'.theme = IF patch.theme = "keep" THEN snap.theme ELSE patch.theme
      /\ task'.owed = IF patch.theme = "keep" THEN "none" ELSE patch.theme
      /\ task'.theme = t.theme
  BY <1>1, PushTells
<1>3. ThemeTypes'
  BY <1>2 DEF IInv, ThemeTypes
<1>4. Owes'
  <2>1. patch.theme # "none"
    BY DEF Patches, Looks
  <2> QED BY <1>2, <2>1 DEF IInv, Owes
<1>5. Knows'
  BY <1>2 DEF Knows, Watchers
<1> QED BY <1>3, <1>4, <1>5 DEF IInv

LEMMA EvaluateTypes ==
  ASSUME patches \in [Senders -> Seq(Patches)], sun \in Looks, NEW active, Evaluate(active)
  PROVE  patches' \in [Senders -> Seq(Patches)]
<1> DEFINE p == [night |-> sun, cluster |-> "none", theme |-> sun]
<1>1. p \in Patches
  BY DEF Patches, Maybe, Looks
<1>2. CASE UNCHANGED patches
  BY <1>2
<1>3. CASE patches' = [patches EXCEPT !.sun = Append(@, p)]
  <2>1. "sun" \in Senders /\ patches.sun \in Seq(Patches)
    BY DEF Senders
  <2>2. Append(patches.sun, p) \in Seq(Patches)
    BY <1>1, <2>1
  <2> HIDE DEF p
  <2> QED BY <1>3, <2>1, <2>2
<1> QED BY <1>2, <1>3 DEF Evaluate

-----------------------------------------------------------------------------
LEMMA TelemetryHolds == IInv /\ (Telemetry \/ SaveFails) => IInv'
<1> SUFFICES ASSUME IInv, Telemetry \/ SaveFails PROVE IInv'
  OBVIOUS
<1> USE DEF IInv, ThemeTypes
<1>1. ASSUME NEW from \in Senders, TakePatch(from) PROVE IInv'
  <2>1. patches[from] \in Seq(Patches) /\ patches[from] # <<>>
    BY <1>1 DEF TakePatch
  <2>2. Head(patches[from]) \in Patches /\ Tail(patches[from]) \in Seq(Patches)
    BY <2>1
  <2>3. patches' \in [Senders -> Seq(Patches)]
    BY <1>1, <2>2 DEF TakePatch
  <2>4. Push(Head(patches[from]), task) /\ task.owed = "none" /\ UNCHANGED <<config, sun>>
    BY <1>1 DEF TakePatch, Idle, others, world
  <2> QED BY <2>2, <2>3, <2>4, PushHolds
<1>2. CASE Appearance
  <2> DEFINE t == [task EXCEPT !.mode = config.mode, !.next = config.theme]
  <2>1. /\ task.owed = "none" /\ task.saving = "none"
        /\ UNCHANGED <<config, sun, patches>>
    BY <1>2 DEF Appearance, Idle, others, world
  <2>2. t \in Tasks /\ t.theme = task.theme /\ t.owed = "none" /\ t.saving = "none"
        /\ t.next = config.theme
    BY <2>1 DEF Tasks, Maybe
  <2>3. CASE config.mode \in Looks /\ Push(ModePatch(config.mode), t)
    <3>1. ModePatch(config.mode) \in Patches
      BY <2>3 DEF ModePatch, Patches, Maybe
    <3> HIDE DEF t
    <3> QED BY <2>1, <2>2, <2>3, <3>1, PushHolds
  <2>4. CASE task' = t /\ news' = news \ {"telemetry"} /\ UNCHANGED snap
    <3>1. ThemeTypes'
      BY <2>1, <2>2, <2>4
    <3>2. Owes'
      BY <2>1, <2>2, <2>4 DEF Owes
    <3>3. Knows'
      <4>1. config.theme # "none"
        BY DEF Looks
      <4> HIDE DEF t
      <4> QED BY <2>1, <2>2, <2>4, <4>1 DEF Knows
    <3> QED BY <3>1, <3>2, <3>3
  <2> QED BY <1>2, <2>3, <2>4 DEF Appearance
<1>3. CASE DarkMode
  <2> DEFINE t == [task EXCEPT !.theme = task.next, !.next = "none"]
  <2>1. /\ task.owed = "none" /\ task.saving = "none" /\ task.next \in Looks
        /\ UNCHANGED <<config, sun, patches>>
    BY <1>3 DEF DarkMode, others, world, Tasks, Maybe
  <2>2. CASE /\ task.next = task.theme
             /\ task' = [task EXCEPT !.next = "none"] /\ UNCHANGED <<snap, news>>
    <3>1. /\ task' \in Tasks /\ task'.next = "none" /\ task'.owed = "none"
          /\ task'.saving = "none" /\ task'.theme = task.theme
      BY <2>1, <2>2 DEF Tasks, Maybe
    <3>2. task.next # "none"
      BY <2>1 DEF Looks
    <3>3. Owes' /\ Knows'
      BY <2>1, <2>2, <3>1, <3>2 DEF Owes, Knows
    <3> QED BY <2>1, <2>2, <3>1, <3>3
  <2>3. CASE Push(ThemePatch(task.next), t)
    <3>1. /\ ThemePatch(task.next) \in Patches /\ ThemePatch(task.next).theme = task.next
          /\ task.next # "keep" /\ t \in Tasks
      BY <2>1 DEF ThemePatch, Patches, Maybe, Looks, Tasks
    <3> HIDE DEF t
    <3> QED BY <2>1, <2>3, <3>1, PushHolds
  <2> QED BY <1>3, <2>2, <2>3 DEF DarkMode
<1>4. CASE DarkFrom
  <2>1. /\ task.owed \in Looks /\ UNCHANGED <<config, snap, news, sun, patches>>
        /\ task' = [task EXCEPT !.theme = task.owed, !.owed = "none",
                      !.saving = IF config.theme = task.owed THEN "none" ELSE task.owed]
    BY <1>4 DEF DarkFrom, hub, others, world, Tasks, Maybe
  <2>2. "telemetry" \in news /\ snap.theme = task.owed
    BY <1>4 DEF DarkFrom, Knows, Owes
  <2>3. task' \in Tasks /\ task'.owed = "none" /\ task'.theme = task.owed
    BY <2>1 DEF Tasks, Maybe
  <2> QED BY <2>1, <2>2, <2>3 DEF Owes, Knows
<1>5. CASE Save \/ SaveFails
  <2>1. /\ task.saving \in Looks /\ UNCHANGED <<snap, sun, patches>>
        /\ task' = [task EXCEPT !.saving = "none"]
        /\ config' \in {config, [config EXCEPT !.theme = task.saving]}
        /\ news' \in {news, Watchers}
    BY <1>5 DEF Save, SaveFails, hub, others, world, Tasks, Maybe
  <2>2. "telemetry" \in news
    BY <1>5 DEF Save, SaveFails, Knows
  <2>3. /\ task' \in Tasks /\ task'.owed = task.owed /\ task'.theme = task.theme
        /\ config' \in [mode : Modes, theme : Looks]
        /\ news' \subseteq Watchers /\ "telemetry" \in news'
    BY <2>1, <2>2 DEF Tasks, Maybe, Watchers
  <2> QED BY <2>1, <2>3 DEF Owes, Knows
<1> QED BY <1>1, <1>2, <1>3, <1>4, <1>5 DEF Telemetry, Senders

LEMMA OthersHold ==
  IInv /\ (Tick \/ ScheduleLooks \/ Projection \/ Managers) => IInv'
<1> SUFFICES ASSUME IInv, Tick \/ ScheduleLooks \/ Projection \/ Managers PROVE IInv'
  OBVIOUS
<1>1. /\ patches \in [Senders -> Seq(Patches)] /\ sun \in Looks /\ news \subseteq Watchers
      /\ config.mode \in Modes /\ config = [config EXCEPT !.mode = config.mode]
  BY DEF IInv, ThemeTypes
<1>2. /\ UNCHANGED <<config, snap, task, sun>>
      /\ news' \subseteq Watchers /\ ("telemetry" \in news => "telemetry" \in news')
      /\ patches' \in [Senders -> Seq(Patches)]
  <2>1. CASE Tick \/ ScheduleLooks
    <3>1. UNCHANGED <<config, snap, task, sun>> /\ news' \in {news, news \ {"schedule"}}
      BY <2>1 DEF Tick, ScheduleLooks, hub
    <3>2. UNCHANGED patches \/ \E active \in BOOLEAN \cup {schedule.active} : Evaluate(active)
      BY <2>1 DEF Tick, ScheduleLooks
    <3> QED BY <1>1, <3>1, <3>2, EvaluateTypes
  <2>2. CASE Projection
    <3>1. /\ UNCHANGED <<config, snap, task, sun, patches>>
          /\ news' \in {news, news \ {"projection"}}
      BY <2>2 DEF Projection, OnState, Hydrate, hub, world
    <3> QED BY <1>1, <3>1
  <2>3. CASE Managers
    <3>1. /\ UNCHANGED <<config, snap, task, sun, patches>>
          /\ news' \in {news, news \ {"source"}}
      BY <2>3 DEF Managers, CpCmd, AaSensor, Refresh, OnNightMode, hub, world
    <3> QED BY <1>1, <3>1
  <2> QED BY <2>1, <2>2, <2>3
<1> QED BY <1>1, <1>2, Undisturbed

LEMMA OutsideHolds == IInv /\ Outside => IInv'
<1> SUFFICES ASSUME IInv, Outside PROVE IInv'
  OBVIOUS
<1>0. /\ patches \in [Senders -> Seq(Patches)] /\ sun \in Looks /\ news \subseteq Watchers
      /\ config \in [mode : Modes, theme : Looks] /\ "telemetry" \in Watchers
      /\ config = [config EXCEPT !.mode = config.mode]
  BY DEF IInv, ThemeTypes, Watchers
<1>1. ASSUME NEW m \in Modes, SetMode(m) PROVE IInv'
  <2>1. /\ config' = [config EXCEPT !.mode = m] /\ news' = Watchers
        /\ UNCHANGED <<snap, task, sun, patches>>
    BY <1>1 DEF SetMode, world
  <2>2. config'.mode = m
    BY <1>0, <2>1
  <2> QED BY <1>0, <2>1, <2>2, Undisturbed
<1>2. ASSUME NEW theme \in Looks, Toggle(theme) PROVE IInv'
  <2>1. /\ config' = [config EXCEPT !.theme = theme] /\ news' = Watchers
        /\ UNCHANGED <<snap, task, sun, patches>>
    BY <1>2 DEF Toggle
  <2>2. config' \in [mode : Modes, theme : Looks] /\ ThemeTypes'
    BY <1>0, <2>1 DEF IInv, ThemeTypes
  <2> QED BY <1>0, <2>1, <2>2 DEF IInv, Owes, Knows
<1>3. CASE SunMoves \/ ClockConfirmed
  <2>1. UNCHANGED <<config, snap, task, news, patches>> /\ sun' \in Looks
    BY <1>0, <1>3 DEF SunMoves, ClockConfirmed, hub
  <2> QED BY <1>0, <2>1, Undisturbed
<1>4. ASSUME NEW p \in CarPatches, CarPushes(p) PROVE IInv'
  <2>1. /\ UNCHANGED <<config, snap, task, news, sun>>
        /\ patches' = [patches EXCEPT !.car = Append(@, p)]
    BY <1>4 DEF CarPushes, hub
  <2>2. p \in Patches /\ "car" \in Senders
    BY DayNightAssumption DEF Senders
  <2>3. Append(patches.car, p) \in Seq(Patches)
    BY <1>0, <2>2
  <2>4. patches' \in [Senders -> Seq(Patches)]
    BY <1>0, <2>1, <2>2, <2>3
  <2> QED BY <1>0, <2>1, <2>4, Undisturbed
<1>5. ASSUME NEW p, \/ Register(p) \/ CpLeaves(p) \/ AaComes(p)
                    \/ SensorsStart(p) \/ AaRuns(p) \/ AaLeaves(p)
      PROVE  IInv'
  <2>1. UNCHANGED <<config, snap, task, news, patches, sun>>
    BY <1>5 DEF Register, CpLeaves, AaComes, SensorsStart, AaRuns, AaLeaves,
               visiting, hub, world
  <2> QED BY <1>0, <2>1, Undisturbed
<1> QED BY <1>1, <1>2, <1>3, <1>4, <1>5 DEF Outside

LEMMA StepHolds == IInv /\ [Next]_vars => IInv'
<1> SUFFICES ASSUME IInv, [Next]_vars PROVE IInv'
  OBVIOUS
<1>1. CASE Telemetry \/ SaveFails
  BY <1>1, TelemetryHolds
<1>2. CASE Tick \/ ScheduleLooks \/ Projection \/ Managers
  BY <1>2, OthersHold
<1>3. CASE Outside
  BY <1>3, OutsideHolds
<1>4. CASE UNCHANGED vars
  BY <1>4 DEF vars, hub, world, IInv, ThemeTypes, Owes, Knows
<1> QED BY <1>1, <1>2, <1>3, <1>4 DEF Next

-----------------------------------------------------------------------------
(* Whatever user, sun and car do at whatever time, and also when saving a  *)
(* theme fails: once nothing is on its way the theme that the telemetry    *)
(* shows the car is the config's.                                          *)
THEOREM ThemesAgreeAlways == Spec => []ThemesAgree
<1>1. IInv => ThemesAgree
  BY DEF IInv, Owes, Knows, ThemesAgree, Rest, Idle
<1> QED BY InitHolds, StepHolds, <1>1, PTL DEF Spec

-----------------------------------------------------------------------------
(***************************************************************************)
(* The rules of the modes.  Of the tasks that follow the config: when the  *)
(* hub has no news for one, it knows the mode; a schedule that is off      *)
(* forgets what it told.                                                   *)
(***************************************************************************)
ModesKnown ==
  /\ schedule.last \in Maybe
  /\ "telemetry" \notin news => task.mode = config.mode
  /\ "schedule" \notin news => schedule.active = (config.mode = "sun")
  /\ ~ schedule.active => schedule.last = "none"

(* When user, sun and car wait: a patch of the car is the only one, and    *)
(* its look is the one that sways.                                         *)
SunIsTold == schedule.active /\ sure => schedule.last = sun
CarIsAlone ==
  patches.car # <<>> =>
    /\ Len(patches.car) = 1 /\ patches.sun = <<>> /\ SunIsTold
    /\ config.mode \notin Looks /\ schedule.active = (config.mode = "sun")
    /\ patches.car[1].night # "keep" => swayed

(* Under a fixed mode nothing but the mode is to be followed; under the    *)
(* sun's the schedule's last look comes last; and the user's own theme is  *)
(* in the config while nothing is on its way that could replace it.        *)
FixedIsNext ==
  config.mode \in Looks =>
    /\ patches.sun = <<>> /\ SunIsTold
    /\ IF task.mode = config.mode THEN snap.night = config.mode ELSE "telemetry" \in news
SunIsLast ==
  config.mode = "sun" /\ schedule.last # "none" /\ ~ swayed =>
    IF patches.sun = <<>> THEN snap.night = schedule.last
    ELSE patches.sun[Len(patches.sun)].night = schedule.last
HandIsKept ==
  hand # "none" =>
    /\ config.theme = hand /\ task.saving = "none"
    /\ {task.owed, task.next} \subseteq {"none", hand}
    /\ patches.sun = <<>>
    /\ patches.car # <<>> => patches.car[1].theme = "keep"

Rules == CarIsAlone /\ FixedIsNext /\ SunIsLast /\ HandIsKept
RInv == ModesKnown /\ (manner = "patient" => Rules)

(* At rest every task knows the mode.                                      *)
LEMMA RestKnows ==
  ASSUME RInv, Rest
  PROVE  /\ patches.sun = <<>> /\ patches.car = <<>> /\ SunIsTold
         /\ task.mode = config.mode /\ schedule.active = (config.mode = "sun")
         /\ {task.owed, task.next, task.saving} = {"none"}
BY DEF RInv, ModesKnown, Rest, Idle, SunIsTold

(* Steps of the projection, the managers and the phones are of no concern. *)
LEMMA OtherNews ==
  ASSUME RInv, "telemetry" \in news => "telemetry" \in news',
         "schedule" \in news => "schedule" \in news',
         UNCHANGED <<config, snap, patches, task, schedule, sun, sure, hand, swayed, manner>>
  PROVE  RInv'
BY DEF RInv, ModesKnown, Rules, CarIsAlone, FixedIsNext, SunIsLast, HandIsKept, SunIsTold

LEMMA PushNight ==
  ASSUME snap \in Snaps, NEW patch, NEW t, Push(patch, t)
  PROVE  snap'.night = IF patch.night = "keep" THEN snap.night ELSE patch.night
BY DEF Snaps, Push, Merge

LEMMA TailFacts ==
  ASSUME NEW X, NEW q \in Seq(X), q # <<>>
  PROVE  /\ Head(q) \in X /\ Head(q) = q[1] /\ Tail(q) \in Seq(X)
         /\ Len(q) \in Nat \ {0} /\ Len(Tail(q)) = Len(q) - 1
         /\ \A i \in 1..Len(Tail(q)) : Tail(q)[i] = q[i + 1]
         /\ Len(q) = 1 <=> Tail(q) = <<>>
         /\ Tail(q) # <<>> => Tail(q)[Len(Tail(q))] = q[Len(q)]
<1>1. /\ Len(q) \in Nat \ {0} /\ Tail(q) \in Seq(X) /\ Len(Tail(q)) = Len(q) - 1
      /\ \A i \in 1..Len(Tail(q)) : Tail(q)[i] = q[i + 1]
  BY EmptySeq, HeadTailProperties
<1>2. Tail(q) = <<>> => Len(Tail(q)) = 0
  BY EmptySeq
<1>3. Tail(q) # <<>> => Len(Tail(q)) \in Nat \ {0}
  BY <1>1, EmptySeq
<1> QED BY <1>1, <1>2, <1>3

LEMMA TakePatchRules ==
  ASSUME IInv, RInv, NEW from \in Senders, TakePatch(from) PROVE RInv'
<1> DEFINE q == patches[from]
<1>1. q \in Seq(Patches) /\ q # <<>> /\ snap \in Snaps /\ task \in Tasks
  BY DEF TakePatch, IInv, ThemeTypes
<1>2. /\ Head(q) \in Patches /\ Head(q) = q[1] /\ Tail(q) \in Seq(Patches)
      /\ Len(q) = 1 => Tail(q) = <<>>
      /\ Tail(q) # <<>> => Tail(q)[Len(Tail(q))] = q[Len(q)]
      /\ Tail(q) = <<>> => Len(q) = 1
  BY <1>1, TailFacts
<1>3. /\ task.saving = "none" /\ task.next = "none" /\ Push(Head(q), task)
      /\ patches' = [patches EXCEPT ![from] = Tail(q)]
      /\ UNCHANGED <<config, schedule, sun, sure, hand, swayed, manner>>
  BY DEF TakePatch, Idle, others, world
<1>4. /\ news' = Watchers /\ task'.mode = task.mode
      /\ task'.saving = "none" /\ task'.next = "none"
      /\ task'.owed = IF q[1].theme = "keep" THEN "none" ELSE q[1].theme
      /\ snap'.night = IF q[1].night = "keep" THEN snap.night ELSE q[1].night
  <2>1. task'.owed = IF Head(q).theme = "keep" THEN "none" ELSE Head(q).theme
    BY <1>1, <1>2, <1>3, PushTells
  <2>2. news' = Watchers /\ task' = [task EXCEPT !.owed =
          IF Head(q).theme \in Looks THEN Head(q).theme ELSE "none"]
    BY <1>3 DEF Push
  <2> HIDE DEF q
  <2> QED BY <1>1, <1>2, <1>3, <2>1, <2>2, PushNight DEF Tasks
<1>5. ModesKnown'
  BY <1>3, <1>4 DEF RInv, ModesKnown, Watchers
<1>6. patches'[from] = Tail(q) /\ \A s \in Senders \ {from} : patches'[s] = patches[s]
  BY <1>3 DEF IInv, ThemeTypes
<1>7. ASSUME manner = "patient" PROVE Rules'
  <2>1. CarIsAlone /\ FixedIsNext /\ SunIsLast /\ HandIsKept /\ schedule.last \in Maybe
    BY <1>7 DEF RInv, Rules, ModesKnown
  <2>2. CASE from = "sun"
    <3>1. patches.sun = q /\ patches'.sun = Tail(q) /\ patches'.car = patches.car
      BY <1>6, <2>2 DEF Senders
    <3> HIDE DEF q
    <3>2. patches.car = <<>> /\ hand = "none" /\ config.mode \notin Looks
      BY <1>1, <2>1, <3>1 DEF CarIsAlone, FixedIsNext, HandIsKept
    <3>3. SunIsLast'
      <4>1. "keep" \notin Maybe
        BY DEF Maybe, Looks
      <4> QED BY <1>1, <1>2, <1>3, <1>4, <2>1, <3>1, <4>1 DEF SunIsLast
    <3> QED BY <1>3, <3>1, <3>2, <3>3 DEF Rules, CarIsAlone, FixedIsNext, HandIsKept
  <2>3. CASE from = "car"
    <3>1. patches.car = q /\ patches'.car = Tail(q) /\ patches'.sun = patches.sun
      BY <1>6, <2>3 DEF Senders
    <3> HIDE DEF q
    <3>2. /\ patches'.car = <<>> /\ patches.sun = <<>> /\ config.mode \notin Looks
          /\ q[1].night # "keep" => swayed
      BY <1>1, <1>2, <2>1, <3>1 DEF CarIsAlone
    <3>3. SunIsLast'
      BY <1>3, <1>4, <2>1, <3>1, <3>2 DEF SunIsLast
    <3>4. HandIsKept'
      BY <1>1, <1>3, <1>4, <2>1, <3>1, <3>2 DEF HandIsKept
    <3> QED BY <1>3, <3>2, <3>3, <3>4 DEF Rules, CarIsAlone, FixedIsNext
  <2> QED BY <2>2, <2>3 DEF Senders
<1> QED BY <1>3, <1>5, <1>7 DEF RInv

LEMMA AppearanceRules == ASSUME IInv, RInv, Appearance PROVE RInv'
<1> DEFINE t == [task EXCEPT !.mode = config.mode, !.next = config.theme]
<1>1. /\ snap \in Snaps /\ task \in Tasks /\ config.mode \in Modes
      /\ task.owed = "none" /\ task.saving = "none"
      /\ UNCHANGED <<config, patches, schedule, sun, sure, hand, swayed, manner>>
  BY DEF Appearance, Idle, IInv, ThemeTypes, others, world
<1>2. /\ task'.mode = config.mode /\ task'.next = config.theme
      /\ task'.owed = "none" /\ task'.saving = "none"
      /\ IF config.mode # task.mode /\ config.mode \in Looks
         THEN snap'.night = config.mode /\ news' = Watchers
         ELSE snap' = snap /\ news' = news \ {"telemetry"}
  <2>1. /\ t \in Tasks /\ t.mode = config.mode /\ t.next = config.theme /\ t.saving = "none"
        /\ t.owed = "none"
    BY <1>1 DEF IInv, ThemeTypes, Tasks, Maybe
  <2>2. CASE /\ config.mode # task.mode /\ config.mode \in Looks
             /\ Push(ModePatch(config.mode), t)
    <3>1. /\ ModePatch(config.mode).night = config.mode /\ config.mode # "keep"
          /\ ModePatch(config.mode).theme = "keep"
      BY <2>2 DEF ModePatch, Looks
    <3> HIDE DEF t
    <3>2. snap'.night = config.mode
      BY <1>1, <2>2, <3>1, PushNight
    <3>3. news' = Watchers /\ task' = [t EXCEPT !.owed = "none"]
      BY <2>2, <3>1 DEF Push, Looks
    <3> QED BY <2>1, <2>2, <3>2, <3>3 DEF Tasks
  <2>3. CASE /\ ~ (config.mode # task.mode /\ config.mode \in Looks)
             /\ task' = t /\ news' = news \ {"telemetry"} /\ UNCHANGED snap
    BY <2>1, <2>3
  <2> QED BY <2>2, <2>3 DEF Appearance
<1> HIDE DEF t
<1>3. "schedule" \in news => "schedule" \in news'
  BY <1>2 DEF Watchers
<1>4. ModesKnown'
  BY <1>1, <1>2, <1>3 DEF RInv, ModesKnown
<1>5. ASSUME manner = "patient" PROVE Rules'
  <2>1. CarIsAlone /\ FixedIsNext /\ SunIsLast /\ HandIsKept
    BY <1>5 DEF RInv, Rules
  <2>2. CarIsAlone' /\ FixedIsNext'
    BY <1>1, <1>2, <2>1 DEF CarIsAlone, FixedIsNext, SunIsTold
  <2>3. SunIsLast' /\ HandIsKept'
    BY <1>1, <1>2, <2>1 DEF SunIsLast, HandIsKept, Looks
  <2> QED BY <2>2, <2>3 DEF Rules
<1> QED BY <1>1, <1>4, <1>5 DEF RInv

(* The turn's later steps touch the theme only.                            *)
LEMMA ThemeRules == ASSUME IInv, RInv, DarkMode \/ DarkFrom \/ Save \/ SaveFails PROVE RInv'
<1>1. /\ UNCHANGED <<patches, schedule, sun, sure, hand, swayed, manner>>
      /\ snap'.night = snap.night /\ task'.mode = task.mode
      /\ config'.mode = config.mode
      /\ "telemetry" \in news => "telemetry" \in news'
      /\ "schedule" \in news => "schedule" \in news'
      /\ hand # "none" /\ config.theme = hand /\ task.saving = "none"
         /\ {task.owed, task.next} \subseteq {"none", hand} =>
           /\ config'.theme = hand /\ task'.saving = "none"
           /\ {task'.owed, task'.next} \subseteq {"none", hand}
  <2>0. /\ snap \in Snaps /\ task \in Tasks /\ hand' = hand
        /\ config \in [mode : Modes, theme : Looks]
        /\ UNCHANGED <<patches, schedule, sun, sure, swayed, manner>>
    BY DEF DarkMode, DarkFrom, Save, SaveFails, others, world, hub, IInv, ThemeTypes
  <2>1. CASE DarkMode
    <3> DEFINE t == [task EXCEPT !.theme = task.next, !.next = "none"]
    <3>1. CASE task' = [task EXCEPT !.next = "none"] /\ UNCHANGED <<snap, news, config>>
      BY <2>0, <3>1 DEF Tasks
    <3>2. CASE Push(ThemePatch(task.next), t) /\ UNCHANGED config
      <4>1. t.mode = task.mode /\ t.saving = task.saving /\ t.next = "none" /\ t \in Tasks
        BY <2>0, <2>1 DEF Tasks, DarkMode, Maybe
      <4>2. ThemePatch(task.next).night = "keep" /\ ThemePatch(task.next).theme = task.next
        BY DEF ThemePatch
      <4> HIDE DEF t
      <4>3. snap'.night = snap.night
        BY <2>0, <3>2, <4>2, PushNight
      <4>4. news' = Watchers
            /\ task' = [t EXCEPT !.owed = IF task.next \in Looks THEN task.next ELSE "none"]
        BY <3>2, <4>2 DEF Push
      <4> QED BY <2>0, <3>2, <4>1, <4>3, <4>4 DEF Tasks, Watchers
    <3> QED BY <2>1, <3>1, <3>2 DEF DarkMode
  <2>2. CASE DarkFrom
    BY <2>0, <2>2 DEF DarkFrom, hub, Tasks
  <2>3. CASE Save
    BY <2>0, <2>3 DEF Save, Tasks, Watchers
  <2>4. CASE SaveFails
    BY <2>0, <2>4 DEF SaveFails, hub, Tasks
  <2> QED BY <2>0, <2>1, <2>2, <2>3, <2>4
<1>2. ModesKnown'
  BY <1>1 DEF RInv, ModesKnown
<1>3. ASSUME Rules PROVE Rules'
  <2>1. CarIsAlone' /\ FixedIsNext' /\ SunIsLast'
    BY <1>1, <1>3 DEF Rules, CarIsAlone, FixedIsNext, SunIsLast, SunIsTold
  <2>2. HandIsKept'
    BY <1>1, <1>3 DEF Rules, HandIsKept
  <2> QED BY <2>1, <2>2 DEF Rules
<1> QED BY <1>1, <1>2, <1>3 DEF RInv

(* The schedule speaks only when the sun is news to it; nobody else has a  *)
(* patch under way then.                                                   *)
LEMMA EvaluateRules ==
  ASSUME IInv, RInv, NEW active, Evaluate(active),
         \/ active = schedule.active /\ news' = news
         \/ /\ schedule.active # (config.mode = "sun")
            /\ active = (config.mode = "sun") /\ news' = news \ {"schedule"},
         UNCHANGED <<config, snap, task, sun, sure, manner>>
  PROVE  RInv'
<1>1. /\ sun \in Looks /\ patches \in [Senders -> Seq(Patches)] /\ schedule.last \in Maybe
      /\ ~ schedule.active => schedule.last = "none"
  BY DEF IInv, ThemeTypes, RInv, ModesKnown
<1>2. /\ schedule'.active = active /\ schedule'.last \in Maybe
      /\ ~ active => schedule'.last = "none"
  BY <1>1 DEF Evaluate, Maybe
<1>3. ModesKnown'
  BY <1>2 DEF RInv, ModesKnown
<1>4. ASSUME manner = "patient" PROVE Rules'
  <2>1. CarIsAlone /\ FixedIsNext /\ SunIsLast /\ HandIsKept
    BY <1>4 DEF RInv, Rules
  <2>2. CASE /\ active /\ sure /\ schedule.last # sun
             /\ schedule' = [active |-> active, last |-> sun]
             /\ patches' = [patches EXCEPT !.sun =
                   Append(@, [night |-> sun, cluster |-> "none", theme |-> sun])]
             /\ hand' = "none" /\ swayed' = FALSE
    <3> DEFINE p == [night |-> sun, cluster |-> "none", theme |-> sun]
               q == Append(patches.sun, p)
    <3>1. patches.car = <<>> /\ config.mode \notin Looks
      BY <1>4, <2>1, <2>2 DEF CarIsAlone, FixedIsNext, SunIsTold, Looks
    <3>2. patches'.car = <<>> /\ patches'.sun = q
      BY <1>1, <2>2, <3>1 DEF Senders
    <3>3. q # <<>> /\ q[Len(q)] = p
      <4>1. p \in Patches /\ patches.sun \in Seq(Patches)
        BY <1>1 DEF Patches, Maybe, Looks, Senders
      <4> HIDE DEF p
      <4> QED BY <4>1
    <3>4. q[Len(q)].night = sun /\ schedule'.last = sun
      BY <2>2, <3>3
    <3> HIDE DEF q
    <3> QED BY <2>2, <3>1, <3>2, <3>3, <3>4
            DEF Rules, CarIsAlone, FixedIsNext, SunIsLast, HandIsKept
  <2>3. CASE /\ schedule' = [active |-> active,
                             last |-> IF active THEN schedule.last ELSE "none"]
             /\ UNCHANGED <<patches, hand, swayed>>
    <3>1. patches.car # <<>> \/ config.mode \in Looks => SunIsTold'
      BY <1>1, <2>1, <2>3 DEF CarIsAlone, FixedIsNext, SunIsTold, Looks
    <3>2. CarIsAlone' /\ FixedIsNext'
      BY <2>1, <2>3, <3>1 DEF CarIsAlone, FixedIsNext
    <3>3. SunIsLast' /\ HandIsKept'
      BY <2>1, <2>3 DEF SunIsLast, HandIsKept
    <3> QED BY <3>2, <3>3 DEF Rules
  <2> QED BY <2>2, <2>3 DEF Evaluate
<1> QED BY <1>3, <1>4 DEF RInv

LEMMA ScheduleRules == ASSUME IInv, RInv, Tick \/ ScheduleLooks PROVE RInv'
<1>1. ASSUME Tick PROVE RInv'
  BY <1>1, EvaluateRules DEF Tick, hub
<1>2. ASSUME ScheduleLooks, schedule.active = (config.mode = "sun") PROVE RInv'
  BY <1>2 DEF ScheduleLooks, RInv, ModesKnown, Rules, CarIsAlone, FixedIsNext,
              SunIsLast, HandIsKept, SunIsTold
<1>3. ASSUME ScheduleLooks, schedule.active # (config.mode = "sun") PROVE RInv'
  BY <1>3, EvaluateRules DEF ScheduleLooks
<1> QED BY <1>1, <1>2, <1>3

LEMMA SetModeRules ==
  ASSUME IInv, RInv, NEW m \in Modes, SetMode(m) PROVE RInv'
<1>1. /\ config'.mode = m /\ config'.theme = config.theme /\ news' = Watchers
      /\ m # config.mode /\ (manner = "patient" => Rest)
      /\ UNCHANGED <<snap, patches, task, schedule, sun, sure, hand, swayed, manner>>
  BY DEF SetMode, Waits, world, IInv, ThemeTypes
<1>2. ModesKnown'
  BY <1>1 DEF RInv, ModesKnown, Watchers
<1>3. ASSUME manner = "patient" PROVE Rules'
  <2>1. /\ patches.sun = <<>> /\ patches.car = <<>> /\ SunIsTold
        /\ task.mode = config.mode /\ schedule.active = (config.mode = "sun")
    BY <1>1, <1>3, RestKnows
  <2>2. CarIsAlone' /\ FixedIsNext'
    BY <1>1, <2>1 DEF CarIsAlone, FixedIsNext, SunIsTold, Watchers
  <2>3. SunIsLast' /\ HandIsKept'
    BY <1>1, <1>3, <2>1 DEF SunIsLast, HandIsKept, RInv, ModesKnown, Rules
  <2> QED BY <2>2, <2>3 DEF Rules
<1> QED BY <1>1, <1>2, <1>3 DEF RInv

LEMMA ToggleRules ==
  ASSUME IInv, RInv, NEW theme \in Looks, Toggle(theme) PROVE RInv'
<1>1. /\ config'.mode = config.mode /\ config'.theme = theme /\ news' = Watchers
      /\ manner = "patient" => Rest
      /\ UNCHANGED <<snap, patches, task, schedule, sun, sure, swayed, manner>>
      /\ hand' = theme
  BY DEF Toggle, Waits, IInv, ThemeTypes
<1>2. ModesKnown'
  BY <1>1 DEF RInv, ModesKnown, Watchers
<1>3. ASSUME manner = "patient" PROVE Rules'
  <2>1. /\ patches.sun = <<>> /\ patches.car = <<>>
        /\ {task.owed, task.next, task.saving} = {"none"}
    BY <1>1, <1>3, RestKnows
  <2>2. CarIsAlone /\ FixedIsNext /\ SunIsLast
    BY <1>3 DEF RInv, Rules
  <2>3. HandIsKept'
    BY <1>1, <2>1 DEF HandIsKept
  <2> QED BY <1>1, <2>2, <2>3
          DEF Rules, CarIsAlone, FixedIsNext, SunIsLast, SunIsTold, Watchers
<1> QED BY <1>1, <1>2, <1>3 DEF RInv

LEMMA SunRules == ASSUME RInv, SunMoves \/ ClockConfirmed PROVE RInv'
<1>1. /\ manner = "patient" => Rest
      /\ UNCHANGED <<config, snap, news, patches, task, schedule, hand, swayed, manner>>
  BY DEF SunMoves, ClockConfirmed, Waits, hub
<1>2. ModesKnown'
  BY <1>1 DEF RInv, ModesKnown
<1>3. ASSUME manner = "patient" PROVE Rules'
  <2>1. patches.car = <<>> /\ schedule.active = (config.mode = "sun")
    BY <1>1, <1>3, RestKnows
  <2>2. FixedIsNext /\ SunIsLast /\ HandIsKept
    BY <1>3 DEF RInv, Rules
  <2> QED BY <1>1, <2>1, <2>2
          DEF Rules, CarIsAlone, FixedIsNext, SunIsLast, HandIsKept, SunIsTold, Looks
<1> QED BY <1>1, <1>2, <1>3 DEF RInv

LEMMA CarRules ==
  ASSUME IInv, RInv, NEW p \in CarPatches, CarPushes(p) PROVE RInv'
<1>1. /\ manner = "patient" => Rest /\ config.mode \notin Looks
      /\ patches' = [patches EXCEPT !.car = Append(@, p)]
      /\ hand' = IF p.theme = "keep" THEN hand ELSE "none"
      /\ swayed' = (swayed \/ p.night # "keep")
      /\ UNCHANGED <<config, snap, news, task, schedule, sun, sure, manner>>
  BY DEF CarPushes, Waits, hub
<1>2. ModesKnown'
  BY <1>1 DEF RInv, ModesKnown
<1>3. ASSUME manner = "patient" PROVE Rules'
  <2>1. /\ patches.sun = <<>> /\ patches.car = <<>> /\ SunIsTold
        /\ schedule.active = (config.mode = "sun")
    BY <1>1, <1>3, RestKnows
  <2>2. patches'.car = <<p>> /\ patches'.sun = <<>> /\ Len(<<p>>) = 1 /\ <<p>>[1] = p
    BY <1>1, <2>1 DEF IInv, ThemeTypes, Senders
  <2>3. FixedIsNext /\ SunIsLast /\ HandIsKept
    BY <1>3 DEF RInv, Rules
  <2>4. CarIsAlone' /\ FixedIsNext'
    BY <1>1, <1>3, <2>1, <2>2 DEF CarIsAlone, FixedIsNext, SunIsTold
  <2>5. SunIsLast' /\ HandIsKept'
    BY <1>1, <2>1, <2>2, <2>3 DEF SunIsLast, HandIsKept
  <2> QED BY <2>4, <2>5 DEF Rules
<1> QED BY <1>1, <1>2, <1>3 DEF RInv

LEMMA StepRules == IInv /\ RInv /\ [Next]_vars => RInv'
<1> SUFFICES ASSUME IInv, RInv, [Next]_vars PROVE RInv'
  OBVIOUS
<1>1. CASE Telemetry \/ SaveFails
  BY <1>1, TakePatchRules, AppearanceRules, ThemeRules DEF Telemetry
<1>2. CASE Tick \/ ScheduleLooks
  BY <1>2, ScheduleRules
<1>3. CASE Projection \/ Managers
  <2>1. /\ news' \in {news, news \ {"projection"}, news \ {"source"}}
        /\ UNCHANGED <<config, snap, patches, task, schedule, sun, sure, hand, swayed, manner>>
    BY <1>3 DEF Projection, OnState, Hydrate, Managers, CpCmd, AaSensor, Refresh,
                OnNightMode, hub, world
  <2> QED BY <2>1, OtherNews
<1>4. ASSUME NEW p, \/ Register(p) \/ CpLeaves(p) \/ AaComes(p)
                    \/ SensorsStart(p) \/ AaRuns(p) \/ AaLeaves(p)
      PROVE  RInv'
  <2>1. UNCHANGED <<hub, patches, task, schedule, world>>
    BY <1>4 DEF Register, CpLeaves, AaComes, SensorsStart, AaRuns, AaLeaves, visiting
  <2> QED BY <2>1, OtherNews DEF hub, world
<1>5. CASE Outside
  BY <1>4, <1>5, SetModeRules, ToggleRules, SunRules, CarRules DEF Outside
<1>6. CASE UNCHANGED vars
  BY <1>6, OtherNews DEF vars, hub, world
<1> QED BY <1>1, <1>2, <1>3, <1>5, <1>6 DEF Next

LEMMA InitRules == Init => RInv
<1> SUFFICES ASSUME Init PROVE RInv
  OBVIOUS
<1>1. /\ schedule = [active |-> config.mode = "sun", last |-> "none"]
      /\ patches.sun = <<>> /\ patches.car = <<>> /\ hand = "none"
      /\ task.mode = config.mode /\ snap.night = NightMode(config.mode)
  BY DEF Init, Senders, NoSnap
<1>2. ModesKnown
  BY <1>1 DEF ModesKnown, Maybe
<1>3. SunIsTold \/ config.mode = "sun"
  BY <1>1 DEF SunIsTold
<1>4. CarIsAlone /\ FixedIsNext
  BY <1>1, <1>3 DEF CarIsAlone, FixedIsNext, NightMode, Looks
<1>5. SunIsLast /\ HandIsKept
  BY <1>1 DEF SunIsLast, HandIsKept
<1> QED BY <1>2, <1>4, <1>5 DEF RInv, Rules

(* For any phones and patches of the car, when user, sun and car wait for  *)
(* each other: at rest a fixed mode's look is the telemetry's, under the   *)
(* sun's mode it is the sun's until the car says otherwise, and the theme  *)
(* the user chose last is still the config's.                              *)
THEOREM ModeRulesAlways == Spec => []ModeRules
<1>1. IInv /\ RInv => ModeRules
  <2> SUFFICES ASSUME IInv, RInv, manner = "patient", Rest PROVE FixedLook /\ SunLook /\ HandHolds
    BY DEF ModeRules
  <2>1. /\ patches.sun = <<>> /\ SunIsTold /\ task.mode = config.mode
        /\ schedule.active = (config.mode = "sun")
    BY RestKnows
  <2>2. FixedIsNext /\ SunIsLast /\ HandIsKept
    BY DEF RInv, Rules
  <2>3. ASSUME config.mode = "sun", sure, ~ swayed PROVE snap.night = sun
    <3>1. schedule.last = sun
      BY <2>1, <2>3 DEF SunIsTold
    <3>2. sun # "none"
      BY DEF IInv, ThemeTypes, Looks
    <3> QED BY <2>1, <2>2, <2>3, <3>1, <3>2 DEF SunIsLast
  <2> QED BY <2>1, <2>2, <2>3 DEF FixedLook, SunLook, HandHolds, FixedIsNext, HandIsKept
<1> QED BY InitHolds, StepHolds, InitRules, StepRules, <1>1, PTL DEF Spec

-----------------------------------------------------------------------------
(***************************************************************************)
(* What the phones are told.  First the types of what is on its way.       *)
(***************************************************************************)
Cmds == [cmd : {"initial", "night", "cluster"}, look : Maybe]
Cores == [config : [mode : Modes, theme : Looks], snap : Snaps,
          night : Maybe, cluster : Maybe, aaNight : Maybe]
PhoneTypes ==
  /\ core \in Cores
  /\ cpCmds \in Seq(Cmds) /\ aaCmds \in Seq(Looks)
  /\ aaConfig \in Maybe /\ aaNight \in Maybe /\ cpInitial \in Maybe
  /\ cp \in [Iphones -> [on : BOOLEAN, night : Maybe, cluster : Maybe]]
  /\ aa \in [Androids -> [at : {"away", "setup", "running"}, night : Maybe]]

(* The projection has seen the telemetry unless the hub has news for it,   *)
(* and what it sent last is what it saw, once there is a phone to know it. *)
(* Under a fixed mode the cluster has no look of its own.                  *)
CoreKnows ==
  /\ "projection" \notin news => core.snap = snap
  /\ snap.night = "none" => core.snap.night = "none"
  /\ core.night \in {"none", core.snap.night} /\ core.aaNight \in {"none", core.snap.night}
  /\ Cluster(core.snap) # "none" => core.cluster \in {"none", Cluster(core.snap)}
NoneApart == config.mode \in Looks /\ task.mode = config.mode => snap.cluster = "none"

(* A fixed mode reaches the phones past the telemetry as well: what they   *)
(* were told is the telemetry's look or already the mode's.                *)
Fine(look) == {look} \cup (IF config.mode \in Looks THEN {config.mode} ELSE {})
AaKnows ==
  /\ aaConfig \in {aaNight, NightMode(config.mode)}
  /\ "source" \notin news => aaConfig = NightMode(config.mode)
  /\ aaCmds # <<>> => aaCmds[Len(aaCmds)] = core.snap.night
  /\ \A p \in Androids : aa[p].at = "running" /\ p \notin greet /\ core.snap.night # "none" =>
       /\ core.aaNight = core.snap.night
       /\ aaCmds = <<>> => aa[p].night \in Fine(core.snap.night)

(* Where a queue of commands ends for a session that was told now: the     *)
(* last of a look in X, or now itself is, and no other look comes after.   *)
Concerns(c, what) == c.cmd \in {what, "initial"} /\ c.look # "none"
Ends(q, what, now, X) ==
  \E i \in 0..Len(q) :
    /\ IF i = 0 THEN now \in X ELSE Concerns(q[i], what) /\ q[i].look \in X
    /\ \A j \in (i + 1)..Len(q) : Concerns(q[j], what) => q[j].look \in X

CpKnows ==
  /\ \A i \in 1..Len(cpCmds) :
        cpCmds[i].cmd = "initial" => cpCmds[i].look \in {"none", NightMode(config.mode)}
  /\ \A p \in Iphones : cp[p].on /\ p \notin greet =>
       /\ core.snap.night # "none" => core.night = core.snap.night
       /\ Cluster(core.snap) # "none" => core.cluster = Cluster(core.snap)
       /\ core.night # "none" => Ends(cpCmds, "night", cp[p].night, Fine(core.night))
       /\ core.cluster # "none" => Ends(cpCmds, "cluster", cp[p].cluster, Fine(core.cluster))

Told == CoreKnows /\ NoneApart /\ AaKnows /\ CpKnows
TInv == PhoneTypes /\ (manner = "patient" => Told)

-----------------------------------------------------------------------------
LEMMA LooksType ==
  /\ \A m \in Modes : NightMode(m) \in Maybe /\ (NightMode(m) # "none" => NightMode(m) = m /\ m \in Looks)
  /\ \A s \in Snaps : Cluster(s) \in Maybe /\ s.night \in Maybe
  /\ \A m \in Looks : NightMode(m) = m
  /\ Looks = Maybe \ {"none"} /\ Looks \subseteq Modes
BY DEF NightMode, Modes, Maybe, Looks, Cluster, Snaps

LEMMA EndsSent ==
  ASSUME NEW q \in Seq(Cmds), NEW c \in Cmds, NEW what, NEW now, NEW X,
         Concerns(c, what), c.look \in X
  PROVE  Ends(Append(q, c), what, now, X)
<1> DEFINE r == Append(q, c)
           n == Len(q) + 1
<1>1. Len(r) = n /\ r[n] = c /\ n \in 0..Len(r) /\ n # 0
  BY LenProperties
<1>2. (n + 1)..Len(r) = {}
  BY <1>1
<1> HIDE DEF r, n
<1>3. Ends(r, what, now, X)
  BY <1>1, <1>2 DEF Ends
<1> QED BY <1>3 DEF r

LEMMA EndsKept ==
  ASSUME NEW q \in Seq(Cmds), NEW c \in Cmds, NEW what, NEW now, NEW X, Ends(q, what, now, X),
         Concerns(c, what) => c.look \in X
  PROVE  Ends(Append(q, c), what, now, X)
<1> DEFINE r == Append(q, c)
           n == Len(q) + 1
<1>1. Len(r) = n /\ r[n] = c /\ n \in Nat /\ Len(q) \in Nat /\ \A i \in 1..Len(q) : r[i] = q[i]
  BY LenProperties
<1> HIDE DEF r
<1>2. PICK i \in 0..Len(q) :
        /\ IF i = 0 THEN now \in X ELSE Concerns(q[i], what) /\ q[i].look \in X
        /\ \A j \in (i + 1)..Len(q) : Concerns(q[j], what) => q[j].look \in X
  BY DEF Ends
<1>3. IF i = 0 THEN now \in X ELSE Concerns(r[i], what) /\ r[i].look \in X
  BY <1>1, <1>2
<1>4. ASSUME NEW j \in (i + 1)..Len(r), Concerns(r[j], what) PROVE r[j].look \in X
  <2>1. CASE j = n
    BY <1>1, <1>4, <2>1
  <2>2. CASE j # n
    <3>1. j \in (i + 1)..Len(q) /\ r[j] = q[j]
      BY <1>1, <2>2
    <3> QED BY <1>2, <1>4, <3>1
  <2> QED BY <2>1, <2>2
<1>5. i \in 0..Len(r)
  BY <1>1
<1>6. Ends(r, what, now, X)
  BY <1>3, <1>4, <1>5 DEF Ends
<1> QED BY <1>6 DEF r

LEMMA EndsTaken ==
  ASSUME NEW q \in Seq(Cmds), q # <<>>, NEW what, NEW now, NEW X, Ends(q, what, now, X)
  PROVE  Ends(Tail(q), what, IF Concerns(Head(q), what) THEN Head(q).look ELSE now, X)
<1> DEFINE r == Tail(q)
           next == IF Concerns(Head(q), what) THEN Head(q).look ELSE now
<1>1. /\ Len(q) \in Nat \ {0} /\ Len(r) = Len(q) - 1 /\ Head(q) = q[1]
      /\ \A i \in 1..Len(r) : r[i] = q[i + 1]
  BY TailFacts
<1> HIDE DEF r
<1>2. PICK i \in 0..Len(q) :
        /\ IF i = 0 THEN now \in X ELSE Concerns(q[i], what) /\ q[i].look \in X
        /\ \A j \in (i + 1)..Len(q) : Concerns(q[j], what) => q[j].look \in X
  BY DEF Ends
<1>3. CASE i \in {0, 1}
  <2>1. next \in X
    <3>1. CASE i = 0
      <4>1. 1 \in (i + 1)..Len(q)
        BY <1>1, <3>1
      <4> QED BY <1>1, <1>2, <3>1, <4>1
    <3>2. CASE i = 1
      BY <1>1, <1>2, <3>2
    <3> QED BY <1>3, <3>1, <3>2
  <2>2. ASSUME NEW j \in 1..Len(r), Concerns(r[j], what) PROVE r[j].look \in X
    <3>1. j + 1 \in (i + 1)..Len(q) /\ r[j] = q[j + 1]
      BY <1>1, <1>3
    <3> QED BY <1>2, <2>2, <3>1
  <2>3. 0 \in 0..Len(r) /\ \A j \in (0 + 1)..Len(r) : j \in 1..Len(r)
    BY <1>1
  <2> HIDE DEF next
  <2> QED BY <2>1, <2>2, <2>3 DEF Ends, next, r
<1>4. CASE i \notin {0, 1}
  <2> DEFINE k == i - 1
  <2>1. k \in 1..Len(r) /\ r[k] = q[i] /\ k # 0 /\ k \in 0..Len(r)
    BY <1>1, <1>4
  <2>2. ASSUME NEW j \in (k + 1)..Len(r), Concerns(r[j], what) PROVE r[j].look \in X
    <3>1. j + 1 \in (i + 1)..Len(q) /\ r[j] = q[j + 1]
      BY <1>1, <1>4
    <3> QED BY <1>2, <2>2, <3>1
  <2>3. Concerns(r[k], what) /\ r[k].look \in X
    BY <1>2, <1>4, <2>1
  <2> HIDE DEF k, next
  <2> QED BY <2>1, <2>2, <2>3 DEF Ends, next, r
<1> QED BY <1>3, <1>4

(* A session that has been told everything knows it.                       *)
LEMMA EndsNow ==
  ASSUME NEW what, NEW now, NEW X, Ends(<<>>, what, now, X) PROVE now \in X
BY EmptySeq DEF Ends

LEMMA SendIs ==
  ASSUME NEW X, NEW q \in Seq(X), NEW when, NEW c \in X
  PROVE  q \o Send(when, c) \in Seq(X)
         /\ q \o Send(when, c) = IF when THEN Append(q, c) ELSE q
<1>1. CASE when
  BY <1>1 DEF Send
<1>2. CASE ~ when
  BY <1>2, ConcatEmptySeq DEF Send
<1> QED BY <1>1, <1>2

-----------------------------------------------------------------------------
(* Steps that tell the phones nothing, and leave the mode as it is.        *)
phones == <<core, cpCmds, aaCmds, greet, cpInitial, aaConfig, aaNight, cp, aa>>

LEMMA NotTold ==
  ASSUME TInv, UNCHANGED phones, manner' = manner, config'.mode = config.mode,
         "projection" \notin news' => "projection" \notin news /\ snap' = snap,
         "source" \notin news' => "source" \notin news,
         snap'.night = "none" => snap.night = "none",
         manner = "patient" /\ NoneApart => NoneApart'
  PROVE  TInv'
<1>1. PhoneTypes'
  BY DEF TInv, PhoneTypes, phones
<1>2. ASSUME manner = "patient" PROVE Told'
  <2>1. CoreKnows /\ NoneApart /\ AaKnows /\ CpKnows
    BY <1>2 DEF TInv, Told
  <2>2. CoreKnows'
    BY <2>1 DEF CoreKnows, phones
  <2>3. \A look : Fine(look)' = Fine(look)
    BY DEF Fine
  <2>4. AaKnows'
    BY <2>1, <2>3 DEF AaKnows, phones, Fine
  <2>5. CpKnows'
    BY <2>1, <2>3 DEF CpKnows, phones, Fine
  <2> QED BY <1>2, <2>1, <2>2, <2>4, <2>5 DEF Told
<1> QED BY <1>1, <1>2 DEF TInv

LEMMA TelemetryTold ==
  ASSUME IInv, RInv, TInv, Telemetry \/ SaveFails PROVE TInv'
<1>0. /\ UNCHANGED phones /\ manner' = manner /\ snap \in Snaps
      /\ patches \in [Senders -> Seq(Patches)]
      /\ config \in [mode : Modes, theme : Looks] /\ task \in Tasks
  BY DEF Telemetry, SaveFails, TakePatch, Appearance, DarkMode, DarkFrom, Save, hub, others,
         teller, managers, world, phones, IInv, ThemeTypes
<1>1. ASSUME NEW patch \in Patches, NEW t \in Tasks, Push(patch, t), config' = config,
             manner = "patient" /\ NoneApart =>
               config.mode \notin Looks \/ (task'.mode = task.mode /\ patch.cluster = "keep")
                                        \/ patch.cluster = "none"
      PROVE  TInv'
  <2>1. news' = Watchers /\ "projection" \in Watchers /\ "source" \in Watchers
    BY <1>1 DEF Push, Watchers
  <2>2. snap'.night = IF patch.night = "keep" THEN snap.night ELSE patch.night
    BY <1>0, <1>1, PushNight
  <2>3. snap'.cluster = IF patch.cluster = "keep" THEN snap.cluster ELSE patch.cluster
    BY <1>0, <1>1 DEF Push, Merge, Snaps
  <2>4. patch.night # "none"
    BY DEF Patches, Looks
  <2>5. manner = "patient" /\ NoneApart => NoneApart'
    BY <1>1, <2>3 DEF NoneApart
  <2> QED BY <1>0, <1>1, <2>1, <2>2, <2>4, <2>5, NotTold
<1>2. ASSUME UNCHANGED snap, config'.mode = config.mode,
             news' \in {news, news \ {"telemetry"}, Watchers},
             task'.mode # task.mode => config.mode = task.mode \/ config.mode \notin Looks,
             task'.mode \in {task.mode, config.mode}
      PROVE  TInv'
  <2>1. NoneApart => NoneApart'
    BY <1>2 DEF NoneApart
  <2>2. /\ "projection" \notin news' => "projection" \notin news
        /\ "source" \notin news' => "source" \notin news
    BY <1>2 DEF Watchers
  <2> QED BY <1>0, <1>2, <2>1, <2>2, NotTold
<1>3. ASSUME NEW from \in Senders, TakePatch(from) PROVE TInv'
  <2>1. /\ Head(patches[from]) \in Patches /\ patches[from] # <<>>
        /\ Push(Head(patches[from]), task) /\ config' = config
    BY <1>0, <1>3, TailFacts DEF TakePatch
  <2>2. manner = "patient" => config.mode \notin Looks
    BY <2>1 DEF RInv, Rules, CarIsAlone, FixedIsNext, Senders
  <2> QED BY <1>0, <1>1, <2>1, <2>2
<1>4. CASE Appearance
  <2> DEFINE t == [task EXCEPT !.mode = config.mode, !.next = config.theme]
  <2>1. config' = config /\ t \in Tasks /\ t.mode = config.mode
    BY <1>0, <1>4 DEF Appearance, Tasks, Maybe
  <2>2. CASE config.mode \in Looks /\ Push(ModePatch(config.mode), t)
    <3>1. ModePatch(config.mode) \in Patches /\ ModePatch(config.mode).cluster = "none"
      BY <2>2 DEF ModePatch, Patches, Maybe
    <3> HIDE DEF t
    <3> QED BY <1>1, <2>1, <2>2, <3>1
  <2>3. CASE /\ ~ (config.mode # task.mode /\ config.mode \in Looks)
             /\ task' = t /\ news' = news \ {"telemetry"} /\ UNCHANGED snap
    <3> HIDE DEF t
    <3> QED BY <1>2, <2>1, <2>3
  <2> QED BY <1>4, <2>2, <2>3 DEF Appearance
<1>5. CASE DarkMode
  <2> DEFINE t == [task EXCEPT !.theme = task.next, !.next = "none"]
  <2>1. config' = config /\ task.next \in Looks /\ t \in Tasks /\ t.mode = task.mode
    BY <1>0, <1>5 DEF DarkMode, Tasks, Maybe
  <2>2. CASE task' = [task EXCEPT !.next = "none"] /\ UNCHANGED <<snap, news>>
    <3>1. task'.mode = task.mode
      BY <1>0, <2>2 DEF Tasks
    <3> QED BY <1>2, <2>1, <2>2, <3>1
  <2>3. CASE Push(ThemePatch(task.next), t)
    <3>1. ThemePatch(task.next) \in Patches /\ ThemePatch(task.next).cluster = "keep"
      BY <2>1 DEF ThemePatch, Patches, Maybe
    <3>2. task'.mode = t.mode
      BY <2>1, <2>3 DEF Push, Tasks
    <3> HIDE DEF t
    <3> QED BY <1>1, <2>1, <2>3, <3>1, <3>2
  <2> QED BY <1>5, <2>2, <2>3 DEF DarkMode
<1>6. CASE DarkFrom \/ Save \/ SaveFails
  <2>1. /\ UNCHANGED snap /\ config'.mode = config.mode /\ task'.mode = task.mode
        /\ news' \in {news, Watchers}
    BY <1>0, <1>6 DEF DarkFrom, Save, SaveFails, hub, Tasks
  <2> QED BY <1>2, <2>1
<1> QED BY <1>3, <1>4, <1>5, <1>6 DEF Telemetry

(* At rest the projection knows the telemetry and every phone the look:    *)
(* this is what the user, the sun and the car wait for.                    *)
LEMMA RestTold ==
  ASSUME IInv, RInv, TInv, manner = "patient", Rest
  PROVE  /\ core.snap = snap /\ aaConfig = NightMode(config.mode) /\ aaNight = aaConfig
         /\ config.mode \in Looks => snap.night = config.mode /\ Cluster(snap) = config.mode
         /\ snap.night # "none" => PhoneAgrees
         /\ \A p \in Iphones : cp[p].on =>
              /\ snap.night # "none" => core.night = snap.night
              /\ Cluster(snap) # "none" => core.cluster = Cluster(snap)
              /\ core.night # "none" => cp[p].night = core.night
              /\ core.cluster # "none" => cp[p].cluster = core.cluster
<1> USE DEF TInv, Told, PhoneTypes
<1>1. /\ core.snap = snap /\ aaConfig = NightMode(config.mode) /\ aaNight = aaConfig
      /\ cpCmds = <<>> /\ aaCmds = <<>> /\ greet = {} /\ snap \in Snaps
  BY DEF Rest, CoreKnows, AaKnows, IInv, ThemeTypes
<1>2. config.mode \in Looks => snap.night = config.mode /\ Cluster(snap) = config.mode
  <2>1. task.mode = config.mode
    BY RestKnows
  <2>2. config.mode \in Looks => snap.night = config.mode /\ snap.cluster = "none"
    BY <2>1 DEF NoneApart, RInv, Rules, FixedIsNext
  <2> QED BY <2>2 DEF Cluster, Looks
<1>3. ASSUME NEW p \in Androids, aa[p].at = "running", snap.night # "none"
      PROVE  aa[p].night = snap.night
  BY <1>1, <1>2, <1>3 DEF AaKnows, Fine
<1>4. ASSUME NEW p \in Iphones, cp[p].on
      PROVE  /\ snap.night # "none" => core.night = snap.night
             /\ Cluster(snap) # "none" => core.cluster = Cluster(snap)
             /\ core.night # "none" => cp[p].night = core.night
             /\ core.cluster # "none" => cp[p].cluster = core.cluster
  <2>1. /\ snap.night # "none" => core.night = snap.night
        /\ Cluster(snap) # "none" => core.cluster = Cluster(snap)
    BY <1>1, <1>4 DEF CpKnows
  <2>2. ASSUME core.night # "none" PROVE cp[p].night = core.night
    <3>1. cp[p].night \in Fine(core.night)
      BY <1>1, <1>4, <2>2, EndsNow DEF CpKnows
    <3>2. core.night = snap.night
      BY <1>1, <2>2 DEF CoreKnows
    <3> QED BY <1>2, <3>1, <3>2 DEF Fine
  <2>3. ASSUME core.cluster # "none" PROVE cp[p].cluster = core.cluster
    <3>1. cp[p].cluster \in Fine(core.cluster)
      BY <1>1, <1>4, <2>3, EndsNow DEF CpKnows
    <3>2. config.mode \in Looks => core.cluster = config.mode
      BY <1>2, <2>1 DEF Looks
    <3> QED BY <3>1, <3>2 DEF Fine
  <2> QED BY <2>1, <2>2, <2>3
<1>5. snap.night # "none" => Cluster(snap) # "none"
  BY DEF Cluster, Looks
<1>6. snap.night # "none" => PhoneAgrees
  <2>1. ASSUME snap.night # "none", NEW p \in Iphones, cp[p].on
        PROVE  cp[p].night = snap.night /\ cp[p].cluster = Cluster(snap)
    BY <1>4, <1>5, <2>1
  <2> QED BY <1>3, <2>1 DEF PhoneAgrees
<1> QED BY <1>1, <1>2, <1>4, <1>6

LEMMA EndsEmpty ==
  ASSUME NEW what, NEW now, NEW X, now \in X PROVE Ends(<<>>, what, now, X)
<1>1. 0 \in 0..Len(<<>>) /\ (0 + 1)..Len(<<>>) = {}
  BY EmptySeq
<1> QED BY <1>1 DEF Ends

LEMMA SetModeTold ==
  ASSUME IInv, RInv, TInv, NEW m \in Modes, SetMode(m) PROVE TInv'
<1>1. /\ config'.mode = m /\ m # config.mode /\ news' = Watchers
      /\ UNCHANGED phones /\ UNCHANGED <<snap, task, manner>>
      /\ manner = "patient" => Rest
  BY DEF SetMode, Waits, teller, managers, world, phones, IInv, ThemeTypes
<1>2. PhoneTypes'
  BY <1>1 DEF TInv, PhoneTypes, phones
<1>3. ASSUME manner = "patient" PROVE Told'
  <2>1. CoreKnows /\ AaKnows /\ CpKnows /\ Rest /\ cpCmds = <<>> /\ aaCmds = <<>> /\ greet = {}
    BY <1>1, <1>3 DEF TInv, Told, Rest
  <2>2. /\ core.snap = snap /\ aaNight = aaConfig
        /\ snap.night # "none" => PhoneAgrees
        /\ \A p \in Iphones : cp[p].on =>
             /\ snap.night # "none" => core.night = snap.night
             /\ Cluster(snap) # "none" => core.cluster = Cluster(snap)
             /\ core.night # "none" => cp[p].night = core.night
             /\ core.cluster # "none" => cp[p].cluster = core.cluster
    BY <1>3, <2>1, RestTold
  <2>3. CoreKnows'
    BY <1>1, <2>1 DEF CoreKnows, phones, Watchers
  <2>4. NoneApart'
    BY <1>1, <2>1, RestKnows DEF NoneApart
  <2>5. AaKnows'
    BY <1>1, <2>1, <2>2 DEF AaKnows, phones, Watchers, PhoneAgrees, Fine
  <2>6. CpKnows'
    <3>1. ASSUME NEW p \in Iphones, cp[p].on, NEW X
          PROVE  /\ core.night # "none" /\ core.night \in X =>
                      Ends(<<>>, "night", cp[p].night, X)
                 /\ core.cluster # "none" /\ core.cluster \in X =>
                      Ends(<<>>, "cluster", cp[p].cluster, X)
      BY <2>2, <3>1, EndsEmpty
    <3>2. core' = core /\ cp' = cp /\ cpCmds' = <<>> /\ greet' = {} /\ Len(<<>>) = 0
      BY <1>1, <2>1, EmptySeq DEF phones
    <3>3. core.night \in Fine(core.night)' /\ core.cluster \in Fine(core.cluster)'
      BY <3>2 DEF Fine
    <3> QED BY <2>2, <3>1, <3>2, <3>3 DEF CpKnows
  <2> QED BY <2>3, <2>4, <2>5, <2>6 DEF Told
<1> QED BY <1>1, <1>2, <1>3 DEF TInv

(* New sessions are greeted with what the projection knows; those that     *)
(* leave need not know.                                                    *)
LEMMA VisitsTold ==
  ASSUME TInv, NEW p,
         \/ p \in Iphones /\ (Register(p) \/ CpLeaves(p))
         \/ p \in Androids /\ (AaComes(p) \/ SensorsStart(p) \/ AaRuns(p) \/ AaLeaves(p))
  PROVE  TInv'
<1> USE DEF visiting, hub, world
<1>1. UNCHANGED <<config, snap, news, task, core, cpCmds, aaCmds, cpInitial, aaConfig, aaNight, manner>>
  BY DEF Register, CpLeaves, AaComes, SensorsStart, AaRuns, AaLeaves
<1>2. /\ greet \subseteq greet'
      /\ \A k \in Iphones : cp'[k].on /\ k \notin greet' => cp'[k] = cp[k]
      /\ cp' \in [Iphones -> [on : BOOLEAN, night : Maybe, cluster : Maybe]]
      /\ manner = "patient" => \A k \in Androids :
           aa'[k].at = "running" /\ k \notin greet' => aa'[k] = aa[k]
      /\ aa' \in [Androids -> [at : {"away", "setup", "running"}, night : Maybe]]
  <2> USE DEF TInv, PhoneTypes
  <2>1. CASE p \in Iphones /\ Register(p)
    BY <2>1 DEF Register
  <2>2. CASE p \in Iphones /\ CpLeaves(p)
    BY <2>2 DEF CpLeaves, Away, Maybe
  <2>3. CASE p \in Androids /\ AaComes(p)
    BY <2>3 DEF AaComes
  <2>4. CASE p \in Androids /\ SensorsStart(p)
    BY <2>4 DEF SensorsStart, Maybe, Looks
  <2>5. CASE p \in Androids /\ AaRuns(p)
    BY <2>5 DEF AaRuns
  <2>6. CASE p \in Androids /\ AaLeaves(p)
    BY <2>6 DEF AaLeaves, Gone, Maybe
  <2> QED BY <2>1, <2>2, <2>3, <2>4, <2>5, <2>6
<1>3. PhoneTypes'
  BY <1>1, <1>2 DEF TInv, PhoneTypes
<1>4. ASSUME manner = "patient" PROVE Told'
  <2>1. CoreKnows /\ NoneApart /\ AaKnows /\ CpKnows
    BY <1>4 DEF TInv, Told
  <2>2. CoreKnows' /\ NoneApart'
    BY <1>1, <2>1 DEF CoreKnows, NoneApart
  <2>3. AaKnows'
    BY <1>1, <1>2, <1>4, <2>1 DEF AaKnows, Fine
  <2>4. CpKnows'
    BY <1>1, <1>2, <2>1 DEF CpKnows, Fine
  <2> QED BY <2>2, <2>3, <2>4 DEF Told
<1> QED BY <1>1, <1>3, <1>4 DEF TInv

-----------------------------------------------------------------------------
LEMMA ManagersTold == ASSUME IInv, TInv, Managers PROVE TInv'
<1>1. UNCHANGED <<config, snap, task, core, greet, manner>>
  BY DEF Managers, CpCmd, AaSensor, Refresh, OnNightMode, hub, world, teller
<1>2. \A look : Fine(look)' = Fine(look)
  BY <1>1 DEF Fine
<1>3. CASE CpCmd
  <2> DEFINE cmd == Head(cpCmds).cmd
             look == Head(cpCmds).look
  <2>1. /\ cpCmds \in Seq(Cmds) /\ cpCmds # <<>> /\ cpCmds' = Tail(cpCmds)
        /\ cp \in [Iphones -> [on : BOOLEAN, night : Maybe, cluster : Maybe]]
        /\ UNCHANGED <<news, aaCmds, aaConfig, aaNight, aa>>
    BY <1>3 DEF CpCmd, TInv, PhoneTypes, hub
  <2>2. Head(cpCmds) \in Cmds /\ Tail(cpCmds) \in Seq(Cmds)
    BY <2>1, TailFacts
  <2>3. ASSUME NEW p \in Iphones
        PROVE  /\ cp'[p] \in [on : BOOLEAN, night : Maybe, cluster : Maybe]
               /\ cp'[p].on = cp[p].on
               /\ cp[p].on =>
                    /\ cp'[p].night = IF Concerns(Head(cpCmds), "night") THEN look ELSE cp[p].night
                    /\ cp'[p].cluster = IF Concerns(Head(cpCmds), "cluster") THEN look ELSE cp[p].cluster
    <3>1. cp'[p] = IF ~ cp[p].on \/ look = "none" THEN cp[p]
                   ELSE [cp[p] EXCEPT !.night = IF cmd = "cluster" THEN @ ELSE look,
                                      !.cluster = IF cmd = "night" THEN @ ELSE look]
      BY <1>3 DEF CpCmd
    <3>2. cmd \in {"initial", "night", "cluster"} /\ look \in Maybe
      BY <2>2 DEF Cmds
    <3>3. cp[p] \in [on : BOOLEAN, night : Maybe, cluster : Maybe]
      BY <2>1
    <3> QED BY <3>1, <3>2, <3>3 DEF Concerns
  <2>4. cp' \in [Iphones -> [on : BOOLEAN, night : Maybe, cluster : Maybe]]
    <3>1. \E f : cp' = [p \in Iphones |-> f[p]]
      <4>1. cp' = [p \in Iphones |-> cp'[p]]
        BY <1>3 DEF CpCmd
      <4> QED BY <4>1
    <3> QED BY <2>3, <3>1
  <2>5. cpInitial' \in Maybe
    BY <1>3, <2>2 DEF CpCmd, TInv, PhoneTypes, Cmds
  <2>6. PhoneTypes'
    BY <1>1, <2>1, <2>2, <2>4, <2>5 DEF TInv, PhoneTypes
  <2>7. ASSUME manner = "patient" PROVE Told'
    <3>1. CoreKnows /\ NoneApart /\ AaKnows /\ CpKnows
      BY <2>7 DEF TInv, Told
    <3>2. CoreKnows' /\ NoneApart' /\ AaKnows'
      BY <1>1, <2>1, <3>1 DEF CoreKnows, NoneApart, AaKnows, Fine
    <3>3. \A i \in 1..Len(cpCmds') :
            cpCmds'[i].cmd = "initial" => cpCmds'[i].look \in {"none", NightMode(config.mode)}
      <4>1. /\ Len(cpCmds) \in Nat \ {0} /\ Len(cpCmds') = Len(cpCmds) - 1
            /\ \A i \in 1..Len(cpCmds') : cpCmds'[i] = cpCmds[i + 1]
        BY <2>1, TailFacts
      <4>2. \A i \in 1..Len(cpCmds') : i + 1 \in 1..Len(cpCmds)
        BY <4>1
      <4> QED BY <3>1, <4>1, <4>2 DEF CpKnows
    <3>4. ASSUME NEW p \in Iphones, cp'[p].on, p \notin greet'
          PROVE  /\ core.snap.night # "none" => core.night = core.snap.night
                 /\ Cluster(core.snap) # "none" => core.cluster = Cluster(core.snap)
                 /\ core.night # "none" => Ends(cpCmds', "night", cp'[p].night, Fine(core.night))
                 /\ core.cluster # "none" => Ends(cpCmds', "cluster", cp'[p].cluster, Fine(core.cluster))
      <4>1. /\ cp[p].on /\ p \notin greet
            /\ cp'[p].night = IF Concerns(Head(cpCmds), "night") THEN look ELSE cp[p].night
            /\ cp'[p].cluster = IF Concerns(Head(cpCmds), "cluster") THEN look ELSE cp[p].cluster
        BY <1>1, <2>3, <3>4
      <4> HIDE DEF look
      <4>2. /\ core.snap.night # "none" => core.night = core.snap.night
            /\ Cluster(core.snap) # "none" => core.cluster = Cluster(core.snap)
            /\ core.night # "none" => Ends(cpCmds, "night", cp[p].night, Fine(core.night))
            /\ core.cluster # "none" => Ends(cpCmds, "cluster", cp[p].cluster, Fine(core.cluster))
        BY <3>1, <4>1 DEF CpKnows
      <4> QED BY <2>1, <4>1, <4>2, EndsTaken DEF look
    <3>5. CpKnows'
      BY <1>1, <1>2, <3>3, <3>4 DEF CpKnows, Fine
    <3> QED BY <3>2, <3>5 DEF Told
  <2> QED BY <1>1, <2>6, <2>7 DEF TInv
<1>4. ASSUME UNCHANGED <<cpCmds, cpInitial, cp>>,
             news' \in {news, news \ {"source"}},
             aaCmds' \in Seq(Looks), {aaConfig', aaNight'} \subseteq Maybe,
             aa' \in [Androids -> [at : {"away", "setup", "running"}, night : Maybe]],
             manner = "patient" /\ Told => AaKnows'
      PROVE  TInv'
  <2>1. PhoneTypes'
    BY <1>1, <1>4 DEF TInv, PhoneTypes
  <2>2. ASSUME manner = "patient" PROVE Told'
    <3>1. CoreKnows /\ NoneApart /\ CpKnows /\ AaKnows'
      BY <1>4, <2>2 DEF TInv, Told
    <3>2. CoreKnows' /\ NoneApart'
      BY <1>1, <1>4, <3>1 DEF CoreKnows, NoneApart
    <3>3. CpKnows'
      BY <1>1, <1>4, <3>1 DEF CpKnows, Fine
    <3> QED BY <3>1, <3>2, <3>3 DEF Told
  <2> QED BY <1>1, <2>1, <2>2 DEF TInv
<1>5. ASSUME NEW look \in Looks, TellAll(look)
      PROVE  /\ aa' \in [Androids -> [at : {"away", "setup", "running"}, night : Maybe]]
             /\ \A p \in Androids : /\ aa'[p].at = aa[p].at
                                    /\ aa[p].at = "running" => aa'[p].night = look
  BY <1>5 DEF TellAll, TInv, PhoneTypes, Maybe
<1>6. CASE AaSensor
  <2>1. /\ aaCmds \in Seq(Looks) /\ aaCmds # <<>> /\ aaCmds' = Tail(aaCmds)
        /\ TellAll(Head(aaCmds))
        /\ UNCHANGED <<news, cpCmds, cpInitial, aaConfig, aaNight, cp>>
    BY <1>6 DEF AaSensor, TInv, PhoneTypes, hub
  <2>2. /\ Head(aaCmds) \in Looks /\ Tail(aaCmds) \in Seq(Looks) /\ Head(aaCmds) = aaCmds[1]
        /\ Len(aaCmds) = 1 <=> Tail(aaCmds) = <<>>
        /\ Tail(aaCmds) # <<>> => Tail(aaCmds)[Len(Tail(aaCmds))] = aaCmds[Len(aaCmds)]
    BY <2>1, TailFacts
  <2>3. /\ aa' \in [Androids -> [at : {"away", "setup", "running"}, night : Maybe]]
        /\ \A p \in Androids : /\ aa'[p].at = aa[p].at
                               /\ aa[p].at = "running" => aa'[p].night = Head(aaCmds)
    BY <1>5, <2>1, <2>2
  <2>4. AaKnows => AaKnows'
    BY <1>1, <2>1, <2>2, <2>3 DEF AaKnows, Fine
  <2> QED BY <1>4, <2>1, <2>2, <2>3, <2>4 DEF TInv, PhoneTypes, Told
<1>7. CASE Refresh
  <2>1. /\ news' = news \ {"source"} /\ aaConfig' = NightMode(config.mode)
        /\ UNCHANGED <<cpCmds, aaCmds, cpInitial, aaNight, cp, aa>>
    BY <1>7 DEF Refresh, teller
  <2>2. aaConfig' \in Maybe
    BY <2>1, LooksType DEF IInv, ThemeTypes
  <2>3. AaKnows => AaKnows'
    BY <1>1, <2>1 DEF AaKnows, Fine
  <2> QED BY <1>4, <2>1, <2>2, <2>3 DEF TInv, PhoneTypes, Told
<1>8. CASE OnNightMode
  <2>1. /\ aaConfig # aaNight /\ aaNight' = aaConfig
        /\ IF aaConfig = "none" THEN UNCHANGED aa ELSE TellAll(aaConfig)
        /\ UNCHANGED <<news, cpCmds, aaCmds, cpInitial, aaConfig, cp>>
    BY <1>8 DEF OnNightMode, hub, teller
  <2>2. aaConfig \in Maybe /\ (aaConfig # "none" => aaConfig \in Looks)
    BY LooksType DEF TInv, PhoneTypes
  <2>3. /\ aa' \in [Androids -> [at : {"away", "setup", "running"}, night : Maybe]]
        /\ aaConfig # "none" => \A p \in Androids :
             /\ aa'[p].at = aa[p].at
             /\ aa[p].at = "running" => aa'[p].night = aaConfig
    BY <1>5, <2>1, <2>2 DEF TInv, PhoneTypes
  <2>4. AaKnows => AaKnows'
    <3> SUFFICES ASSUME AaKnows PROVE AaKnows'
      OBVIOUS
    <3>2. aaConfig = NightMode(config.mode)
      BY <2>1 DEF AaKnows
    <3>3. aaConfig # "none" => \A look : aaConfig \in Fine(look)
      BY <3>2, LooksType DEF Fine, IInv, ThemeTypes
    <3> QED BY <1>1, <2>1, <2>3, <3>2, <3>3 DEF AaKnows, Fine
  <2> QED BY <1>4, <2>1, <2>2, <2>3, <2>4 DEF TInv, PhoneTypes, Told
<1> QED BY <1>3, <1>6, <1>7, <1>8 DEF Managers

-----------------------------------------------------------------------------
(* What the projection sends the iPhones, one command after the other.     *)
NightNews(c, prev, next) ==
  prev.night # next.night /\ next.night \in Looks /\ c.night # next.night
ClusterNews(c, prev, next) ==
  /\ prev.night # next.night \/ prev.cluster # next.cluster
  /\ Cluster(next) \in Looks /\ c.cluster # Cluster(next)
WithNight(q, c, prev, next) ==
  IF NightNews(c, prev, next) THEN Append(q, Cmd("night", next.night)) ELSE q
WithCluster(q, c, prev, next) ==
  IF ClusterNews(c, prev, next) THEN Append(q, Cmd("cluster", Cluster(next))) ELSE q

LEMMA CmdType ==
  /\ \A look \in Maybe, cmd \in {"initial", "night", "cluster"} :
       Cmd(cmd, look) \in Cmds /\ Cmd(cmd, look).cmd = cmd /\ Cmd(cmd, look).look = look
BY DEF Cmd, Cmds

LEMMA FollowsCpIs ==
  ASSUME NEW q \in Seq(Cmds), NEW c \in Cores, NEW prev \in Snaps, NEW next \in Snaps
  PROVE  /\ FollowsCp(c, prev, next).core \in Cores
         /\ FollowsCp(c, prev, next).core =
              [c EXCEPT !.night = IF NightNews(c, prev, next) THEN next.night ELSE @,
                        !.cluster = IF ClusterNews(c, prev, next) THEN Cluster(next) ELSE @]
         /\ WithNight(q, c, prev, next) \in Seq(Cmds)
         /\ q \o FollowsCp(c, prev, next).sent
              = WithCluster(WithNight(q, c, prev, next), c, prev, next)
         /\ q \o FollowsCp(c, prev, next).sent \in Seq(Cmds)
<1> DEFINE n == NightNews(c, prev, next)
           b == ClusterNews(c, prev, next)
           cn == Cmd("night", next.night)
           cc == Cmd("cluster", Cluster(next))
           f == FollowsCp(c, prev, next)
<1>1. next.night \in Maybe /\ Cluster(next) \in Maybe /\ cn \in Cmds /\ cc \in Cmds
  BY LooksType, CmdType
<1>2. /\ f.core = [c EXCEPT !.night = IF n THEN next.night ELSE @,
                            !.cluster = IF b THEN Cluster(next) ELSE @]
      /\ f.sent = Send(n, cn) \o Send(b, cc)
  BY DEF FollowsCp, NightNews, ClusterNews
<1> HIDE DEF cn, cc, f
<1>3. f.core \in Cores
  BY <1>1, <1>2 DEF Cores
<1>4. Send(n, cn) \in Seq(Cmds) /\ Send(b, cc) \in Seq(Cmds)
  BY <1>1 DEF Send
<1>5. q \o f.sent = (q \o Send(n, cn)) \o Send(b, cc)
  BY <1>2, <1>4, ConcatAssociative
<1>6. q \o Send(n, cn) = WithNight(q, c, prev, next) /\ q \o Send(n, cn) \in Seq(Cmds)
  BY <1>1, SendIs DEF WithNight, cn
<1>7. /\ q \o f.sent = WithCluster(WithNight(q, c, prev, next), c, prev, next)
      /\ q \o f.sent \in Seq(Cmds)
  BY <1>1, <1>5, <1>6, SendIs DEF WithCluster, cc
<1> QED BY <1>2, <1>3, <1>6, <1>7 DEF f

(* A session that will know what was sent last still will.                 *)
LEMMA FollowsCpEnds ==
  ASSUME NEW q \in Seq(Cmds), NEW c \in Cores, NEW prev \in Snaps, NEW next \in Snaps,
         NEW now, NEW apart,
         c.night # "none" => Ends(q, "night", now, Fine(c.night)),
         c.cluster # "none" => Ends(q, "cluster", apart, Fine(c.cluster)),
         NEW d, d = FollowsCp(c, prev, next).core,
         NEW r, r = q \o FollowsCp(c, prev, next).sent
  PROVE  /\ d.night # "none" => Ends(r, "night", now, Fine(d.night))
         /\ d.cluster # "none" => Ends(r, "cluster", apart, Fine(d.cluster))
<1> DEFINE s == WithNight(q, c, prev, next)
           cn == Cmd("night", next.night)
           cc == Cmd("cluster", Cluster(next))
<1>1. /\ s \in Seq(Cmds) /\ r = WithCluster(s, c, prev, next)
      /\ d.night = IF NightNews(c, prev, next) THEN next.night ELSE c.night
      /\ d.cluster = IF ClusterNews(c, prev, next) THEN Cluster(next) ELSE c.cluster
  <2>1. d = [c EXCEPT !.night = IF NightNews(c, prev, next) THEN next.night ELSE @,
                      !.cluster = IF ClusterNews(c, prev, next) THEN Cluster(next) ELSE @]
    BY FollowsCpIs
  <2>2. s \in Seq(Cmds) /\ r = WithCluster(s, c, prev, next)
    BY FollowsCpIs
  <2> QED BY <2>1, <2>2 DEF Cores
<1>2. /\ cn \in Cmds /\ cn.cmd = "night" /\ cn.look = next.night
      /\ cc \in Cmds /\ cc.cmd = "cluster" /\ cc.look = Cluster(next)
  BY LooksType, CmdType
<1>3. \A look : look \in Fine(look)
  BY DEF Fine
<1>4. ~ Concerns(cn, "cluster") /\ ~ Concerns(cc, "night")
  BY <1>2 DEF Concerns
<1>5. NightNews(c, prev, next) => Concerns(cn, "night")
  BY <1>2 DEF Concerns, NightNews, Looks
<1>6. ClusterNews(c, prev, next) => Concerns(cc, "cluster")
  BY <1>2 DEF Concerns, ClusterNews, Looks
<1> HIDE DEF cn, cc
<1>7. ASSUME d.night # "none" PROVE Ends(r, "night", now, Fine(d.night))
  <2>1. Ends(s, "night", now, Fine(d.night))
    BY <1>1, <1>2, <1>3, <1>5, <1>7, EndsSent DEF WithNight, cn
  <2> HIDE DEF s
  <2> QED BY <1>1, <1>2, <1>4, <2>1, EndsKept DEF WithCluster, cc
<1>8. ASSUME d.cluster # "none" PROVE Ends(r, "cluster", apart, Fine(d.cluster))
  <2>1. c.cluster # "none" => Ends(s, "cluster", apart, Fine(c.cluster))
    BY <1>2, <1>4, EndsKept DEF WithNight, cn
  <2> HIDE DEF s
  <2> QED BY <1>1, <1>2, <1>3, <1>6, <1>8, <2>1, EndsSent DEF WithCluster, cc
<1> QED BY <1>7, <1>8

(* Only the latest config sends the look a session begins with.            *)
LEMMA SentsAreNoInitials ==
  ASSUME NEW q \in Seq(Cmds), NEW c \in Cores, NEW prev \in Snaps, NEW next \in Snaps, NEW X,
         \A k \in 1..Len(q) : q[k].cmd = "initial" => q[k].look \in X,
         NEW r, r = q \o FollowsCp(c, prev, next).sent
  PROVE  \A k \in 1..Len(r) : r[k].cmd = "initial" => r[k].look \in X
<1> DEFINE ok(s) == \A k \in 1..Len(s) : s[k].cmd = "initial" => s[k].look \in X
           w == WithNight(q, c, prev, next)
<1>1. ASSUME NEW s \in Seq(Cmds), ok(s), NEW d \in Cmds, d.cmd # "initial"
      PROVE  ok(Append(s, d))
  <2>1. /\ Len(s) \in Nat /\ Len(Append(s, d)) = Len(s) + 1
        /\ Append(s, d)[Len(s) + 1] = d
        /\ \A k \in 1..Len(s) : Append(s, d)[k] = s[k]
    BY LenProperties
  <2>2. \A k \in 1..Len(Append(s, d)) : k \in 1..Len(s) \/ k = Len(s) + 1
    BY <2>1
  <2> QED BY <1>1, <2>1, <2>2
<1>2. /\ Cmd("night", next.night) \in Cmds /\ Cmd("night", next.night).cmd = "night"
      /\ Cmd("cluster", Cluster(next)) \in Cmds /\ Cmd("cluster", Cluster(next)).cmd = "cluster"
  BY LooksType, CmdType
<1>3. w \in Seq(Cmds) /\ r = WithCluster(w, c, prev, next)
  BY FollowsCpIs
<1>4. ok(q)
  OBVIOUS
<1> HIDE DEF ok
<1>5. ok(w)
  BY <1>1, <1>2, <1>4 DEF WithNight
<1> HIDE DEF w
<1>6. ok(r)
  BY <1>1, <1>2, <1>3, <1>5 DEF WithCluster
<1> QED BY <1>6 DEF ok

AaNews(c, prev, next) ==
  prev.night # next.night /\ next.night \in Looks /\ c.aaNight # next.night

LEMMA FollowsAaIs ==
  ASSUME NEW c \in Cores, NEW prev \in Snaps, NEW next \in Snaps
  PROVE  /\ FollowsAa(c, prev, next).core \in Cores
         /\ FollowsAa(c, prev, next).core =
              [c EXCEPT !.aaNight = IF AaNews(c, prev, next) THEN next.night ELSE @]
         /\ FollowsAa(c, prev, next).sent = Send(AaNews(c, prev, next), next.night)
BY LooksType DEF FollowsAa, AaNews, Cores

(* The Android phones learn the last look sent, and it is the last seen.   *)
LEMMA AaSends ==
  ASSUME aaCmds \in Seq(Looks), NEW n, NEW look \in Looks \cup {"none"}, n => look \in Looks,
         aaCmds' = aaCmds \o Send(n, look)
  PROVE  /\ aaCmds' \in Seq(Looks)
         /\ n => aaCmds' # <<>> /\ aaCmds'[Len(aaCmds')] = look
         /\ ~ n => aaCmds' = aaCmds
<1>1. CASE n
  <2>1. aaCmds' = Append(aaCmds, look) /\ look \in Looks
    BY <1>1, SendIs
  <2>2. aaCmds' \in Seq(Looks) /\ Len(aaCmds') = Len(aaCmds) + 1 /\ Len(aaCmds) \in Nat
        /\ aaCmds'[Len(aaCmds) + 1] = look
    BY <2>1, LenProperties
  <2>3. aaCmds' # <<>>
    BY <2>2, EmptySeq
  <2> QED BY <1>1, <2>2, <2>3
<1>2. CASE ~ n
  BY <1>2, ConcatEmptySeq DEF Send
<1> QED BY <1>1, <1>2

(* The projection takes the hub's latest.                                  *)
LEMMA OnStateTold == ASSUME IInv, TInv, OnState PROVE TInv'
<1> DEFINE seen == core.snap
           f == FollowsCp(core, seen, snap)
           g == FollowsAa(f.core, seen, snap)
           i == Cmd("initial", NightMode(config.mode))
           changed == config # core.config
           q == cpCmds \o Send(changed, i)
           nn == NightNews(core, seen, snap)
           cn == ClusterNews(core, seen, snap)
           an == AaNews(f.core, seen, snap)
<1>1. /\ core \in Cores /\ seen \in Snaps /\ snap \in Snaps /\ cpCmds \in Seq(Cmds)
      /\ aaCmds \in Seq(Looks) /\ config \in [mode : Modes, theme : Looks]
      /\ snap.night \in Looks \cup {"none"}
  BY LooksType DEF TInv, PhoneTypes, IInv, ThemeTypes, Cores
<1>2. /\ core' = [g.core EXCEPT !.config = config, !.snap = snap]
      /\ cpCmds' = q \o f.sent /\ aaCmds' = aaCmds \o g.sent
      /\ news' = news \ {"projection"}
      /\ UNCHANGED <<config, snap, task, greet, cpInitial, aaConfig, aaNight, cp, aa, manner>>
  BY DEF OnState, managers, world
<1>3. NightMode(config.mode) \in Maybe
  BY <1>1, LooksType
<1>4. i \in Cmds /\ i.cmd = "initial" /\ i.look = NightMode(config.mode)
  BY <1>3, CmdType
<1> HIDE DEF i, changed, seen
<1>5. q \in Seq(Cmds) /\ q = IF changed THEN Append(cpCmds, i) ELSE cpCmds
  BY <1>1, <1>4, SendIs
<1> HIDE DEF q
<1>6. /\ f.core \in Cores
      /\ f.core = [core EXCEPT !.night = IF nn THEN snap.night ELSE @,
                               !.cluster = IF cn THEN Cluster(snap) ELSE @]
      /\ cpCmds' = WithCluster(WithNight(q, core, seen, snap), core, seen, snap)
      /\ cpCmds' \in Seq(Cmds) /\ WithNight(q, core, seen, snap) \in Seq(Cmds)
  <2>1. /\ f.core \in Cores
        /\ f.core = [core EXCEPT !.night = IF nn THEN snap.night ELSE @,
                                 !.cluster = IF cn THEN Cluster(snap) ELSE @]
    BY <1>1, FollowsCpIs
  <2>2. /\ WithNight(q, core, seen, snap) \in Seq(Cmds)
        /\ q \o f.sent = WithCluster(WithNight(q, core, seen, snap), core, seen, snap)
        /\ q \o f.sent \in Seq(Cmds)
    <3>1. core \in Cores /\ seen \in Snaps /\ snap \in Snaps /\ q \in Seq(Cmds)
      BY <1>1, <1>5
    <3> QED BY ONLY <3>1, FollowsCpIs
  <2> HIDE DEF f, nn, cn
  <2> QED BY <1>2, <2>1, <2>2
<1> HIDE DEF f
<1>7. /\ g.core \in Cores /\ g.sent = Send(an, snap.night)
      /\ g.core = [f.core EXCEPT !.aaNight = IF an THEN snap.night ELSE @]
  <2>1. f.core \in Cores /\ seen \in Snaps /\ snap \in Snaps
    BY <1>1, <1>6
  <2> QED BY ONLY <2>1, FollowsAaIs
<1> USE DEF seen
<1>8. /\ core' \in Cores /\ core'.snap = snap /\ core'.night = f.core.night
      /\ core'.cluster = f.core.cluster
      /\ core'.night = IF nn THEN snap.night ELSE core.night
      /\ core'.cluster = IF cn THEN Cluster(snap) ELSE core.cluster
      /\ core'.aaNight = IF an THEN snap.night ELSE core.aaNight
      /\ f.core.aaNight = core.aaNight
  <2> HIDE DEF f, g, nn, cn, an
  <2> QED BY <1>1, <1>2, <1>6, <1>7 DEF Cores
<1>9. /\ aaCmds' \in Seq(Looks)
      /\ an => aaCmds' # <<>> /\ aaCmds'[Len(aaCmds')] = snap.night
      /\ ~ an => aaCmds' = aaCmds
  <2>1. aaCmds' = aaCmds \o Send(an, snap.night) /\ (an => snap.night \in Looks)
    BY <1>2, <1>7 DEF AaNews
  <2> HIDE DEF an
  <2> QED BY <1>1, <2>1, AaSends
<1>10. PhoneTypes'
  BY <1>2, <1>6, <1>8, <1>9 DEF TInv, PhoneTypes
<1>11. ASSUME manner = "patient" PROVE Told'
  <2>1. CoreKnows /\ NoneApart /\ AaKnows /\ CpKnows
    BY <1>11 DEF TInv, Told
  <2>2. /\ Looks = Maybe \ {"none"} /\ Cluster(snap) \in Maybe /\ core.snap.night \in Maybe
        /\ snap.night # "none" => snap.night \in Looks
    BY <1>1, LooksType
  <2>3. CoreKnows'
    <3>1. core'.night \in {"none", snap.night} /\ core'.aaNight \in {"none", snap.night}
      BY <1>1, <1>8, <2>1, <2>2 DEF CoreKnows, NightNews, AaNews
    <3>2. Cluster(snap) # "none" => core'.cluster \in {"none", Cluster(snap)}
      BY <1>1, <1>8, <2>1, <2>2 DEF CoreKnows, ClusterNews, Cluster
    <3> QED BY <1>2, <1>8, <3>1, <3>2 DEF CoreKnows, Cluster
  <2>4. NoneApart'
    BY <1>2, <2>1 DEF NoneApart
  <2>5. \A look : Fine(look)' = Fine(look)
    BY <1>2 DEF Fine
  <2>6. AaKnows'
    <3>1. /\ aaConfig' \in {aaNight', NightMode(config'.mode)}
          /\ "source" \notin news' => aaConfig' = NightMode(config'.mode)
      BY <1>2, <2>1 DEF AaKnows
    <3>2. ~ an => snap.night = core.snap.night \/ snap.night = "none"
      <4> SUFFICES ASSUME ~ an, snap.night # "none" PROVE snap.night = core.snap.night
        OBVIOUS
      <4>1. core.snap.night = snap.night \/ core.aaNight = snap.night
        BY <1>8, <2>2 DEF AaNews
      <4> QED BY <2>1, <4>1 DEF CoreKnows
    <3>3. snap.night = "none" => core.snap.night = "none"
      BY <2>1 DEF CoreKnows
    <3>4. aaCmds' # <<>> => aaCmds'[Len(aaCmds')] = snap.night
      BY <1>9, <2>1, <3>2, <3>3 DEF AaKnows
    <3>5. ASSUME NEW p \in Androids, aa[p].at = "running", p \notin greet, snap.night # "none"
          PROVE  /\ core'.aaNight = snap.night
                 /\ aaCmds' = <<>> => aa[p].night \in Fine(snap.night)
      <4>1. CASE an
        BY <1>8, <1>9, <4>1
      <4>2. CASE ~ an
        <5>1. snap.night = core.snap.night
          BY <3>2, <3>5, <4>2
        <5> QED BY <1>8, <1>9, <2>1, <3>5, <4>2, <5>1 DEF AaKnows
      <4> QED BY <4>1, <4>2
    <3>6. \A look : Fine(look)' = {look} \cup (IF config.mode \in Looks THEN {config.mode} ELSE {})
      BY <1>2 DEF Fine
    <3> HIDE DEF an
    <3> QED BY <1>2, <1>8, <3>1, <3>4, <3>5 DEF AaKnows, Fine
  <2>7. CpKnows'
    <3>1. \A k \in 1..Len(cpCmds') :
            cpCmds'[k].cmd = "initial" => cpCmds'[k].look \in {"none", NightMode(config.mode)}
      <4> DEFINE X == {"none", NightMode(config.mode)}
      <4>1. \A k \in 1..Len(cpCmds) : cpCmds[k].cmd = "initial" => cpCmds[k].look \in X
        BY <2>1 DEF CpKnows
      <4> HIDE DEF X
      <4>2. i.look \in X
        BY <1>4 DEF X
      <4>3. \A k \in 1..Len(q) : q[k].cmd = "initial" => q[k].look \in X
        <5>1. /\ Len(cpCmds) \in Nat /\ Len(Append(cpCmds, i)) = Len(cpCmds) + 1
              /\ Append(cpCmds, i)[Len(cpCmds) + 1] = i
              /\ \A k \in 1..Len(cpCmds) : Append(cpCmds, i)[k] = cpCmds[k]
          BY <1>1, <1>4, LenProperties
        <5>2. \A k \in 1..Len(Append(cpCmds, i)) : k \in 1..Len(cpCmds) \/ k = Len(cpCmds) + 1
          BY <5>1
        <5> QED BY <1>5, <4>1, <4>2, <5>1, <5>2
      <4>4. \A k \in 1..Len(cpCmds') : cpCmds'[k].cmd = "initial" => cpCmds'[k].look \in X
        BY <1>1, <1>2, <1>5, <4>3, SentsAreNoInitials DEF f
      <4> QED BY <4>4 DEF X
    <3>2. ASSUME NEW p \in Iphones, cp[p].on, p \notin greet
          PROVE  /\ snap.night # "none" => core'.night = snap.night
                 /\ Cluster(snap) # "none" => core'.cluster = Cluster(snap)
                 /\ core'.night # "none" => Ends(cpCmds', "night", cp[p].night, Fine(core'.night))
                 /\ core'.cluster # "none" => Ends(cpCmds', "cluster", cp[p].cluster, Fine(core'.cluster))
      <4>1. /\ core.snap.night # "none" => core.night = core.snap.night
            /\ Cluster(core.snap) # "none" => core.cluster = Cluster(core.snap)
            /\ core.night # "none" => Ends(cpCmds, "night", cp[p].night, Fine(core.night))
            /\ core.cluster # "none" => Ends(cpCmds, "cluster", cp[p].cluster, Fine(core.cluster))
        BY <2>1, <3>2 DEF CpKnows
      <4>2. \A look, what : Concerns(i, what) => i.look \in Fine(look)
        BY <1>1, <1>4, LooksType DEF Concerns, Fine
      <4>3. /\ core.night # "none" => Ends(q, "night", cp[p].night, Fine(core.night))
            /\ core.cluster # "none" => Ends(q, "cluster", cp[p].cluster, Fine(core.cluster))
        BY <1>1, <1>4, <1>5, <4>1, <4>2, EndsKept
      <4>4. /\ f.core.night # "none" => Ends(q \o f.sent, "night", cp[p].night, Fine(f.core.night))
            /\ f.core.cluster # "none" =>
                 Ends(q \o f.sent, "cluster", cp[p].cluster, Fine(f.core.cluster))
        BY <1>1, <1>5, <4>3, FollowsCpEnds DEF f
      <4>5. /\ snap.night # "none" => core'.night = snap.night
            /\ Cluster(snap) # "none" => core'.cluster = Cluster(snap)
        <5>1. snap.night # "none" => core'.night = snap.night
          BY <1>8, <2>2, <4>1 DEF NightNews
        <5>2. ASSUME ~ cn, Cluster(snap) # "none" PROVE core.cluster = Cluster(snap)
          <6>1. core.cluster = Cluster(snap)
                \/ (core.snap.night = snap.night /\ core.snap.cluster = snap.cluster)
            BY <2>2, <5>2 DEF ClusterNews
          <6> QED BY <4>1, <5>2, <6>1 DEF Cluster
        <5> HIDE DEF cn
        <5> QED BY <1>8, <5>1, <5>2
      <4> HIDE DEF f
      <4> QED BY <1>2, <1>8, <4>4, <4>5
    <3> HIDE DEF f, g, nn, cn, an
    <3> QED BY <1>2, <1>8, <3>1, <3>2 DEF CpKnows, Fine, Cluster
  <2> QED BY <2>3, <2>4, <2>6, <2>7 DEF Told
<1> QED BY <1>2, <1>10, <1>11 DEF TInv

(* A new session makes the projection send all it knows again.             *)
LEMMA HydrateTold ==
  ASSUME TInv, Iphones \cap Androids = {}, NEW p \in Iphones \cup Androids, Hydrate(p)
  PROVE  TInv'
<1>1. /\ core \in Cores /\ core.snap \in Snaps /\ NoSnap \in Snaps
      /\ cpCmds \in Seq(Cmds) /\ aaCmds \in Seq(Looks)
  BY DEF TInv, PhoneTypes, Cores, Snaps, NoSnap, Maybe
<1>2. /\ UNCHANGED <<config, snap, news, task, cpInitial, aaConfig, aaNight, cp, aa, manner>>
      /\ greet' = greet \ {p}
  BY DEF Hydrate, hub, managers, world
<1>3. \A look : Fine(look)' = {look} \cup (IF config.mode \in Looks THEN {config.mode} ELSE {})
  BY <1>2 DEF Fine
<1>4. /\ core.snap.night \in Maybe /\ Cluster(core.snap) \in Maybe /\ Looks = Maybe \ {"none"}
      /\ NoSnap.night = "none" /\ NoSnap.cluster = "none"
  BY <1>1, LooksType DEF NoSnap
<1>5. CASE p \in Iphones
  <2> DEFINE c == [core EXCEPT !.night = "none", !.cluster = "none"]
             f == FollowsCp(c, NoSnap, core.snap)
  <2>1. core' = f.core /\ cpCmds' = cpCmds \o f.sent /\ aaCmds' = aaCmds
    BY <1>5 DEF Hydrate
  <2>2. c \in Cores /\ c.night = "none" /\ c.cluster = "none"
    BY <1>1 DEF Cores, Maybe
  <2>3. c.snap = core.snap /\ c.aaNight = core.aaNight
    BY <1>1 DEF Cores
  <2> HIDE DEF c
  <2>4. /\ f.core \in Cores /\ cpCmds \o f.sent \in Seq(Cmds)
        /\ f.core = [c EXCEPT !.night = IF NightNews(c, NoSnap, core.snap)
                                        THEN core.snap.night ELSE @,
                              !.cluster = IF ClusterNews(c, NoSnap, core.snap)
                                          THEN Cluster(core.snap) ELSE @]
    <3> DEFINE seen == core.snap
    <3> HIDE DEF seen
    <3>1. c \in Cores /\ NoSnap \in Snaps /\ seen \in Snaps /\ cpCmds \in Seq(Cmds)
      BY <1>1, <2>2 DEF seen
    <3>2. /\ FollowsCp(c, NoSnap, seen).core \in Cores
          /\ cpCmds \o FollowsCp(c, NoSnap, seen).sent \in Seq(Cmds)
          /\ FollowsCp(c, NoSnap, seen).core =
               [c EXCEPT !.night = IF NightNews(c, NoSnap, seen) THEN seen.night ELSE @,
                         !.cluster = IF ClusterNews(c, NoSnap, seen) THEN Cluster(seen) ELSE @]
      BY ONLY <3>1, FollowsCpIs
    <3> QED BY <3>2 DEF seen
  <2>5. core'.night = core.snap.night /\ core'.cluster = Cluster(core.snap)
        /\ core'.snap = core.snap /\ core'.aaNight = core.aaNight
    <3>1. NightNews(c, NoSnap, core.snap) \/ core.snap.night = "none"
      BY <1>4, <2>2 DEF NightNews
    <3>2. ClusterNews(c, NoSnap, core.snap) \/ Cluster(core.snap) = "none"
      BY <1>4, <2>2 DEF ClusterNews, Cluster
    <3> HIDE DEF f
    <3> QED BY <2>1, <2>2, <2>3, <2>4, <3>1, <3>2 DEF Cores
  <2>6. PhoneTypes'
    BY <1>2, <2>1, <2>4 DEF TInv, PhoneTypes
  <2>7. ASSUME manner = "patient" PROVE Told'
    <3>1. CoreKnows /\ NoneApart /\ AaKnows /\ CpKnows
      BY <2>7 DEF TInv, Told
    <3>2. CoreKnows' /\ NoneApart'
      BY <1>2, <1>4, <2>5, <3>1 DEF CoreKnows, NoneApart, Cluster
    <3>3. AaKnows'
      <4>1. \A k \in Androids : k \notin greet' <=> k \notin greet
        BY <1>2, <1>5
      <4> QED BY <1>2, <2>1, <2>5, <3>1, <4>1 DEF AaKnows, Fine
    <3>4. ASSUME NEW k \in Iphones
          PROVE  /\ core'.night # "none" => Ends(cpCmds', "night", cp[k].night, Fine(core'.night))
                 /\ core'.cluster # "none" => Ends(cpCmds', "cluster", cp[k].cluster, Fine(core'.cluster))
      <4>1. cpCmds' = cpCmds \o f.sent /\ core' = f.core
        BY <2>1
      <4> QED BY <1>1, <2>2, <4>1, FollowsCpEnds
    <3>5. \A k \in 1..Len(cpCmds') :
            cpCmds'[k].cmd = "initial" => cpCmds'[k].look \in {"none", NightMode(config.mode)}
      <4> DEFINE X == {"none", NightMode(config.mode)}
                 seen == core.snap
      <4>1. \A k \in 1..Len(cpCmds) : cpCmds[k].cmd = "initial" => cpCmds[k].look \in X
        BY <3>1 DEF CpKnows
      <4> HIDE DEF X, seen
      <4>2. cpCmds' = cpCmds \o FollowsCp(c, NoSnap, seen).sent
        BY <2>1 DEF seen
      <4>3. cpCmds \in Seq(Cmds) /\ c \in Cores /\ NoSnap \in Snaps /\ seen \in Snaps
        BY <1>1, <2>2 DEF seen
      <4>4. \A k \in 1..Len(cpCmds') : cpCmds'[k].cmd = "initial" => cpCmds'[k].look \in X
        BY ONLY <4>1, <4>2, <4>3, SentsAreNoInitials
      <4> QED BY <4>4 DEF X
    <3>6. CpKnows'
      BY <1>2, <2>5, <3>4, <3>5 DEF CpKnows, Fine
    <3> QED BY <3>2, <3>3, <3>6 DEF Told
  <2> QED BY <1>2, <2>6, <2>7 DEF TInv
<1>6. CASE p \in Androids
  <2> DEFINE c == [core EXCEPT !.aaNight = "none"]
             g == FollowsAa(c, NoSnap, core.snap)
             n == AaNews(c, NoSnap, core.snap)
  <2>1. core' = g.core /\ aaCmds' = aaCmds \o g.sent /\ cpCmds' = cpCmds
    BY <1>6 DEF Hydrate
  <2>2. c \in Cores /\ c.aaNight = "none" /\ c.snap = core.snap /\ c.night = core.night
        /\ c.cluster = core.cluster
    BY <1>1 DEF Cores, Maybe
  <2> HIDE DEF c
  <2>3. /\ g.core \in Cores /\ g.sent = Send(n, core.snap.night)
        /\ g.core = [c EXCEPT !.aaNight = IF n THEN core.snap.night ELSE @]
    <3> DEFINE seen == core.snap
    <3> HIDE DEF seen
    <3>1. c \in Cores /\ NoSnap \in Snaps /\ seen \in Snaps
      BY <1>1, <2>2 DEF seen
    <3>2. /\ FollowsAa(c, NoSnap, seen).core \in Cores
          /\ FollowsAa(c, NoSnap, seen).core =
               [c EXCEPT !.aaNight = IF AaNews(c, NoSnap, seen) THEN seen.night ELSE @]
          /\ FollowsAa(c, NoSnap, seen).sent = Send(AaNews(c, NoSnap, seen), seen.night)
      BY ONLY <3>1, FollowsAaIs
    <3> QED BY <3>2 DEF seen
  <2>4. n <=> core.snap.night # "none"
    BY <1>4, <2>2 DEF AaNews
  <2>5. /\ core'.snap = core.snap /\ core'.night = core.night /\ core'.cluster = core.cluster
        /\ core'.aaNight = core.snap.night
    <3> HIDE DEF g, n
    <3> QED BY <2>1, <2>2, <2>3, <2>4 DEF Cores
  <2>6. /\ aaCmds' \in Seq(Looks)
        /\ core.snap.night # "none" => aaCmds' # <<>> /\ aaCmds'[Len(aaCmds')] = core.snap.night
        /\ core.snap.night = "none" => aaCmds' = aaCmds
    <3>1. aaCmds' = aaCmds \o Send(n, core.snap.night) /\ (n => core.snap.night \in Looks)
      BY <1>4, <2>1, <2>3, <2>4
    <3>2. core.snap.night \in Looks \cup {"none"}
      BY <1>4
    <3> HIDE DEF n
    <3> QED BY <1>1, <2>4, <3>1, <3>2, AaSends
  <2>7. PhoneTypes'
    <3> HIDE DEF g
    <3> QED BY <1>2, <2>1, <2>3, <2>6 DEF TInv, PhoneTypes
  <2>8. ASSUME manner = "patient" PROVE Told'
    <3>1. CoreKnows /\ NoneApart /\ AaKnows /\ CpKnows
      BY <2>8 DEF TInv, Told
    <3>2. CoreKnows' /\ NoneApart'
      BY <1>2, <2>5, <3>1 DEF CoreKnows, NoneApart
    <3>3. AaKnows'
      BY <1>2, <2>5, <2>6, <3>1 DEF AaKnows, Fine
    <3>4. CpKnows'
      <4>1. \A k \in Iphones : k \notin greet' <=> k \notin greet
        BY <1>2, <1>6
      <4> QED BY <1>2, <2>1, <2>5, <3>1, <4>1 DEF CpKnows, Fine
    <3> QED BY <3>2, <3>3, <3>4 DEF Told
  <2> QED BY <1>2, <2>7, <2>8 DEF TInv
<1> QED BY <1>5, <1>6

LEMMA StepTold == IInv /\ RInv /\ TInv /\ [Next]_vars => TInv'
<1> SUFFICES ASSUME IInv, RInv, TInv, [Next]_vars PROVE TInv'
  OBVIOUS
<1>1. CASE Telemetry \/ SaveFails
  BY <1>1, TelemetryTold
<1>2. ASSUME UNCHANGED phones, UNCHANGED <<snap, task, manner>>, config'.mode = config.mode,
             news' \in {news, Watchers, news \ {"schedule"}}
      PROVE  TInv'
  <2>1. NoneApart => NoneApart'
    BY <1>2 DEF NoneApart
  <2> QED BY <1>2, <2>1, NotTold DEF Watchers
<1>3. CASE \/ Tick \/ ScheduleLooks \/ SunMoves \/ ClockConfirmed
           \/ (\E theme \in Looks : Toggle(theme)) \/ (\E p \in CarPatches : CarPushes(p))
           \/ UNCHANGED vars
  <2>1. /\ UNCHANGED phones /\ UNCHANGED <<snap, task, manner>> /\ config'.mode = config.mode
        /\ news' \in {news, Watchers, news \ {"schedule"}}
    BY <1>3 DEF Tick, ScheduleLooks, SunMoves, ClockConfirmed, Toggle, CarPushes, vars,
                hub, teller, managers, world, phones, IInv, ThemeTypes
  <2> QED BY <1>2, <2>1
<1>4. CASE Projection
  BY <1>4, OnStateTold, HydrateTold, DayNightAssumption DEF Projection
<1>5. CASE Managers
  BY <1>5, ManagersTold
<1>6. CASE Outside
  BY <1>3, <1>6, SetModeTold, VisitsTold DEF Outside
<1> QED BY <1>1, <1>3, <1>4, <1>5, <1>6 DEF Next

(* For any phones and patches of the car, when user, sun and car wait for  *)
(* each other: at rest every phone, whenever it connected, and the cluster *)
(* were told the look of the telemetry.                                    *)
THEOREM AgreeAtRestAlways == Spec => []AgreeAtRest
<1>1. Init => TInv
  <2> SUFFICES ASSUME Init PROVE TInv
    OBVIOUS
  <2> DEFINE m == NightMode(config.mode)
  <2>1. /\ config \in [mode : Modes, theme : Looks] /\ m \in Maybe /\ snap \in Snaps
        /\ snap = [night |-> m, cluster |-> "none", theme |-> "none"] /\ NoSnap \in Snaps
        /\ NoSnap.night = "none" /\ NoSnap.cluster = "none"
    BY LooksType DEF Init, NoSnap, Snaps, Maybe, Looks
  <2>2. /\ core.snap \in {snap, NoSnap} /\ ("projection" \notin news => core.snap = snap)
        /\ core.night = "none" /\ core.cluster = "none" /\ core.aaNight = "none"
        /\ core \in Cores
    BY <2>1 DEF Init, Cores, Maybe
  <2>3. /\ cpCmds = <<Cmd("initial", m)>> /\ aaCmds = <<>> /\ aaConfig = m /\ aaNight = m
        /\ cpInitial = "none" /\ cp = [p \in Iphones |-> Away] /\ aa = [p \in Androids |-> Gone]
    BY DEF Init
  <2>4. Cmd("initial", m) \in Cmds /\ Cmd("initial", m).look = m
    BY <2>1, CmdType
  <2> HIDE DEF m
  <2>5. cpCmds \in Seq(Cmds) /\ Len(cpCmds) = 1 /\ cpCmds[1] = Cmd("initial", m)
    BY <2>3, <2>4
  <2>6. PhoneTypes
    BY <2>1, <2>2, <2>3, <2>5 DEF PhoneTypes, Away, Gone, Maybe, Looks
  <2>7. CoreKnows /\ NoneApart
    BY <2>1, <2>2 DEF CoreKnows, NoneApart
  <2>8. AaKnows
    BY <2>3 DEF AaKnows, Gone, m
  <2>9. CpKnows
    BY <2>3, <2>4, <2>5 DEF CpKnows, Away, m
  <2> QED BY <2>6, <2>7, <2>8, <2>9 DEF TInv, Told
<1>2. IInv /\ RInv /\ TInv => AgreeAtRest
  BY RestTold DEF AgreeAtRest
<1>3. Spec => [](IInv /\ RInv)
  BY InitHolds, StepHolds, InitRules, StepRules, PTL DEF Spec
<1> QED BY StepTold, <1>1, <1>2, <1>3, PTL DEF Spec
=============================================================================
