------------------------------ MODULE DayNight ------------------------------
(***************************************************************************)
(* Day and night.  The user's mode and theme are in the core's config; the *)
(* schedule of the sun (sun_schedule.rs) and the car send patches to the   *)
(* telemetry task (telemetry.rs), which publishes them, writes the theme   *)
(* back into the config and follows the config in turn.  The projection    *)
(* (projection/state.rs) passes both on: to the CarPlay manager, which     *)
(* tells its sessions, and to the Android Auto manager, which also follows *)
(* a config of its own (carplay.rs, ConfigSource).                         *)
(*                                                                         *)
(* Each of these is a task of its own: it watches the hub's state and sees *)
(* the latest only, or takes from a queue.  A look is "day" or "night":    *)
(* nightMode, clusterNightMode and darkMode of the code; "none" is not set *)
(* or null.  A session takes a manager's command at once; set_config, with *)
(* its lock and its file, is one step (Settings has the steps).            *)
(***************************************************************************)
EXTENDS Integers, Sequences

CONSTANTS Iphones, Androids,
          CarPatches,   \* what the car, or a program for it, may push
          Scenes        \* how user, sun and car behave, see Waits; and the
                        \* bound: how often each of Happenings

Looks == {"day", "night"}
Modes == Looks \cup {"auto", "sun"}
Maybe == Looks \cup {"none"}
Snaps == [night : Maybe, cluster : Maybe, theme : Maybe]
Patches == [night : Looks \cup {"keep"}, cluster : Maybe \cup {"keep"},
            theme : Looks \cup {"keep"}]
Senders == {"sun", "car"}
Watchers == {"schedule", "telemetry", "source", "projection"}
Happenings == {"modes", "toggles", "suns", "cars", "visits", "fails"}

ASSUME DayNightAssumption ==
  /\ Iphones \cap Androids = {} /\ CarPatches \subseteq Patches
  /\ Scenes \subseteq [manner : {"patient", "hasty"}, budget : [Happenings -> Nat]]

VARIABLES config,       \* [mode, theme]: appearance_mode and dark_mode
          snap,         \* the telemetry task's state, as published
          news,         \* watchers of the hub that have not seen its latest
          patches,      \* [sun, car]: on their way to the telemetry task
          task,         \* the telemetry task: [mode, theme] it has followed; a
                        \* theme to go on with, one to compare, one to save
          schedule,     \* [active, last]
          sun, sure,    \* the sun; are place and time known?
          core,         \* the projection: config and telemetry seen, looks sent
          cpCmds, aaCmds, greet,  \* to the managers; new sessions of theirs
          cpInitial,    \* initial_night_mode of the CarPlay manager
          aaConfig, aaNight,      \* Android Auto's config; what its manager saw
          cp, aa,       \* sessions: what each phone was told
          hand,         \* the theme the user chose last, until a patch has one
          swayed,       \* has the car pushed a look since the schedule did?
          manner, left

hub == <<config, snap, news>>
teller == <<core, cpCmds, aaCmds, greet>>
managers == <<cpInitial, aaConfig, aaNight, cp, aa>>
world == <<sun, sure, hand, swayed, manner>>
vars == <<hub, patches, task, schedule, teller, managers, world, left>>

NightMode(mode) == IF mode \in Looks THEN mode ELSE "none"
NoSnap == [night |-> "none", cluster |-> "none", theme |-> "none"]
Cluster(s) == IF s.cluster \in Looks THEN s.cluster ELSE s.night
Idle == task.next = "none" /\ task.owed = "none" /\ task.saving = "none"
Away == [on |-> FALSE, night |-> "none", cluster |-> "none"]
Gone == [at |-> "away", night |-> "none"]

Cmd(cmd, look) == [cmd |-> cmd, look |-> look]
Send(when, cmd) == IF when THEN <<cmd>> ELSE <<>>

Init ==
  /\ config \in [mode : Modes, theme : {"night"}]
  /\ snap = [NoSnap EXCEPT !.night = NightMode(config.mode)]
  /\ patches = [from \in Senders |-> <<>>]
  /\ task = [mode |-> config.mode, theme |-> config.theme,
             next |-> "none", owed |-> "none", saving |-> "none"]
  /\ schedule = [active |-> config.mode = "sun", last |-> "none"]
  /\ sun = "day" /\ sure \in BOOLEAN
  /\ \E published \in BOOLEAN :     \* before or after the projection starts
       /\ core = [config |-> config, snap |-> IF published THEN snap ELSE NoSnap,
                  night |-> "none", cluster |-> "none", aaNight |-> "none"]
       /\ news = IF published THEN {} ELSE {"projection"}
  /\ cpCmds = <<Cmd("initial", NightMode(config.mode))>> /\ aaCmds = <<>>
  /\ greet = {}
  /\ cpInitial = "none"
  /\ aaConfig = NightMode(config.mode) /\ aaNight = aaConfig
  /\ cp = [p \in Iphones |-> Away] /\ aa = [p \in Androids |-> Gone]
  /\ hand = "none" /\ swayed = FALSE
  /\ \E s \in Scenes : manner = s.manner /\ left = s.budget

(* Nothing is on its way.                                                  *)
Rest ==
  /\ news = {} /\ patches.sun = <<>> /\ patches.car = <<>> /\ Idle
  /\ cpCmds = <<>> /\ aaCmds = <<>> /\ greet = {} /\ aaConfig = aaNight
  /\ schedule.active /\ sure => schedule.last = sun

(* The hasty do things at any time; the patient wait for a rest, and their *)
(* car is silent while the mode is a fixed one.                            *)
Waits == manner = "patient" => Rest

Happens(what) == left[what] > 0 /\ left' = [left EXCEPT ![what] = @ - 1]

-----------------------------------------------------------------------------
(* The user, the sun and the car.                                          *)

SetMode(m) ==
  /\ m # config.mode /\ Waits /\ Happens("modes")
  /\ config' = [config EXCEPT !.mode = m] /\ news' = Watchers
  /\ UNCHANGED <<snap, patches, task, schedule, teller, managers, world>>

Toggle(theme) ==
  /\ theme # config.theme /\ Waits /\ Happens("toggles")
  /\ config' = [config EXCEPT !.theme = theme] /\ news' = Watchers
  /\ hand' = theme
  /\ UNCHANGED <<snap, patches, task, schedule, teller, managers,
                 sun, sure, swayed, manner>>

SunMoves ==
  /\ Waits /\ Happens("suns")
  /\ sun' \in Looks \ {sun}
  /\ UNCHANGED <<hub, patches, task, schedule, teller, managers,
                 sure, hand, swayed, manner>>

(* The clock is trusted for good once it was confirmed.                    *)
ClockConfirmed ==
  /\ ~ sure /\ Waits /\ sure' = TRUE
  /\ UNCHANGED <<hub, patches, task, schedule, teller, managers,
                 sun, hand, swayed, manner, left>>

CarPushes(p) ==
  /\ Waits /\ Happens("cars")
  /\ manner = "patient" => config.mode \notin Looks
  /\ patches' = [patches EXCEPT !.car = Append(@, p)]
  /\ hand' = IF p.theme = "keep" THEN hand ELSE "none"
  /\ swayed' = (swayed \/ p.night # "keep")
  /\ UNCHANGED <<hub, task, schedule, teller, managers, sun, sure, manner>>

-----------------------------------------------------------------------------
(* The schedule of the sun.                                                *)

Evaluate(active) ==
  IF active /\ sure /\ schedule.last # sun
  THEN /\ schedule' = [active |-> active, last |-> sun]
       /\ patches' = [patches EXCEPT !.sun =
             Append(@, [night |-> sun, cluster |-> "none", theme |-> sun])]
       /\ hand' = "none" /\ swayed' = FALSE
  ELSE /\ schedule' = [active |-> active,
                       last |-> IF active THEN schedule.last ELSE "none"]
       /\ UNCHANGED <<patches, hand, swayed>>

(* Once a minute.                                                          *)
Tick ==
  /\ Evaluate(schedule.active)
  /\ UNCHANGED <<hub, task, teller, managers, sun, sure, manner, left>>

(* A change that is none to the schedule is not evaluated.                 *)
ScheduleLooks ==
  /\ "schedule" \in news /\ news' = news \ {"schedule"}
  /\ IF schedule.active = (config.mode = "sun")
     THEN UNCHANGED <<schedule, patches, hand, swayed>>
     ELSE Evaluate(config.mode = "sun")
  /\ UNCHANGED <<config, snap, task, teller, managers, sun, sure, manner, left>>

-----------------------------------------------------------------------------
(* The telemetry task.  It finishes a turn before the next one; others run *)
(* between the steps of a turn.                                            *)

others == <<schedule, teller, managers, world>>

Merge(patch) ==
  [k \in DOMAIN snap |-> IF patch[k] = "keep" THEN snap[k] ELSE patch[k]]

(* Merge and publish; a theme is compared with the config after that.      *)
Push(patch, t) ==
  /\ snap' = Merge(patch)
  /\ task' = [t EXCEPT !.owed = IF patch.theme \in Looks THEN patch.theme ELSE "none"]
  /\ news' = Watchers

TakePatch(from) ==
  /\ Idle /\ patches[from] # <<>>
  /\ Push(Head(patches[from]), task)
  /\ patches' = [patches EXCEPT ![from] = Tail(@)]
  /\ UNCHANGED <<config, others, left>>

ModePatch(look) == [night |-> look, cluster |-> "none", theme |-> "keep"]

(* Mutant: the hub's state is read and not marked as seen.                 *)
AppearanceUnseen ==
  /\ Idle /\ "telemetry" \in news
  /\ LET t == [task EXCEPT !.mode = config.mode, !.next = config.theme]
     IN IF config.mode # task.mode /\ config.mode \in Looks
        THEN Push(ModePatch(config.mode), t)
        ELSE task' = t /\ UNCHANGED <<news, snap>>
  /\ UNCHANGED <<config, patches, others, left>>

(* Mode and theme are read together; first the mode is followed.           *)
Appearance ==
  /\ Idle /\ "telemetry" \in news
  /\ LET t == [task EXCEPT !.mode = config.mode, !.next = config.theme]
     IN IF config.mode # task.mode /\ config.mode \in Looks
        THEN Push(ModePatch(config.mode), t)
        ELSE task' = t /\ news' = news \ {"telemetry"} /\ UNCHANGED snap
  /\ UNCHANGED <<config, patches, others, left>>

ThemePatch(theme) == [night |-> "keep", cluster |-> "keep", theme |-> theme]

(* Mutant: the theme before is pushed.                                     *)
DarkModeSwapped ==
  /\ task.owed = "none" /\ task.saving = "none" /\ task.next # "none"
  /\ IF task.next = task.theme
     THEN task' = [task EXCEPT !.next = "none"] /\ UNCHANGED <<snap, news>>
     ELSE Push(ThemePatch(task.theme), [task EXCEPT !.theme = task.next, !.next = "none"])
  /\ UNCHANGED <<config, patches, others, left>>

(* Then the theme that was read.                                           *)
DarkMode ==
  /\ task.owed = "none" /\ task.saving = "none" /\ task.next # "none"
  /\ IF task.next = task.theme
     THEN task' = [task EXCEPT !.next = "none"] /\ UNCHANGED <<snap, news>>
     ELSE Push(ThemePatch(task.next), [task EXCEPT !.theme = task.next, !.next = "none"])
  /\ UNCHANGED <<config, patches, others, left>>

(* Mutant: the task does not note the theme it has published.              *)
DarkFromForgetful ==
  /\ task.owed # "none"
  /\ task' = [task EXCEPT !.owed = "none",
                !.saving = IF config.theme = task.owed THEN "none" ELSE task.owed]
  /\ UNCHANGED <<hub, patches, others, left>>

(* A theme that was published and is not the config's is saved.            *)
DarkFrom ==
  /\ task.owed # "none"
  /\ task' = [task EXCEPT !.theme = task.owed, !.owed = "none",
                !.saving = IF config.theme = task.owed THEN "none" ELSE task.owed]
  /\ UNCHANGED <<hub, patches, others, left>>

Save ==
  /\ task.saving # "none"
  /\ task' = [task EXCEPT !.saving = "none"]
  /\ config' = [config EXCEPT !.theme = task.saving]
  /\ news' = IF config' = config THEN news ELSE Watchers
  /\ UNCHANGED <<snap, patches, others, left>>

SaveFails ==
  /\ task.saving # "none" /\ Happens("fails")
  /\ task' = [task EXCEPT !.saving = "none"]
  /\ UNCHANGED <<hub, patches, others>>

Telemetry ==
  \/ \E from \in Senders : TakePatch(from)
  \/ Appearance \/ DarkMode \/ DarkFrom \/ Save

-----------------------------------------------------------------------------
(* The projection.                                                         *)

(* Looks are sent when they changed and are not what was sent last.        *)
FollowsCp(c, prev, next) ==
  LET night == prev.night # next.night /\ next.night \in Looks /\ c.night # next.night
      both == /\ prev.night # next.night \/ prev.cluster # next.cluster
              /\ Cluster(next) \in Looks /\ c.cluster # Cluster(next)
  IN [core |-> [c EXCEPT !.night = IF night THEN next.night ELSE @,
                         !.cluster = IF both THEN Cluster(next) ELSE @],
      sent |-> Send(night, Cmd("night", next.night))
                 \o Send(both, Cmd("cluster", Cluster(next)))]

FollowsAa(c, prev, next) ==
  LET night == prev.night # next.night /\ next.night \in Looks /\ c.aaNight # next.night
  IN [core |-> [c EXCEPT !.aaNight = IF night THEN next.night ELSE @],
      sent |-> Send(night, next.night)]

OnState ==
  /\ "projection" \in news /\ news' = news \ {"projection"}
  /\ LET f == FollowsCp(core, core.snap, snap)
         g == FollowsAa(f.core, core.snap, snap)
     IN /\ core' = [g.core EXCEPT !.config = config, !.snap = snap]
        /\ cpCmds' = cpCmds \o Send(config # core.config,
                                    Cmd("initial", NightMode(config.mode))) \o f.sent
        /\ aaCmds' = aaCmds \o g.sent
  /\ UNCHANGED <<config, snap, greet, patches, task, schedule, managers, world, left>>

(* Mutant: what was sent before is not sent again.                         *)
HydrateKnown(p) ==
  /\ p \in greet /\ greet' = greet \ {p}
  /\ IF p \in Iphones
     THEN LET f == FollowsCp(core, NoSnap, core.snap)
          IN core' = f.core /\ cpCmds' = cpCmds \o f.sent /\ UNCHANGED aaCmds
     ELSE LET g == FollowsAa(core, NoSnap, core.snap)
          IN core' = g.core /\ aaCmds' = aaCmds \o g.sent /\ UNCHANGED cpCmds
  /\ UNCHANGED <<hub, patches, task, schedule, managers, world, left>>

(* A new session: everything is sent again.                                *)
Hydrate(p) ==
  /\ p \in greet /\ greet' = greet \ {p}
  /\ IF p \in Iphones
     THEN LET f == FollowsCp([core EXCEPT !.night = "none", !.cluster = "none"],
                             NoSnap, core.snap)
          IN core' = f.core /\ cpCmds' = cpCmds \o f.sent /\ UNCHANGED aaCmds
     ELSE LET g == FollowsAa([core EXCEPT !.aaNight = "none"], NoSnap, core.snap)
          IN core' = g.core /\ aaCmds' = aaCmds \o g.sent /\ UNCHANGED cpCmds
  /\ UNCHANGED <<hub, patches, task, schedule, managers, world, left>>

-----------------------------------------------------------------------------
(* The managers and their sessions.                                        *)

CpCmd ==
  /\ cpCmds # <<>> /\ cpCmds' = Tail(cpCmds)
  /\ LET cmd == Head(cpCmds).cmd
         look == Head(cpCmds).look
         Told(p) ==
           IF ~ cp[p].on \/ look = "none" THEN cp[p]
           ELSE [cp[p] EXCEPT !.night = IF cmd = "cluster" THEN @ ELSE look,
                              !.cluster = IF cmd = "night" THEN @ ELSE look]
     IN /\ cpInitial' = IF cmd = "initial" THEN look ELSE cpInitial
        /\ cp' = [p \in Iphones |-> Told(p)]
  /\ UNCHANGED <<hub, patches, task, schedule, core, aaCmds, greet,
                 aaConfig, aaNight, aa, world, left>>

TellAll(look) ==
  aa' = [p \in Androids |-> IF aa[p].at = "running"
                            THEN [aa[p] EXCEPT !.night = look] ELSE aa[p]]

AaSensor ==
  /\ aaCmds # <<>> /\ aaCmds' = Tail(aaCmds)
  /\ TellAll(Head(aaCmds))
  /\ UNCHANGED <<hub, patches, task, schedule, core, cpCmds, greet,
                 cpInitial, aaConfig, aaNight, cp, world, left>>

Refresh ==
  /\ "source" \in news /\ news' = news \ {"source"}
  /\ aaConfig' = NightMode(config.mode)
  /\ UNCHANGED <<config, snap, patches, task, schedule, teller,
                 cpInitial, aaNight, cp, aa, world, left>>

OnNightMode ==
  /\ aaConfig # aaNight /\ aaNight' = aaConfig
  /\ IF aaConfig = "none" THEN UNCHANGED aa ELSE TellAll(aaConfig)
  /\ UNCHANGED <<hub, patches, task, schedule, teller,
                 cpInitial, aaConfig, cp, world, left>>

visiting == <<hub, patches, task, schedule, core, cpCmds, aaCmds,
              cpInitial, aaConfig, aaNight, world>>

Register(p) ==
  /\ ~ cp[p].on /\ p \notin greet /\ Happens("visits")
  /\ cp' = [cp EXCEPT ![p] = [on |-> TRUE, night |-> cpInitial, cluster |-> cpInitial]]
  /\ greet' = greet \cup {p}
  /\ UNCHANGED <<aa, visiting>>

CpLeaves(p) ==
  /\ cp[p].on /\ cp' = [cp EXCEPT ![p] = Away]
  /\ UNCHANGED <<aa, greet, left, visiting>>

AaComes(p) ==
  /\ aa[p].at = "away" /\ p \notin greet /\ Happens("visits")
  /\ aa' = [aa EXCEPT ![p].at = "setup"]
  /\ UNCHANGED <<cp, greet, visiting>>

(* Phones ask for their sensors; all but hasty ones do before the picture. *)
SensorsStart(p) ==
  /\ aa[p].at \in IF manner = "hasty" THEN {"setup", "running"} ELSE {"setup"}
  /\ aa' = [aa EXCEPT ![p].night = IF aaConfig = "night" THEN "night" ELSE "day"]
  /\ UNCHANGED <<cp, greet, left, visiting>>

AaRuns(p) ==
  /\ aa[p].at = "setup" /\ aa' = [aa EXCEPT ![p].at = "running"]
  /\ greet' = greet \cup {p}
  /\ UNCHANGED <<cp, left, visiting>>

AaLeaves(p) ==
  /\ aa[p].at # "away" /\ aa' = [aa EXCEPT ![p] = Gone]
  /\ UNCHANGED <<cp, greet, left, visiting>>

-----------------------------------------------------------------------------
Managers == CpCmd \/ AaSensor \/ Refresh \/ OnNightMode

Projection == OnState \/ \E p \in Iphones \cup Androids : Hydrate(p)

Outside ==
  \/ \E m \in Modes : SetMode(m)
  \/ \E theme \in Looks : Toggle(theme)
  \/ SunMoves \/ ClockConfirmed
  \/ \E p \in CarPatches : CarPushes(p)
  \/ \E p \in Iphones : Register(p) \/ CpLeaves(p)
  \/ \E p \in Androids : AaComes(p) \/ SensorsStart(p) \/ AaRuns(p) \/ AaLeaves(p)

Next == Telemetry \/ SaveFails \/ Tick \/ ScheduleLooks \/ Projection \/ Managers \/ Outside

(* The tasks go on; a task with several things to do takes each in time.   *)
Fairness ==
  /\ \A from \in Senders : SF_vars(TakePatch(from))
  /\ SF_vars(Appearance) /\ WF_vars(DarkMode) /\ WF_vars(DarkFrom)
  /\ WF_vars(Save) /\ WF_vars(Tick) /\ WF_vars(ScheduleLooks)
  /\ WF_vars(OnState) /\ \A p \in Iphones \cup Androids : WF_vars(Hydrate(p))
  /\ WF_vars(CpCmd) /\ WF_vars(AaSensor) /\ WF_vars(Refresh) /\ WF_vars(OnNightMode)

Spec == Init /\ [][Next]_vars /\ Fairness

-----------------------------------------------------------------------------
(* Once nothing is on its way, the theme that programs of the car read in  *)
(* the telemetry is that of the config, which LIVI shows: whatever order   *)
(* the user, the schedule and the car change it in, and also when saving   *)
(* a theme fails.                                                          *)
ThemesAgree == Rest => snap.theme \in {"none", config.theme}

(* README: "so everything switches together" - with user, sun and car that *)
(* wait for each other, every phone and the cluster are told the look of   *)
(* the telemetry in the end, whenever they connect.                        *)
PhoneAgrees ==
  /\ \A p \in Iphones : cp[p].on => cp[p].night = snap.night /\ cp[p].cluster = Cluster(snap)
  /\ \A p \in Androids : aa[p].at = "running" => aa[p].night = snap.night
AgreeAtRest == manner = "patient" /\ Rest /\ snap.night # "none" => PhoneAgrees

(* README: day and night are "Fixed", sun "Switches at sunrise and sunset",*)
(* "Toggling Dark Mode by hand holds until the next sunrise or sunset":    *)
(* at rest the look is that of the mode, and the theme the user's own.     *)
FixedLook == config.mode \in Looks => snap.night = config.mode
SunLook == config.mode = "sun" /\ sure /\ ~ swayed => snap.night = sun
HandHolds == hand # "none" => config.theme = hand
ModeRules == manner = "patient" /\ Rest => FixedLook /\ SunLook /\ HandHolds

(* Tasks that follow each other do not keep each other busy: in the end    *)
(* nothing is on its way.                                                  *)
Settles == []<>Rest
=============================================================================
