--------------------------- MODULE SettingsProofs ---------------------------
(***************************************************************************)
(* Proofs about Settings, for every set of settings, values, clients and   *)
(* phones and every budget.  Kept is not inductive: what a crash leaves    *)
(* depends on how far the one patch behind the lock has come, so the       *)
(* invariant says what that patch is made of and what the disk has at each *)
(* of its steps, in the file and, unless the mirror is behind, in the      *)
(* mirror: what would be loaded if the file were lost.  WakesUp needs that *)
(* the projection is one change behind at most while changes wait for it.  *)
(***************************************************************************)
EXTENDS Settings, TLAPS

Saved(w) == w.stage \in {"mirror", "publish"}

(* One patch at a time is behind the lock, made from the config in force.  *)
OneMerged ==
  \A v \in writes : v.stage # "asked" =>
    /\ v.next = [config EXCEPT ![v.key] = v.value]
    /\ \A w \in writes : w.stage # "asked" => w = v

(* What a start would load is what clients were told, or the patch that is *)
(* on its way to them.                                                     *)
OnDisk ==
  IF \E w \in writes : Saved(w)
  THEN \A w \in writes : Saved(w) => disk.file = {w.next}
  ELSE Loaded(disk) = acked

(* So it is without the file, once the mirror was written after it.        *)
Bare(d) == [d EXCEPT !.file = {}]
OnMirror ==
  ~behind =>
    IF \E w \in writes : Saved(w)
    THEN \A w \in writes : Saved(w) => w.stage = "publish" /\ disk.mirror = {w.next}
    ELSE Loaded(Bare(disk)) = acked

WhileDown ==
  /\ up = "down" => writes = {}
  /\ up # "up" => /\ phones = {} /\ sup = "gone" /\ restarts = 0
                  /\ ~busy /\ ~due /\ ~news

OneBehind ==
  patient =>
    /\ up # "up" => writes = {} /\ config = applied
    /\ \A v, w \in writes : v = w
    /\ up = "up" => /\ writes # {} => ~news
                    /\ news <=> seen # config

IInv ==
  /\ TypeOK /\ OneMerged /\ OnDisk /\ OnMirror /\ Kept /\ WhileDown
  /\ OneBehind /\ WakesUp /\ HelperFollows

-----------------------------------------------------------------------------
(* A config with one setting changed is a config.                          *)
LEMMA ChangedConfig ==
  ASSUME NEW c \in Configs, NEW k \in Keys, NEW v \in Values
  PROVE  [c EXCEPT ![k] = v] \in Configs
  BY DEF Configs

(* A disk with something in a slot loads a config. *)
LEMMA LoadedConfig ==
  ASSUME NEW d \in [file : SUBSET Configs, mirror : SUBSET Configs]
  PROVE  Loaded(d) \in Configs
  BY SettingsAssumption DEF Loaded, Configs, Defaults

LEMMA LoadedFile ==
  ASSUME NEW d, NEW c, d.file = {c}
  PROVE  Loaded(d) = c
  BY DEF Loaded

LEMMA LoadedMirror ==
  ASSUME NEW d \in [file : SUBSET Configs, mirror : SUBSET Configs],
         NEW c, d.mirror = {c}
  PROVE  Loaded(Bare(d)) = c
<1>1. Bare(d).file = {} /\ Bare(d).mirror = {c}
  BY DEF Bare
<1>2. QED
  BY <1>1 DEF Loaded

LEMMA BareAgain ==
  ASSUME NEW d \in [file : SUBSET Configs, mirror : SUBSET Configs]
  PROVE  /\ Bare(d) \in [file : SUBSET Configs, mirror : SUBSET Configs]
         /\ Bare(d).file = {} /\ Bare(d).mirror = d.mirror
         /\ Bare(Bare(d)) = Bare(d)
         /\ d.file = {} => d = Bare(d)
  BY DEF Bare

LEMMA SameMirror ==
  ASSUME NEW d \in [file : SUBSET Configs, mirror : SUBSET Configs],
         NEW e \in [file : SUBSET Configs, mirror : SUBSET Configs],
         e.mirror = d.mirror
  PROVE  Bare(e) = Bare(d)
  BY DEF Bare

(* What the helper reads of a config are values. *)
LEMMA ReadsValues ==
  ASSUME NEW c \in Configs
  PROVE  Reads(c) \in [HelperKeys -> Values]
  BY DEF Configs, Reads, Keys

LEMMA DefaultsConfig == Defaults \in Configs
  BY SettingsAssumption DEF Defaults, Configs

(* What happens uses up a budget that stays a budget. *)
LEMMA StillBudget ==
  ASSUME TypeOK, NEW what \in Happenings, Happens(what)
  PROVE  left' \in [Happenings -> Nat] /\ patient' = patient
  BY DEF TypeOK, CoreTypes, Happens

LEMMA HelperRests ==
  ASSUME HelperTypes, UNCHANGED <<sup, env, restarts>>
  PROVE  HelperTypes'
  BY DEF HelperTypes

(* IInv holds at the start and is kept by every step: livi-core's        *)
(* settings are never of a shape the code does not foresee, and the        *)
(* supervisor stays within its restarts.                                   *)
LEMMA InitInv == Init => IInv
<1> SUFFICES ASSUME Init PROVE IInv
  OBVIOUS
<1> USE DefaultsConfig, SettingsAssumption
<1>1. TypeOK
  <2>1. Reads(Defaults) \in [HelperKeys -> Values]
    BY ReadsValues
  <2>2. /\ config = Defaults /\ applied = Defaults /\ seen = Defaults /\ acked = Defaults
        /\ env = Reads(Defaults)
    BY DEF Init
  <2>3. CoreTypes
    BY <2>2 DEF Init, CoreTypes
  <2>4. HelperTypes
    BY <2>1, <2>2 DEF Init, HelperTypes
  <2>5. QED
    BY <2>3, <2>4 DEF Init, TypeOK
<1>2. OneMerged /\ OnDisk /\ OnMirror /\ Kept /\ WhileDown
  BY DEF Init, OneMerged, OnDisk, OnMirror, Bare, Kept, WhileDown, Loaded
<1>3. OneBehind /\ WakesUp /\ HelperFollows
  BY DEF Init, OneBehind, WakesUp, HelperFollows
<1>4. QED
  BY <1>1, <1>2, <1>3 DEF IInv

(* Services, the projection and the supervisor touch neither disk nor      *)
(* patches.                                                                *)
LEMMA FilesRest ==
  ASSUME IInv, UNCHANGED <<disk, config, writes, acked, behind>>,
         up = "down" => up' = "down"
  PROVE  OneMerged' /\ OnDisk' /\ OnMirror' /\ Kept'
<1>1. OneMerged' /\ Kept'
  BY DEF IInv, OneMerged, Kept
<1>2. OnDisk' /\ OnMirror'
  BY DEF IInv, OnDisk, OnMirror, Bare, Loaded, Saved
<1>3. QED
  BY <1>1, <1>2

-----------------------------------------------------------------------------
(* Start and end of the core. *)

LEMMA BootKeeps == IInv /\ Boot => IInv'
<1> SUFFICES ASSUME IInv, Boot PROVE IInv'
  OBVIOUS
<1>1. Loaded(disk) \in Configs
  BY LoadedConfig DEF IInv, TypeOK, CoreTypes
<1>2. config' = Loaded(disk) /\ applied' = config' /\ acked' = acked /\ behind' = behind
  BY DEF Boot, history
<1>3. TypeOK'
  <2>1. disk' \in [file : SUBSET Configs, mirror : SUBSET Configs]
    BY <1>1 DEF IInv, TypeOK, CoreTypes, Boot
  <2>2. config' \in Configs /\ applied' \in Configs /\ acked' \in Configs
    BY <1>1, <1>2 DEF IInv, TypeOK, CoreTypes
  <2>3. up' = "starts" /\ UNCHANGED <<projection, writes, acked, behind, helper, patient, left>>
    BY DEF Boot, history
  <2>4. CoreTypes'
    BY <2>1, <2>2, <2>3 DEF IInv, TypeOK, CoreTypes, projection
  <2>5. HelperTypes'
    BY <2>3 DEF IInv, TypeOK, HelperTypes, helper
  <2>6. QED
    BY <2>3, <2>4, <2>5 DEF IInv, TypeOK, projection, helper
<1>4. writes = {} /\ writes' = {}
  BY DEF IInv, WhileDown, Boot
<1>5. Loaded(disk) = acked
  BY <1>4 DEF IInv, OnDisk
<1>6. OnDisk'
  <2>1. CASE disk' = disk
    BY <2>1, <1>2, <1>4, <1>5 DEF OnDisk, Loaded
  <2>2. CASE disk'.file = {config'}
    BY <2>2, <1>2, <1>4, <1>5, LoadedFile DEF OnDisk, Loaded
  <2>3. QED
    BY <2>1, <2>2 DEF Boot, IInv, TypeOK, CoreTypes
<1>7. OneMerged' /\ Kept' /\ WhileDown'
  BY <1>2, <1>4, <1>5 DEF IInv, OneMerged, Kept, WhileDown, Boot, projection, helper
<1>8. OneBehind' /\ WakesUp' /\ HelperFollows'
  BY <1>2, <1>4 DEF OneBehind, WakesUp, HelperFollows, Boot
<1>9. OnMirror'
  <2>1. /\ disk \in [file : SUBSET Configs, mirror : SUBSET Configs]
        /\ disk' \in [file : SUBSET Configs, mirror : SUBSET Configs]
    BY <1>1 DEF IInv, TypeOK, CoreTypes, Boot
  <2>2. CASE disk'.mirror = disk.mirror
    BY <2>1, <2>2, <1>2, <1>4, SameMirror DEF IInv, OnMirror
  <2>3. CASE disk'.mirror = {config'}
    BY <2>1, <2>3, <1>2, <1>4, <1>5, LoadedMirror DEF OnMirror
  <2>4. disk'.mirror = disk.mirror \/ disk'.mirror = {config'}
    BY <2>1 DEF Boot
  <2>5. QED
    BY <2>2, <2>3, <2>4
<1>10. QED
  BY <1>3, <1>6, <1>7, <1>8, <1>9 DEF IInv

LEMMA ServicesKeeps == IInv /\ Services => IInv'
<1> SUFFICES ASSUME IInv, Services PROVE IInv'
  OBVIOUS
<1> USE DEF Services, IInv, hub, history
<1>1. TypeOK'
  <2>1. HelperTypes'
    <3>1. restarts = 0 /\ restarts' = 0 /\ sup' = "starting" /\ env' = env
      BY DEF WhileDown
    <3>2. QED
      BY <3>1, SettingsAssumption DEF TypeOK, HelperTypes
  <2>2. CoreTypes'
    BY DEF TypeOK, CoreTypes
  <2>3. {due', news', busy', permit', behind', patient'} \subseteq BOOLEAN
    BY DEF TypeOK
  <2>4. QED
    BY <2>1, <2>2, <2>3 DEF TypeOK
<1>2. OneMerged' /\ OnDisk' /\ OnMirror' /\ Kept'
  BY FilesRest
<1>3. WhileDown' /\ OneBehind' /\ WakesUp' /\ HelperFollows'
  BY DEF WhileDown, OneBehind, WakesUp, HelperFollows
<1>4. QED
  BY <1>1, <1>2, <1>3

LEMMA CrashKeeps == IInv /\ Crash => IInv'
<1> SUFFICES ASSUME IInv, Crash PROVE IInv'
  OBVIOUS
<1>1. /\ up' = "down" /\ writes' = {} /\ disk' = disk /\ behind' = behind
      /\ config' = Defaults /\ applied' = Defaults /\ seen' = Defaults
      /\ due' = FALSE /\ news' = FALSE /\ busy' = FALSE /\ phones' = {}
      /\ sup' = "gone" /\ env' = Reads(Defaults) /\ restarts' = 0 /\ permit' = FALSE
  BY DEF Crash, Down
<1>2. left' \in [Happenings -> Nat] /\ patient' = patient
  BY StillBudget DEF Crash, IInv, Happenings
<1>3. /\ acked' \in Configs /\ Loaded(disk) = acked'
      /\ ~behind => Loaded(Bare(disk)) = acked'
  <2>1. CASE \A w \in writes : ~Saved(w)
    BY <2>1 DEF Crash, Saved, IInv, OnDisk, OnMirror, TypeOK, CoreTypes
  <2>2. CASE \E w \in writes : Saved(w)
    <3>1. PICK w \in writes : Saved(w) /\ acked' = Told(w)
      BY <2>2, Zenon DEF Crash, Saved
    <3>2. w \in Patches /\ config \in Configs /\ acked = config
      BY DEF IInv, TypeOK, CoreTypes, Kept, Crash
    <3>3. w.next = [config EXCEPT ![w.key] = w.value]
      BY <3>1 DEF IInv, OneMerged, Saved
    <3>4. acked' = w.next
      BY <3>1, <3>2, <3>3 DEF Told
    <3>5. disk.file = {w.next}
      BY <3>1 DEF IInv, OnDisk
    <3>6. w.next \in Configs
      BY <3>2 DEF Patches
    <3>7. ASSUME ~behind PROVE Loaded(Bare(disk)) = w.next
      <4>1. disk.mirror = {w.next}
        BY <3>1, <3>7 DEF IInv, OnMirror
      <4>2. QED
        BY <4>1, LoadedMirror DEF IInv, TypeOK, CoreTypes
    <3>8. QED
      BY <3>4, <3>5, <3>6, <3>7, LoadedFile
  <2>3. QED
    BY <2>1, <2>2
<1>4. TypeOK'
  <2>1. env' \in [HelperKeys -> Values]
    BY <1>1, DefaultsConfig, ReadsValues
  <2>2. CoreTypes'
    BY <1>1, <1>3, DefaultsConfig DEF IInv, TypeOK, CoreTypes
  <2>3. HelperTypes'
    BY <2>1, <1>1, SettingsAssumption DEF HelperTypes
  <2>4. {due', news', busy', permit', behind', patient'} \subseteq BOOLEAN
    BY <1>1, <1>2 DEF IInv, TypeOK
  <2>5. QED
    BY <1>2, <2>2, <2>3, <2>4 DEF TypeOK
<1>5. OneMerged' /\ OnDisk' /\ OnMirror' /\ Kept'
  BY <1>1, <1>3 DEF OneMerged, OnDisk, OnMirror, Bare, Kept, Loaded
<1>6. WhileDown' /\ OneBehind' /\ WakesUp' /\ HelperFollows'
  BY <1>1 DEF WhileDown, OneBehind, WakesUp, HelperFollows
<1>7. QED
  BY <1>4, <1>5, <1>6 DEF IInv

LEMMA LosesFileKeeps == IInv /\ LosesFile => IInv'
<1> SUFFICES ASSUME IInv, LosesFile PROVE IInv'
  OBVIOUS
<1> USE DEF LosesFile, hub, projection, helper
<1>1. left' \in [Happenings -> Nat] /\ patient' = patient
  BY StillBudget DEF IInv, Happenings
<1>2. disk \in [file : SUBSET Configs, mirror : SUBSET Configs] /\ disk' = Bare(disk)
  BY DEF IInv, TypeOK, CoreTypes, Bare
<1>3. writes = {} /\ writes' = {}
  BY DEF IInv, WhileDown
(* If the mirror was written, the file's loss changes nothing told.        *)
<1>4. acked' = Loaded(disk') /\ behind' = FALSE
  BY <1>2, <1>3 DEF IInv, OnMirror
<1>5. acked' \in Configs
  BY <1>2, <1>4, BareAgain, LoadedConfig
<1>6. TypeOK'
  <2>1. CoreTypes'
    BY <1>2, <1>3, <1>5, BareAgain DEF IInv, TypeOK, CoreTypes
  <2>2. QED
    BY <1>1, <1>4, <2>1, HelperRests DEF IInv, TypeOK
<1>7. OnDisk'
  BY <1>3, <1>4 DEF OnDisk, Loaded
<1>8. OnMirror'
  <2>1. Bare(disk') = disk'
    BY <1>2, BareAgain
  <2>2. Loaded(Bare(disk')) = acked'
    BY <1>4, <2>1
  <2>3. QED
    BY <1>3, <2>2 DEF OnMirror, Loaded, Bare
<1>9. OneMerged' /\ Kept'
  BY <1>3 DEF OneMerged, Kept
<1>10. WhileDown' /\ OneBehind' /\ WakesUp' /\ HelperFollows'
  BY <1>1, <1>3 DEF IInv, WhileDown, OneBehind, WakesUp, HelperFollows
<1>11. QED
  BY <1>6, <1>7, <1>8, <1>9, <1>10 DEF IInv

-----------------------------------------------------------------------------
(* set_config. *)

LEMMA AskKeeps ==
  ASSUME IInv, NEW c \in Clients, NEW k \in Keys, NEW v \in Values, Ask(c, k, v)
  PROVE  IInv'
<1> DEFINE new == [client |-> c, key |-> k, value |-> v,
                   next |-> Defaults, stage |-> "asked"]
<1>1. /\ writes' = writes \cup {new}
      /\ new \in Patches /\ new.stage = "asked"
  BY DefaultsConfig DEF Ask, Patches
<1>2. /\ UNCHANGED <<disk, config, news, acked, behind, others>>
      /\ up # "down" /\ (patient => up = "up" /\ ~news /\ writes = {})
  BY DEF Ask, history
<1> HIDE DEF new
<1>3. left' \in [Happenings -> Nat] /\ patient' = patient
  BY StillBudget DEF Ask, IInv, Happenings
<1>4. TypeOK'
  BY <1>1, <1>2, <1>3, HelperRests DEF IInv, TypeOK, CoreTypes, others, helper
<1>5. OneMerged' /\ OnDisk' /\ OnMirror' /\ Kept'
  BY <1>1, <1>2 DEF IInv, OneMerged, OnDisk, OnMirror, Bare, Kept, Loaded, Saved, others
<1>6. WhileDown' /\ OneBehind' /\ WakesUp' /\ HelperFollows'
  BY <1>1, <1>2, <1>3 DEF IInv, WhileDown, OneBehind, WakesUp, HelperFollows, others, helper
<1>7. QED
  BY <1>4, <1>5, <1>6 DEF IInv

(* What the steps of a patch leave alone.                                  *)
LEMMA PatchMoves ==
  ASSUME IInv, NEW w \in writes, NEW x \in Patches,
         writes' = (writes \ {w}) \cup {x},
         UNCHANGED <<config, news, acked, others, patient, left>>, behind' \in BOOLEAN,
         disk' \in [file : SUBSET Configs, mirror : SUBSET Configs]
  PROVE  TypeOK' /\ Kept' /\ WhileDown' /\ OneBehind' /\ WakesUp' /\ HelperFollows'
<1> USE DEF IInv, others, helper
<1>1. TypeOK'
  BY HelperRests DEF TypeOK, CoreTypes
<1>2. Kept' /\ WhileDown' /\ WakesUp' /\ HelperFollows'
  BY DEF Kept, WhileDown, WakesUp, HelperFollows
<1>3. OneBehind'
  BY DEF OneBehind
<1>4. QED
  BY <1>1, <1>2, <1>3

LEMMA BeginKeeps ==
  ASSUME IInv, NEW w \in writes, Begin(w)
  PROVE  IInv'
<1>1. w \in Patches /\ config \in Configs
  BY DEF IInv, TypeOK, CoreTypes
<1>2. Merged(w) \in Patches
  BY <1>1, ChangedConfig DEF Merged, Patches
<1>3. /\ writes' = (writes \ {w}) \cup {Merged(w)}
      /\ disk' = disk /\ \A v \in writes : v.stage = "asked"
      /\ UNCHANGED <<config, news, acked, behind, others, patient, left>>
  BY DEF Begin, Locked, history
<1>4. TypeOK' /\ Kept' /\ WhileDown' /\ OneBehind' /\ WakesUp' /\ HelperFollows'
  BY <1>2, <1>3, PatchMoves, HelperRests DEF IInv, TypeOK, CoreTypes
<1>5. Merged(w).stage = "file" /\ Merged(w).key = w.key /\ Merged(w).value = w.value
      /\ Merged(w).next = [config EXCEPT ![w.key] = w.value]
  BY <1>1 DEF Merged, Patches
<1>6. OneMerged'
  BY <1>3, <1>5 DEF OneMerged
<1>7. OnDisk' /\ OnMirror'
  BY <1>3, <1>5 DEF IInv, OnDisk, OnMirror, Bare, Saved, Loaded
<1>8. QED
  BY <1>4, <1>6, <1>7 DEF IInv

LEMMA WriteFileKeeps ==
  ASSUME IInv, NEW w \in writes, WriteFile(w)
  PROVE  IInv'
<1>1. /\ w \in Patches /\ w.stage = "file" /\ w.next \in Configs
      /\ UNCHANGED <<config, news, acked, others, patient, left>>
  BY DEF IInv, TypeOK, CoreTypes, WriteFile, Patches
<1>2. \A v \in writes : v # w => v.stage = "asked"
  BY <1>1 DEF IInv, OneMerged
<1>3. ASSUME disk' = [disk EXCEPT !.file = {w.next}], writes' = Moved(w, "mirror"),
             behind' = TRUE
      PROVE  IInv'
  <2> DEFINE x == [w EXCEPT !.stage = "mirror"]
  <2>1. /\ x \in Patches /\ x.stage = "mirror" /\ x.next = w.next
        /\ x.key = w.key /\ x.value = w.value
    BY <1>1 DEF Patches
  <2>2. writes' = (writes \ {w}) \cup {x}
    BY <1>3 DEF Moved
  <2> HIDE DEF x
  <2>3. disk' \in [file : SUBSET Configs, mirror : SUBSET Configs] /\ disk'.file = {w.next}
    BY <1>1, <1>3 DEF IInv, TypeOK, CoreTypes
  <2>4. TypeOK' /\ Kept' /\ WhileDown' /\ OneBehind' /\ WakesUp' /\ HelperFollows'
    BY <1>1, <1>3, <2>1, <2>2, <2>3, PatchMoves
  <2>5. OneMerged'
    BY <1>1, <1>2, <2>1, <2>2 DEF IInv, OneMerged
  <2>6. OnDisk'
    BY <1>2, <2>1, <2>2, <2>3 DEF OnDisk, Saved
  <2>7. OnMirror'
    BY <1>3 DEF OnMirror
  <2>8. QED
    BY <2>4, <2>5, <2>6, <2>7 DEF IInv
<1>4. ASSUME UNCHANGED <<disk, behind>>, writes' = writes \ {w}
      PROVE  IInv'
  <2>1. TypeOK'
    BY <1>1, <1>4, HelperRests DEF IInv, TypeOK, CoreTypes, others, helper
  <2>2. OneMerged' /\ OnDisk' /\ OnMirror' /\ Kept'
    BY <1>1, <1>2, <1>4 DEF IInv, OneMerged, OnDisk, OnMirror, Bare, Kept, Saved, Loaded, others
  <2>3. WhileDown' /\ OneBehind' /\ WakesUp' /\ HelperFollows'
    BY <1>1, <1>4 DEF IInv, WhileDown, OneBehind, WakesUp, HelperFollows, others, helper
  <2>4. QED
    BY <2>1, <2>2, <2>3 DEF IInv
<1>5. QED
  BY <1>3, <1>4 DEF WriteFile

LEMMA WriteMirrorKeeps ==
  ASSUME IInv, NEW w \in writes, WriteMirror(w)
  PROVE  IInv'
<1>1. /\ w \in Patches /\ w.stage = "mirror" /\ w.next \in Configs
      /\ UNCHANGED <<config, news, acked, others, patient, left>>
  BY DEF IInv, TypeOK, CoreTypes, WriteMirror, Patches
<1> DEFINE x == [w EXCEPT !.stage = "publish"]
<1>2. /\ x \in Patches /\ x.stage = "publish" /\ x.next = w.next
      /\ x.key = w.key /\ x.value = w.value
  BY <1>1 DEF Patches
<1>3. writes' = (writes \ {w}) \cup {x}
  BY DEF WriteMirror, Moved
<1> HIDE DEF x
<1>4. /\ disk' \in [file : SUBSET Configs, mirror : SUBSET Configs]
      /\ disk'.file = disk.file /\ behind' \in BOOLEAN
  <2>1. CASE disk' = [disk EXCEPT !.mirror = {w.next}] /\ behind' = FALSE
    BY <1>1, <2>1 DEF IInv, TypeOK, CoreTypes
  <2>2. CASE UNCHANGED <<disk, behind>>
    BY <2>2 DEF IInv, TypeOK, CoreTypes
  <2>3. QED
    BY <2>1, <2>2 DEF WriteMirror
<1>5. TypeOK' /\ Kept' /\ WhileDown' /\ OneBehind' /\ WakesUp' /\ HelperFollows'
  BY <1>1, <1>2, <1>3, <1>4, PatchMoves
<1>6. \A v \in writes : v # w => v.stage = "asked"
  BY <1>1 DEF IInv, OneMerged
<1>7. OneMerged'
  BY <1>1, <1>2, <1>3, <1>6 DEF IInv, OneMerged
<1>8. disk.file = {w.next}
  BY <1>1 DEF IInv, OnDisk, Saved
<1>9. OnDisk'
  BY <1>2, <1>3, <1>4, <1>6, <1>8 DEF OnDisk, Saved
<1>10. OnMirror'
  <2>1. behind
    BY <1>1 DEF IInv, OnMirror, Saved
  <2>2. ~behind' => disk'.mirror = {w.next}
    BY <1>1, <2>1 DEF WriteMirror, IInv, TypeOK, CoreTypes
  <2>3. QED
    BY <1>2, <1>3, <1>6, <2>2 DEF OnMirror, Saved
<1>11. QED
  BY <1>5, <1>7, <1>9, <1>10 DEF IInv

LEMMA PublishKeeps ==
  ASSUME IInv, NEW w \in writes, Publish(w)
  PROVE  IInv'
<1>1. /\ w \in Patches /\ w.stage = "publish" /\ w.next \in Configs
      /\ UNCHANGED <<disk, behind, others, patient, left>>
      /\ writes' = writes \ {w} /\ config' = w.next
  BY DEF IInv, TypeOK, CoreTypes, Publish, Patches
<1>2. \A v \in writes : v # w => v.stage = "asked"
  BY <1>1 DEF IInv, OneMerged
<1>3. config \in Configs /\ acked = config /\ w.next = [config EXCEPT ![w.key] = w.value]
  BY <1>1 DEF IInv, TypeOK, CoreTypes, OneMerged, Kept, WhileDown
<1>4. acked' = config'
  BY <1>1, <1>3 DEF Publish, Told
<1>5. news' = (news \/ (config' # config /\ up = "up"))
  BY DEF Publish
<1>6. TypeOK'
  BY <1>1, <1>4, <1>5, HelperRests DEF IInv, TypeOK, CoreTypes, others, helper
<1>7. disk.file = {w.next}
  BY <1>1 DEF IInv, OnDisk, Saved
<1>8. OnDisk'
  <2>1. \A v \in writes' : ~Saved(v)
    BY <1>1, <1>2 DEF Saved
  <2>2. Loaded(disk)' = acked'
    BY <1>1, <1>4, <1>7, LoadedFile DEF Loaded
  <2>3. QED
    BY <2>1, <2>2 DEF OnDisk
<1>9. OnMirror'
  <2>1. \A v \in writes' : ~Saved(v)
    BY <1>1, <1>2 DEF Saved
  <2>2. ASSUME ~behind PROVE Loaded(Bare(disk)) = acked'
    <3>1. disk.mirror = {w.next}
      BY <1>1, <2>2 DEF IInv, OnMirror, Saved
    <3>2. QED
      BY <1>1, <1>4, <3>1, LoadedMirror DEF IInv, TypeOK, CoreTypes
  <2>3. QED
    BY <1>1, <2>1, <2>2 DEF OnMirror, Loaded, Bare
<1>10. OneMerged' /\ Kept' /\ WhileDown'
  BY <1>1, <1>2, <1>4, <1>5 DEF IInv, OneMerged, Kept, WhileDown, others, helper
<1>11. OneBehind' /\ WakesUp'
  BY <1>1, <1>5 DEF IInv, OneBehind, WakesUp, WhileDown, TypeOK, CoreTypes, others
<1>12. HelperFollows'
  BY <1>1 DEF IInv, HelperFollows, others, helper
<1>13. QED
  BY <1>6, <1>8, <1>9, <1>10, <1>11, <1>12 DEF IInv

-----------------------------------------------------------------------------
(* The projection. *)

LEMMA OnStateKeeps == IInv /\ OnState => IInv'
<1> SUFFICES ASSUME IInv, OnState PROVE IInv'
  OBVIOUS
<1> USE DEF OnState, around, history, Turn, DueWhenIdle, IInv
<1>1. TypeOK'
  BY HelperRests DEF TypeOK, CoreTypes
<1>2. OneMerged' /\ OnDisk' /\ OnMirror' /\ Kept'
  BY FilesRest
<1>3. WhileDown' /\ OneBehind' /\ HelperFollows'
  BY DEF WhileDown, OneBehind, HelperFollows
<1>4. WakesUp'
  BY DEF WakesUp, OneBehind
<1>5. QED
  BY <1>1, <1>2, <1>3, <1>4

LEMMA PhoneComesKeeps ==
  ASSUME IInv, NEW p \in Phones, PhoneComes(p)
  PROVE  IInv'
<1> USE DEF PhoneComes, around, history, Turn
<1>1. left' \in [Happenings -> Nat] /\ patient' = patient
  BY StillBudget DEF IInv, Happenings
<1>2. TypeOK'
  BY <1>1, HelperRests DEF IInv, TypeOK, CoreTypes
<1>3. OneMerged' /\ OnDisk' /\ OnMirror' /\ Kept'
  BY FilesRest
<1>4. WhileDown' /\ OneBehind' /\ WakesUp' /\ HelperFollows'
  BY <1>1 DEF IInv, WhileDown, OneBehind, WakesUp, HelperFollows
<1>5. QED
  BY <1>2, <1>3, <1>4 DEF IInv

LEMMA PhoneLeavesKeeps ==
  ASSUME IInv, NEW p \in Phones, PhoneLeaves(p)
  PROVE  IInv'
<1> USE DEF PhoneLeaves, around, history, Turn, DueWhenIdle
<1>1. TypeOK'
  BY HelperRests DEF IInv, TypeOK, CoreTypes
<1>2. OneMerged' /\ OnDisk' /\ OnMirror' /\ Kept'
  BY FilesRest
<1>3. WhileDown' /\ OneBehind' /\ WakesUp' /\ HelperFollows'
  BY DEF IInv, WhileDown, OneBehind, WakesUp, HelperFollows
<1>4. QED
  BY <1>1, <1>2, <1>3 DEF IInv

LEMMA ApplyIdleKeeps == IInv /\ ApplyIdle => IInv'
<1> SUFFICES ASSUME IInv, ApplyIdle PROVE IInv'
  OBVIOUS
<1> USE DEF ApplyIdle, around, history, Turn
<1>1. TypeOK'
  BY HelperRests DEF IInv, TypeOK, CoreTypes
<1>2. OneMerged' /\ OnDisk' /\ OnMirror' /\ Kept'
  BY FilesRest
<1>3. WhileDown' /\ OneBehind' /\ WakesUp'
  BY DEF IInv, WhileDown, OneBehind, WakesUp
<1>4. HelperFollows'
  BY DEF IInv, HelperFollows, Reads
<1>5. QED
  BY <1>1, <1>2, <1>3, <1>4 DEF IInv

LEMMA ApplySettingsKeeps == IInv /\ ApplySettings => IInv'
<1> SUFFICES ASSUME IInv, ApplySettings PROVE IInv'
  OBVIOUS
<1> USE DEF ApplySettings, around, history, Turn
<1>1. left' \in [Happenings -> Nat] /\ patient' = patient
  BY StillBudget DEF IInv, Happenings
<1>2. TypeOK'
  BY <1>1, HelperRests DEF IInv, TypeOK, CoreTypes
<1>3. OneMerged' /\ OnDisk' /\ OnMirror' /\ Kept'
  BY FilesRest
<1>4. WhileDown' /\ OneBehind' /\ WakesUp' /\ HelperFollows'
  BY <1>1 DEF IInv, WhileDown, OneBehind, WakesUp, HelperFollows
<1>5. QED
  BY <1>2, <1>3, <1>4 DEF IInv

LEMMA NotifyHelperKeeps == IInv /\ NotifyHelper => IInv'
<1> SUFFICES ASSUME IInv, NotifyHelper PROVE IInv'
  OBVIOUS
<1> USE DEF NotifyHelper, around, history
<1>1. TypeOK'
  BY HelperRests DEF IInv, TypeOK, CoreTypes
<1>2. OneMerged' /\ OnDisk' /\ OnMirror' /\ Kept'
  BY FilesRest
<1>3. WhileDown' /\ OneBehind' /\ WakesUp' /\ HelperFollows'
  BY DEF IInv, WhileDown, OneBehind, WakesUp, HelperFollows
<1>4. QED
  BY <1>1, <1>2, <1>3 DEF IInv

Supervises == HelperStarts \/ HelperExits \/ HelperWaited \/ HelperRestarts

LEMMA SupervisesKeeps == IInv /\ Supervises => IInv'
<1> SUFFICES ASSUME IInv, Supervises PROVE IInv'
  OBVIOUS
<1>1. UNCHANGED <<disk, up, config, applied, seen, due, news, busy, phones, writes, acked, behind, patient>>
  BY DEF Supervises, HelperStarts, HelperExits, HelperWaited, HelperRestarts,
         beside, hub, projection, history, Happens
<1>2. up = "up"
  BY DEF Supervises, HelperStarts, HelperExits, HelperWaited, HelperRestarts, IInv, WhileDown
<1>3. OneMerged' /\ OnDisk' /\ OnMirror' /\ Kept'
  BY <1>1, FilesRest
<1>4. WhileDown' /\ OneBehind' /\ WakesUp'
  BY <1>1, <1>2 DEF IInv, WhileDown, OneBehind, WakesUp
<1>5. HelperTypes'
  <2>1. Reads(applied) \in [HelperKeys -> Values]
    BY ReadsValues DEF IInv, TypeOK, CoreTypes
  <2>2. CASE HelperStarts
    BY <2>1, <2>2 DEF HelperStarts, IInv, TypeOK, HelperTypes
  <2>3. CASE HelperExits
    BY <2>3, SettingsAssumption DEF HelperExits, IInv, TypeOK, HelperTypes
  <2>4. CASE HelperWaited
    BY <2>4 DEF HelperWaited, IInv, TypeOK, HelperTypes
  <2>5. CASE HelperRestarts
    BY <2>5, SettingsAssumption DEF HelperRestarts, IInv, TypeOK, HelperTypes
  <2>6. QED
    BY <2>2, <2>3, <2>4, <2>5 DEF Supervises
<1>6. TypeOK'
  <2>1. left' \in [Happenings -> Nat]
    BY StillBudget DEF Supervises, HelperStarts, HelperExits, HelperWaited, HelperRestarts,
                       IInv, TypeOK, Happenings
  <2>2. CoreTypes'
    BY <1>1 DEF IInv, TypeOK, CoreTypes
  <2>3. permit' \in BOOLEAN
    BY DEF Supervises, HelperStarts, HelperExits, HelperWaited, HelperRestarts, IInv, TypeOK
  <2>4. QED
    BY <1>1, <1>5, <2>1, <2>2, <2>3 DEF IInv, TypeOK
<1>7. HelperFollows'
  BY <1>1 DEF Supervises, HelperStarts, HelperExits, HelperWaited, HelperRestarts,
              IInv, HelperFollows, Reads
<1>8. QED
  BY <1>3, <1>4, <1>6, <1>7 DEF IInv

LEMMA NextInv == IInv /\ [Next]_vars => IInv'
<1> SUFFICES ASSUME IInv, [Next]_vars PROVE IInv'
  OBVIOUS
<1>1. CASE UNCHANGED vars
  <2>1. TypeOK'
    BY <1>1, HelperRests DEF vars, hub, projection, helper, history, IInv, TypeOK, CoreTypes
  <2>2. OneMerged' /\ OnDisk' /\ OnMirror' /\ Kept'
    BY <1>1, FilesRest DEF vars, hub, history
  <2>3. WhileDown' /\ OneBehind' /\ WakesUp' /\ HelperFollows'
    BY <1>1 DEF vars, hub, projection, helper, IInv, WhileDown, OneBehind, WakesUp, HelperFollows
  <2>4. QED
    BY <2>1, <2>2, <2>3 DEF IInv
<1>2. CASE Boot \/ Services \/ Crash \/ LosesFile
  BY <1>2, BootKeeps, ServicesKeeps, CrashKeeps, LosesFileKeeps
<1>3. ASSUME NEW c \in Clients, Write(c) PROVE IInv'
  BY <1>3, BeginKeeps, WriteFileKeeps, WriteMirrorKeeps, PublishKeeps DEF Write
<1>4. ASSUME NEW c \in Clients, NEW k \in Keys, NEW v \in Values, Ask(c, k, v) PROVE IInv'
  BY <1>4, AskKeeps
<1>5. ASSUME NEW p \in Phones, PhoneComes(p) \/ PhoneLeaves(p) PROVE IInv'
  BY <1>5, PhoneComesKeeps, PhoneLeavesKeeps
<1>6. CASE OnState \/ ApplyIdle \/ ApplySettings \/ NotifyHelper
  BY <1>6, OnStateKeeps, ApplyIdleKeeps, ApplySettingsKeeps, NotifyHelperKeeps
<1>7. CASE HelperStarts \/ HelperExits \/ HelperWaited \/ HelperRestarts
  BY <1>7, SupervisesKeeps DEF Supervises
<1>8. QED
  BY <1>1, <1>2, <1>3, <1>4, <1>5, <1>6, <1>7 DEF Next

LEMMA Invariance == Spec => []IInv
  BY InitInv, NextInv, PTL DEF Spec

-----------------------------------------------------------------------------
(* The settings' way keeps its types, and the supervisor of the helper     *)
(* (helper.rs) never restarts one it has given up on.                      *)
THEOREM TypeCorrect == Spec => []TypeOK
  BY Invariance, PTL DEF IInv

(* No interleaving of set_config's clients, no failed write and no crash   *)
(* between two steps makes the config in force differ, in any setting,     *)
(* from what a client was last told is saved; nor does the loss of the     *)
(* file, if the mirror was written after it.                               *)
THEOREM AlwaysKept == Spec => []Kept
  BY Invariance, PTL DEF IInv

(* A running helper with other settings than those applied has a restart   *)
(* asked for, or is about to.                                              *)
THEOREM AlwaysHelperFollows == Spec => []HelperFollows
  BY Invariance, PTL DEF IInv

(* With no phone connected, a change that is not applied is news to the    *)
(* projection or has its timer running.                                    *)
THEOREM AlwaysWakesUp == Spec => []WakesUp
  BY Invariance, PTL DEF IInv

(* A step that changes the settings in force under a connected phone is    *)
(* the one the user asks for.                                              *)
THEOREM NeverUnderPhone == Spec => NotUnderPhone
<1>1. ASSUME IInv, [Next]_vars
      PROVE  [up' = "up" /\ phones # {} /\ applied' # applied => ApplySettings]_vars
  <2>1. CASE UNCHANGED vars
    BY <2>1
  <2>2. CASE Boot \/ Services \/ Crash \/ LosesFile
    BY <2>2 DEF Boot, Services, Crash, LosesFile, Down, hub
  <2>3. ASSUME NEW c \in Clients, Write(c) PROVE applied' = applied
    BY <2>3 DEF Write, Begin, WriteFile, WriteMirror, Publish, others
  <2>4. ASSUME NEW c \in Clients, NEW k \in Keys, NEW v \in Values, Ask(c, k, v)
        PROVE  applied' = applied
    BY <2>4 DEF Ask, others
  <2>5. ASSUME NEW p \in Phones, PhoneComes(p) \/ PhoneLeaves(p) PROVE applied' = applied
    BY <2>5 DEF PhoneComes, PhoneLeaves
  <2>6. CASE OnState \/ ApplyIdle \/ NotifyHelper
    BY <2>6 DEF OnState, ApplyIdle, NotifyHelper
  <2>7. CASE HelperStarts \/ HelperExits \/ HelperWaited \/ HelperRestarts
    BY <2>7 DEF HelperStarts, HelperExits, HelperWaited, HelperRestarts, beside, hub
  <2>8. QED
    BY <1>1, <2>1, <2>2, <2>3, <2>4, <2>5, <2>6, <2>7 DEF Next
<1>2. QED
  BY <1>1, Invariance, PTL DEF Spec, NotUnderPhone
=============================================================================
