------------------------------ MODULE Settings ------------------------------
(***************************************************************************)
(* The way of a setting through the core.  Clients send patches            *)
(* (livi-core/src/server.rs, set_config); each is merged into the config   *)
(* under a lock, written to the file and to its mirror (config_file.rs)    *)
(* and published (hub.rs).  The projection (projection/state.rs) applies   *)
(* what was published once no phone is connected and the settings sit      *)
(* still, or when the user asks for it, and has the supervisor of the      *)
(* helper (helper.rs) restart it when it reads one of the settings         *)
(* changed.  The core may die between any two steps and starts again from  *)
(* what the disk has.                                                      *)
(*                                                                         *)
(* A config is a function from settings to values.  The projection, the    *)
(* supervisor and the clients' tasks run on threads of their own.  The     *)
(* file system keeps what was written before a rename; a patch that does   *)
(* not fit changes nothing and is left out.                                *)
(***************************************************************************)
EXTENDS Integers

CONSTANTS HelperKeys,  \* settings the helper reads when it starts
          OtherKeys,
          Values,
          Default,     \* the default of every setting
          Clients,     \* tasks that change settings: UI connections, followers
          Phones,
          MaxRestarts, \* HELPER_MAX_RESTARTS
          Budget       \* bound: how often each of Happenings

Keys == HelperKeys \cup OtherKeys
Configs == [Keys -> Values]
Happenings == {"asks", "crashes", "losses", "visits", "exits"}

ASSUME SettingsAssumption ==
  /\ HelperKeys \cap OtherKeys = {} /\ Default \in Values
  /\ MaxRestarts \in Nat /\ Budget \in [Happenings -> Nat]

VARIABLES disk,     \* [file, mirror], each with one config or none
          up,       \* the core: "down", "starts" (no services yet) or "up"
          config, applied,        \* the hub's
          seen, due, news,        \* the projection's, and its watch of the hub
          busy,     \* it applied settings and is about to ask for a restart
          phones,   \* that have a session
          writes,   \* the patches under way, at most one per client
          acked,    \* per setting: the last value a client was told is saved
          behind,   \* the file was written, the mirror after it was not (yet)
          sup, env, restarts, permit,  \* the supervisor, its helper, its Notify
          patient,  \* do changes of this run wait until the last one was seen?
          left

hub == <<config, applied>>
projection == <<seen, due, news, busy, phones>>
helper == <<sup, env, restarts, permit>>
history == <<acked, behind>>
vars == <<disk, up, hub, projection, writes, history, helper, patient, left>>

Defaults == [k \in Keys |-> Default]
Loaded(d) == IF d.file # {} THEN CHOOSE c \in d.file : TRUE
             ELSE IF d.mirror # {} THEN CHOOSE c \in d.mirror : TRUE
             ELSE Defaults
Reads(c) == [k \in HelperKeys |-> c[k]]     \* what the helper is started with

Patches == [client : Clients, key : Keys, value : Values, next : Configs,
            stage : {"asked", "file", "mirror", "publish"}]
Moved(w, stage) == (writes \ {w}) \cup {[w EXCEPT !.stage = stage]}
Locked == \E w \in writes : w.stage # "asked"

Happens(what) ==
  left[what] > 0 /\ left' = [left EXCEPT ![what] = @ - 1] /\ UNCHANGED patient

Down ==      \* nothing of the core's memory is left, and its helper ends with it
  /\ up' = "down"
  /\ config' = Defaults /\ applied' = config' /\ seen' = config'
  /\ due' = FALSE /\ news' = FALSE /\ busy' = FALSE /\ phones' = {}
  /\ writes' = {}
  /\ sup' = "gone" /\ env' = Reads(config') /\ restarts' = 0 /\ permit' = FALSE

Init ==
  /\ disk = [file |-> {}, mirror |-> {}] /\ up = "down"
  /\ config = Defaults /\ applied = config /\ seen = config
  /\ due = FALSE /\ news = FALSE /\ busy = FALSE /\ phones = {}
  /\ writes = {} /\ acked = config /\ behind = FALSE
  /\ sup = "gone" /\ env = Reads(config) /\ restarts = 0 /\ permit = FALSE
  /\ patient \in BOOLEAN /\ left = Budget

-----------------------------------------------------------------------------
(* Start and end of the core. *)

(* Load; a file that is not there is written, as far as that works.        *)
Boot ==
  /\ up = "down" /\ up' = "starts"
  /\ config' = Loaded(disk) /\ applied' = config'
  /\ disk' \in IF disk.file # {} THEN {disk}
               ELSE {disk, [disk EXCEPT !.file = {config'}],
                     [file |-> {config'}, mirror |-> {config'}]}
  /\ UNCHANGED <<projection, writes, history, helper, patient, left>>

(* The helper's supervisor and the projection start; the latter begins     *)
(* with the config of that moment as seen.                                 *)
Services ==
  /\ up = "starts" /\ up' = "up"
  /\ seen' = config /\ news' = FALSE
  /\ sup' = "starting"
  /\ UNCHANGED <<disk, hub, due, busy, phones, writes, history, env, restarts, permit, patient, left>>

Told(w) == [acked EXCEPT ![w.key] = w.value]

(* The core dies.  A client whose patch was in the file is not told.       *)
Crash ==
  /\ up # "down" /\ Happens("crashes")
  /\ Down
  /\ LET saved == {w \in writes : w.stage \in {"mirror", "publish"}}
     IN acked' \in IF saved = {} THEN {acked} ELSE {Told(w) : w \in saved}
  /\ UNCHANGED <<disk, behind>>

(* While the core is down its file is lost.  Only what never came into the *)
(* mirror, since its write failed or the core died before it, is lost with *)
(* the file: then the mirror's older settings are what is saved.           *)
LosesFile ==
  /\ up = "down" /\ disk.file # {} /\ Happens("losses")
  /\ disk' = [disk EXCEPT !.file = {}]
  /\ acked' = (IF behind THEN Loaded(disk') ELSE acked) /\ behind' = FALSE
  /\ UNCHANGED <<up, hub, projection, writes, helper>>

-----------------------------------------------------------------------------
(* set_config. *)
others == <<up, applied, seen, due, busy, phones, helper>>

Ask(c, k, v) ==
  /\ up # "down" /\ \A w \in writes : w.client # c
  /\ Happens("asks")
  /\ patient => up = "up" /\ ~news /\ writes = {}
  /\ writes' = writes \cup {[client |-> c, key |-> k, value |-> v,
                            next |-> Defaults, stage |-> "asked"]}
  /\ UNCHANGED <<disk, config, news, history, others>>

Merged(w) == [w EXCEPT !.stage = "file", !.next = [config EXCEPT ![w.key] = w.value]]

(* The lock is taken, the patch merged into the hub's config. *)
Begin(w) ==
  /\ w.stage = "asked" /\ ~Locked
  /\ writes' = (writes \ {w}) \cup {Merged(w)}
  /\ UNCHANGED <<disk, config, news, history, others, patient, left>>

(* The file is replaced, or that fails and the client hears so.            *)
WriteFile(w) ==
  /\ w.stage = "file"
  /\ \/ disk' = [disk EXCEPT !.file = {w.next}] /\ writes' = Moved(w, "mirror")
        /\ behind' = TRUE
     \/ UNCHANGED <<disk, behind>> /\ writes' = writes \ {w}
  /\ UNCHANGED <<config, news, acked, others, patient, left>>

(* Mutant: the mirror is never written. *)
WriteMirrorNever(w) ==
  /\ w.stage = "mirror" /\ writes' = Moved(w, "publish")
  /\ UNCHANGED disk /\ behind' = FALSE
  /\ UNCHANGED <<config, news, acked, others, patient, left>>

(* So is the mirror; nobody hears when that fails. *)
WriteMirror(w) ==
  /\ w.stage = "mirror" /\ writes' = Moved(w, "publish")
  /\ \/ disk' = [disk EXCEPT !.mirror = {w.next}] /\ behind' = FALSE
     \/ UNCHANGED <<disk, behind>>
  /\ UNCHANGED <<config, news, acked, others, patient, left>>

Publish(w) ==
  /\ w.stage = "publish" /\ writes' = writes \ {w}
  /\ config' = w.next /\ acked' = Told(w)
  /\ news' = (news \/ (config' # config /\ up = "up"))
  /\ UNCHANGED <<disk, behind, others, patient, left>>

Write(c) == \E w \in writes :
  w.client = c /\ (Begin(w) \/ WriteFile(w) \/ WriteMirror(w) \/ Publish(w))

-----------------------------------------------------------------------------
(* The projection. *)
around == <<disk, up, config, writes, history, sup, env, restarts>>
Turn == up = "up" /\ ~busy      \* it takes its turns one after the other

DueWhenIdle(now) == due' = (now = {} /\ config # applied)

(* Mutant: a change only makes itself seen. *)
OnStateQuietly ==
  /\ Turn /\ news /\ news' = FALSE
  /\ seen' = config
  /\ UNCHANGED <<applied, due, busy, phones, permit, around, patient, left>>

OnState ==
  /\ Turn /\ news /\ news' = FALSE
  /\ seen' = config
  /\ IF config # seen THEN DueWhenIdle(phones) ELSE UNCHANGED due
  /\ UNCHANGED <<applied, busy, phones, permit, around, patient, left>>

PhoneComes(p) ==
  /\ Turn /\ p \notin phones /\ Happens("visits")
  /\ phones' = phones \cup {p}
  /\ UNCHANGED <<applied, seen, due, news, busy, permit, around>>

(* Mutant: the end of the last session is not the time to look. *)
PhoneLeavesQuietly(p) ==
  /\ Turn /\ p \in phones
  /\ phones' = phones \ {p}
  /\ UNCHANGED <<applied, seen, due, news, busy, permit, around, patient, left>>

PhoneLeaves(p) ==
  /\ Turn /\ p \in phones
  /\ phones' = phones \ {p}
  /\ IF phones' = {} THEN DueWhenIdle(phones') ELSE UNCHANGED due
  /\ UNCHANGED <<applied, seen, news, busy, permit, around, patient, left>>

(* Mutants: phones are not looked at again; the helper is not either. *)
ApplyIdleAnyway ==
  /\ Turn /\ due /\ due' = FALSE
  /\ applied' = config /\ busy' = (Reads(config) # Reads(applied))
  /\ UNCHANGED <<seen, news, phones, permit, around, patient, left>>

ApplyIdleAlone ==
  /\ Turn /\ due /\ due' = FALSE
  /\ applied' = (IF phones = {} THEN config ELSE applied)
  /\ UNCHANGED <<busy, seen, news, phones, permit, around, patient, left>>

(* The settings sat still for APPLY_AFTER_QUIET.  A phone that came since  *)
(* keeps those it connected with.                                          *)
ApplyIdle ==
  /\ Turn /\ due /\ due' = FALSE
  /\ IF phones # {} THEN UNCHANGED <<applied, busy>>
     ELSE applied' = config /\ busy' = (Reads(config) # Reads(applied))
  /\ UNCHANGED <<seen, news, phones, permit, around, patient, left>>

(* The user does not wait: the helper restarts and the sessions are        *)
(* dropped, each of which ends in its own time.                            *)
ApplySettings ==
  /\ Turn /\ Happens("visits")
  /\ due' = FALSE /\ applied' = config /\ busy' = TRUE
  /\ UNCHANGED <<seen, news, phones, permit, around>>

NotifyHelper ==
  /\ busy /\ busy' = FALSE
  /\ permit' = TRUE
  /\ UNCHANGED <<applied, seen, due, news, phones, around, patient, left>>

-----------------------------------------------------------------------------
(* The helper's supervisor. *)
beside == <<disk, up, hub, projection, writes, history>>

(* The helper starts with what is applied now, or cannot start at all. *)
HelperStarts ==
  /\ sup = "starting"
  /\ \/ sup' = "running" /\ env' = Reads(applied)
     \/ sup' = "gone" /\ UNCHANGED env
  /\ UNCHANGED <<restarts, permit, beside, patient, left>>

HelperExits ==
  /\ sup = "running" /\ Happens("exits")
  /\ restarts' = restarts + 1
  /\ sup' = IF restarts' > MaxRestarts THEN "gone" ELSE "waits"
  /\ UNCHANGED <<env, permit, beside>>

HelperWaited ==
  /\ sup = "waits" /\ sup' = "starting"
  /\ UNCHANGED <<env, restarts, permit, beside, patient, left>>

HelperRestarts ==
  /\ sup = "running" /\ permit
  /\ permit' = FALSE /\ sup' = "starting" /\ restarts' = 0
  /\ UNCHANGED <<env, beside, patient, left>>

-----------------------------------------------------------------------------
Next ==
  \/ Boot \/ Services \/ Crash \/ LosesFile
  \/ \E c \in Clients : Write(c) \/ \E k \in Keys, v \in Values : Ask(c, k, v)
  \/ \E p \in Phones : PhoneComes(p) \/ PhoneLeaves(p)
  \/ OnState \/ ApplyIdle \/ ApplySettings \/ NotifyHelper
  \/ HelperStarts \/ HelperExits \/ HelperWaited \/ HelperRestarts

(* Tasks get their turns, timers fire, processes start. *)
Fairness ==
  /\ WF_vars(Services) /\ \A c \in Clients : WF_vars(Write(c))
  /\ WF_vars(OnState) /\ WF_vars(ApplyIdle) /\ WF_vars(NotifyHelper)
  /\ WF_vars(HelperStarts) /\ WF_vars(HelperWaited) /\ WF_vars(HelperRestarts)
Spec == Init /\ [][Next]_vars /\ Fairness

-----------------------------------------------------------------------------
CoreTypes ==
  /\ disk \in [file : SUBSET Configs, mirror : SUBSET Configs]
  /\ {config, applied, seen, acked} \subseteq Configs
  /\ writes \subseteq Patches /\ phones \subseteq Phones
  /\ up \in {"down", "starts", "up"}

HelperTypes ==
  /\ sup \in {"starting", "running", "waits", "gone"}
  /\ env \in [HelperKeys -> Values]
  /\ restarts \in 0 .. MaxRestarts + 1
  /\ restarts > MaxRestarts => sup = "gone"

TypeOK ==
  /\ CoreTypes /\ HelperTypes /\ left \in [Happenings -> Nat]
  /\ {due, news, busy, permit, behind, patient} \subseteq BOOLEAN

(* What is in force is, setting by setting, what clients were last told is *)
(* saved: no patch undoes another client's, none is forgotten by a crash   *)
(* at any step of a later one, and a lost file takes nothing with it that  *)
(* the mirror was written with, however often the core started since.      *)
Kept == up # "down" => config = acked

(* A running helper that was started with other settings than those        *)
(* applied is going to be restarted, also when it was just starting while  *)
(* they were applied.                                                      *)
HelperFollows ==
  up = "up" /\ sup = "running" /\ env # Reads(applied) => permit \/ busy

(* While no phone is connected, a change that is not applied has somebody  *)
(* who is going to look at it: no order of changes, phones, timers and the *)
(* user's own word loses the wake-up, if changes do not come faster than   *)
(* they are seen.                                                          *)
WakesUp ==
  patient /\ up = "up" /\ phones = {} /\ config # applied => due \/ news

(* Settings change under a connected phone only when the user says so.     *)
NotUnderPhone ==
  [][up' = "up" /\ phones # {} /\ applied' # applied => ApplySettings]_vars

Live ==
  \/ up # "up" \/ phones # {} \/ sup = "gone"
  \/ config = applied /\ sup = "running" /\ env = Reads(config)

(* Once no phone is left and the settings sit still, they are applied and  *)
(* the helper runs with them.                                              *)
GoesLive == patient => []<>Live
=============================================================================
