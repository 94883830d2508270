# A verification of LIVI

LIVI is a head unit: it projects iPhones (CarPlay) and Android phones (Android
Auto), wired and wireless, several at a time, on the displays of a car. This
directory holds TLA+ modules of the parts of it that decide, configurations
under which TLC checks them, and theorems about them that TLAPS proves.

`PROJECT.json` maps every definition to the lines it stands for, and lists the
runs, the mutants that show each property can fail, the hazards and the
theorems. This file is the guide: what LIVI consists of, what is modelled and
how, what was found, what is proved, and what is left.

To check a run: `tlc -config <run>.cfg <module>`; to check the proofs of a
module: `tlapm <module>.tla`.

| module | what it is | source |
|---|---|---|
| `Sessions` | the core's table of sessions | projection.rs, projection/{sessions,cp,aa,audio}.rs |
| `MCSessions` | small sets of phones and sessions for it | |
| `SessionsProofs` | its types, one session in front and streaming, media at its level, entries and sessions | |
| `Screens` | what is in front on the main screen, between core and UI | projection/screens.rs, livi-ui/src/lib.rs, server.rs |
| `MCScreens`, `ScreensProofs` | instance and proofs | |
| `CpManager` | the CarPlay manager | livi-cp/src/manager.rs |
| `CpHandover` | the manager and the core's table with the two queues between them, over `Sessions` | livi-core/src/projection/cp.rs |
| `MCCpHandover` | instance | |
| `CpHandoverProofs` | who leaves for the cable; the composition implements `Sessions`; ends are told; the two agree at rest | |
| `CableStart` | the timers that bring a phone over to its cable, and the helper's side | manager.rs, livi-helper/src/wired.rs, livi-runtime/src/bringup.rs |
| `CableStartProofs` | one reset at most, starts only for a phone that is to come over | |
| `AaSession` | one Android Auto session: protocol, driver and bridge | livi-aa-stack/src/{protocol,driver,bridge}.rs |
| `MCAaSession`, `AaSessionProofs` | instance and proofs | |
| `Settings` | a setting from a client to disk, projection and helper | server.rs, config_file.rs, hub.rs, projection/state.rs, helper.rs |
| `MCSettings`, `SettingsProofs` | instance and proofs | |
| `DayNight` | day and night, from user, sun and car to every phone | telemetry.rs, sun_schedule.rs, projection/state.rs, cp_telemetry.rs, aa_telemetry.rs, carplay.rs, both managers |
| `MCDayNight`, `DayNightProofs` | instance and proofs | |
| `Iap2Link` | the iAP2 link engine and the phone at the other end | iap2-link/src/lib.rs, livi-runtime/src/driver.rs |
| `MCIap2Link`, `Iap2LinkProofs` | instance and proofs | |

## 1. Inventory

LIVI is a set of processes written in Rust (`native/crates`): the **core**, the
**UI**, a GStreamer **host**, a **compositor**, a root **helper** for Bluetooth,
Wi-Fi and USB, and, for phones that connect through a LIVI Link dongle, the
daemons of the dongle's **firmware**. They talk over Unix sockets, one message
per line. Inside a process, tasks own their state and talk over unbounded
channels; there is hardly any shared memory.

### The core (`livi-core`)

| part | state it keeps | operations | talks to |
|---|---|---|---|
| session table (`projection.rs`, `projection/sessions.rs`, `cp.rs`, `aa.rs`, `audio.rs`) | entries (link, transport, identifiers, active, codec, duck), who owns the video, the duck level, who waits for a goodbye | upsert, presence, video_up, close_by_link, close_on_transport, activate, activate_next, select/forget device, goodbye, duck | events of both managers in, `CpCmd`/`AaCmd` out; publishes to the hub |
| main screen (`projection/screens.rs`) | what the UI wants, the last request, the attention of a call or Siri, the camera | asked, attend, host_ui, camera_follows, front_main | the UI through hub and server |
| settings (`projection/state.rs`, `hub.rs`, `config_file.rs`) | current and applied settings, the file and its mirror | save, apply, apply when idle | helper restart, managers |
| devices (`devices.rs`) | known phones and their identifiers, the file | learn, list, forget, page over Bluetooth | session table, helper |
| server, hub (`server.rs`, `hub.rs`) | the published state, its generations, the clients | update, patch, snapshot, act | UI |
| services, children (`services.rs`, `child.rs`) | processes the core starts | start, restart, stop | compositor, host, helper |
| updates (`update.rs`, `os_update.rs`) | steps of a download or installation | check, download, verify, install | network, systemd |
| helper client, network, dongle (`helper.rs`, `network.rs`, `dongle.rs`, `hands_free.rs`) | the connection to the helper, call and link state | commands, events, reconnect | helper |
| telemetry, sun schedule (`telemetry.rs`, `sun_schedule.rs`) | the values of the car, the mode and theme it has followed; the last look of the sun | push, appearance, dark_mode, dark_from, save; evaluate | hub, config, projection, programs of the car |
| radio, GNSS, car bridge | tuner, position | conversions and loops | hardware |

### The projection managers

| part | state it keeps | operations | talks to |
|---|---|---|---|
| CarPlay manager (`livi-cp/src/manager.rs`) | sessions and their identifiers, devices the helper named early (8 at most), cables, timers that start a cable session again | accept, DeviceInfo, Active, supersede, close, helper events, ticks | core, helper, one stack per session |
| CarPlay stack (`livi-cp`) | the RTSP session, its streams | SETUP, RECORD, TEARDOWN, events | phone |
| Android Auto manager (`livi-aa-stack`) | sessions, the wireless peer of each, phones that wait | accept, supersede by address, close, watch | core, one driver per session |
| media planes and compositor client (`livi-media`) | planes, claims of windows with a time limit | claim, grant, unclaim, reconnect | compositor |

### The helper (`livi-helper`, `livi-helperd`, `livi-runtime`)

Brings Bluetooth, the access point and USB up and down, runs the iAP2 link to
an iPhone, and reports phones to the core. **iAP2 link** (`iap2-link`): state
of the handshake, parameters, sequence numbers of both directions, packets sent
but not acknowledged, packets waiting for the window, packets ahead of their
turn, four deadlines; operations feed, send, advance_time; driven by the pump in
`livi-runtime/src/driver.rs`. Above it: control sessions (`iap2-csm`), the MFi
exchange (`iap2-mfi`), file transfer; beside it `iap2-usbmux` and `iap2-wired`.
`livi-bt-host` is a Bluetooth host of its own for platforms without BlueZ: HCI
with command credits, L2CAP, RFCOMM with credits, SDP.

### UI, displays, firmware

`livi-ui` shows what the core publishes and reports the page it shows; the
compositor maps windows onto displays; `livi-gst-host` and `livi-video` decode
and fan out video. `livid`, `livi-wifid`, `livi-accessoryd` and `livi-btd` are
the dongle's daemons; `livi-link-provision` installs them.

### What is hard here

- **Two sessions of one phone.** A phone that is plugged in runs a wireless and
  a wired session for a while. They are matched by identifiers each learns at
  its own time, by tasks that do not wait for each other.
- **Someone must be in front.** Exactly one session streams and sets the level
  of media, through connects, ends, take-overs and switches in any order.
- **Two sides that follow each other.** UI and core each change in answer to the
  other; their messages cross, and requests replace each other on the way.
- **Overlapping causes.** A call, Siri, the camera and the user each bring
  something to the front, and what ends last decides what is shown.
- **A link over a medium that damages frames**, with numbers that wrap at 256,
  one timer for all packets, and a peer that repeats what it thinks was lost.
- **Timers and late ticks.** A timer that is replaced may have its tick in the
  channel already; a report of a start may be read after the session it started.
- **An end from all sides.** Phone, helper, manager, pings and watchdog each end
  a session, also while it says goodbye.
- **A value with three writers.** User, sun and car set the look, each on a way of
  its own, and the task in the middle follows the config it writes to.
- **Crashes and restarts**: of the helper, the core, the power, between any two
  steps of saving a setting that several clients change.

`hazards` in `PROJECT.json` lists these at the lines where they bite: those with
properties are checked, a note says why no property covers one or how far it does.

### What makes each part correct

| part | properties |
|---|---|
| session table | at most one in front, one when any is connected; only its link streams; media at its level; no entry outlives its session; every announced session is listed; a removed device ends |
| main screen | the published front is the one the state calls for; no attention without a cause; UI and core agree when at rest, and come to rest |
| iAP2 link | nothing given is lost; delivered in order; acknowledged only if delivered; the window is kept; a lost packet is always repeated; what is given arrives or the link dies; it dies only when disturbed |
| CarPlay manager | what manager and core do together is what the table promises alone; once everything is read they agree, with one session per phone; who leaves for the cable is on it; starts only for a phone that is to come over, one reset at most |
| Android Auto session | comes up or ends; ends when asked and when the phone goes; "gone" is the last word, after picture and microphone were taken back; the picture follows who wants it |
| day and night | all phones, the cluster and LIVI end with one look, that of the mode; what the user chose holds; nobody chases anybody |
| settings | no patch is lost or undone, through interleavings, crashes and a lost file; nothing changes under a phone unasked; what is set goes live, and the helper runs with it |

## 2. What is modelled

### Sessions

`Sessions` is the core's `Projection` as far as it decides between sessions.
The vector of entries is a function from growing indexes to entries, so "the
first entry that" of the code is the one of least index. A method of the code
is an operator from a table `t` to a table; `T` is the table of the state, and
`Becomes(t)` makes `t` the next one, so a handler is one action however many
methods it calls:

| code | model |
|---|---|
| `Entry`, `Ids`, `Link`, `Transport` | `Entry`, `Ids` (pairs of a phone and a kind of identifier), `Links`, `Transport` |
| `upsert` with its stolen-wired check, search by link then identity, merge or push | `StealsWired`, `Found`, `EntryFor`, `Update`, `Push`, `Upsert`, `Connect` |
| `presence` of a CarPlay session, with the take-over of another link's entry | `TakeOver`, `Presence`, `CpPresence`, `CpActive` |
| `activate`, `auto_activate`, `activate_next`, `on_active_changed`, `changed` | `Activate`, `AutoActivate`, `ActivateNext`, `DuckOf`, `Changed` |
| `close_by_link`, `close_on_transport` | `CloseByLink`, `CloseOnTransport`; `Disconnected`, `TransportGone` |
| events `Connected`, `Device`, `VideoCodec`, `Duck` | `CpConnected`, `AaDevice`, `AaConnected`, `VideoCodec`, `Ducks` |
| commands of the user | `NextDevice`, `SelectDevice`, `ForgetDevice`, `ForgetGraceOver`, `Goodbye` |

`streams` is the set of links whose last `VideoActive` was true and `closing`
those told `Close` or `PowerDown`: together they are what the managers were
told. `life` is how far a link's manager has come with its events; the order of
a session's events is the manager's, everything else interleaves freely.

News of a session may come after the core told it to close: the `Close` waits in
the manager's queue meanwhile. One case breaks the table, and the code does not
exclude it: the `Connected` of a CarPlay session that is read when another
session of the phone took its entry. `Outrun` names the sessions that meet it (in
any run, those that did); a session is `Clear` when its phone has none, and
`NoGhosts`, `AnnouncedIsListed` and `DuckFollowsFront` speak of clear sessions, in
tables where other phones' sessions may be outrun. In `Sessions.cfg` nobody is;
`CpHandover`, which instantiates `Sessions` with every CarPlay session in `Outrun`,
has the manager that lets it happen, and `cp_ghost` shows what follows.

### Screens

The core's side is `wants`, `asked`, `attention` and the camera; `FrontMain` is
`front_main`, `Publish` the hub's update, which sends a patch only when the
front changed. The way from the UI to the core has two parts: the socket
(`toCore`, in order) and a watch channel (`watch`, `dirty`) that keeps the last
request only; `Relay` is the server between them and `Asked` the core's turn.
The way back is the sequence of patches `toUi`. `UiFollows` is the UI's `apply`
and `reported`: a page shown because of a patch is reported like one the user
chose. `Event` bounds what happens from outside (`MaxHasty`, `MaxPatient`); in a
`patient` run it happens only when UI and core are at rest.

### Iap2Link

The engine is one record `e`; a handler takes an engine and returns the engine
after it, the frames it writes and the packets it delivers, in order (`Ret`,
`Write`, `Then`), so `ProcessFrame` composes `HandleSyn`, `HandleAck`,
`HandleEak`, `HandleData` and the cumulative ack in the order of
`process_frame`. Loops of the code are stated by their result: `Acknowledge`
drops the packets up to the first one that is still ahead of the ack, `Room` is
how many queued packets the loop of `handle_ack` sends, `Deliver` sorts what is
held by distance (`Sorted`, as stable as `sort_by_key`) and hands over what
stands before the first gap; `delivered` is the sequence of all messages handed
over. `Keep` picks the elements of a sequence by their indexes (a `SelectSeq`
that a proof can use). Numbers are modulo 256 and wrap in the runs
(`FirstPsn = 254`).

Time is abstract. A deadline that is set may pass at any time, but when an
answer is still on its way that costs one of `MaxFaults`, like a damaged frame,
an end of the connection or a reset: with no faults left, timeouts are long
enough for answers to arrive. `due` keeps the order in which the timeouts of
the unacknowledged packets pass, `resend` and `delayed` are the two deadlines
that are armed and cleared, and the two of the handshake follow from the state.
Frames are whole: the transports are sockets and serial links that keep the
order, and what is damaged is dropped by a checksum. `Becomes` is the pump: when
the engine died it returns without writing.

The phone is outside the repository. It answers a SYN with its own, in one frame
with the ack or in two, accepts packets in order and drops those ahead, may ask
for what it misses, repeats what is not acknowledged, and never has more than
its window on the way.

Left out: `writable` events (nothing reads them), session ids and the split into
control, EA and file transfer, `max_outgoing_delta` (0 in every configuration of
the program), resynchronisation after garbage, frames that combine RST with
other bits. `OwnLsp` are the parameters of the wireless links before the phone
sends its own; a phone that asks for no acks at all is handled by the handlers
but is not among the instances checked.

### CpManager and CpHandover

`CpManager` is the manager's `run` loop: its map of sessions is `alive`, with
the number each got in `born` because the code looks for the session of least
number; what a session knows of its phone is a set of facets. Each arm of the
loop is an action: a connection (`Spawn`), the stack's `DeviceInfo`, `Active`,
`MainScreenReady`, `Closed`, the helper's `Device`, `WiredStart`, `DeviceGone`,
`LeftWifi`, `LinkDown`, `Metadata`, the core's `Close` and `DropSessions`.
`close` and `supersede` may close several sessions at once, one `disconnected`
for each, in any order (the code walks a hash map): `CloseAll` with `Orders`.
`pending` is the list of phones named early; `Crowded` is its ninth entry
pushing out the first, which may happen at any time, as other phones may fill it.

`CpHandover` puts `Sessions` at the other end of the queue `events`
(INSTANCE ... WITH `Outrun` all CarPlay sessions and `life` replaced by `heard`,
how far the core has heard of a session) and the core's `Close` into `closing`,
read by the manager when it comes to it. The arms of `Projection::on_event` are `Presence`,
`BecomesActive`, `Connected`, `Disconnected`, `HelperPresence`. So `Sessions` is
the abstract specification of the composition: `RefinesSessions`.

### CableStart

One phone and its cable: the manager's two timers (`start_again` every few
seconds until the phone came over, `await_session` with its USB reset), the
helper's task per cable and the requests between them. A timer is a task that
sleeps and then sends, so aborting it stops a sleeper but no tick already sent,
and dropping its handle stops nothing: `toCable`, `loose`, `ticks` are the three
places a start timer can be, and the reset timer has the same three. Timers fire
at any time. `starts` and `resets` count what was asked for since the session of
the air made room.

### AaSession

The driver is one task; one turn of its `select!` is one step. The record `aa`
is the driver's `Phone` with its `Session`, `Turn` the end of the loop's body
that every arm shares. Messages carry only what the state depends on. `said` is
what the manager hears, `main` and `cluster` what the phone was told last about
who has the picture; `granted` marks the answer to the phone's own request for
the cluster, which the code answers with the picture without asking whether
anybody wants it (channels/video.rs:80). Timers due at the same moment are turns
one after the other, and a phone asks for the services once. The driver's
command queue stays open: its end does what `Close` does.

### Settings

Clients that change settings are tasks of the server: `Ask`, `Begin` (the lock
and the merge), `WriteFile`, `WriteMirror`, `Publish`, with a failed write and a
crash possible between any two. `disk` has the file and its mirror, each with a
config or none. The projection sees changes through a watch channel (`news`),
waits until they sit still (`due`) and applies them when no phone is there; the
supervisor of the helper is told through a `Notify` (`permit`) after it applied
(`busy` is the moment between). `patient` runs are those in which a change waits
until the last one was seen. `acked` is what clients were told, whatever is on
disk; `behind` marks that the file was written and the mirror after it was not.
A lost file takes `acked` back to the mirror's settings only then, so a mirror
that was not kept up is noticed at the next start. A rename is taken to reach
the disk after the data it renames; a file system that does otherwise is the
hazard at config_file.rs:67.

### DayNight

Each task that passes a look on is an action of its own. A watcher of the hub
sees the latest state only (`news` has those that have not looked since);
`patches`, `cpCmds` and `aaCmds` are queues. The telemetry task awaits within a
turn: `task.next` is the theme it read and has not come to, `owed` one it has
published and not compared with the config, `saving` one it is about to save.
Sun and car share nothing but that task; which of its channels it reads first is
open, as in the code. Of the config there are mode and theme, of the telemetry
the three looks; place, clock and elevation are `sun` and `sure`, a trust that
is never withdrawn. What CarPlay is told with any change of a setting appears
with the changes of mode and theme. The session of an iPhone takes a command when
the manager passes it on, and what it sends the phone before RECORD is sent again
then (control.rs:94), so a session is its last look.

How closely things may follow each other is the `manner` of a scene. `patient`:
user, sun and car do something only once nothing is on its way, and the car is
silent in a fixed mode, for which the README of LIVI leaves it no part; phones
come and go at any time. `hasty`: anything at any time. Patient scenes keep what
that README promises; of hasty ones it is less (section 4), and `ThemesAgree`
and `Settles` are about both.

## 3. The runs

| run | shows | instance | distinct states |
|---|---|---|---|
| `sessions` | an iPhone between air and cable beside an Android phone; an Android phone with two wireless sessions and a wired one | two scenes of 3 links | 1,129,490 |
| `forget_handover` | violation, see 4 | 2 links of 1 phone | |
| `screens` | the front is always published, attention has a cause; UI and core come to rest and agree | 2 phones; 6 events in any timing, 9 one at a time | 510,940 |
| `screens_echo` | violation | 4 events | |
| `cp_handover` | manager and table with both queues | 3 sessions of 1 phone, 2 of them used, 2 news behind | 1,371,379 |
| `cp_ghost` | violation | the same | |
| `cable_start` | starts and resets of a phone on its cable | 2 tries, 2 sessions of the air, plugged in twice | 307,894 |
| `iap2_link` | all of the link's properties | window 2, 5 messages out, 2 in, 1 fault | 367,441 |
| `iap2_overtakes` | violation | window 2, 5 messages out, no fault | |
| `settings` | two clients, a phone, a crash, a file lost whose mirror must have what was written last, a helper that exits | 2 settings of 2 values, 2 changes, 2 visits | 1,690,564 |
| `aa_session` | a session from its first message to its end | 4 repeated messages of the phone, 2 commands | 537,093 |
| `daynight` | all end with the look of the mode; themes agree and come to rest | an iPhone and an Android phone, one visit of either beside two writers of the look; all four writers; two toggles or one and the sun in any timing, with a save that fails | 630,913 |

Bounds, and why they suffice to make the interesting cases happen:

- *Sessions.* Two links of one phone are the least for a handover, a third link
  of another phone the least for somebody else to come to the front meanwhile; a
  third link of the same phone the least for a reconnect during a handover. News
  late by a `Close` come from all of them.
  Links are used once, as session ids are; `Scenes` is the choice of links of a
  run. `Forgettable` has the sessions whose device the user may
  remove.
- *Screens.* Two phones can take the front from each other; counterexamples
  found need two to six events, the run allows six and nine. Channels are not
  bounded otherwise.
- *CpHandover.* Two sessions of one phone are a handover in either direction or
  a session beside the one early metadata opens; each choice of two among the
  three happens. Two news are enough for one to be overtaken by a take-over.
- *CableStart.* The last try differs from the others, so two; a second plugging
  meets what the first one left in the channels.
- *Iap2Link.* Five messages against a window of two make the queue fill, drain
  and fill again; two incoming messages make one wait for the other, and the
  numbers wrap between them. `Cap` bounds what is under way: a side waits with
  three frames on their way. One fault is enough for each single disturbance
  and its recovery in every position.
- *Settings.* Two clients that change two settings at once, one crash at each
  step of either, a visit during the change and one after it, and one exit more
  than the supervisor forgives.
- *AaSession.* What a phone does in any case once (ready, discovery, first
  frame, goodbye, leaving) is not bounded; four more messages allow both
  pictures, the microphone and a request of focus, two commands a key frame or
  cluster switch and a close.
- *DayNight.* One change of each source in every order makes each writer meet
  what another one left; a visit falls between any two steps of two of them, the
  least that leave a record of an older look behind. Two toggles are the least
  that can take each other back, one and the sun the least that cross. The car's
  patch has all three looks, the cluster's apart from the rest; `keep` comes with
  the patches of mode and theme.

Deadlock is checked in `DayNight`, whose schedule ticks for ever. It is not
elsewhere: each of these systems may rest (no phone connected,
events used up, the link dead or idle, the session over), so a state without a
successor is no error.

### Fairness

`Sessions` states safety only. In `Screens` the messages of the socket arrive
and the core's loop, a `tokio::select!` that picks among its ready channels at
random, takes each of its turns eventually: weak fairness of `UiFollows`,
`Relay` and `Asked`; nothing is assumed of phones, user and camera. In
`Iap2Link` the pump reads what arrives and its timers pass: weak fairness of
reading and of the deadlines, strong fairness of `ExpectAckTimer`, because the
deadline is a fixed point in time and clearing it for another packet does not
start the wait again; and a phone that answers and repeats. Messages of the
application are not assumed. The fairness of reading is stated on the action
`Reads`, which of the steps of `Next` describes those of `Take`: TLC evaluates
whether an action is enabled, and `Take` runs the engine for that.

In `CableStart` the timer of the next start runs out and the manager reads its
ticks (weak fairness of `TimerFires` and `StartTick`); phone, cable, helper and
the reset's timer are free. In `Settings` the core gets its services up once it
started, the projection's turns, the quiet time, the supervisor's steps and the
patches under way go on (weak fairness of each); starting the process, clients,
phones, crashes and exits are free. In
`AaSession` only time passes: pings, watchdog and the goodbye's timer (weak
fairness of each, they stay due until the driver's loop takes them); nothing is
assumed of the phone, the helper or the manager. `CpHandover` states safety only.

In `DayNight` each task goes on (weak fairness of its steps). The telemetry task
picks at random among its channels and the hub, so each of them is served in the
end although another one may be ready again and again: strong fairness of
`TakePatch` and `Appearance`. Nothing is assumed of user, sun, car and phones.

## 4. Where the code does something else

Each finding is a run that TLC ends with a counterexample; `PROJECT.json` quotes
the line of the documentation or of the test it disagrees with.

- **A removed device may stay connected** (`forget_handover`, sessions.rs:285).
  The link to close is read before the grace time of 1.5 s and used after it; a
  phone that moves to the cable in between keeps its session.
- **UI and core may chase each other** (`screens_echo`, livi-ui lib.rs:243). Two
  choices in quick succession, and each side follows the other's last but one
  word for ever.
- **An entry without a phone** (`cp_ghost`, projection/cp.rs:211). Presence and
  `Connected` of the session of the air that are read after the session of the
  cable took its entry push a second entry and move the first one back; both
  have the same link, its end removes one of them, and the user can switch to
  what is left. A later session of the phone on the cable takes the ghost over, so
  entries of ended sessions do not go by themselves; what the core can rely on is
  that it is told of every end, after all else of the session (`EndsAreTold`).
- **A message overtakes those that wait** (`iap2_overtakes`, iap2-link lib.rs:502
  and 600). The guard of `send_packet` allows one packet more than the loop of
  `handle_ack`; at that boundary a new message is sent before the queued ones.

Seen while modelling, in code the modules have, without a run of their own:

- The end of Siri hides a call (screens.rs:80): attention has one slot, and Siri
  used during a call overwrites the call's.
- A call of a phone that is not in front brings the projection forward
  (audio.rs:70): the helper's call audio is not compared with it, against the
  test "only_the_phone_in_front_moves_the_screen".
- A packet the phone repeats while an earlier one is missing is held twice and
  delivered twice (iap2-link lib.rs:688): the loop that hands held packets over
  does not stop at a distance of 0. The copies come one after the other, which is
  what `InOrder` says of them. It takes two faults, one more than the run has: a
  lost packet and a repeat of one that arrived; the theorem is about any number.
- With a window of 124 packets or more a stale repeat may be taken for a packet
  ahead (iap2-link lib.rs:659): its distance modulo 256 is no longer above
  `max_outgoing + 10`. It would be held, and delivered when its number comes round
  again. The theorems about what the engine receives exclude such windows (`NarrowWindow`).
- With `max_outgoing` and `max_ack` above 245 together an ack may keep packets it
  covers (iap2-link lib.rs:589): those far behind it seem close ahead. The theorems
  about what the engine sends exclude these parameters (`ShortWindow`).
- With `max_retransmissions` 0 nothing is kept and each send counts as
  acknowledged (lib.rs:518), so the window bounds nothing; `Kept` and
  `WindowBound` are about the other parameters.
- A report of a start read after the phone came over arms the reset, which cuts
  the running session 8 s later (manager.rs:599). `ResetOnce` allows it.
- A setting changed between the start of the hub and that of the projection waits
  for the next one (projection.rs:637): the two take their baselines at different
  times, a change in between is pending for nobody, and the helper keeps the old
  value. `GoesLive` is about changes that are seen.
- A fixed look moves (telemetry.rs:428): a patch of the sun that waits while the
  user fixes the mode is merged after the mode was followed, and stands.
- A toggle is taken back (telemetry.rs:307): the first of two quick toggles is
  compared with the config after the second, and saved over it.
- An iPhone keeps the other look (projection/state.rs:109): a fixed mode reaches
  CarPlay sessions with every change of the config, without the record of what
  was sent; after a light sensor's push in that mode the record holds back the
  look of the sun. `ModeRules` and `AgreeAtRest` are about patient runs, which
  have none of these three.
- An audio output opened in the second after a session's media were released
  asks for feeds again, which nothing removes (driver.rs:431).

## 5. What is proved

For all phones, links, frames, windows and numbers of events:

| theorem | states | argument |
|---|---|---|
| `SessionsProofs!TypeCorrect`, `AlwaysOneInFront`, `AlwaysOnlyTheFrontStreams` | `[]TypeOK`, `[]OneInFront`, `[]OnlyTheFrontStreams` | `IInv` |
| `SessionsProofs!AlwaysNoGhosts`, `AlwaysAnnouncedIsListed`, `AlwaysDuckFollowsFront` | `[]NoGhosts`, `[]AnnouncedIsListed`, `[]DuckFollowsFront`, of clear sessions, whichever are outrun; with one kind per phone and one session per cable | `JInv` |
| `ScreensProofs!TypeCorrect`, `AlwaysShownIsFrontMain`, `AlwaysAttentionHasCause` | `[]TypeOK`, `[]ShownIsFrontMain`, `[]AttentionHasCause` | `IInv` |
| `ScreensProofs!AlwaysAgreeAtRest` | `[]AgreeAtRest` | `OneAtATime` |
| `CpHandoverProofs!AlwaysLeavingIsOnCable` | `[]LeavingIsOnCable` | `IInv` |
| `CpHandoverProofs!ManagerRefinesSessions`, `ManagerImplementsSessions` | `Spec => RefinesSessions`, `Spec => S!Spec` | `QInv` |
| `CpHandoverProofs!AlwaysEndsAreTold` | `[]EndsAreTold` | `QInv` |
| `CpHandoverProofs!AlwaysAgreeAtRest`, `TypeCorrect` | `[]AgreeAtRest`, `[]TypeOK` | `QInv`, `RowsOK`, `Places` |
| `CableStartProofs!TypeCorrect`, `AlwaysResetOnce`, `AlwaysStartsOnlyForLeft` | `[]TypeOK`, `[]ResetOnce`, the action property `StartsOnlyForLeft` | `IInv` |
| `SettingsProofs!TypeCorrect`, `AlwaysKept`, `AlwaysHelperFollows`, `AlwaysWakesUp`, `NeverUnderPhone` | `[]TypeOK`, `[]Kept`, `[]HelperFollows`, `[]WakesUp`, the action property `NotUnderPhone` | `IInv` |
| `AaSessionProofs!TypeCorrect`, `SaysGoneLast`, `PictureCorrect` | `[]TypeOK`, `[]LastWord`, `[]PictureFollows` | `IInv` |
| `DayNightProofs!ThemesAgreeAlways` | `[]ThemesAgree` | `IInv` |
| `DayNightProofs!ModeRulesAlways` | `[]ModeRules` | `IInv`, `RInv` |
| `DayNightProofs!AgreeAtRestAlways` | `[]AgreeAtRest` | `TInv` |
| `Iap2LinkProofs!AlwaysWatched` | `[]Watched` | `Sound(e)` |
| `Iap2LinkProofs!TypeCorrect` | `[]TypeOK` | `TInv` |
| `Iap2LinkProofs!AlwaysAckedIsDelivered`, `AlwaysInOrder` | `[]AckedIsDelivered`, `[]InOrder`, both for windows of at most 123 packets | `RInv` |
| `Iap2LinkProofs!AlwaysKept`, `AlwaysWindowBound` | `[]Kept`, `[]WindowBound`, both for `max_outgoing + max_ack <= 245` | `SInv` |
| `Iap2LinkProofs!AlwaysUndisturbed` | `[]Undisturbed`, for `max_outgoing + max_ack <= 245` | `UInv` |

*Sessions.* That one session is in front is not inductive alone: a push could
land on an existing index, a handler could find two active entries halfway, and
the video's owner could be out of date. `Pre` is what every method may assume
even in the middle of a handler: the table is well typed, indexes lie below the
counter, at most one entry is active, and the links that stream are the owner's.
`Good` adds that the owner is the link in front, `Full` that some entry is in
front when any exists. A lemma per method says which of the three it needs and
which it restores (closing a session goes through `Pre` only, as the code
removes the entry before it picks the next); each action then follows from the
lemmas of the methods it calls. `IInv` is `Full(T)` with the types of the rest.
The least index of a set exists by well-foundedness of `<` on the naturals. The
proof assumes only that the two managers' links are different and that no link
is called like "no link", and holds with late news too.

How entries and sessions belong together is a second invariant, `JInv`. `Linked`
says that a link has one entry and a CarPlay phone one; that an Android phone's
entry on the cable stands before its others, which is why presence and
`Connected` of the wired session find it first; that an entry knows enough of
its phone to be found again (`RowOK`) and is of a session that runs; and that a
session heard of, and not told to close, has one, a wired Android one even after
it was told, as nobody takes its entry (`Owed`). All this is of clear sessions.
`Ducked` is that the level of media is the front's, when that is clear. Each
method of the code leads from a table that is `Linked` to one that is, for the
session whose news it reads; news late by a `Close` are among them. Of a session
that is not clear it is enough that its news touch the entries of its own phone
only (`Elsewhere`, `LinkedElsewhere`): an entry is found by link or by identifiers,
and both are a phone's own. `JInv` holds under what the code relies on without
saying so, the hypotheses of its theorems: no phone that speaks both CarPlay and
Android Auto (`KindsApart`), and one Android Auto session at a time on a phone's
cable (`[]OneCable`: a phone in accessory mode has one connection). The instances
of `sessions` have the first by their constants, and no scene has two wired
Android sessions of one phone. Nothing is assumed of `Outrun`: take those sessions
of a run that are outrun in it, and the theorems speak of all other phones.

*Screens.* `IInv` is the types with the two properties themselves. They need
each other: that a leaving phone's attention ends depends on who is in front.
`AttendInv` treats the four cases of `attend` once, for both of its callers.
`AgreeAtRest` is about patient runs, in which something new happens only when
nothing is on its way. `OneAtATime` says what can be on its way then: either one
patch that tells the UI what is shown (`Reported`) or one request of the page
shown, in the socket or in the watch channel (`UnderWay`), which the core has not
had yet. Neither causes more than the other, and so they end in agreement.

*CpHandover.* `LeavingIsOnCable` needs besides that sessions of the map have
numbers (`Known`), so that the session a handler picks as the oldest is one of
those that match (`LeastIsIn`, by well-foundedness of `<`). `EndsAreTold` and
`AgreeAtRest` rest on the queue's invariant below, and `AgreeAtRest` on what the
core's table keeps while it reads (`RowsOK`): its entries are of CarPlay sessions
(`Own`); each knows the Bluetooth address of its phone whenever it knows anything
else a session can be found by, and of a phone one entry has it (`Tidy`); a
session heard of has such an entry, or was told to close (`Listing`). So a phone's
presence leads to its one entry, whichever session tells it, and with the queue
empty that entry is the session that runs. `Places` is the rest of the types,
where the newest session is one of those looked among because numbers are bounded.

*The refinement.* The step the core takes on one piece of news must be a step
`Sessions` allows to a session in its `life`, here `heard`. That rests on what
may stand in the queue, however long: `QInv` says that news have their shapes
(`Types`); that the end of a session is told once, last, and only when it does
not run any more (`EndsLast`), and is told (`Ended`); that it is told connected
once, after its name (`ConnectsOnce`); that a session which knows its phone has
told the core (`Names`), and no other has (`Said`), and before it was active
(`NamesFirst`). Each handler of the manager
appends news that keep this, and reading removes the head. The manager's steps
change nothing `Sessions` sees. From `ManagerImplementsSessions` and the theorems
of `SessionsProofs` that hold of every session, clear or not, one entry in front
and only the front streaming are true of the composition.

*CableStart.* Ticks and tasks the manager does not hold may come at any time, so
the invariant is about what it holds: once the reset was spent no timer for
another is armed, and a phone that was reset has spent it (`Spent`); the map has
a timer of the next start for no phone but one that is to come over
(`HeldForLeft`).

*Settings.* `Kept` is not inductive: what a crash leaves depends on how far the
patch behind the lock has come. `OneMerged` says that there is one such patch,
made from the config in force; `OnDisk` that a start would load what clients were
told, or that patch once it is in the file; `OnMirror` that it would without the
file, too (`Bare`), once the mirror was written after it; `WhileDown` what a
dead core has not.
For `WakesUp` the projection must be one change behind at most in patient runs.
`NotUnderPhone` follows action by action.

*AaSession.* A turn is what the handler makes of the record and what the end of
the turn makes of that. `Mid` holds between the two, `Good` after both; a lemma
per method says what it keeps, and one that the end of the turn leads from `Mid`
to `Good` and touches neither the picture nor what was said. `Told` relates the
words said to the flags of the driver: with the microphone closed each word that
opened it was followed by one that closed it, and "gone" comes last. `Pictures`
adds what holds before the main picture: a cluster that is wanted and set up has
its request held until the first frame.

*DayNight.* Two themes can differ for as long as somebody has to act. `Owes`: the
telemetry's theme is the task's, or the one the task has published and not yet
compared. `Knows`: unless the hub has news for it, the task compares and saves
nothing, and its theme is the config's or it is about to go on with that. At rest
both together say that the two are one. A push wakes the task itself, which is
why `PushHolds` needs no more than that it owed nothing before; a save that
fails leaves that wake-up behind, too.

`ModeRules` is about patient scenes, and `RInv` has what is on its way in one: a
patch of the car is the only patch, not under a fixed mode, and its look sways
(`CarIsAlone`); under a fixed mode the telemetry has its look or the task has yet
to follow the config (`FixedIsNext`); the sun's last look is the telemetry's, or
the last in the queue (`SunIsLast`); what a hand chose nobody is about to save over
(`HandIsKept`). For
`AgreeAtRest`, `TInv` follows the look on to the phones: what a phone has, when
everything sent to it has arrived, is what the core last sent (`Ends` is a
property of the queue alone), and what the core sent is its telemetry, unless it
has news of that.

*Iap2Link.* `Sound(x)` says of an engine that it has its fields and that, in
Normal, unacknowledged packets mean an armed deadline. Each handler maps sound
engines to sound engines, whatever the frame; handlers compose (`ThenLast`), so
`ProcessFrame` and `Feed` do too, and every action either runs a handler or
leaves the engine alone. Nothing about the phone is used.

`TInv` is the type of everything, with what keeps it: the running timeouts are
those of the packets that wait for an ack (`Aligned`), so that the oldest of them
is found. Every handler returns an engine, frames and packets of the right kind
(`RetOK`) when it gets such an engine. The lemmas on `Keep` and `Nth` (what a
choice of indexes leaves, in which order) come first.

What is received is about positions, of which the bytes on the wire show eight
bits. `Receiving(r, lo)` says that the messages delivered are `1 .. r` in their
order, that the engine's `recv` stands for `r`, that the packets it holds are the phone's
and ahead of `r` (`Holds`), and what every frame on the way means: each is
stamped with the position of its receiver when it was written (`Stamped`, stamps
never go back in a channel). An ack of the engine names its stamp; data of the
phone is of the window that was open at its stamp. As stamps lie within a window
of what the reader expects now, a number of eight bits has one meaning: an ack
stands for one position (`SameNumber`), the distance of data is the true one
(`PhoneDistance`) or, for a repeat, beyond `max_outgoing + 10`. That last step
is what needs `NarrowWindow`. Handlers that neither receive nor deliver are
`Quiet`, and one lemma does for all of them (`QuietReceives`); a SYN and data
are the two cases left (`TakeReceives`). An engine that took the phone's ack but
not its SYN (`Unsynced`) acknowledges a number the phone never sent, so the
phone stays closed. What a handler hands over runs on from `r` (`RunsOn`: the
same message again or the next one, up to the new `r`), and `RunsOnConcat` joins
it to what was delivered: from that the two copies of a message stand side by
side and none is left out, which with the packets held ahead of `recv` is
`InOrder`. That sorting by distance does this rests on `Ranked` (the places of
`Sorted` are a bijection), `SortedParts` (what is sorted is what was held, in
rising distance) and `Rising` (without a gap the distances count up). The
phone's `acked` is at most `r`, which is `AckedIsDelivered`.

What is sent is the same from the other end, for an engine that keeps its packets
(`Retains`). `Numbered(e, a)` says that the phone has acknowledged the first `a`
messages sent and that those kept are the ones after them, in their order and
within the window and one; so the count of `send_packet`, a difference of bytes, is
their number (`InFlight`), which is `WindowBound`. `Hearing(a, lo)` says that what
the phone has heard of them begins the packets kept, that data on the way to it is
of the window open at its stamp and carries the message of its number
(`OutRule`), and that an ack on the way back names what the phone had heard when
it wrote it (`InRule`); and that what was given is owed or heard, which is `Kept`.
An ack then drops exactly the packets it covers (`RestAfter`), although it finds the
first to keep by a distance of 1 to `max_ack + 10` in eight bits: with
`max_outgoing + max_ack <= 245` (`ShortWindow`) no packet of the window that the ack
covers seems so close ahead of it. A handler `Advances` the ack from one number to another, keeps the
packets in between (`Carries`) and writes frames that obey the rule; handlers
compose (`AdvancesThen`), and acks, EAKs, timeouts, the queue and the handshake
each have a lemma. The phone takes data only if it is the next (`NextHeard`), and
that this number stands for one message is again that stamps lie within a window.

That a link nothing disturbs does not die is the theorem about both ends at once:
bailing out takes a packet repeated too often, and a deadline that passes is no
fault only when nothing is on its way and the phone owes nothing. So `UInv` adds to
`SInv`, as long as no fault is spent, that the link `Calms`. In its handshake the
channels hold one of five contents (`Greets`); once the phone has the engine's SYN
it `Talks`: the data on its way to the phone is numbered from what the phone has
heard up to what the engine has sent without a gap (`Consecutive`), no frame to
the engine asks for a reset or for packets by number (`Clean`), and, unless the
phone owes an ack, the last ack on its way, or the one that came, is of all the
phone has heard (`Settled`). When everything is quiet, both say that nothing waits
for an ack (`WhenQuiet`), so the deadline that passes repeats nothing
(`TimersCalm`). Every handler must write data in its order (`Orderly`), which is
the part of the handlers this needs beyond `SInv`.

The proofs assume what the modules' `ASSUME`s say of their constants: that the
managers' links are different, that no phone or link is called like "none", that
defaults are values and that bounds are numbers. Three theorems of
`SessionsProofs` and the five of `Iap2LinkProofs` that need a window narrower than
a byte allows have the hypotheses above in their statements; no other has any. The
engine's own parameters, and those of the tests, satisfy both.

Only proved, and not checked by TLC too: `TypeOK` of `Sessions`, `Screens`,
`Settings` and `AaSession`.

Only checked by TLC: liveness (`Settles` of two modules, `Arrives`, `LeftHearsStart`, `GoesLive`,
`SetsUp`, `CloseEnds`, `AwayEnds`), which is out of the prover's reach, as are
facts by induction over sequences of any length.

## 6. What is left

In the order of what it would add:

1. The Android Auto manager: supersede by address and the phones that wait,
   composed with `AaSession` and `Sessions` as `CpHandover` does for CarPlay; the
   codec of the session that survives a reconnect; the media feeds.
2. An abstract stream in each direction of the iAP2 link, with the engine as its
   refinement where the findings do not break it; proofs of what is checked there.
3. The composition of `CableStart` with `CpManager`.
4. The compositor client: claims, timeouts and reconnects, and the planes that
   follow the session in front and the cluster.
5. The helper's bring-up of Bluetooth and the access point, and the credits of
   the Bluetooth host; the dongle's watcher; the steps of an update.

## 7. Not modelled

Listed with their reasons in `PROJECT.json`: rendering, layout and the
compositor's Wayland side; GStreamer pipelines; audio mixing; radio signal
processing; wire formats, cryptography and authentication, whose messages appear
as the events they cause; conversions of telemetry other than day and night; image formats of firmware;
build files, scripts and assets. They compute rather than decide, or the
behaviour lies in a library. Components marked as left for lack of room do decide
something and come next (section 6). Within the modelled parts: now playing, navigation,
the cluster, volumes and telemetry change no session; IP addresses are not among
the identifiers of `Sessions`; `Screens` has one UI that stays connected and no
second display; `CpManager` takes the phone's RTSP session as the events it
causes and leaves media, input and vehicle state out; `AaSession` leaves out
audio, sensors, metadata and the media sinks, and takes the helper's process as
what its control messages say; `Settings` has patches that fit, and one helper;
`DayNight` leaves the place and the elevation to the sun, and has no restart.
