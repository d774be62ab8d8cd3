---------------------------- MODULE FirmwareUpdate ----------------------------
(***************************************************************************)
(* Firmware updates of the device: the OTA worker (adapters/ota.rs), its   *)
(* reservation (update/progress.rs), the restart handoff (restart.rs), the *)
(* confirmation of a booted slot (boot_health.rs) and the loop of main.rs  *)
(* that updates and rejoins by itself, over two flash slots.               *)
(*                                                                         *)
(* HTTP handlers and the loop's own requests hold the control lock, so     *)
(* each is one step; the worker does not hold it and may be at any step    *)
(* when a request comes.  The device may lose power at any moment.         *)
(*                                                                         *)
(* What ESP-IDF's bootloader and OTA functions do is modelled from how the *)
(* source uses them: otadata names a slot and keeps a state for each, an   *)
(* update is refused while the running slot is unconfirmed, erases the     *)
(* other slot when it begins and selects it when its signature verifies,   *)
(* and an unconfirmed slot is given up by the reset after it was booted.   *)
(***************************************************************************)
EXTENDS Naturals

CONSTANTS
  Images,       \* firmware images
  Signed,       \* those signed with the device's key
  Sound,        \* those that serve the management routes when they run
  Factory,      \* the image the device was flashed with
  Workers,      \* pool of OTA tasks
  Damaged,      \* the content of a slot that is not a complete image
  None

ASSUME FirmwareAssumption ==
  /\ Signed \subseteq Images /\ Sound \subseteq Images /\ Factory \in Sound
  /\ Damaged \notin Images /\ None \notin Images \cup {"request", "auto"}

Slots == {0, 1}
Other(s) == 1 - s

VARIABLES
  flash,        \* content and otadata state of each slot
  selected,     \* the slot otadata names
  running,      \* the slot of the running image
  boot,         \* how far the boot has come, and in which mode
  phase,        \* OtaProgress.phase
  worker,       \* the OTA tasks
  quiesce,      \* StreamStatus.transport_quiesce
  restart       \* who requested the pending restart, None if none is

vars == <<flash, selected, running, boot, phase, worker, quiesce, restart>>

Phases == {"idle", "checking", "up-to-date", "downloading", "verifying",
           "installed", "failed", "update-available"}
BusyPhases == {"checking", "downloading", "verifying", "installed"}
Busy == phase \in BusyPhases

NoWorker == [pc |-> "none", action |-> "check", image |-> None, outcome |-> "idle"]

Init ==
  /\ flash = [s \in Slots |-> IF s = 0 THEN [image |-> Factory, state |-> "valid"]
                              ELSE [image |-> Damaged, state |-> "none"]]
  /\ selected = 0 /\ running = 0
  /\ boot \in [stage : {"starting"}, mode : {"provisioned", "recovery"}]
  /\ phase = "idle"
  /\ worker = [w \in Workers |-> NoWorker]
  /\ quiesce = FALSE
  /\ restart = None

-----------------------------------------------------------------------------
(***************************************************************************)
(* Reset and boot.  The bootloader gives up a slot that was booted and not *)
(* confirmed, and boots the selected slot, or failing that another one.    *)
(***************************************************************************)
GivenUp(f) ==
  [s \in Slots |-> IF f[s].state = "pending" THEN [f[s] EXCEPT !.state = "aborted"]
                   ELSE f[s]]

Bootable(f, s) == f[s].image # Damaged /\ f[s].state \in {"new", "valid"}

Chosen(f, s) ==
  IF Bootable(f, s) THEN {s}
  ELSE IF Bootable(f, Other(s)) THEN {Other(s)}
  ELSE {t \in Slots : f[t].image # Damaged}

Booted(f, s) ==
  IF f[s].state = "new" THEN [f EXCEPT ![s].state = "pending"] ELSE f

Reset ==
  \E s \in Chosen(GivenUp(flash), selected), m \in {"provisioned", "recovery"} :
    /\ flash' = Booted(GivenUp(flash), s)
    /\ selected' = s /\ running' = s
    /\ boot' = [stage |-> "starting", mode |-> m]
    /\ phase' = "idle"
    /\ worker' = [w \in Workers |-> NoWorker]
    /\ quiesce' = FALSE
    /\ restart' = None

\* Anything but a pending restart of the firmware's own: power loss, a crash.
PowerLoss == Reset

\* http::start: the routes now answer with the device's state.
Publish ==
  /\ boot.stage = "starting"
  /\ boot' = [boot EXCEPT !.stage = IF boot.mode = "provisioned" THEN "probing"
                                    ELSE "ready"]
  /\ UNCHANGED <<flash, selected, running, phase, worker, quiesce, restart>>

Confirmed(f, s) ==
  IF f[s].state = "pending" THEN [f EXCEPT ![s].state = "valid"] ELSE f

NotProbed == TRUE
ProbesPass == flash[running].image \in Sound

\* After the probes of a provisioned boot.
Confirm ==
  /\ boot.stage = "probing" /\ ProbesPass
  /\ flash' = Confirmed(flash, running)
  /\ boot' = [boot EXCEPT !.stage = "ready"]
  /\ UNCHANGED <<selected, running, phase, worker, quiesce, restart>>

\* Startup or a probe fails; main restarts on the error.
StartupFails == boot.stage \in {"starting", "probing"} /\ Reset

-----------------------------------------------------------------------------
(***************************************************************************)
(* Requests, under the control lock.                                       *)
(***************************************************************************)
\* ContractServer: the routes wait for the state, and refuse a POST while the
\* device restarts.
Accepting == boot.stage # "starting" /\ restart = None

\* OtaProgress::start reserves the worker, then spawns its task, which may fail.
Reserve == ~Busy

Start(w, action, image) ==
  /\ Reserve
  /\ worker[w].pc = "none"
  /\ \/ /\ phase' = "checking"
        /\ worker' = [worker EXCEPT ![w] =
             [NoWorker EXCEPT !.pc = "pausing", !.action = action, !.image = image]]
     \/ phase' = "failed" /\ UNCHANGED worker
  /\ UNCHANGED <<flash, selected, running, boot, quiesce, restart>>

RequestOta(w) ==
  /\ Accepting
  /\ \/ Start(w, "check", None)
     \/ \E action \in {"latest", "custom"}, image \in Images :
          Start(w, action, image)

\* The loop of a provisioned device, when the schedule is due and audio idle.
AutoUpdate(w) ==
  /\ boot = [stage |-> "ready", mode |-> "provisioned"] /\ restart = None
  /\ \E image \in Images : Start(w, "latest", image)

\* valid_rollback_slot.
RollBackable(s) == flash[s].state = "valid"

\* Select the other slot, and restart.
RollBack ==
  /\ Accepting
  /\ RollBackable(Other(running))
  /\ flash' = [flash EXCEPT ![Other(running)].state = "new"]
  /\ selected' = Other(running)
  /\ restart' = "request"
  /\ UNCHANGED <<running, boot, phase, worker, quiesce>>

\* POST /api/restart and the settings that restart.
RequestRestart ==
  /\ Accepting
  /\ restart' = "request"
  /\ UNCHANGED <<flash, selected, running, boot, phase, worker, quiesce>>

\* Restart::request_when_idle.
WhenIdle == restart = None /\ ~Busy

\* Recovery reached the saved network again and its probes passed.
Rejoin ==
  /\ boot = [stage |-> "ready", mode |-> "recovery"]
  /\ ProbesPass /\ WhenIdle
  /\ flash' = Confirmed(flash, running)
  /\ restart' = "auto"
  /\ UNCHANGED <<selected, running, boot, phase, worker, quiesce>>

\* The restart worker, half a second after the request.
Restart == restart # None /\ Reset

-----------------------------------------------------------------------------
(***************************************************************************)
(* The OTA task.                                                           *)
(***************************************************************************)
Goto(w, pc) == worker' = [worker EXCEPT ![w].pc = pc]

\* The task has its outcome and still holds the pause, if it took one.
Ends(w, outcome) ==
  worker' = [worker EXCEPT ![w].pc = "releasing", ![w].outcome = outcome]

\* pause_transport; outside a provisioned boot there is no stream to pause.
Pause(w) ==
  /\ worker[w].pc = "pausing"
  /\ IF boot.mode = "provisioned"
     THEN quiesce' = TRUE /\ Goto(w, "waiting")
     ELSE quiesce' = quiesce /\ Goto(w, "working")
  /\ UNCHANGED <<flash, selected, running, boot, phase, restart>>

\* The sender closed its connection.
Paused(w) ==
  /\ worker[w].pc = "waiting"
  /\ Goto(w, "working")
  /\ UNCHANGED <<flash, selected, running, boot, phase, quiesce, restart>>

\* It did not in ten seconds: the guard is dropped, then the task fails.
TimesOutSilently(w) ==
  /\ worker[w].pc = "waiting"
  /\ quiesce' = FALSE
  /\ worker' = [worker EXCEPT ![w] = NoWorker]
  /\ UNCHANGED <<flash, selected, running, boot, phase, restart>>

PauseTimesOut(w) ==
  /\ worker[w].pc = "waiting"
  /\ Ends(w, "failed")
  /\ UNCHANGED <<flash, selected, running, boot, phase, quiesce, restart>>

\* The release check; a custom image only waits for the clock.
Check(w) ==
  /\ worker[w].pc = "working"
  /\ \/ /\ worker[w].action # "check"
        /\ Goto(w, "downloading") /\ phase' = "downloading"
     \/ /\ \E outcome \in {"failed"} \cup
              (IF worker[w].action = "custom" THEN {}
               ELSE {"up-to-date"} \cup
                    (IF worker[w].action = "check" THEN {"update-available"} ELSE {})) :
             Ends(w, outcome)
        /\ UNCHANGED phase
  /\ UNCHANGED <<flash, selected, running, boot, quiesce, restart>>

\* The download opens and the other slot is erased for it.
Erase(w) ==
  /\ worker[w].pc = "downloading"
  /\ \/ /\ flash[running].state # "pending"
        /\ flash' = [flash EXCEPT ![Other(running)] =
                      [image |-> Damaged, state |-> "none"]]
        /\ Goto(w, "writing")
     \/ Ends(w, "failed") /\ UNCHANGED flash
  /\ UNCHANGED <<selected, running, boot, phase, quiesce, restart>>

\* install_verified up to the last byte, whatever the server sent.
Receive(w) ==
  /\ worker[w].pc = "writing"
  /\ \/ \E image \in Images \cup {Damaged} :
          /\ flash' = [flash EXCEPT ![Other(running)].image = image]
          /\ Goto(w, "verifying") /\ phase' = "verifying"
     \/ Ends(w, "failed") /\ UNCHANGED <<flash, phase>>
  /\ UNCHANGED <<selected, running, boot, quiesce, restart>>

DigestMatches(w) == flash[Other(running)].image = worker[w].image

\* The digest, then the signature as the slot is finalized and selected.
Install(w) ==
  /\ worker[w].pc = "verifying"
  /\ IF DigestMatches(w) /\ flash[Other(running)].image \in Signed
     THEN /\ flash' = [flash EXCEPT ![Other(running)].state = "new"]
          /\ selected' = Other(running)
          /\ Goto(w, "installed") /\ phase' = "installed"
     ELSE Ends(w, "failed") /\ UNCHANGED <<flash, selected, phase>>
  /\ UNCHANGED <<running, boot, quiesce, restart>>

\* Three seconds later the worker restarts the device itself.
Reboot(w) == worker[w].pc = "installed" /\ Reset

\* Ways to end: dropping the pause guard, then showing the outcome, or with the
\* two the other way round.
Drops(w, from, to) ==
  /\ worker[w].pc = from
  /\ quiesce' = FALSE
  /\ worker' = [worker EXCEPT ![w] = IF to = "none" THEN NoWorker ELSE [@ EXCEPT !.pc = to]]
  /\ UNCHANGED <<flash, selected, running, boot, phase, restart>>

Shows(w, from, to) ==
  /\ worker[w].pc = from
  /\ phase' = worker[w].outcome
  /\ worker' = [worker EXCEPT ![w] = IF to = "none" THEN NoWorker ELSE [@ EXCEPT !.pc = to]]
  /\ UNCHANGED <<flash, selected, running, boot, quiesce, restart>>

FinishShown(w) == Shows(w, "releasing", "reporting") \/ Drops(w, "reporting", "none")
Finish(w) == Drops(w, "releasing", "reporting") \/ Shows(w, "reporting", "none")

Task(w) ==
  \/ Pause(w) \/ Paused(w) \/ PauseTimesOut(w) \/ Check(w) \/ Erase(w)
  \/ Receive(w) \/ Install(w) \/ Reboot(w) \/ Finish(w)

Next ==
  \/ PowerLoss \/ Publish \/ Confirm \/ StartupFails
  \/ RollBack \/ RequestRestart \/ Rejoin \/ Restart
  \/ \E w \in Workers : RequestOta(w) \/ AutoUpdate(w) \/ Task(w)

Spec == Init /\ [][Next]_vars

\* Every wait of the worker is bounded (ten seconds for the sender, 45 for the
\* clock, the connection's timeouts), so it keeps going.
FairSpec == Spec /\ \A w \in Workers : WF_vars(Task(w))

-----------------------------------------------------------------------------
Pcs == {"none", "pausing", "waiting", "working", "downloading", "writing",
        "verifying", "installed", "releasing", "reporting"}

(***************************************************************************)
(* Every variable keeps its type; a slot with a state holds an image, and  *)
(* what is running is never overwritten.                                   *)
(***************************************************************************)
TypeOK ==
  /\ flash \in [Slots ->
       [image : Images, state : {"new", "pending", "valid", "aborted"}]
         \cup [image : Images \cup {Damaged}, state : {"none"}]]
  /\ selected \in Slots /\ running \in Slots
  /\ flash[running].image # Damaged
  /\ boot \in [stage : {"starting", "probing", "ready"},
               mode : {"provisioned", "recovery"}]
  /\ phase \in Phases
  /\ worker \in [Workers ->
       [pc : Pcs, action : {"check", "latest", "custom"},
        image : Images \cup {None}, outcome : Phases \ BusyPhases]]
  /\ quiesce \in BOOLEAN
  /\ restart \in {None, "request", "auto"}

(***************************************************************************)
(* docs/ota.md:119: a slot is confirmed only by an image whose management  *)
(* routes answered; no other image can become what the device falls back   *)
(* to.                                                                     *)
(***************************************************************************)
ConfirmedWorks ==
  \A s \in Slots : flash[s].state = "valid" => flash[s].image \in Sound

Holding == {"waiting", "working", "downloading", "writing", "verifying",
            "installed"}

(***************************************************************************)
(* Two tasks never share the device: while one is at work the stream stays *)
(* asked to pause, no earlier task withdraws that, and none leaves the     *)
(* stream paused behind it.                                                *)
(***************************************************************************)
PauseOwned ==
  /\ \A v, w \in Workers :
       worker[v].pc # "none" /\ worker[w].pc # "none" => v = w
  /\ \A w \in Workers :
       worker[w].pc \in Holding /\ boot.mode = "provisioned" => quiesce
  /\ quiesce => \E w \in Workers : worker[w].pc \in Holding \cup {"releasing"}

(***************************************************************************)
(* docs/ota.md:138: the restart a recovered device orders by itself never  *)
(* cuts an update short, nor the interval between installed and reboot.    *)
(***************************************************************************)
AutoRestartWaits ==
  restart = "auto" => ~Busy /\ \A w \in Workers : worker[w].pc = "none"

(***************************************************************************)
(* An update is left alone: by another worker, by the stream it paused,    *)
(* and by a restart the device orders itself.                              *)
(***************************************************************************)
WorkUndisturbed == PauseOwned /\ AutoRestartWaits

(***************************************************************************)
(* An accepted update ends, in an outcome or a reboot: the device does not *)
(* answer "already in progress" forever.                                   *)
(***************************************************************************)
UpdateEnds == Busy ~> ~Busy

(***************************************************************************)
(* ota.rs:118 says an image rolled back to is confirmed "or the bootloader *)
(* bounces back".  It does not hold: rolling back from an image that is    *)
(* itself unconfirmed leaves no confirmed image.                           *)
(***************************************************************************)
BouncesBack ==
  flash[running].state = "pending" => flash[Other(running)].state = "valid"
=============================================================================
