------------------------- MODULE FirmwareUpdateProofs -------------------------
(***************************************************************************)
(* What firmware updates keep, for every set of images and of tasks.       *)
(*                                                                         *)
(* The invariant has a part about the flash and one about the tasks.  What *)
(* they add to the checked properties: the slot a task writes has no state *)
(* (Scratch), so that writing it cannot change a confirmed image; and a    *)
(* task exists only in a busy phase (Reserved), so that the phase alone    *)
(* keeps a second task, and the automatic restart, away.                   *)
(***************************************************************************)
EXTENDS FirmwareUpdate, TLAPS

SlotRecords ==
  [image : Images, state : {"new", "pending", "valid", "aborted"}]
    \cup [image : Images \cup {Damaged}, state : {"none"}]

WorkerRecords ==
  [pc : Pcs, action : {"check", "latest", "custom"},
   image : Images \cup {None}, outcome : Phases \ BusyPhases]

FlashOK(f) ==
  /\ f \in [Slots -> SlotRecords]
  /\ \A s \in Slots : f[s].state = "valid" => f[s].image \in Sound

Scratch ==
  \A w \in Workers :
    worker[w].pc \in {"writing", "verifying"} => flash[Other(running)].state = "none"

FlashInv ==
  /\ FlashOK(flash)
  /\ selected \in Slots /\ running \in Slots
  /\ flash[running].image # Damaged
  /\ Scratch

Reserved == \A w \in Workers : worker[w].pc # "none" => Busy

TaskInv ==
  /\ boot \in [stage : {"starting", "probing", "ready"},
               mode : {"provisioned", "recovery"}]
  /\ phase \in Phases
  /\ worker \in [Workers -> WorkerRecords]
  /\ quiesce \in BOOLEAN
  /\ restart \in {None, "request", "auto"}
  /\ Reserved
  /\ PauseOwned
  /\ AutoRestartWaits

IInv == FlashInv /\ TaskInv

LEMMA InitIInv == Init => IInv
<1> SUFFICES ASSUME Init PROVE IInv
  OBVIOUS
<1>1. FlashInv
  BY FirmwareAssumption
     DEF Init, FlashInv, FlashOK, SlotRecords, Slots, Other, Scratch, NoWorker
<1>2. TaskInv
  BY DEF Init, TaskInv, WorkerRecords, Pcs, Phases, BusyPhases, Busy, NoWorker,
         Reserved, PauseOwned, Holding, AutoRestartWaits
<1> QED BY <1>1, <1>2 DEF IInv

-----------------------------------------------------------------------------
(* The flash as the bootloader and the confirmation change it. *)

LEMMA GivenUpOK == ASSUME NEW f, FlashOK(f) PROVE FlashOK(GivenUp(f))
<1>1. ASSUME NEW s \in Slots PROVE GivenUp(f)[s] \in SlotRecords
  <2>1. f[s] \in SlotRecords
    BY DEF FlashOK
  <2> QED BY <2>1 DEF GivenUp, SlotRecords
<1>2. ASSUME NEW s \in Slots, GivenUp(f)[s].state = "valid"
      PROVE  GivenUp(f)[s].image \in Sound
  <2>1. f[s] \in SlotRecords
    BY DEF FlashOK
  <2> QED BY <1>2, <2>1 DEF GivenUp, FlashOK, SlotRecords
<1> QED BY <1>1, <1>2 DEF FlashOK, GivenUp

\* Giving a slot that holds a complete image another state.
LEMMA MarkedOK ==
  ASSUME NEW f, FlashOK(f), NEW s \in Slots, f[s].image \in Images,
         NEW st \in {"new", "pending", "valid"}, st = "valid" => f[s].image \in Sound
  PROVE  FlashOK([f EXCEPT ![s].state = st])
<1> DEFINE g == [f EXCEPT ![s].state = st]
<1>1. f[s] \in SlotRecords /\ f \in [Slots -> SlotRecords]
  BY DEF FlashOK
<1>2. g[s] = [f[s] EXCEPT !.state = st] /\ \A t \in Slots \ {s} : g[t] = f[t]
  BY <1>1
<1>3. g[s].image = f[s].image /\ g[s].state = st /\ g[s] \in SlotRecords
  BY <1>1, <1>2 DEF SlotRecords
<1>4. g \in [Slots -> SlotRecords]
  BY <1>1, <1>3
<1> HIDE DEF g
<1>5. \A t \in Slots : g[t].state = "valid" => g[t].image \in Sound
  BY <1>2, <1>3 DEF FlashOK
<1>6. FlashOK(g)
  BY <1>4, <1>5 DEF FlashOK
<1> QED BY <1>6 DEF g

LEMMA Complete ==
  ASSUME NEW f, FlashOK(f), NEW s \in Slots,
         f[s].state # "none" \/ f[s].image # Damaged
  PROVE  f[s].image \in Images
BY DEF FlashOK, SlotRecords

LEMMA ChosenOK ==
  ASSUME NEW f, FlashOK(f), NEW s \in Slots, NEW t \in Chosen(f, s)
  PROVE  t \in Slots /\ f[t].image # Damaged
BY DEF Chosen, Bootable, Slots, Other

LEMMA BootedOK ==
  ASSUME NEW f, FlashOK(f), NEW s \in Slots, f[s].image # Damaged
  PROVE  FlashOK(Booted(f, s)) /\ Booted(f, s)[s].image # Damaged
<1>1. f[s].image \in Images
  BY Complete
<1>2. FlashOK([f EXCEPT ![s].state = "pending"])
  BY <1>1, MarkedOK
<1> QED BY <1>2 DEF Booted, FlashOK

LEMMA ConfirmedOK ==
  ASSUME FlashInv, ProbesPass
  PROVE  /\ FlashOK(Confirmed(flash, running))
         /\ Confirmed(flash, running)[running].image # Damaged
         /\ Confirmed(flash, running)[Other(running)] = flash[Other(running)]
<1>1. FlashOK(flash) /\ running \in Slots /\ flash[running].image \in Images
  BY Complete DEF FlashInv
<1>2. FlashOK([flash EXCEPT ![running].state = "valid"])
  BY <1>1, MarkedOK DEF ProbesPass
<1>3. Other(running) # running /\ Other(running) \in Slots
  BY <1>1 DEF Other, Slots
<1> QED BY <1>1, <1>2, <1>3 DEF Confirmed, FlashInv, FlashOK

-----------------------------------------------------------------------------
(* Steps that leave one of the parts alone. *)

LEMMA SameFlash ==
  ASSUME FlashInv, UNCHANGED <<flash, selected, running>>,
         \A w \in Workers : worker'[w].pc \in {"writing", "verifying"} =>
                              worker[w].pc \in {"writing", "verifying"}
  PROVE  FlashInv'
BY DEF FlashInv, FlashOK, Scratch, Other

LEMMA SameTasks ==
  ASSUME TaskInv, UNCHANGED <<phase, worker, quiesce>>, boot'.mode = boot.mode,
         boot' \in [stage : {"starting", "probing", "ready"},
                    mode : {"provisioned", "recovery"}],
         restart' \in {None, "request", "auto"},
         restart' = "auto" => restart = "auto" \/ ~Busy
  PROVE  TaskInv'
BY DEF TaskInv, Reserved, Busy, PauseOwned, AutoRestartWaits

LEMMA ResetStep == IInv /\ Reset => IInv'
<1> SUFFICES ASSUME IInv, Reset PROVE IInv'
  OBVIOUS
<1>1. PICK s \in Chosen(GivenUp(flash), selected), m \in {"provisioned", "recovery"} :
        /\ flash' = Booted(GivenUp(flash), s)
        /\ selected' = s /\ running' = s
        /\ boot' = [stage |-> "starting", mode |-> m]
        /\ phase' = "idle"
        /\ worker' = [w \in Workers |-> NoWorker]
        /\ quiesce' = FALSE
        /\ restart' = None
  BY DEF Reset
<1>2. FlashOK(GivenUp(flash)) /\ selected \in Slots
  BY GivenUpOK DEF IInv, FlashInv
<1>3. s \in Slots /\ GivenUp(flash)[s].image # Damaged
  BY <1>2, ChosenOK
<1>4. FlashOK(flash') /\ flash'[s].image # Damaged
  BY <1>1, <1>2, <1>3, BootedOK
<1>5. FlashInv'
  BY <1>1, <1>3, <1>4 DEF FlashInv, Scratch, NoWorker, FlashOK
<1>6. TaskInv'
  BY <1>1 DEF TaskInv, WorkerRecords, Pcs, Phases, BusyPhases, Busy, NoWorker,
              Reserved, PauseOwned, Holding, AutoRestartWaits
<1> QED BY <1>5, <1>6 DEF IInv

LEMMA BootStep == IInv /\ (Publish \/ Confirm) => IInv'
<1> SUFFICES ASSUME IInv, Publish \/ Confirm PROVE IInv'
  OBVIOUS
<1>1. CASE Publish
  <2>1. FlashInv'
    BY <1>1, SameFlash DEF Publish, IInv
  <2>2. TaskInv'
    BY <1>1, SameTasks DEF Publish, IInv, TaskInv
  <2> QED BY <2>1, <2>2 DEF IInv
<1>2. CASE Confirm
  <2>1. FlashInv'
    BY <1>2, ConfirmedOK DEF Confirm, IInv, FlashInv, Scratch, FlashOK, Other
  <2>2. TaskInv'
    BY <1>2, SameTasks DEF Confirm, IInv, TaskInv
  <2> QED BY <2>1, <2>2 DEF IInv
<1> QED BY <1>1, <1>2

LEMMA RequestStep == IInv /\ (RollBack \/ RequestRestart \/ Rejoin) => IInv'
<1> SUFFICES ASSUME IInv, RollBack \/ RequestRestart \/ Rejoin PROVE IInv'
  OBVIOUS
<1>1. CASE RollBack
  <2>1. Other(running) \in Slots /\ Other(running) # running
    BY DEF IInv, FlashInv, Slots, Other
  <2>2. flash[Other(running)].state = "valid" /\ flash[Other(running)].image \in Images
    BY <1>1, <2>1, Complete DEF RollBack, RollBackable, IInv, FlashInv
  <2>3. FlashOK(flash')
    BY <1>1, <2>1, <2>2, MarkedOK DEF RollBack, IInv, FlashInv
  <2>4. flash'[running] = flash[running]
    BY <1>1, <2>1 DEF RollBack, IInv, FlashInv, FlashOK
  <2>5. FlashInv'
    BY <1>1, <2>1, <2>2, <2>3, <2>4 DEF RollBack, IInv, FlashInv, Scratch
  <2>6. TaskInv'
    BY <1>1, SameTasks DEF RollBack, IInv, TaskInv
  <2> QED BY <2>5, <2>6 DEF IInv
<1>2. CASE RequestRestart
  <2>1. FlashInv'
    BY <1>2, SameFlash DEF RequestRestart, IInv
  <2>2. TaskInv'
    BY <1>2, SameTasks DEF RequestRestart, IInv, TaskInv
  <2> QED BY <2>1, <2>2 DEF IInv
<1>3. CASE Rejoin
  <2>1. FlashInv'
    BY <1>3, ConfirmedOK DEF Rejoin, IInv, FlashInv, Scratch, FlashOK, Other
  <2>2. TaskInv'
    BY <1>3, SameTasks DEF Rejoin, WhenIdle, IInv, TaskInv
  <2> QED BY <2>1, <2>2 DEF IInv
<1> QED BY <1>1, <1>2, <1>3

LEMMA StartStep ==
  ASSUME IInv, NEW w \in Workers, NEW action \in {"check", "latest", "custom"},
         NEW image \in Images \cup {None}, restart = None, Start(w, action, image)
  PROVE  IInv'
<1>1. \A v \in Workers : worker[v].pc = "none"
  BY DEF Start, Reserve, IInv, TaskInv, Reserved
<1>2. CASE phase' = "failed" /\ worker' = worker
  <2>1. FlashInv'
    BY <1>2, SameFlash DEF Start, IInv
  <2>2. TaskInv'
    BY <1>1, <1>2, FirmwareAssumption
       DEF Start, IInv, TaskInv, Phases, Reserved, PauseOwned, AutoRestartWaits, Busy,
           BusyPhases
  <2> QED BY <2>1, <2>2 DEF IInv
<1>3. CASE /\ phase' = "checking"
           /\ worker' = [worker EXCEPT ![w] =
                [NoWorker EXCEPT !.pc = "pausing", !.action = action, !.image = image]]
  <2> DEFINE r == [NoWorker EXCEPT !.pc = "pausing", !.action = action, !.image = image]
  <2>1. r \in WorkerRecords /\ r.pc = "pausing"
    BY DEF NoWorker, WorkerRecords, Pcs, Phases, BusyPhases
  <2> HIDE DEF r
  <2>2. /\ worker' \in [Workers -> WorkerRecords] /\ worker'[w] = r
        /\ \A v \in Workers \ {w} : worker'[v] = worker[v]
    BY <1>3, <2>1 DEF IInv, TaskInv, r
  <2>3. FlashInv'
    BY <1>1, <2>1, <2>2, SameFlash DEF Start, IInv
  <2>4. quiesce = FALSE /\ quiesce' = quiesce
    BY <1>1 DEF Start, IInv, TaskInv, PauseOwned, Holding
  <2>5. restart' # "auto"
    BY FirmwareAssumption DEF Start
  <2>6. TaskInv'
    BY <1>1, <1>3, <2>1, <2>2, <2>4, <2>5
       DEF Start, IInv, TaskInv, Phases, Reserved, PauseOwned, AutoRestartWaits, Busy,
           BusyPhases, Holding
  <2> QED BY <2>3, <2>6 DEF IInv
<1> QED BY <1>2, <1>3 DEF Start

-----------------------------------------------------------------------------
(* The steps of a task: every other one is at rest. *)

LEMMA TaskMoves ==
  ASSUME IInv, NEW w \in Workers, worker[w].pc # "none", NEW r \in WorkerRecords,
         worker' = [worker EXCEPT ![w] = r], UNCHANGED <<boot, restart>>,
         phase' \in Phases, quiesce' \in BOOLEAN,
         r.pc # "none" => phase' \in BusyPhases,
         r.pc \in Holding /\ boot.mode = "provisioned" => quiesce',
         quiesce' => r.pc \in Holding \cup {"releasing"}
  PROVE  TaskInv'
<1>1. \A v \in Workers \ {w} : worker[v].pc = "none"
  BY DEF IInv, TaskInv, PauseOwned
<1>2. /\ worker' \in [Workers -> WorkerRecords] /\ worker'[w] = r
      /\ \A v \in Workers \ {w} : worker'[v].pc = "none"
  BY <1>1 DEF IInv, TaskInv
<1>3. Reserved' /\ PauseOwned'
  BY <1>2 DEF Reserved, PauseOwned, Busy, Holding
<1>4. AutoRestartWaits'
  BY DEF IInv, TaskInv, AutoRestartWaits
<1> QED BY <1>2, <1>3, <1>4 DEF IInv, TaskInv

LEMMA GotoShape ==
  ASSUME IInv, NEW w \in Workers, NEW pc \in Pcs, Goto(w, pc)
  PROVE  LET r == [worker[w] EXCEPT !.pc = pc]
         IN  r \in WorkerRecords /\ r.pc = pc /\ worker' = [worker EXCEPT ![w] = r]
BY DEF Goto, IInv, TaskInv, WorkerRecords

LEMMA EndsShape ==
  ASSUME IInv, NEW w \in Workers, NEW outcome \in Phases \ BusyPhases,
         Ends(w, outcome)
  PROVE  LET r == [worker[w] EXCEPT !.pc = "releasing", !.outcome = outcome]
         IN  /\ r \in WorkerRecords /\ r.pc = "releasing"
             /\ worker' = [worker EXCEPT ![w] = r]
BY DEF Ends, IInv, TaskInv, WorkerRecords, Pcs

\* What a task at work may count on.
LEMMA AtWork ==
  ASSUME IInv, NEW w \in Workers, worker[w].pc # "none"
  PROVE  /\ phase \in BusyPhases /\ phase \in Phases /\ quiesce \in BOOLEAN
         /\ worker[w].pc \in Holding /\ boot.mode = "provisioned" => quiesce
         /\ quiesce => worker[w].pc \in Holding \cup {"releasing"}
<1>1. ASSUME quiesce PROVE worker[w].pc \in Holding \cup {"releasing"}
  <2>1. PICK v \in Workers : worker[v].pc \in Holding \cup {"releasing"}
    BY <1>1 DEF IInv, TaskInv, PauseOwned
  <2>2. worker[v].pc # "none"
    BY <2>1 DEF Holding
  <2>3. v = w
    BY <2>2 DEF IInv, TaskInv, PauseOwned
  <2> QED BY <2>1, <2>3
<1> QED BY <1>1 DEF IInv, TaskInv, Reserved, Busy, PauseOwned

LEMMA GotoTask ==
  ASSUME IInv, NEW w \in Workers, worker[w].pc # "none", NEW pc \in Pcs, pc # "none",
         Goto(w, pc), UNCHANGED <<boot, restart>>, phase' \in Phases \cap BusyPhases,
         quiesce' \in BOOLEAN,
         pc \in Holding /\ boot.mode = "provisioned" => quiesce',
         quiesce' => pc \in Holding \cup {"releasing"}
  PROVE  TaskInv'
<1> DEFINE r == [worker[w] EXCEPT !.pc = pc]
<1>1. r \in WorkerRecords /\ r.pc = pc /\ worker' = [worker EXCEPT ![w] = r]
  BY GotoShape
<1> HIDE DEF r
<1> QED BY <1>1, TaskMoves

LEMMA EndsTask ==
  ASSUME IInv, NEW w \in Workers, worker[w].pc # "none",
         NEW outcome \in Phases \ BusyPhases, Ends(w, outcome),
         UNCHANGED <<boot, restart, phase, quiesce>>
  PROVE  TaskInv'
<1> DEFINE r == [worker[w] EXCEPT !.pc = "releasing", !.outcome = outcome]
<1>1. r \in WorkerRecords /\ r.pc = "releasing" /\ worker' = [worker EXCEPT ![w] = r]
  BY EndsShape
<1> HIDE DEF r
<1>2. phase' \in BusyPhases /\ phase' \in Phases /\ quiesce' \in BOOLEAN
  BY AtWork
<1> QED BY <1>1, <1>2, TaskMoves DEF Holding

\* Where a step leaves the tasks, as far as the flash is concerned.
LEMMA WritingAfter ==
  ASSUME IInv, NEW w \in Workers, worker[w].pc # "none",
         NEW pc, Goto(w, pc) \/ (pc = "releasing" /\ \E o : Ends(w, o))
  PROVE  /\ worker'[w].pc = pc
         /\ \A v \in Workers \ {w} : worker'[v].pc = "none"
BY DEF Goto, Ends, IInv, TaskInv, PauseOwned, WorkerRecords

LEMMA SlotsDiffer ==
  ASSUME IInv
  PROVE  running \in Slots /\ Other(running) \in Slots /\ Other(running) # running
BY DEF IInv, FlashInv, Slots, Other

LEMMA PausingStep ==
  ASSUME IInv, NEW w \in Workers, Pause(w) \/ Paused(w) \/ PauseTimesOut(w)
  PROVE  IInv'
<1>1. "failed" \in Phases \ BusyPhases /\ "waiting" \in Pcs /\ "working" \in Pcs
  BY DEF Phases, BusyPhases, Pcs
<1>2. CASE Pause(w)
  <2>1. worker[w].pc # "none" /\ phase' = phase /\ UNCHANGED <<boot, restart>>
    BY <1>2 DEF Pause
  <2>2. CASE boot.mode = "provisioned"
    <3>1. Goto(w, "waiting") /\ quiesce' = TRUE
      BY <1>2, <2>2 DEF Pause
    <3>2. TaskInv'
      BY <1>1, <2>1, <3>1, AtWork, GotoTask DEF Holding
    <3>3. FlashInv'
      BY <1>2, <2>1, <3>1, WritingAfter, SameFlash DEF Pause, IInv
    <3> QED BY <3>2, <3>3 DEF IInv
  <2>3. CASE boot.mode # "provisioned"
    <3>1. Goto(w, "working") /\ quiesce' = quiesce
      BY <1>2, <2>3 DEF Pause
    <3>2. TaskInv'
      BY <1>1, <2>1, <2>3, <3>1, AtWork, GotoTask DEF Holding
    <3>3. FlashInv'
      BY <1>2, <2>1, <3>1, WritingAfter, SameFlash DEF Pause, IInv
    <3> QED BY <3>2, <3>3 DEF IInv
  <2> QED BY <2>2, <2>3
<1>3. CASE Paused(w)
  <2>1. /\ worker[w].pc = "waiting" /\ Goto(w, "working")
        /\ UNCHANGED <<phase, quiesce, boot, restart>>
    BY <1>3 DEF Paused
  <2>2. TaskInv'
    BY <1>1, <2>1, AtWork, GotoTask DEF Holding
  <2>3. FlashInv'
    BY <1>3, <2>1, WritingAfter, SameFlash DEF Paused, IInv
  <2> QED BY <2>2, <2>3 DEF IInv
<1>4. CASE PauseTimesOut(w)
  <2>1. worker[w].pc = "waiting" /\ Ends(w, "failed")
    BY <1>4 DEF PauseTimesOut
  <2>2. TaskInv'
    BY <1>1, <1>4, <2>1, EndsTask DEF PauseTimesOut
  <2>3. FlashInv'
    BY <1>4, <2>1, WritingAfter, SameFlash DEF PauseTimesOut, IInv
  <2> QED BY <2>2, <2>3 DEF IInv
<1> QED BY <1>2, <1>3, <1>4

LEMMA CheckStep == ASSUME IInv, NEW w \in Workers, Check(w) PROVE IInv'
<1>1. worker[w].pc = "working" /\ UNCHANGED <<flash, selected, running, boot, quiesce, restart>>
  BY DEF Check
<1>2. CASE Goto(w, "downloading") /\ phase' = "downloading"
  <2>1. TaskInv'
    BY <1>1, <1>2, AtWork, GotoTask DEF Holding, Pcs, Phases, BusyPhases
  <2>2. FlashInv'
    BY <1>1, <1>2, WritingAfter, SameFlash DEF IInv
  <2> QED BY <2>1, <2>2 DEF IInv
<1>3. ASSUME NEW outcome \in {"failed", "up-to-date", "update-available"},
             Ends(w, outcome), phase' = phase
      PROVE  IInv'
  <2>1. TaskInv'
    BY <1>1, <1>3, EndsTask DEF Phases, BusyPhases
  <2>2. FlashInv'
    BY <1>1, <1>3, WritingAfter, SameFlash DEF IInv
  <2> QED BY <2>1, <2>2 DEF IInv
<1>4. \/ Goto(w, "downloading") /\ phase' = "downloading"
      \/ \E outcome \in {"failed", "up-to-date", "update-available"} :
           Ends(w, outcome) /\ phase' = phase
  BY DEF Check
<1> QED BY <1>2, <1>3, <1>4

\* A task fails and leaves the flash as it was, or as it last wrote it.
LEMMA FailStep ==
  ASSUME IInv, NEW w \in Workers, worker[w].pc # "none", Ends(w, "failed"),
         UNCHANGED <<flash, selected, running, boot, phase, quiesce, restart>>
  PROVE  IInv'
<1>1. TaskInv'
  BY EndsTask DEF Phases, BusyPhases
<1>2. FlashInv'
  BY WritingAfter, SameFlash DEF IInv
<1> QED BY <1>1, <1>2 DEF IInv

\* Writing the slot that does not run.
LEMMA Overwrites ==
  ASSUME IInv, NEW c \in Images \cup {Damaged},
         flash' = [flash EXCEPT ![Other(running)] = [image |-> c, state |-> "none"]],
         UNCHANGED <<selected, running>>
  PROVE  FlashInv' /\ flash'[Other(running)].state = "none"
<1> DEFINE r == [image |-> c, state |-> "none"]
<1>1. r \in SlotRecords /\ r.state = "none"
  BY DEF SlotRecords
<1> HIDE DEF r
<1>2. /\ flash' = [flash EXCEPT ![Other(running)] = r]
      /\ flash \in [Slots -> SlotRecords]
  BY DEF r, IInv, FlashInv, FlashOK
<1>3. /\ flash'[Other(running)] = r /\ flash'[running] = flash[running]
      /\ flash' \in [Slots -> SlotRecords]
      /\ \A s \in Slots : flash'[s] = IF s = Other(running) THEN r ELSE flash[s]
  BY <1>1, <1>2, SlotsDiffer
<1>4. FlashOK(flash')
  BY <1>1, <1>3 DEF IInv, FlashInv, FlashOK
<1> QED BY <1>1, <1>3, <1>4 DEF IInv, FlashInv, Scratch

LEMMA EraseStep == ASSUME IInv, NEW w \in Workers, Erase(w) PROVE IInv'
<1>1. /\ worker[w].pc = "downloading"
      /\ UNCHANGED <<selected, running, boot, phase, quiesce, restart>>
  BY DEF Erase
<1>2. CASE Ends(w, "failed") /\ UNCHANGED flash
  BY <1>1, <1>2, FailStep
<1>3. CASE /\ flash' = [flash EXCEPT ![Other(running)] = [image |-> Damaged, state |-> "none"]]
           /\ Goto(w, "writing")
  <2>1. FlashInv'
    BY <1>1, <1>3, Overwrites
  <2>2. TaskInv'
    BY <1>1, <1>3, AtWork, GotoTask DEF Holding, Pcs
  <2> QED BY <2>1, <2>2 DEF IInv
<1> QED BY <1>2, <1>3 DEF Erase

LEMMA ReceiveStep == ASSUME IInv, NEW w \in Workers, Receive(w) PROVE IInv'
<1>1. /\ worker[w].pc = "writing"
      /\ UNCHANGED <<selected, running, boot, quiesce, restart>>
  BY DEF Receive
<1>2. CASE Ends(w, "failed") /\ UNCHANGED <<flash, phase>>
  BY <1>1, <1>2, FailStep
<1>3. ASSUME NEW c \in Images \cup {Damaged},
             flash' = [flash EXCEPT ![Other(running)].image = c],
             Goto(w, "verifying"), phase' = "verifying"
      PROVE  IInv'
  <2>1. /\ flash[Other(running)].state = "none"
        /\ flash[Other(running)] \in SlotRecords
    BY <1>1, SlotsDiffer DEF IInv, FlashInv, Scratch, FlashOK
  <2>2. [flash[Other(running)] EXCEPT !.image = c] = [image |-> c, state |-> "none"]
    BY <2>1 DEF SlotRecords
  <2>3. flash' = [flash EXCEPT ![Other(running)] = [image |-> c, state |-> "none"]]
    BY <1>3, <2>2
  <2>4. FlashInv'
    BY <1>1, <2>3, Overwrites
  <2>5. TaskInv'
    BY <1>1, <1>3, AtWork, GotoTask DEF Holding, Pcs, Phases, BusyPhases
  <2> QED BY <2>4, <2>5 DEF IInv
<1> QED BY <1>2, <1>3 DEF Receive

LEMMA InstallStep == ASSUME IInv, NEW w \in Workers, Install(w) PROVE IInv'
<1>1. /\ worker[w].pc = "verifying"
      /\ UNCHANGED <<running, boot, quiesce, restart>>
  BY DEF Install
<1>2. CASE Ends(w, "failed") /\ UNCHANGED <<flash, selected, phase>>
  BY <1>1, <1>2, FailStep
<1>3. CASE /\ flash[Other(running)].image \in Signed
           /\ flash' = [flash EXCEPT ![Other(running)].state = "new"]
           /\ selected' = Other(running)
           /\ Goto(w, "installed") /\ phase' = "installed"
  <2>1. FlashOK(flash')
    BY <1>3, SlotsDiffer, FirmwareAssumption, MarkedOK DEF IInv, FlashInv
  <2>2. flash'[running] = flash[running]
    BY <1>3, SlotsDiffer DEF IInv, FlashInv, FlashOK
  <2>3. Scratch'
    BY <1>1, <1>3, WritingAfter DEF Scratch
  <2>4. FlashInv'
    BY <1>1, <1>3, <2>1, <2>2, <2>3, SlotsDiffer DEF IInv, FlashInv
  <2>5. TaskInv'
    BY <1>1, <1>3, AtWork, GotoTask DEF Holding, Pcs, Phases, BusyPhases
  <2> QED BY <2>4, <2>5 DEF IInv
<1> QED BY <1>2, <1>3 DEF Install

LEMMA FinishStep == ASSUME IInv, NEW w \in Workers, Finish(w) PROVE IInv'
<1>1. CASE Drops(w, "releasing", "reporting")
  <2>1. /\ worker[w].pc = "releasing" /\ Goto(w, "reporting") /\ quiesce' = FALSE
        /\ UNCHANGED <<flash, selected, running, boot, phase, restart>>
    BY <1>1 DEF Drops, Goto
  <2>2. TaskInv'
    BY <2>1, AtWork, GotoTask DEF Holding, Pcs
  <2>3. FlashInv'
    BY <2>1, WritingAfter, SameFlash DEF IInv
  <2> QED BY <2>2, <2>3 DEF IInv
<1>2. CASE Shows(w, "reporting", "none")
  <2>1. /\ worker[w].pc = "reporting" /\ worker' = [worker EXCEPT ![w] = NoWorker]
        /\ phase' = worker[w].outcome
        /\ UNCHANGED <<flash, selected, running, boot, quiesce, restart>>
    BY <1>2 DEF Shows
  <2>2. NoWorker \in WorkerRecords /\ NoWorker.pc = "none"
    BY DEF NoWorker, WorkerRecords, Pcs, Phases, BusyPhases
  <2>3. quiesce = FALSE /\ phase' \in Phases
    BY <2>1, AtWork DEF Holding, IInv, TaskInv, WorkerRecords
  <2>4. TaskInv'
    BY <2>1, <2>2, <2>3, TaskMoves DEF Holding
  <2>5. \A v \in Workers : worker'[v].pc = "none"
    BY <2>1, <2>2 DEF IInv, TaskInv, PauseOwned
  <2>6. FlashInv'
    BY <2>1, <2>5, SameFlash DEF IInv
  <2> QED BY <2>4, <2>6 DEF IInv
<1> QED BY <1>1, <1>2 DEF Finish

LEMMA TaskStep == ASSUME IInv, NEW w \in Workers, Task(w) PROVE IInv'
<1>1. CASE Reboot(w)
  BY <1>1, ResetStep DEF Reboot
<1> QED BY <1>1, PausingStep, CheckStep, EraseStep, ReceiveStep, InstallStep, FinishStep
        DEF Task

LEMMA Invariance == Spec => []IInv
<1>1. IInv /\ [Next]_vars => IInv'
  <2> SUFFICES ASSUME IInv, [Next]_vars PROVE IInv'
    OBVIOUS
  <2>1. CASE PowerLoss \/ StartupFails \/ Restart
    BY <2>1, ResetStep DEF PowerLoss, StartupFails, Restart
  <2>2. CASE Publish \/ Confirm
    BY <2>2, BootStep
  <2>3. CASE RollBack \/ RequestRestart \/ Rejoin
    BY <2>3, RequestStep
  <2>4. ASSUME NEW w \in Workers, RequestOta(w) PROVE IInv'
    BY <2>4, StartStep DEF RequestOta, Accepting
  <2>5. ASSUME NEW w \in Workers, AutoUpdate(w) PROVE IInv'
    BY <2>5, StartStep DEF AutoUpdate
  <2>6. ASSUME NEW w \in Workers, Task(w) PROVE IInv'
    BY <2>6, TaskStep
  <2>7. CASE UNCHANGED vars
    BY <2>7 DEF vars, IInv, FlashInv, FlashOK, Scratch, TaskInv, Reserved, Busy,
               PauseOwned, AutoRestartWaits
  <2> QED BY <2>1, <2>2, <2>3, <2>4, <2>5, <2>6, <2>7 DEF Next
<1> QED BY <1>1, InitIInv, PTL DEF Spec

-----------------------------------------------------------------------------
(***************************************************************************)
(* Slots, tasks and flags keep their type, and the image that runs is      *)
(* never written over.                                                     *)
(***************************************************************************)
THEOREM TypeCorrect == Spec => []TypeOK
<1>1. IInv => TypeOK
  <2> SUFFICES ASSUME IInv PROVE TypeOK
    OBVIOUS
  <2>1. flash \in [Slots -> SlotRecords] /\ flash[running].image # Damaged
    BY DEF IInv, FlashInv, FlashOK
  <2>2. selected \in Slots /\ running \in Slots
    BY DEF IInv, FlashInv
  <2> QED BY <2>1, <2>2 DEF IInv, TaskInv, TypeOK, SlotRecords, WorkerRecords
<1> QED BY <1>1, Invariance, PTL

(***************************************************************************)
(* Only an image whose management routes answered is ever confirmed.       *)
(***************************************************************************)
THEOREM OnlyWorkingConfirmed == Spec => []ConfirmedWorks
<1>1. IInv => ConfirmedWorks
  BY DEF IInv, FlashInv, FlashOK, ConfirmedWorks
<1> QED BY <1>1, Invariance, PTL

(***************************************************************************)
(* One task at a time; the stream is asked to pause while it works, and by *)
(* nobody when it has ended.                                               *)
(***************************************************************************)
THEOREM PauseKept == Spec => []PauseOwned
<1>1. IInv => PauseOwned
  BY DEF IInv, TaskInv
<1> QED BY <1>1, Invariance, PTL

(***************************************************************************)
(* The restart the device orders by itself never meets an update.          *)
(***************************************************************************)
THEOREM RestartWaits == Spec => []AutoRestartWaits
<1>1. IInv => AutoRestartWaits
  BY DEF IInv, TaskInv
<1> QED BY <1>1, Invariance, PTL

(***************************************************************************)
(* An update is left alone, for any images, workers and number of updates. *)
(***************************************************************************)
THEOREM Undisturbed == Spec => []WorkUndisturbed
BY PauseKept, RestartWaits, PTL DEF WorkUndisturbed
=============================================================================
