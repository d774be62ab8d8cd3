------------------------------ MODULE DeviceTasks ------------------------------
(***************************************************************************)
(* How the device starts its tasks: the capture and the network engine     *)
(* together (runtime.rs), each reserved as a thread that waits for its     *)
(* commit (task_start.rs), and the transient worker of a pressed button    *)
(* (adapters/buttons.rs), one at a time.  A reservation fails when there   *)
(* is no heap left for the stack.                                          *)
(***************************************************************************)
CONSTANTS Targeted   \* a bridge is configured, so a network engine is needed

ASSUME TasksAssumption == Targeted \in BOOLEAN

Engines == {"capture", "network"}
Needed == IF Targeted THEN Engines ELSE {"capture"}

VARIABLES
  thread,     \* each thread: none yet, waiting, told to run, dropped, running, gone
  starting,   \* how far runtime::start is
  present,    \* StreamStatus.transport_present
  lease,      \* ApiState.button_action is taken
  press       \* the button worker: none, its closure, running

taskVars == <<thread, starting, present, lease, press>>

TasksInit ==
  /\ thread = [t \in Engines |-> "none"]
  /\ starting = "capture"
  /\ present = FALSE
  /\ lease = FALSE /\ press = "none"

\* PendingTask::spawn; a thread that was made waits for its commit.
Reserve(t) == thread' = [thread EXCEPT ![t] = "waiting"]

\* Dropping a reservation ends its thread unrun, and waits for it.
DropReserved == thread' = [t \in Engines |-> IF thread[t] = "waiting" THEN "gone" ELSE thread[t]]

ReserveCapture ==
  /\ starting = "capture"
  /\ \/ Reserve("capture") /\ starting' = IF Targeted THEN "network" ELSE "commit"
     \/ starting' = "failed" /\ UNCHANGED thread
  /\ UNCHANGED <<present, lease, press>>

\* The network engine is announced, then reserved; without it capture goes too.
ReserveNetwork ==
  /\ starting = "network"
  /\ present' = TRUE
  /\ \/ Reserve("network") /\ starting' = "commit"
     \/ DropReserved /\ starting' = "failed"
  /\ UNCHANGED <<lease, press>>

CommitOf(t) ==
  /\ starting = "commit"
  /\ thread[t] = "waiting"
  /\ thread' = [thread EXCEPT ![t] = "told"]
  /\ starting' = IF t = "capture" THEN "started" ELSE starting
  /\ UNCHANGED <<present, lease, press>>

\* Capture committed as soon as it is reserved.
CommitEagerly == CommitOf("network") \/ CommitOf("capture")
  \/ /\ starting = "network" /\ thread["capture"] = "waiting"
     /\ thread' = [thread EXCEPT !["capture"] = "told"]
     /\ UNCHANGED <<starting, present, lease, press>>

\* The network engine first: its queue has a reader before it has a writer.
Commit ==
  \/ CommitOf("network")
  \/ thread["network"] # "waiting" /\ CommitOf("capture")

Run(t) ==
  /\ thread[t] = "told"
  /\ thread' = [thread EXCEPT ![t] = "running"]
  /\ UNCHANGED <<starting, present, lease, press>>

-----------------------------------------------------------------------------
(***************************************************************************)
(* A button press whose action is not none.                                *)
(***************************************************************************)
PressButton ==
  /\ starting \in {"started", "failed"}
  /\ lease = FALSE
  /\ \/ lease' = TRUE /\ press' = "waiting"
     \/ UNCHANGED <<lease, press>>     \* no thread: the closure drops the lease
  /\ UNCHANGED <<thread, starting, present>>

\* The worker has the control lock, and acts unless the device restarts.
ActOnPress ==
  /\ press = "waiting" /\ press' = "acting"
  /\ UNCHANGED <<thread, starting, present, lease>>

PressEnds ==
  /\ press = "acting" /\ press' = "none" /\ lease' = FALSE
  /\ UNCHANGED <<thread, starting, present>>

TasksNext ==
  \/ ReserveCapture \/ ReserveNetwork \/ Commit
  \/ \E t \in Engines : Run(t)
  \/ PressButton \/ ActOnPress \/ PressEnds

(***************************************************************************)
(* The engines start together or not at all: none runs while one it needs  *)
(* is missing, and when the start fails no thread is left waiting          *)
(* (task_start.rs:1).  An install that asks whether there is a sender to   *)
(* wait for learns of every sender that can run (runtime.rs:72-75).        *)
(***************************************************************************)
StartsWhole ==
  /\ \A t \in Engines : thread[t] \in {"told", "running"} =>
       \A u \in Needed : thread[u] \notin {"none", "gone"}
  /\ starting = "failed" => \A t \in Engines : thread[t] \in {"none", "gone"}
  /\ thread["network"] \in {"told", "running"} => present
  /\ lease <=> press # "none"
=============================================================================
