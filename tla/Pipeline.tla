------------------------------- MODULE Pipeline -------------------------------
(***************************************************************************)
(* The firmware's PCM pipeline, firmware/streamline/src/stream: a capture  *)
(* task that numbers packets and pushes them into a bounded drop-oldest    *)
(* queue, a network task that batches and sends them, and a maintenance    *)
(* worker (firmware install) that must own the transport's memory while it *)
(* runs.  The tasks share only atomic flags and the queue's mutex, so one  *)
(* action here is one load, one store or one critical section; memory is   *)
(* taken to be sequentially consistent.                                    *)
(***************************************************************************)
EXTENDS Integers, Sequences

CONSTANTS
  Depth,        \* QUEUE_DEPTH
  Batch,        \* BATCH_PACKETS
  MaxSeq,       \* bound of the model: sequence numbers taken
  PollOutlastsRequest
    \* the sender's 100 ms poll outlasts the requester's two adjacent stores

ASSUME PipelineAssumption ==
  /\ Depth \in Nat \ {0} /\ Batch \in Nat \ {0} /\ MaxSeq \in Nat
  /\ PollOutlastsRequest \in BOOLEAN

VARIABLES
  paused,       \* StreamStatus.paused: the user switched streaming off
  request,      \* StreamStatus.transport_quiesce
  ack,          \* StreamStatus.transport_quiesced
  present,      \* StreamStatus.transport_present: a sender task exists
  admitted,     \* the queue holds storage (Some), as opposed to suspended
  queue,        \* the sequence numbers retained in it
  nextSeq,      \* StreamStatus.sequence
  cap,          \* where the capture task is
  capSeq,       \* the number of the packet it holds
  net,          \* where the network task is
  second,       \* it has read `paused` and is about to read `request`
  batch,        \* the packets it collected
  connected,    \* its connection to the bridge is open
  wire,         \* the packets that reached the wire, in order
  maint         \* where the maintenance worker is

pipelineVars == <<paused, request, ack, present, admitted, queue, nextSeq, cap,
          capSeq, net, second, batch, connected, wire, maint>>

flagVars == <<paused, request, ack, present>>
capVars == <<nextSeq, cap, capSeq>>
netVars == <<net, second, batch, connected, wire>>
queueVars == <<admitted, queue>>

\* Where sending_allowed() is evaluated, and where each answer leads.
Checks == {"top", "more", "send", "write"}
Refused == [top |-> "disconnect", more |-> "send", send |-> "top",
            write |-> "top"]
Granted == [top |-> "resume", more |-> "popNext", send |-> "connect",
            write |-> "transmit"]

NetSteps == Checks \cup {"disconnect", "suspend", "confirm", "ack", "delay",
                         "resume", "pop", "popNext", "connect", "transmit"}

PipelineInit ==
  /\ paused = FALSE /\ request = FALSE /\ ack = FALSE
  /\ present \in BOOLEAN
  /\ admitted = present
  /\ queue = <<>>
  /\ nextSeq = 0
  /\ cap = "read"
  /\ capSeq = 0
  /\ net = "top" /\ second = FALSE
  /\ batch = <<>>
  /\ connected = FALSE
  /\ wire = <<>>
  /\ maint = "idle"

-----------------------------------------------------------------------------
(***************************************************************************)
(* The capture task.  Every packet takes a number, also one that is not    *)
(* streamed and one that the driver lost.                                  *)
(***************************************************************************)
CaptureTake ==
  /\ cap = "read"
  /\ nextSeq < MaxSeq
  /\ capSeq' = nextSeq
  /\ nextSeq' = nextSeq + 1
  /\ cap' = IF paused THEN "read" ELSE "gate"
  /\ UNCHANGED <<flagVars, queueVars, netVars, maint>>

CaptureLose ==
  /\ cap = "read"
  /\ nextSeq < MaxSeq
  /\ nextSeq' = nextSeq + 1
  /\ UNCHANGED <<flagVars, queueVars, netVars, maint, cap, capSeq>>

CaptureGate ==
  /\ cap = "gate"
  /\ cap' = IF request \/ ~present THEN "read" ELSE "push"
  /\ UNCHANGED <<flagVars, queueVars, netVars, maint, nextSeq, capSeq>>

\* The queue with a packet more: the oldest makes room for it.
Push(q, s) == Append(IF Len(q) = Depth THEN Tail(q) ELSE q, s)

CapturePush ==
  /\ cap = "push"
  /\ queue' = IF admitted THEN Push(queue, capSeq) ELSE queue
  /\ cap' = "read"
  /\ UNCHANGED <<flagVars, netVars, maint, admitted, nextSeq, capSeq>>

Capture == CaptureTake \/ CaptureLose \/ CaptureGate \/ CapturePush

-----------------------------------------------------------------------------
(***************************************************************************)
(* The network task.  sending_allowed() loads two flags one after another. *)
(***************************************************************************)
\* Going back to the head of the loop discards what was collected.
BackToTop == net' = "top" /\ batch' = <<>>

Answer(next) == IF next = "top" THEN BackToTop
                                ELSE net' = next /\ UNCHANGED batch

NetReadPaused ==
  /\ net \in Checks
  /\ ~second
  /\ ~(net = "more" /\ Len(batch) = Batch)
  /\ IF paused THEN Answer(Refused[net]) /\ UNCHANGED second
               ELSE second' = TRUE /\ UNCHANGED <<net, batch>>
  /\ UNCHANGED <<flagVars, queueVars, capVars, maint, connected, wire>>

NetReadRequest ==
  /\ net \in Checks
  /\ second
  /\ second' = FALSE
  /\ Answer(IF request THEN Refused[net] ELSE Granted[net])
  /\ UNCHANGED <<flagVars, queueVars, capVars, maint, connected, wire>>

NetBatchFull ==
  /\ net = "more"
  /\ Len(batch) = Batch
  /\ net' = "send"
  /\ UNCHANGED <<flagVars, queueVars, capVars, maint, second, batch,
                 connected, wire>>

\* The quiesced branch: close, release the queue, acknowledge, wait.
NetDisconnect ==
  /\ net = "disconnect"
  /\ connected' = FALSE
  /\ net' = "suspend"
  /\ UNCHANGED <<flagVars, queueVars, capVars, maint, second, batch, wire>>

NetSuspend ==
  /\ net = "suspend"
  /\ admitted' = FALSE
  /\ queue' = <<>>
  /\ net' = "confirm"
  /\ UNCHANGED <<flagVars, capVars, maint, second, batch, connected, wire>>

NetConfirmUserPause ==
  /\ net = "confirm"
  /\ net' = IF paused THEN "ack" ELSE "delay"
  /\ UNCHANGED <<flagVars, queueVars, capVars, maint, second, batch,
                 connected, wire>>

NetConfirm ==
  /\ net = "confirm"
  /\ net' = IF request THEN "ack" ELSE "delay"
  /\ UNCHANGED <<flagVars, queueVars, capVars, maint, second, batch,
                 connected, wire>>

NetAcknowledge ==
  /\ net = "ack"
  /\ ack' = TRUE
  /\ net' = "delay"
  /\ UNCHANGED <<paused, request, present, queueVars, capVars, maint, second,
                 batch, connected, wire>>

NetDelay ==
  /\ net = "delay"
  /\ PollOutlastsRequest => maint # "set"
  /\ net' = "top"
  /\ UNCHANGED <<flagVars, queueVars, capVars, maint, second, batch,
                 connected, wire>>

\* The sending branch: collect up to Batch packets and send them once.

NetResume ==
  /\ net = "resume"
  /\ admitted' = TRUE
  /\ net' = "pop"
  /\ UNCHANGED <<flagVars, queue, capVars, maint, second, batch, connected,
                 wire>>

NetPop ==
  /\ net \in {"pop", "popNext"}
  /\ IF queue # <<>>
     THEN /\ batch' = Append(batch, Head(queue))
          /\ queue' = Tail(queue)
          /\ net' = "more"
     ELSE /\ net' = IF net = "pop" THEN "top" ELSE "send"
          /\ UNCHANGED <<batch, queue>>
  /\ UNCHANGED <<flagVars, capVars, maint, second, admitted, connected, wire>>

NetConnect ==
  /\ net = "connect"
  /\ \/ /\ connected' = TRUE
        /\ net' = "write"
        /\ UNCHANGED batch
     \/ /\ ~connected
        /\ BackToTop
        /\ UNCHANGED connected
  /\ UNCHANGED <<flagVars, queueVars, capVars, maint, second, wire>>

\* A write that fails has delivered some prefix; the connection is dropped
\* and the batch is never offered again.
TransmitRetries ==
  /\ net = "transmit"
  /\ \/ wire' = wire \o batch /\ BackToTop /\ UNCHANGED connected
     \/ \E n \in 0 .. Len(batch) - 1 :
          /\ wire' = wire \o SubSeq(batch, 1, n)
          /\ connected' = FALSE
          /\ net' = "connect"
          /\ UNCHANGED batch
  /\ UNCHANGED <<flagVars, queueVars, capVars, maint, second>>

NetTransmit ==
  /\ net = "transmit"
  /\ \/ wire' = wire \o batch /\ UNCHANGED connected
     \/ \E n \in 0 .. Len(batch) - 1 :
          wire' = wire \o SubSeq(batch, 1, n) /\ connected' = FALSE
  /\ BackToTop
  /\ UNCHANGED <<flagVars, queueVars, capVars, maint, second>>

Network ==
  /\ present
  /\ \/ NetReadPaused \/ NetReadRequest \/ NetBatchFull
     \/ NetDisconnect \/ NetSuspend \/ NetConfirm \/ NetAcknowledge \/ NetDelay
     \/ NetResume \/ NetPop \/ NetConnect \/ NetTransmit

-----------------------------------------------------------------------------
(***************************************************************************)
(* The maintenance worker: pause_transport() and the guard it returns.     *)
(***************************************************************************)
MaintClearForgotten ==
  /\ maint = "idle"
  /\ maint' = "set"
  /\ UNCHANGED <<flagVars, queueVars, capVars, netVars>>

MaintClear ==
  /\ maint = "idle"
  /\ ack' = FALSE
  /\ maint' = "set"
  /\ UNCHANGED <<paused, request, present, queueVars, capVars, netVars>>

MaintRequest ==
  /\ maint = "set"
  /\ request' = TRUE
  /\ maint' = "waiting"
  /\ UNCHANGED <<paused, ack, present, queueVars, capVars, netVars>>

MaintGranted ==
  /\ maint = "waiting"
  /\ ~present \/ ack
  /\ maint' = "granted"
  /\ UNCHANGED <<flagVars, queueVars, capVars, netVars>>

\* The guard is dropped: after the maintenance, or when the wait timed out.
MaintEnd ==
  /\ maint \in {"waiting", "granted"}
  /\ request' = FALSE
  /\ maint' = "idle"
  /\ UNCHANGED <<paused, ack, present, queueVars, capVars, netVars>>

Maintenance == MaintClear \/ MaintRequest \/ MaintGranted \/ MaintEnd

\* POST /api/stream and the stream button.
SetStreamingEnabled ==
  /\ paused' = ~paused
  /\ UNCHANGED <<request, ack, present, queueVars, capVars, netVars, maint>>

PipelineNext == Capture \/ Network \/ Maintenance \/ SetStreamingEnabled

PipelineSpec == PipelineInit /\ [][PipelineNext]_pipelineVars

\* Both tasks loop forever and every blocking call of theirs has a timeout; a
\* requester that made its first store makes the second.
PipelineFairSpec ==
  PipelineSpec /\ WF_pipelineVars(Network) /\ WF_pipelineVars(Capture) /\ WF_pipelineVars(MaintRequest)

-----------------------------------------------------------------------------
Numbers == 0 .. MaxSeq

(* Every variable keeps its type; the queue and the batch keep their limit. *)
PipelineTypeOK ==
  /\ paused \in BOOLEAN /\ request \in BOOLEAN /\ ack \in BOOLEAN
  /\ present \in BOOLEAN /\ admitted \in BOOLEAN
  /\ queue \in Seq(Numbers) /\ Len(queue) <= Depth
  /\ nextSeq \in Numbers /\ capSeq \in Numbers
  /\ cap \in {"read", "gate", "push"}
  /\ net \in NetSteps /\ second \in BOOLEAN
  /\ batch \in Seq(Numbers) /\ Len(batch) <= Batch
  /\ connected \in BOOLEAN
  /\ wire \in Seq(Numbers)
  /\ maint \in {"idle", "set", "waiting", "granted"}

(***************************************************************************)
(* Maintenance that was admitted has the transport's memory to itself: the *)
(* connection is closed, the queue released, nothing is being collected,   *)
(* and no capture in flight can bring any of it back.                      *)
(***************************************************************************)
MaintenanceExclusive ==
  maint = "granted" =>
    ~connected /\ ~admitted /\ queue = <<>> /\ batch = <<>>

(***************************************************************************)
(* Packets reach the wire in the order of their numbers and at most once,  *)
(* through queue drops, partial writes, reconnects and suspensions.        *)
(***************************************************************************)
Increasing(s) == \A i \in 1 .. Len(s), j \in 1 .. Len(s) : i < j => s[i] < s[j]

WireOrder == Increasing(wire)

(***************************************************************************)
(* A request for quiescence is acknowledged, or withdrawn.                 *)
(***************************************************************************)
QuiesceAnswered == (request /\ present) ~> (ack \/ ~request)

(***************************************************************************)
(* Streaming that is enabled again, with no maintenance left, gets its     *)
(* queue back.                                                             *)
(***************************************************************************)
StreamingResumes == <>[](present /\ ~paused /\ ~request) => <>[]admitted

(***************************************************************************)
(* Maintenance comes and goes: a request is answered, and when the last is *)
(* withdrawn the stream has its queue back.                                *)
(***************************************************************************)
PauseEnds == QuiesceAnswered /\ StreamingResumes

(***************************************************************************)
(* status.rs:90: "Clearing the acknowledgement here means a stale one from *)
(* an earlier request can never satisfy this one."                         *)
(***************************************************************************)
StaleAckNeverSatisfies ==
  (maint = "granted" /\ present) =>
    net \in {"top", "disconnect", "suspend", "confirm", "ack", "delay"}
=============================================================================
