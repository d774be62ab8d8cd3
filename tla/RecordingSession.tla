-------------------------- MODULE RecordingSession --------------------------
(***************************************************************************)
(* One recording of a source (recording/session.py): the source's ingest   *)
(* thread offers every accepted packet to a bounded queue, a writer thread *)
(* reconstructs the source's timeline from it, and an API call stops it.   *)
(* The timeline counts packets: a packet is made at a time, its sequence   *)
(* number counts times modulo SeqMod, and it holds audio or is an explicit *)
(* record of silence.                                                      *)
(***************************************************************************)
EXTENDS Integers, Sequences

CONSTANTS
  QueueChunks,          \* capacity of the writer's queue
  MaxGap, MaxLength,    \* longest gap filled, longest recording, in packets
  SeqMod,               \* sequence numbers, 2^32 in the code
  StartSeq,             \* number of the packet at time 0
  MaxTime,              \* bound of the model: the source's last packet
  Silence, Nothing

ASSUME RecordingSessionAssumption ==
  /\ QueueChunks \in Nat \ {0} /\ MaxGap \in Nat /\ MaxLength \in Nat
  /\ SeqMod \in Nat \ {0} /\ SeqMod % 2 = 0 /\ StartSeq \in Nat /\ MaxTime \in Nat
  /\ Silence \notin 0 .. MaxTime /\ Nothing \notin 0 .. SeqMod - 1

\* The source sends for less than half the sequence space, 132 days: numbers
\* further apart than that have no order.
ASSUME SourceBounded == MaxTime < SeqMod \div 2

Times == 0 .. MaxTime
Packets == [time : Times, audio : BOOLEAN]
Number(time) == (StartSeq + time) % SeqMod

\* Signed distance of two sequence numbers.
Distance(a, b) == ((b - a + SeqMod \div 2) % SeqMod) - SeqMod \div 2

VARIABLES
  newest,       \* time of the newest packet accepted
  heard,        \* times of the audio accepted in order, for the properties
  offering,     \* the packet the ingest thread is about to put, or Nothing
  queue,
  state, stop, error,
  writer,       \* how far the writer thread has come
  previous,     \* number of the packet written last, or Nothing
  archive,      \* what was written, one entry per packet
  verdict,      \* ending and error the writer decided to report
  saved,        \* the manifest
  attached,     \* the tap and the lease of the source are held
  stopper       \* how far a call of stop has come

source == <<newest, heard, offering>>
control == <<state, stop, error>>
output == <<previous, archive>>
ending == <<verdict, saved>>
sessionVars == <<source, queue, control, writer, output, ending, attached, stopper>>

Waiting == {"waiting-for-audio", "recording"}
Terminal == {"complete", "interrupted", "empty"}
Errors == {"queue", "backwards", "gap", "limit", "space", "storage"}

SessionInit ==
  /\ newest = -1 /\ heard = {} /\ offering = Nothing
  /\ queue = <<>>
  /\ state = "waiting-for-audio" /\ stop = FALSE /\ error = Nothing
  /\ writer = "consume" /\ previous = Nothing /\ archive = <<>>
  /\ verdict = Nothing /\ saved = Nothing
  /\ attached = TRUE
  /\ stopper = "idle"

\* A reason to end the recording counts unless it is ending already.
Interrupt(reason) ==
  IF stop THEN UNCHANGED control
  ELSE stop' = TRUE /\ error' = reason /\ state' = "finalizing"

-----------------------------------------------------------------------------
(***************************************************************************)
(* The ingest thread, while the tap is registered.  It finds the session   *)
(* accepting, and then puts the packet without holding the lock.           *)
(***************************************************************************)
Accepting == state \in Waiting /\ ~stop

PublishState(p) ==
  /\ attached /\ offering = Nothing
  /\ Accepting
  /\ offering' = p
  /\ UNCHANGED <<newest, heard, queue, control, writer, output, ending, attached, stopper>>

Offer ==
  /\ offering # Nothing
  /\ Len(queue) < QueueChunks
  /\ queue' = Append(queue, offering)
  /\ LET ahead == offering.time > newest
     IN /\ newest' = IF ahead THEN offering.time ELSE newest
        /\ heard' = IF ahead /\ offering.audio THEN heard \cup {offering.time} ELSE heard
  /\ offering' = Nothing
  /\ UNCHANGED <<control, writer, output, ending, attached, stopper>>

OfferFull ==
  /\ offering # Nothing
  /\ Len(queue) = QueueChunks
  /\ Interrupt("queue")
  /\ offering' = Nothing
  /\ UNCHANGED <<newest, heard, queue, writer, output, ending, attached, stopper>>

-----------------------------------------------------------------------------
(***************************************************************************)
(* The writer takes one packet at a time.                                  *)
(***************************************************************************)
Take == writer = "consume" /\ queue # <<>> /\ queue' = Tail(queue)
Taken == Head(queue)

Step == IF previous = Nothing THEN 1 ELSE Distance(previous, Number(Taken.time))
GapShort(step) == IF step > 1 THEN step - 2 ELSE 0
Gap(step) == step - 1

Entry(p) == IF p.audio THEN p.time ELSE Silence
Added == [i \in 1 .. Gap(Step) |-> Silence] \o <<Entry(Taken)>>

\* Leading silence and duplicates write nothing.
Skip ==
  /\ Take
  /\ (previous = Nothing /\ ~Taken.audio) \/ Step = 0
  /\ UNCHANGED <<source, control, writer, output, ending, attached, stopper>>

Break(reason) ==
  /\ Interrupt(reason)
  /\ writer' = "finish"
  /\ UNCHANGED <<source, output, ending, attached, stopper>>

Backwards == Step < 0
TooLong == Gap(Step) > MaxGap
Fills == (previous # Nothing \/ Taken.audio) /\ Step > 0 /\ ~TooLong
Over == Len(archive) + Gap(Step) + 1 > MaxLength

Reject ==
  /\ Take
  /\ \/ Backwards /\ Break("backwards")
     \/ TooLong /\ Break("gap")
     \/ Fills /\ Over /\ Break("limit")
     \/ Fills /\ ~Over /\ Break("space")

Write ==
  /\ Take
  /\ Fills /\ ~Over

AppendPacket ==
  /\ Write
  /\ archive' = archive \o Added
  /\ previous' = Number(Taken.time)
  /\ state' = "recording"
  /\ UNCHANGED <<source, stop, error, writer, ending, attached, stopper>>

\* A write fails, having written some of it.
WriteChunkFails ==
  /\ Write
  /\ \E n \in 0 .. Len(Added) : archive' = archive \o SubSeq(Added, 1, n)
  /\ error' = "storage"
  /\ writer' = "finish"
  /\ UNCHANGED <<source, state, stop, previous, ending, attached, stopper>>

DrainedByState ==
  /\ writer = "consume" /\ state = "finalizing" /\ queue = <<>>
  /\ writer' = "finish"
  /\ UNCHANGED <<source, queue, control, output, ending, attached, stopper>>

Drained ==
  /\ writer = "consume" /\ stop /\ queue = <<>>
  /\ writer' = "finish"
  /\ UNCHANGED <<source, queue, control, output, ending, attached, stopper>>

-----------------------------------------------------------------------------
(***************************************************************************)
(* The writer ends the recording: the ending is decided, the file is      *)
(* finalized or discarded, the state set and the manifest saved; each file *)
(* operation may fail.                                                     *)
(***************************************************************************)
Decide ==
  /\ writer = "finish"
  /\ verdict' = [state |-> IF archive = <<>> THEN "empty"
                           ELSE IF error = Nothing THEN "complete" ELSE "interrupted",
                 error |-> error]
  /\ writer' = "settle"
  /\ UNCHANGED <<source, queue, control, output, saved, attached, stopper>>

Settle ==
  /\ writer = "settle"
  /\ state' = verdict.state
  /\ writer' = IF verdict.state = "empty" THEN "detach" ELSE "manifest"
  /\ UNCHANGED <<source, queue, stop, error, output, ending, attached, stopper>>

SaveSession ==
  /\ writer = "manifest"
  /\ saved' = verdict
  /\ writer' = "detach"
  /\ UNCHANGED <<source, queue, control, output, verdict, attached, stopper>>

FinishFails ==
  /\ writer \in {"settle", "manifest"}
  /\ error' = "storage" /\ state' = "interrupted"
  /\ writer' = "detach"
  /\ UNCHANGED <<source, queue, stop, output, ending, attached, stopper>>

Finished ==
  /\ writer = "detach"
  /\ attached' = FALSE
  /\ writer' = "ended"
  /\ UNCHANGED <<source, queue, control, output, ending, stopper>>

-----------------------------------------------------------------------------
(***************************************************************************)
(* Stopping: whoever takes the binding detaches it, then stops the session *)
(* and joins the writer.                                                   *)
(***************************************************************************)
Detach ==
  /\ stopper = "idle" /\ attached
  /\ attached' = FALSE
  /\ stopper' = "detached"
  /\ UNCHANGED <<source, queue, control, writer, output, ending>>

Stop ==
  /\ stopper = "detached"
  /\ state' = IF state \in Waiting THEN "finalizing" ELSE state
  /\ stop' = TRUE
  /\ stopper' = "joining"
  /\ UNCHANGED <<source, queue, error, writer, output, ending, attached>>

Joined ==
  /\ stopper = "joining" /\ writer = "ended"
  /\ stopper' = "returned"
  /\ UNCHANGED <<source, queue, control, writer, output, ending, attached>>

Ingest == (\E p \in Packets : PublishState(p)) \/ Offer \/ OfferFull

Consume == Skip \/ Reject \/ AppendPacket \/ WriteChunkFails \/ Drained

FinishSession == Decide \/ Settle \/ SaveSession \/ FinishFails \/ Finished

SessionNext == Ingest \/ Consume \/ FinishSession \/ Detach \/ Stop \/ Joined

SessionSpec == SessionInit /\ [][SessionNext]_sessionVars

(* The threads run; nothing makes the source send. *)
SessionFairSpec == SessionSpec /\ WF_sessionVars(Consume \/ FinishSession) /\ WF_sessionVars(Stop \/ Joined)

-----------------------------------------------------------------------------
(* The session is well formed, and its queue and its length stay bounded. *)
SessionTypeOK ==
  /\ newest \in -1 .. MaxTime /\ heard \subseteq Times
  /\ offering \in Packets \cup {Nothing}
  /\ queue \in Seq(Packets) /\ Len(queue) <= QueueChunks
  /\ state \in Waiting \cup Terminal \cup {"finalizing"}
  /\ stop \in BOOLEAN /\ error \in Errors \cup {Nothing}
  /\ writer \in {"consume", "finish", "settle", "manifest", "detach", "ended"}
  /\ previous \in 0 .. SeqMod - 1 \cup {Nothing}
  /\ Len(archive) <= MaxLength
  /\ \A i \in 1 .. Len(archive) : archive[i] \in Times \cup {Silence}
  /\ verdict \in [state : Terminal, error : Errors \cup {Nothing}] \cup {Nothing}
  /\ saved \in {Nothing, verdict}
  /\ attached \in BOOLEAN
  /\ stopper \in {"idle", "detached", "joining", "returned"}

(***************************************************************************)
(* The archive invents no audio and loses none: every packet stands at its *)
(* place on the source's timeline, counted from the first, and no silence  *)
(* stands where audio was accepted in order.                               *)
(***************************************************************************)
Timeline ==
  \A i \in 1 .. Len(archive) :
    LET time == archive[1] + i - 1
    IN IF archive[i] = Silence THEN time \notin heard
       ELSE archive[i] = time

(***************************************************************************)
(* A session is well formed and what it wrote is the source's timeline.    *)
(***************************************************************************)
SessionSound == SessionTypeOK /\ Timeline

(***************************************************************************)
(* Stopping a session returns, however much its source still sends.        *)
(***************************************************************************)
StopReturns == stopper = "detached" ~> stopper = "returned"

(***************************************************************************)
(* A recording that is interrupted ends and releases its source by itself, *)
(* while the source goes on sending.                                       *)
(***************************************************************************)
InterruptEnds == stop ~> writer = "ended" /\ ~attached

(***************************************************************************)
(* Whoever ends a session, it ends: a stop returns, and an interruption    *)
(* ends the writer and releases the source.                                *)
(***************************************************************************)
SessionEnds == StopReturns /\ InterruptEnds

(***************************************************************************)
(* recordings.md: stop drains the queue and finalizes or discards the      *)
(* session; what it returns is the session's ending.                      *)
(***************************************************************************)
StopReturnsOutcome == stopper = "returned" => state \in Terminal

(***************************************************************************)
(* recordings.md: an interrupted recording states why it stopped.          *)
(***************************************************************************)
StatesWhy == [][error # Nothing => error' \in {error, "storage"}]_sessionVars
=============================================================================
