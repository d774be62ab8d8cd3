------------------------------- MODULE Playout -------------------------------
(***************************************************************************)
(* The bridge's playout buffer, bridge/src/streamline_bridge/playout.py:   *)
(* packets of one source are admitted by sequence number (ingest) and      *)
(* played one per packet interval by a worker thread (next_chunk).  Every  *)
(* method body runs under one lock, so each is one action here.            *)
(*                                                                         *)
(* A payload is "audio" or "silence": explicit silence travels as an empty *)
(* payload and is what the buffer may stretch or shorten to follow its     *)
(* adaptive target.  The statistics counters are abstracted to `outcome`,  *)
(* the counter or return value of the latest call.  The time that the      *)
(* adaptive target depends on is left open: `Observed` and `Impaired` are  *)
(* the moves AdaptiveBuffer.observe and impair can make.                   *)
(***************************************************************************)
EXTENDS Integers, FiniteSets

CONSTANTS
  Half,        \* half of the sequence space: 2^31 in the code
  MinTarget,   \* adaptive minimum, in packets
  MaxTarget,   \* adaptive maximum, in packets
  Step,        \* packets per adaptive step
  Slack,       \* packets admitted beyond the adaptive maximum
  MaxOutage,   \* concealed packets in a row before playout rebuffers
  MaxRepeat    \* losses concealed by repeating the last payload

ASSUME PlayoutAssumption ==
  /\ Half \in Nat /\ MinTarget \in Nat /\ MaxTarget \in Nat
  /\ Step \in Nat /\ Slack \in Nat /\ MaxOutage \in Nat /\ MaxRepeat \in Nat
  /\ 1 <= MinTarget /\ MinTarget <= MaxTarget
  /\ 1 <= Step /\ 1 <= Slack /\ 1 <= MaxOutage
  /\ MaxTarget + Slack < Half

VARIABLES
  closed,      \* _closed
  ready,       \* the _ready event: enough is buffered, or the buffer closed
  packets,     \* what is stored at each sequence number
  playoutSeq,  \* the number played next, or NoSeq
  arrivalSeq,  \* the furthest arrival of this session, or NoSeq
  target,      \* the adaptive target
  applied,     \* the delay playout has applied of it
  lossRun,     \* losses in a row, for the repeat concealment
  outage,      \* concealed packets in a row, for the rebuffer decision
  last,        \* what the last real chunk was: "none", "audio" or "silence"
  worker,      \* the playout thread
  outcome      \* what the latest call counted or returned

vars == <<closed, ready, packets, playoutSeq, arrivalSeq, target, applied,
          lossRun, outage, last, worker, outcome>>

SeqMod == 2 * Half
Seqs == 0 .. SeqMod - 1
NoSeq == -1
Payloads == {"audio", "silence"}
Slots == Payloads \cup {"none"}
Empty == [s \in Seqs |-> "none"]
Capacity == MaxTarget + Slack

Succ(s) == IF s = SeqMod - 1 THEN 0 ELSE s + 1

\* How far `seq` lies ahead of `base`, modulo the sequence space; seq_distance
\* is negative behind it and positive beyond.
Ahead(base, seq) == IF seq >= base THEN seq - base ELSE seq - base + SeqMod

Behind(base, seq) == Ahead(base, seq) >= Half
Beyond(base, seq) == seq # base /\ Ahead(base, seq) < Half

Stored(p) == {s \in Seqs : p[s] # "none"}
Buffered == Stored(packets)

-----------------------------------------------------------------------------
(***************************************************************************)
(* The adaptive target.  An arrival that does not advance the stream is    *)
(* ignored; one that does may raise the target to what the observed delay  *)
(* requires, or release at most one step.  An impairment raises it by one  *)
(* step unless it belongs to a burst already counted.                      *)
(***************************************************************************)
Smaller(a, b) == IF a < b THEN a ELSE b

Advances(seq) == arrivalSeq = NoSeq \/ Beyond(arrivalSeq, seq)

Observed(seq) ==
  IF Advances(seq)
  THEN {t \in MinTarget .. MaxTarget : t >= target - Step}
  ELSE {target}

Impaired(t) == {t, Smaller(MaxTarget, t + Step)}

\* Two ways to get the next operation wrong, used to show that the
\* properties notice: the event is cleared although the buffer is closed; the
\* place to play from survives.
ClearForgetsClosed ==
  /\ packets' = Empty
  /\ ready' = FALSE
  /\ playoutSeq' = NoSeq
  /\ arrivalSeq' = NoSeq
  /\ lossRun' = 0
  /\ outage' = 0

ClearKeepsAnchor ==
  /\ packets' = Empty
  /\ ready' = closed
  /\ arrivalSeq' = NoSeq
  /\ lossRun' = 0
  /\ outage' = 0
  /\ UNCHANGED playoutSeq

\* _clear_for_rebuffer: everything stored goes, and the event is left set
\* once the buffer is closed.
ClearForRebuffer ==
  /\ packets' = Empty
  /\ ready' = closed
  /\ playoutSeq' = NoSeq
  /\ arrivalSeq' = NoSeq
  /\ lossRun' = 0
  /\ outage' = 0

\* Enough is buffered to start playing.
Filled(n, t) == n >= t

\* Setting the event releases a worker that is blocked in wait().
Woken == IF worker = "waiting" THEN "running" ELSE worker

-----------------------------------------------------------------------------
Init ==
  /\ closed = FALSE
  /\ ready = FALSE
  /\ packets = Empty
  /\ playoutSeq = NoSeq
  /\ arrivalSeq = NoSeq
  /\ target = MinTarget
  /\ applied = MinTarget
  /\ lossRun = 0
  /\ outage = 0
  /\ last = "none"
  /\ worker = "starting"
  /\ outcome = "none"

-----------------------------------------------------------------------------
(***************************************************************************)
(* ingest(seq, payload): what a packet meets, in the order of its tests.   *)
(***************************************************************************)
NoteArrival(seq) == arrivalSeq' = IF Advances(seq) THEN seq ELSE arrivalSeq

NeverLate(seq) == FALSE
IsLate(seq) == playoutSeq # NoSeq /\ Behind(playoutSeq, seq)

IngestLate(seq) ==
  /\ IsLate(seq)
  /\ \E t \in Observed(seq) : target' \in Impaired(t)
  /\ outcome' = "late"
  /\ UNCHANGED <<ready, packets, playoutSeq, applied, worker>>

IngestDuplicate(seq) ==
  /\ ~IsLate(seq)
  /\ seq \in Buffered
  /\ target' \in Observed(seq)
  /\ outcome' = "duplicate"
  /\ UNCHANGED <<ready, packets, playoutSeq, applied, worker>>

\* The buffer is full: False is returned and the producer is disconnected.
IngestOverflow(seq) ==
  /\ ~IsLate(seq)
  /\ seq \notin Buffered
  /\ Cardinality(Buffered) >= Capacity
  /\ target' \in Observed(seq)
  /\ outcome' = "overflow"
  /\ UNCHANGED <<ready, packets, playoutSeq, applied, worker>>

IngestStore(seq, payload) ==
  /\ ~IsLate(seq)
  /\ seq \notin Buffered
  /\ Cardinality(Buffered) < Capacity
  /\ target' \in Observed(seq)
  /\ packets' = [packets EXCEPT ![seq] = payload]
  /\ playoutSeq' = IF playoutSeq = NoSeq THEN seq ELSE playoutSeq
  /\ IF Filled(Cardinality(Buffered) + 1, target')
     THEN /\ ready' = TRUE
          /\ applied' = IF ready THEN applied ELSE target'
          /\ worker' = Woken
     ELSE UNCHANGED <<ready, applied, worker>>
  /\ outcome' = "stored"

Ingest(seq, payload) ==
  /\ ~closed
  /\ NoteArrival(seq)
  /\ \/ IngestLate(seq)
     \/ IngestDuplicate(seq)
     \/ IngestOverflow(seq)
     \/ IngestStore(seq, payload)
  /\ UNCHANGED <<closed, lossRun, outage, last>>

-----------------------------------------------------------------------------
(***************************************************************************)
(* next_chunk(), called by the worker once per packet interval.            *)
(***************************************************************************)
Playing == ~closed /\ ready /\ playoutSeq # NoSeq

\* Playout waits one interval on explicit silence to grow the delay.
MayHold == packets[playoutSeq] = "silence" /\ applied < target

\* Playout skips one of two explicit silences to shrink the delay.
MayReduceAudio == applied > target /\ packets[Succ(playoutSeq)] = "silence"
MayReduce ==
  /\ packets[playoutSeq] = "silence"
  /\ applied > target
  /\ packets[Succ(playoutSeq)] = "silence"

ChunkEnd ==
  /\ closed
  /\ worker' = "stopped"
  /\ outcome' = "end"
  /\ UNCHANGED <<closed, ready, packets, playoutSeq, arrivalSeq, target,
                 applied, lossRun, outage, last>>

ChunkIdle ==
  /\ ~closed
  /\ ~Playing
  /\ outcome' = "idle"
  /\ UNCHANGED <<closed, ready, packets, playoutSeq, arrivalSeq, target,
                 applied, lossRun, outage, last, worker>>

ChunkHold ==
  /\ Playing
  /\ MayHold
  /\ applied' = applied + 1
  /\ outcome' = "hold"
  /\ UNCHANGED <<closed, ready, packets, playoutSeq, arrivalSeq, target,
                 lossRun, outage, last, worker>>

ChunkReduce ==
  /\ Playing
  /\ MayReduce
  /\ applied' = applied - 1
  /\ packets' = [packets EXCEPT ![playoutSeq] = "none",
                                ![Succ(playoutSeq)] = "none"]
  /\ playoutSeq' = Succ(Succ(playoutSeq))
  /\ lossRun' = 0
  /\ outage' = 0
  /\ last' = "silence"
  /\ outcome' = "reduce"
  /\ UNCHANGED <<closed, ready, arrivalSeq, target, worker>>

ChunkPlay ==
  /\ Playing
  /\ packets[playoutSeq] # "none"
  /\ ~MayHold
  /\ ~MayReduce
  /\ packets' = [packets EXCEPT ![playoutSeq] = "none"]
  /\ playoutSeq' = Succ(playoutSeq)
  /\ lossRun' = 0
  /\ outage' = 0
  /\ last' = packets[playoutSeq]
  /\ outcome' = packets[playoutSeq]
  /\ UNCHANGED <<closed, ready, arrivalSeq, target, applied, worker>>

\* A loss repeats the last chunk for a while and is muted afterwards.
Concealment == IF last # "none" /\ lossRun + 1 <= MaxRepeat
               THEN "repeat" ELSE "mute"

ChunkConceal ==
  /\ Playing
  /\ packets[playoutSeq] = "none"
  /\ target' \in Impaired(target)
  /\ IF outage + 1 > MaxOutage
     THEN /\ ClearForRebuffer
          /\ outcome' = "underrun"
     ELSE /\ playoutSeq' = Succ(playoutSeq)
          /\ lossRun' = lossRun + 1
          /\ outage' = outage + 1
          /\ outcome' = Concealment
          /\ UNCHANGED <<packets, ready, arrivalSeq>>
  /\ UNCHANGED <<closed, applied, last, worker>>

NextChunk ==
  /\ worker = "running"
  /\ \/ ChunkEnd \/ ChunkIdle \/ ChunkHold
     \/ ChunkReduce \/ ChunkPlay \/ ChunkConceal

\* PlayoutWorker.run: the thread blocks once, until the first audio.
WorkerStart ==
  /\ worker = "starting"
  /\ worker' = IF ready THEN "running" ELSE "waiting"
  /\ UNCHANGED <<closed, ready, packets, playoutSeq, arrivalSeq, target,
                 applied, lossRun, outage, last, outcome>>

-----------------------------------------------------------------------------
\* reset_source_session(): a producer took the source over.
Reset ==
  /\ ClearForRebuffer
  /\ last' = "none"
  /\ outcome' = "reset"
  /\ UNCHANGED <<closed, target, applied, worker>>

\* note_tcp_disconnect(): a lost producer counts as an impairment.
NoteDisconnect ==
  /\ target' \in Impaired(target)
  /\ outcome' = "disconnect"
  /\ UNCHANGED <<closed, ready, packets, playoutSeq, arrivalSeq, applied,
                 lossRun, outage, last, worker>>

Close ==
  /\ closed' = TRUE
  /\ packets' = Empty
  /\ ready' = TRUE
  /\ worker' = Woken
  /\ outcome' = "closed"
  /\ UNCHANGED <<playoutSeq, arrivalSeq, target, applied, lossRun, outage,
                 last>>

Next ==
  \/ \E s \in Seqs, p \in Payloads : Ingest(s, p)
  \/ NextChunk
  \/ WorkerStart
  \/ Reset
  \/ NoteDisconnect
  \/ Close

Spec == Init /\ [][Next]_vars

\* The worker is a running thread that calls next_chunk on every tick.
WorkerFairness == WF_vars(NextChunk) /\ WF_vars(WorkerStart)

FairSpec == Spec /\ WorkerFairness

-----------------------------------------------------------------------------
Outcomes == {"none", "late", "duplicate", "overflow", "stored", "end", "idle",
             "hold", "reduce", "audio", "silence", "repeat", "mute",
             "underrun", "reset", "disconnect", "closed"}

(***************************************************************************)
(* Every variable of the buffer keeps its type, and the adaptive target    *)
(* and the delay applied of it stay within the configured bounds.          *)
(***************************************************************************)
TypeOK ==
  /\ closed \in BOOLEAN
  /\ ready \in BOOLEAN
  /\ packets \in [Seqs -> Slots]
  /\ playoutSeq \in Seqs \cup {NoSeq}
  /\ arrivalSeq \in Seqs \cup {NoSeq}
  /\ target \in MinTarget .. MaxTarget
  /\ applied \in MinTarget .. MaxTarget
  /\ lossRun \in 0 .. MaxOutage
  /\ outage \in 0 .. MaxOutage
  /\ last \in Slots
  /\ worker \in {"starting", "waiting", "running", "stopped"}
  /\ outcome \in Outcomes

(***************************************************************************)
(* Whatever is stored is still ahead of playout, also across the wrap of   *)
(* the sequence space: nothing that playout passed can be stored again and *)
(* be played a second time, and nothing is stranded behind it.             *)
(***************************************************************************)
BufferWindow ==
  /\ playoutSeq = NoSeq => Buffered = {}
  /\ \A s \in Buffered : ~Behind(playoutSeq, s)

(***************************************************************************)
(* While the buffer fills it stays below its limit: a producer is only     *)
(* ever disconnected for overflow when playout is running and lags.        *)
(***************************************************************************)
PrefillFits ==
  /\ ~ready => Cardinality(Buffered) < MaxTarget
  /\ Cardinality(Buffered) <= Capacity

(***************************************************************************)
(* Playout that becomes ready has the packet it starts with: filling never *)
(* ends in a concealed loss, and an open buffer that reports ready has a   *)
(* place to play from.                                                     *)
(***************************************************************************)
AnchorBuffered ==
  /\ (~ready /\ playoutSeq # NoSeq) => playoutSeq \in Buffered
  /\ (ready /\ ~closed) => playoutSeq # NoSeq

(***************************************************************************)
(* The buffer is sound: what it holds is ahead of playout, within its      *)
(* limits, and what playout starts with.                                   *)
(***************************************************************************)
BufferSound == BufferWindow /\ PrefillFits /\ AnchorBuffered

(***************************************************************************)
(* Audio that was admitted leaves the buffer only by being played in its   *)
(* turn, or with everything else when the session ends or playout gives up *)
(* after an outage.  Following the target removes explicit silence only.   *)
(***************************************************************************)
AudioLeavesPlayed ==
  [][\A s \in Seqs :
       packets[s] = "audio" /\ packets'[s] # "audio" =>
         \/ outcome' = "audio" /\ s = playoutSeq
         \/ outcome' \in {"reset", "underrun", "closed"}]_vars

(***************************************************************************)
(* One tick moves playout by at most one packet, except the single skip    *)
(* over explicit silence, and it never moves back within a session.        *)
(***************************************************************************)
PlayoutMovesForward ==
  [][playoutSeq # NoSeq /\ playoutSeq' # NoSeq =>
       \/ playoutSeq' \in {playoutSeq, Succ(playoutSeq)}
       \/ /\ playoutSeq' = Succ(Succ(playoutSeq))
          /\ packets[playoutSeq] = "silence"
          /\ packets[Succ(playoutSeq)] = "silence"]_vars

(***************************************************************************)
(* Playout passes over nothing: audio is played in its turn, and the       *)
(* sequence advances packet by packet.                                     *)
(***************************************************************************)
NothingPassedOver == AudioLeavesPlayed /\ PlayoutMovesForward

(***************************************************************************)
(* A closed buffer always ends its worker, whatever else is called during  *)
(* the shutdown: pipeline.close() joins that thread.                       *)
(***************************************************************************)
CloseStopsWorker == closed ~> (worker = "stopped")
=============================================================================
