--------------------------- MODULE StreamingProofs ---------------------------
(***************************************************************************)
(* Proofs about the stages of the PCM stream, for every value of their     *)
(* constants: the bridge's playout buffer, the device's pipeline up to the *)
(* wire, the bridge's listeners, and last playout behind one producer.     *)
(***************************************************************************)
EXTENDS PlayoutStream, Pipeline, Fanout, FiniteSetTheorems, TLAPS

-----------------------------------------------------------------------------
(***************************************************************************)
(* The playout buffer.                                                     *)
(***************************************************************************)
\* What the checked invariants rest on besides each other: the two loss
\* counters run together, and closing leaves nothing stored.
LossRunsTogether == lossRun = outage
ClosedIsEmpty == closed => ready /\ Buffered = {}

PlayoutInv ==
  /\ TypeOK
  /\ LossRunsTogether
  /\ ClosedIsEmpty
  /\ BufferWindow
  /\ PrefillFits
  /\ AnchorBuffered

-----------------------------------------------------------------------------
(* Sequence numbers: the code's modular arithmetic.                        *)

\* The successor of a sequence number is one, and is not the number itself.
LEMMA SuccType ==
  ASSUME NEW s \in Seqs
  PROVE  Succ(s) \in Seqs /\ Succ(s) # s /\ Succ(s) # NoSeq /\ s # NoSeq
BY PlayoutAssumption DEF Succ, Seqs, SeqMod, NoSeq

\* A number that is not behind playout and is not the one being played is
\* not behind the next one either.
LEMMA WindowShifts ==
  ASSUME NEW p \in Seqs, NEW s \in Seqs, s # p, ~Behind(p, s)
  PROVE  ~Behind(Succ(p), s)
BY PlayoutAssumption DEF Behind, Ahead, Succ, Seqs, SeqMod

\* A number is never behind itself.
LEMMA NotBehindItself ==
  ASSUME NEW s \in Seqs
  PROVE  ~Behind(s, s)
BY PlayoutAssumption DEF Behind, Ahead, Seqs, SeqMod

-----------------------------------------------------------------------------
(* What is stored: finite, and counted by the number of filled slots.      *)

\* The stored set is finite and its size is a natural number.
LEMMA StoredFinite ==
  ASSUME NEW p
  PROVE  IsFiniteSet(Stored(p)) /\ Cardinality(Stored(p)) \in Nat
<1>1. IsFiniteSet(Seqs)
  BY FS_Interval, PlayoutAssumption DEF Seqs, SeqMod
<1>2. Stored(p) \subseteq Seqs
  BY DEF Stored
<1>3. IsFiniteSet(Stored(p))
  BY <1>1, <1>2, FS_Subset
<1> QED
  BY <1>3, FS_CardinalityType

\* Storing at a free number adds exactly that number.
LEMMA StoreAdds ==
  ASSUME NEW p \in [Seqs -> Slots], NEW s \in Seqs, s \notin Stored(p),
         NEW x \in Payloads
  PROVE  LET q == [p EXCEPT ![s] = x]
         IN  /\ q \in [Seqs -> Slots]
             /\ Stored(q) = Stored(p) \cup {s}
             /\ Cardinality(Stored(q)) = Cardinality(Stored(p)) + 1
<1> DEFINE q == [p EXCEPT ![s] = x]
<1>1. q \in [Seqs -> Slots] /\ Stored(q) = Stored(p) \cup {s}
  BY DEF Stored, Slots, Payloads
<1>2. Cardinality(Stored(p) \cup {s}) = Cardinality(Stored(p)) + 1
  BY StoredFinite, FS_AddElement
<1> QED
  BY <1>1, <1>2

\* Nothing is stored in the empty buffer.
LEMMA EmptyStored ==
  /\ Empty \in [Seqs -> Slots]
  /\ Stored(Empty) = {}
  /\ Cardinality(Stored(Empty)) = 0
<1>1. Empty \in [Seqs -> Slots] /\ Stored(Empty) = {}
  BY DEF Empty, Stored, Slots
<1> QED
  BY <1>1, FS_EmptySet

-----------------------------------------------------------------------------
(* The adaptive target moves within its bounds.                            *)

\* Whatever an arrival does to the target, it stays within its bounds.
LEMMA ObservedType ==
  ASSUME TypeOK, NEW s \in Seqs, NEW t \in Observed(s)
  PROVE  t \in MinTarget .. MaxTarget
BY DEF Observed, TypeOK

\* An impairment keeps the target within its bounds.
LEMMA ImpairedType ==
  ASSUME NEW u \in MinTarget .. MaxTarget, NEW t \in Impaired(u)
  PROVE  t \in MinTarget .. MaxTarget
BY PlayoutAssumption DEF Impaired, Smaller

-----------------------------------------------------------------------------
(* One lemma per action.                                                   *)

\* The invariant holds of a freshly constructed buffer.
LEMMA PlayoutInitInv == Init => PlayoutInv
<1> SUFFICES ASSUME Init PROVE PlayoutInv
  OBVIOUS
<1>1. TypeOK
  <2>1. packets \in [Seqs -> Slots]
    BY EmptyStored DEF Init
  <2>2. target \in MinTarget .. MaxTarget /\ applied \in MinTarget .. MaxTarget
        /\ lossRun \in 0 .. MaxOutage /\ outage \in 0 .. MaxOutage
    BY PlayoutAssumption DEF Init
  <2>3. last \in Slots /\ outcome \in Outcomes
    BY DEF Init, Slots, Outcomes
  <2> QED
    BY <2>1, <2>2, <2>3 DEF Init, TypeOK
<1>2. Buffered = {} /\ Cardinality(Buffered) = 0
  BY EmptyStored DEF Init, Buffered
<1> QED
  BY <1>1, <1>2, PlayoutAssumption
  DEF Init, PlayoutInv, LossRunsTogether, ClosedIsEmpty, BufferWindow, PrefillFits,
      AnchorBuffered, Capacity

\* Dropping everything stored establishes every part that speaks of storage.
LEMMA ClearInv ==
  ASSUME PlayoutInv, ClearForRebuffer, closed' = closed, applied' = applied,
         target' \in MinTarget .. MaxTarget, last' \in Slots,
         worker' = worker, outcome' \in Outcomes
  PROVE  PlayoutInv'
<1>1. packets' \in [Seqs -> Slots] /\ Buffered' = {}
      /\ Cardinality(Buffered') = 0
  BY EmptyStored DEF ClearForRebuffer, Buffered
<1>2. TypeOK'
  BY <1>1, PlayoutAssumption DEF PlayoutInv, TypeOK, ClearForRebuffer, NoSeq
<1> QED
  BY <1>1, <1>2, PlayoutAssumption
  DEF PlayoutInv, TypeOK, ClearForRebuffer, LossRunsTogether, ClosedIsEmpty,
      BufferWindow, PrefillFits, AnchorBuffered, Capacity

\* A step that only moves the target, the arrival mark or the delay keeps it.
LEMMA QuietInv ==
  ASSUME PlayoutInv,
         UNCHANGED <<closed, ready, packets, playoutSeq, lossRun, outage>>,
         target' \in MinTarget .. MaxTarget,
         applied' \in MinTarget .. MaxTarget,
         arrivalSeq' \in Seqs \cup {NoSeq}, last' \in Slots,
         worker' \in {"starting", "waiting", "running", "stopped"},
         outcome' \in Outcomes
  PROVE  PlayoutInv'
<1>1. Buffered' = Buffered
  BY DEF Buffered
<1> QED
  BY <1>1
  DEF PlayoutInv, TypeOK, LossRunsTogether, ClosedIsEmpty, BufferWindow,
      PrefillFits, AnchorBuffered

\* Playing or skipping what is at the head keeps the rest in the window.
LEMMA AdvanceInv ==
  ASSUME PlayoutInv, Playing, packets' \in [Seqs -> Slots],
         Buffered' \subseteq Buffered,
         playoutSeq' \in Seqs,
         \A s \in Buffered' : ~Behind(playoutSeq', s),
         UNCHANGED <<closed, ready>>,
         lossRun' = outage', outage' \in 0 .. MaxOutage,
         target' \in MinTarget .. MaxTarget,
         applied' \in MinTarget .. MaxTarget,
         arrivalSeq' = arrivalSeq, last' \in Slots, worker' = worker,
         outcome' \in Outcomes
  PROVE  PlayoutInv'
<1>1. IsFiniteSet(Buffered) /\ Cardinality(Buffered) \in Nat
  BY StoredFinite DEF Buffered
<1>2. Cardinality(Buffered') <= Cardinality(Buffered)
      /\ Cardinality(Buffered') \in Nat
  BY <1>1, FS_Subset, FS_CardinalityType
<1>3. playoutSeq' # NoSeq
  BY SuccType
<1>4. TypeOK'
  BY DEF PlayoutInv, TypeOK
<1>5. Cardinality(Buffered') <= Capacity
  BY <1>1, <1>2, PlayoutAssumption DEF PlayoutInv, PrefillFits, Capacity
<1> QED
  BY <1>3, <1>4, <1>5
  DEF PlayoutInv, Playing, LossRunsTogether, ClosedIsEmpty, BufferWindow,
      PrefillFits, AnchorBuffered

\* Storing a packet that is neither late, nor stored, nor beyond the limit.
LEMMA StoreInv ==
  ASSUME PlayoutInv, ~closed, NEW s \in Seqs, NEW p \in Payloads,
         NoteArrival(s), IngestStore(s, p),
         UNCHANGED <<closed, lossRun, outage, last>>
  PROVE  PlayoutInv'
<1>1. /\ packets' \in [Seqs -> Slots]
      /\ Buffered' = Buffered \cup {s}
      /\ Cardinality(Buffered') = Cardinality(Buffered) + 1
      /\ Cardinality(Buffered) \in Nat
  BY StoreAdds, StoredFinite DEF IngestStore, Buffered, PlayoutInv, TypeOK
<1>2. target' \in MinTarget .. MaxTarget
  BY ObservedType DEF IngestStore, PlayoutInv
<1>3. arrivalSeq' \in Seqs \cup {NoSeq}
  BY DEF NoteArrival, PlayoutInv, TypeOK
<1>4. playoutSeq' \in Seqs /\ playoutSeq' # NoSeq
  BY SuccType DEF IngestStore, PlayoutInv, TypeOK
<1>5. ~Behind(playoutSeq', s)
  BY NotBehindItself DEF IngestStore, IsLate
<1>6. \A x \in Buffered : ~Behind(playoutSeq', x)
  BY DEF IngestStore, PlayoutInv, BufferWindow
<1>7. CASE Filled(Cardinality(Buffered) + 1, target')
  <2>1. ready' = TRUE /\ applied' \in MinTarget .. MaxTarget
        /\ worker' \in {"starting", "waiting", "running", "stopped"}
    BY <1>2, <1>7 DEF IngestStore, Woken, PlayoutInv, TypeOK
  <2>2. TypeOK'
    BY <1>1, <1>2, <1>3, <1>4, <2>1
    DEF IngestStore, PlayoutInv, TypeOK, Outcomes
  <2>3. Cardinality(Buffered') <= Capacity
    BY <1>1, PlayoutAssumption DEF IngestStore, Capacity
  <2> QED
    BY <1>1, <1>4, <1>5, <1>6, <2>1, <2>2, <2>3
    DEF PlayoutInv, LossRunsTogether, ClosedIsEmpty, BufferWindow, PrefillFits,
        AnchorBuffered
<1>8. CASE ~Filled(Cardinality(Buffered) + 1, target')
  <2>1. UNCHANGED <<ready, applied, worker>>
    BY <1>8 DEF IngestStore
  <2>2. TypeOK'
    BY <1>1, <1>2, <1>3, <1>4, <2>1
    DEF IngestStore, PlayoutInv, TypeOK, Outcomes
  <2>3. /\ Cardinality(Buffered') < MaxTarget
        /\ Cardinality(Buffered') <= Capacity
    BY <1>1, <1>2, <1>8, PlayoutAssumption DEF Capacity, Filled
  <2>4. playoutSeq' \in Buffered' \/ ready'
    BY <1>1, <2>1 DEF IngestStore, PlayoutInv, AnchorBuffered
  <2> QED
    BY <1>1, <1>4, <1>5, <1>6, <2>1, <2>2, <2>3, <2>4
    DEF PlayoutInv, LossRunsTogether, ClosedIsEmpty, BufferWindow, PrefillFits,
        AnchorBuffered
<1> QED
  BY <1>7, <1>8

\* Every outcome of ingest keeps the invariant.
LEMMA IngestInv ==
  ASSUME PlayoutInv, NEW s \in Seqs, NEW p \in Payloads, Ingest(s, p)
  PROVE  PlayoutInv'
<1>1. arrivalSeq' \in Seqs \cup {NoSeq}
  BY DEF Ingest, NoteArrival, PlayoutInv, TypeOK
<1>2. CASE IngestLate(s)
  <2>1. target' \in MinTarget .. MaxTarget
    BY <1>2, ObservedType, ImpairedType DEF IngestLate, PlayoutInv
  <2> QED
    BY <1>1, <1>2, <2>1, QuietInv
    DEF Ingest, IngestLate, PlayoutInv, TypeOK, Outcomes
<1>3. CASE IngestDuplicate(s)
  <2>1. target' \in MinTarget .. MaxTarget
    BY <1>3, ObservedType DEF IngestDuplicate, PlayoutInv
  <2> QED
    BY <1>1, <1>3, <2>1, QuietInv
    DEF Ingest, IngestDuplicate, PlayoutInv, TypeOK, Outcomes
<1>4. CASE IngestOverflow(s)
  <2>1. target' \in MinTarget .. MaxTarget
    BY <1>4, ObservedType DEF IngestOverflow, PlayoutInv
  <2> QED
    BY <1>1, <1>4, <2>1, QuietInv
    DEF Ingest, IngestOverflow, PlayoutInv, TypeOK, Outcomes
<1>5. CASE IngestStore(s, p)
  BY <1>5, StoreInv DEF Ingest
<1> QED
  BY <1>2, <1>3, <1>4, <1>5 DEF Ingest

\* Every chunk the worker draws keeps the invariant.
LEMMA NextChunkInv ==
  ASSUME PlayoutInv, NextChunk
  PROVE  PlayoutInv'
<1>1. CASE ChunkEnd
  BY <1>1, QuietInv DEF ChunkEnd, PlayoutInv, TypeOK, Outcomes
<1>2. CASE ChunkIdle
  BY <1>2, QuietInv DEF ChunkIdle, PlayoutInv, TypeOK, Outcomes
<1>3. CASE ChunkHold
  <2>1. applied' \in MinTarget .. MaxTarget
    BY <1>3, PlayoutAssumption DEF ChunkHold, MayHold, PlayoutInv, TypeOK
  <2> QED
    BY <1>3, <2>1, QuietInv DEF ChunkHold, PlayoutInv, TypeOK, Outcomes
<1>4. CASE ChunkReduce
  <2> DEFINE following == Succ(playoutSeq)
  <2>1. playoutSeq \in Seqs /\ following \in Seqs /\ Succ(following) \in Seqs
    BY <1>4, SuccType DEF ChunkReduce, Playing, PlayoutInv, TypeOK
  <2>2. packets' \in [Seqs -> Slots]
        /\ Buffered' = Buffered \ {playoutSeq, following}
    BY <1>4, <2>1
    DEF ChunkReduce, PlayoutInv, TypeOK, Stored, Buffered, Slots
  <2>3. \A s \in Buffered' : ~Behind(Succ(following), s)
    <3> SUFFICES ASSUME NEW s \in Buffered' PROVE ~Behind(Succ(following), s)
      OBVIOUS
    <3>1. s \in Seqs /\ s # playoutSeq /\ s # following
          /\ ~Behind(playoutSeq, s)
      BY <2>2 DEF PlayoutInv, BufferWindow, Buffered, Stored
    <3>2. ~Behind(following, s)
      BY <2>1, <3>1, WindowShifts
    <3> QED
      BY <2>1, <3>1, <3>2, WindowShifts
  <2>4. applied' \in MinTarget .. MaxTarget
    BY <1>4, PlayoutAssumption DEF ChunkReduce, MayReduce, PlayoutInv, TypeOK
  <2>5. /\ Playing
        /\ playoutSeq' = Succ(following)
        /\ lossRun' = outage' /\ outage' \in 0 .. MaxOutage
        /\ target' \in MinTarget .. MaxTarget
        /\ last' \in Slots /\ outcome' \in Outcomes
        /\ UNCHANGED <<closed, ready, arrivalSeq, worker>>
    BY <1>4, PlayoutAssumption
    DEF ChunkReduce, PlayoutInv, TypeOK, Outcomes, Slots, Payloads
  <2> QED
    BY <2>1, <2>2, <2>3, <2>4, <2>5, AdvanceInv
<1>5. CASE ChunkPlay
  <2>1. playoutSeq \in Seqs /\ Succ(playoutSeq) \in Seqs
    BY <1>5, SuccType DEF ChunkPlay, Playing, PlayoutInv, TypeOK
  <2>2. packets' \in [Seqs -> Slots]
        /\ Buffered' = Buffered \ {playoutSeq}
    BY <1>5, <2>1 DEF ChunkPlay, PlayoutInv, TypeOK, Stored, Buffered, Slots
  <2>3. \A s \in Buffered' : ~Behind(Succ(playoutSeq), s)
    <3> SUFFICES ASSUME NEW s \in Buffered'
                 PROVE ~Behind(Succ(playoutSeq), s)
      OBVIOUS
    <3>1. s \in Seqs /\ s # playoutSeq /\ ~Behind(playoutSeq, s)
      BY <2>2 DEF PlayoutInv, BufferWindow, Buffered, Stored
    <3> QED
      BY <2>1, <3>1, WindowShifts
  <2>4. packets[playoutSeq] \in Payloads
    BY <1>5, <2>1 DEF ChunkPlay, PlayoutInv, TypeOK, Slots
  <2>5. last' \in Slots /\ outcome' \in Outcomes
    BY <1>5, <2>4 DEF ChunkPlay, Slots, Payloads, Outcomes
  <2>6. /\ Playing
        /\ playoutSeq' = Succ(playoutSeq)
        /\ lossRun' = outage' /\ outage' \in 0 .. MaxOutage
        /\ target' \in MinTarget .. MaxTarget
        /\ applied' \in MinTarget .. MaxTarget
        /\ UNCHANGED <<closed, ready, arrivalSeq, worker>>
    BY <1>5, PlayoutAssumption DEF ChunkPlay, PlayoutInv, TypeOK
  <2> QED
    BY <2>1, <2>2, <2>3, <2>5, <2>6, AdvanceInv
<1>6. CASE ChunkConceal
  <2>1. target' \in MinTarget .. MaxTarget
    BY <1>6, ImpairedType DEF ChunkConceal, PlayoutInv, TypeOK
  <2>2. CASE outage + 1 > MaxOutage
    BY <1>6, <2>1, <2>2, ClearInv
    DEF ChunkConceal, PlayoutInv, TypeOK, Outcomes
  <2>3. CASE ~(outage + 1 > MaxOutage)
    <3>1. playoutSeq \in Seqs /\ Succ(playoutSeq) \in Seqs
      BY <1>6, SuccType DEF ChunkConceal, Playing, PlayoutInv, TypeOK
    <3>2. /\ Playing
          /\ packets' \in [Seqs -> Slots]
          /\ Buffered' = Buffered
          /\ playoutSeq' = Succ(playoutSeq)
          /\ applied' \in MinTarget .. MaxTarget
          /\ last' \in Slots
          /\ UNCHANGED <<closed, ready, arrivalSeq, worker>>
      BY <1>6, <2>3 DEF ChunkConceal, Buffered, PlayoutInv, TypeOK
    <3>3. \A s \in Buffered' : ~Behind(Succ(playoutSeq), s)
      <4> SUFFICES ASSUME NEW s \in Buffered'
                   PROVE ~Behind(Succ(playoutSeq), s)
        OBVIOUS
      <4>1. s \in Seqs /\ s # playoutSeq /\ ~Behind(playoutSeq, s)
        BY <1>6, <3>2
        DEF ChunkConceal, PlayoutInv, BufferWindow, Buffered, Stored
      <4> QED
        BY <3>1, <4>1, WindowShifts
    <3>4. lossRun' = outage' /\ outage' \in 0 .. MaxOutage
      BY <1>6, <2>3, PlayoutAssumption
      DEF ChunkConceal, PlayoutInv, TypeOK, LossRunsTogether
    <3>5. outcome' \in Outcomes
      BY <1>6, <2>3 DEF ChunkConceal, Concealment, Outcomes
    <3> QED
      BY <2>1, <3>1, <3>2, <3>3, <3>4, <3>5, AdvanceInv
  <2> QED
    BY <2>2, <2>3
<1> QED
  BY <1>1, <1>2, <1>3, <1>4, <1>5, <1>6 DEF NextChunk

\* Every step keeps the invariant.
LEMMA PlayoutNextInv ==
  ASSUME PlayoutInv, [Next]_vars
  PROVE  PlayoutInv'
<1>1. ASSUME NEW s \in Seqs, NEW p \in Payloads, Ingest(s, p) PROVE PlayoutInv'
  BY <1>1, IngestInv
<1>2. CASE NextChunk
  BY <1>2, NextChunkInv
<1>3. CASE WorkerStart
  BY <1>3, QuietInv DEF WorkerStart, PlayoutInv, TypeOK
<1>4. CASE Reset
  BY <1>4, ClearInv DEF Reset, PlayoutInv, TypeOK, Slots, Outcomes
<1>5. CASE NoteDisconnect
  <2>1. target' \in MinTarget .. MaxTarget
    BY <1>5, ImpairedType DEF NoteDisconnect, PlayoutInv, TypeOK
  <2> QED
    BY <1>5, <2>1, QuietInv DEF NoteDisconnect, PlayoutInv, TypeOK, Outcomes
<1>6. CASE Close
  <2>1. packets' \in [Seqs -> Slots] /\ Buffered' = {}
        /\ Cardinality(Buffered') = 0
    BY <1>6, EmptyStored DEF Close, Buffered
  <2>2. TypeOK'
    BY <1>6, <2>1 DEF Close, Woken, PlayoutInv, TypeOK, Outcomes
  <2> QED
    BY <1>6, <2>1, <2>2, PlayoutAssumption
    DEF Close, PlayoutInv, LossRunsTogether, ClosedIsEmpty, BufferWindow,
        PrefillFits, AnchorBuffered, Capacity
<1>7. CASE UNCHANGED vars
  BY <1>7, QuietInv DEF vars, PlayoutInv, TypeOK
<1> QED
  BY <1>1, <1>2, <1>3, <1>4, <1>5, <1>6, <1>7 DEF Next

(***************************************************************************)
(* The inductive invariant holds in every reachable state.                 *)
(***************************************************************************)
THEOREM PlayoutInvariance == Spec => []PlayoutInv
<1>1. Init => PlayoutInv
  BY PlayoutInitInv
<1>2. PlayoutInv /\ [Next]_vars => PlayoutInv'
  BY PlayoutNextInv
<1> QED
  BY <1>1, <1>2, PTL DEF Spec

(***************************************************************************)
(* Type correctness, with the target and the applied delay in bounds.      *)
(***************************************************************************)
THEOREM PlayoutTypeCorrect == Spec => []TypeOK
BY PlayoutInvariance, PTL DEF PlayoutInv

(***************************************************************************)
(* Nothing stored is ever behind playout, for a sequence space of any size *)
(* and any configured delay.                                               *)
(***************************************************************************)
THEOREM WindowHolds == Spec => []BufferWindow
BY PlayoutInvariance, PTL DEF PlayoutInv

(***************************************************************************)
(* Filling never overflows, and the buffer never exceeds its capacity.     *)
(***************************************************************************)
THEOREM PrefillHolds == Spec => []PrefillFits
BY PlayoutInvariance, PTL DEF PlayoutInv

(***************************************************************************)
(* Playout always starts on a packet it has.                               *)
(***************************************************************************)
THEOREM AnchorHolds == Spec => []AnchorBuffered
BY PlayoutInvariance, PTL DEF PlayoutInv

(***************************************************************************)
(* The buffer is sound for every size of the sequence space, every limit   *)
(* and any sequence of calls.                                              *)
(***************************************************************************)
THEOREM BufferHolds == Spec => []BufferSound
BY WindowHolds, PrefillHolds, AnchorHolds, PTL DEF BufferSound

-----------------------------------------------------------------------------
(***************************************************************************)
(* Nothing is passed over: what one step takes out, and how far it moves.  *)
(***************************************************************************)
LeavesPlayed ==
  \A s \in Seqs :
    packets[s] = "audio" /\ packets'[s] # "audio" =>
      \/ outcome' = "audio" /\ s = playoutSeq
      \/ outcome' \in {"reset", "underrun", "closed"}

MovesForward ==
  playoutSeq # NoSeq /\ playoutSeq' # NoSeq =>
    \/ playoutSeq' \in {playoutSeq, Succ(playoutSeq)}
    \/ /\ playoutSeq' = Succ(Succ(playoutSeq))
       /\ packets[playoutSeq] = "silence"
       /\ packets[Succ(playoutSeq)] = "silence"

\* A packet is stored where nothing was, so that it replaces no audio, and
\* it moves playout only when there was no place to play from.
LEMMA IngestPasses ==
  ASSUME PlayoutInv, NEW s \in Seqs, NEW p \in Payloads, Ingest(s, p)
  PROVE  LeavesPlayed /\ MovesForward
<1>1. CASE UNCHANGED <<packets, playoutSeq>>
  BY <1>1 DEF LeavesPlayed, MovesForward
<1>2. CASE IngestStore(s, p)
  <2>1. packets \in [Seqs -> Slots] /\ packets[s] = "none"
    BY <1>2 DEF IngestStore, PlayoutInv, TypeOK, Buffered, Stored
  <2>2. \A t \in Seqs : packets[t] = "audio" => packets'[t] = "audio"
    BY <1>2, <2>1 DEF IngestStore
  <2>3. playoutSeq # NoSeq => playoutSeq' = playoutSeq
    BY <1>2 DEF IngestStore
  <2> QED
    BY <2>2, <2>3 DEF LeavesPlayed, MovesForward
<1> QED
  BY <1>1, <1>2 DEF Ingest, IngestLate, IngestDuplicate, IngestOverflow

\* A chunk is what stood at the head, two silences, or a concealed loss.
LEMMA ChunkPasses ==
  ASSUME PlayoutInv, NextChunk
  PROVE  LeavesPlayed /\ MovesForward
<1>1. packets \in [Seqs -> Slots]
  BY DEF PlayoutInv, TypeOK
<1>2. CASE ChunkEnd \/ ChunkIdle \/ ChunkHold
  <2>1. UNCHANGED <<packets, playoutSeq>>
    BY <1>2 DEF ChunkEnd, ChunkIdle, ChunkHold
  <2> QED
    BY <2>1 DEF LeavesPlayed, MovesForward
<1>3. CASE ChunkReduce
  <2>1. packets[playoutSeq] = "silence" /\ packets[Succ(playoutSeq)] = "silence"
    BY <1>3 DEF ChunkReduce, MayReduce
  <2>2. \A s \in Seqs : packets[s] = "audio" => packets'[s] = "audio"
    BY <1>1, <1>3, <2>1 DEF ChunkReduce
  <2> QED
    BY <1>3, <2>1, <2>2 DEF ChunkReduce, LeavesPlayed, MovesForward
<1>4. CASE ChunkPlay
  <2>1. \A s \in Seqs : packets[s] = "audio" /\ packets'[s] # "audio" =>
                        s = playoutSeq /\ outcome' = "audio"
    BY <1>1, <1>4 DEF ChunkPlay
  <2>2. playoutSeq' = Succ(playoutSeq)
    BY <1>4 DEF ChunkPlay
  <2> QED
    BY <2>1, <2>2 DEF LeavesPlayed, MovesForward
<1>5. CASE ChunkConceal
  <2>1. \/ outcome' = "underrun" /\ playoutSeq' = NoSeq
        \/ packets' = packets /\ playoutSeq' = Succ(playoutSeq)
    BY <1>5 DEF ChunkConceal, ClearForRebuffer
  <2> QED
    BY <2>1 DEF LeavesPlayed, MovesForward
<1> QED
  BY <1>2, <1>3, <1>4, <1>5 DEF NextChunk

\* Every step of the buffer.
LEMMA StepPasses ==
  ASSUME PlayoutInv, [Next]_vars
  PROVE  LeavesPlayed /\ MovesForward
<1>1. ASSUME NEW s \in Seqs, NEW p \in Payloads, Ingest(s, p)
      PROVE  LeavesPlayed /\ MovesForward
  BY <1>1, IngestPasses
<1>2. CASE NextChunk
  BY <1>2, ChunkPasses
<1>3. CASE WorkerStart \/ NoteDisconnect \/ UNCHANGED vars
  <2>1. UNCHANGED <<packets, playoutSeq>>
    BY <1>3 DEF WorkerStart, NoteDisconnect, vars
  <2> QED
    BY <2>1 DEF LeavesPlayed, MovesForward
<1>4. CASE Reset
  <2>1. outcome' = "reset" /\ playoutSeq' = NoSeq
    BY <1>4 DEF Reset, ClearForRebuffer
  <2> QED
    BY <2>1 DEF LeavesPlayed, MovesForward
<1>5. CASE Close
  <2>1. outcome' = "closed" /\ playoutSeq' = playoutSeq
    BY <1>5 DEF Close
  <2> QED
    BY <2>1 DEF LeavesPlayed, MovesForward
<1> QED
  BY <1>1, <1>2, <1>3, <1>4, <1>5 DEF Next

(***************************************************************************)
(* Playout passes over nothing: audio leaves the buffer by being played in *)
(* its turn, or with everything else, and the sequence advances packet by  *)
(* packet but for the silence that is skipped to shorten the delay.        *)
(***************************************************************************)
THEOREM PassesNothing == Spec => NothingPassedOver
<1>1. PlayoutInv /\ [Next]_vars => [LeavesPlayed]_vars /\ [MovesForward]_vars
  BY StepPasses
<1>2. Spec => [][LeavesPlayed]_vars /\ [][MovesForward]_vars
  BY <1>1, PlayoutInvariance, PTL DEF Spec
<1> QED
  BY <1>2
  DEF LeavesPlayed, MovesForward, NothingPassedOver, AudioLeavesPlayed,
      PlayoutMovesForward

-----------------------------------------------------------------------------
(***************************************************************************)
(* The pipeline: maintenance is exclusive, and packets reach the wire in   *)
(* the order of their numbers and at most once.                            *)
(***************************************************************************)
USE DEF Checks

(***************************************************************************)
(* What the network task has released, by where it is.                     *)
(***************************************************************************)
Released == ~connected /\ ~admitted /\ queue = <<>> /\ batch = <<>>

Quiet == net \in {"top", "disconnect", "suspend", "confirm", "ack", "delay"}

Flags ==
  /\ paused \in BOOLEAN /\ request \in BOOLEAN /\ ack \in BOOLEAN
  /\ present \in BOOLEAN /\ admitted \in BOOLEAN /\ connected \in BOOLEAN
  /\ net \in NetSteps /\ second \in BOOLEAN
  /\ maint \in {"idle", "set", "waiting", "granted"}

ReleasedByPlace ==
  /\ Quiet \/ net \in {"resume", "pop"} => batch = <<>>
  /\ net \in {"suspend", "confirm", "ack", "delay"} => ~connected
  /\ net \in {"confirm", "ack", "delay"} => ~admitted /\ queue = <<>>

RequestMatches == request <=> maint \in {"waiting", "granted"}

\* An acknowledgement given to this request still stands for what it said.
AckStands ==
  ack /\ maint # "idle" =>
    /\ Released /\ Quiet
    /\ maint = "set" => net = "delay"

NoSender == ~present => Released

GrantedOnAck == maint = "granted" => ~present \/ ack

ExclusiveInv ==
  /\ Flags /\ ReleasedByPlace /\ RequestMatches /\ AckStands /\ NoSender
  /\ GrantedOnAck

(***************************************************************************)
(* Maintenance that was granted the transport's memory has it to itself,   *)
(* whatever the capture and network tasks were doing when it asked         *)
(* (status.rs:92-131, network.rs:35-110, pause.rs:19-32), provided the     *)
(* sender's poll outlasts the requester's two adjacent stores.             *)
(***************************************************************************)
THEOREM Exclusive ==
  ASSUME PollOutlastsRequest
  PROVE  PipelineSpec => []MaintenanceExclusive
<1>1. PipelineInit => ExclusiveInv
  <2> SUFFICES ASSUME PipelineInit PROVE ExclusiveInv
    OBVIOUS
  <2>1. Flags
    BY DEF PipelineInit, Flags, NetSteps
  <2>2. ReleasedByPlace /\ RequestMatches
    BY DEF PipelineInit, ReleasedByPlace, RequestMatches, Quiet
  <2>3. AckStands /\ NoSender /\ GrantedOnAck
    BY DEF PipelineInit, AckStands, NoSender, GrantedOnAck, Released, Quiet
  <2>4. QED
    BY <2>1, <2>2, <2>3 DEF ExclusiveInv
<1>2. ExclusiveInv /\ [PipelineNext]_pipelineVars => ExclusiveInv'
  <2> SUFFICES ASSUME ExclusiveInv, [PipelineNext]_pipelineVars PROVE ExclusiveInv'
    OBVIOUS
  <2> USE DEF ExclusiveInv
  <2>1. CASE Capture
    <3>1. Flags'
      BY <2>1 DEF Capture, CaptureTake, CaptureLose, CaptureGate, CapturePush,
                   flagVars, queueVars, netVars,
                   Flags, NetSteps
    <3>2. ReleasedByPlace' /\ RequestMatches'
      BY <2>1 DEF Capture, CaptureTake, CaptureLose, CaptureGate, CapturePush,
                   flagVars, queueVars, netVars,
                   Flags, ReleasedByPlace, RequestMatches, Quiet
    <3>3. AckStands' /\ NoSender' /\ GrantedOnAck'
      BY <2>1 DEF Capture, CaptureTake, CaptureLose, CaptureGate, CapturePush,
                   flagVars, queueVars, netVars,
                   Flags, ReleasedByPlace, RequestMatches, AckStands, NoSender,
                   GrantedOnAck, Released, Quiet
    <3>4. QED
      BY <3>1, <3>2, <3>3
  <2>2. CASE present /\ NetReadPaused
    <3>0. net' \in NetSteps
      BY <2>2 DEF NetReadPaused, Answer, Refused, BackToTop,
                   flagVars, queueVars, capVars,
                   NetSteps
    <3>1. Flags'
      BY <2>2, <3>0 DEF NetReadPaused, Answer, Refused, BackToTop,
                   flagVars, queueVars, capVars,
                   Flags
    <3>2. ReleasedByPlace' /\ RequestMatches'
      BY <2>2 DEF NetReadPaused, Answer, Refused, BackToTop,
                   flagVars, queueVars, capVars,
                   Flags, ReleasedByPlace, RequestMatches, Quiet
    <3>3. AckStands' /\ NoSender' /\ GrantedOnAck'
      BY <2>2 DEF NetReadPaused, Answer, Refused, BackToTop,
                   flagVars, queueVars, capVars,
                   Flags, ReleasedByPlace, RequestMatches, AckStands, NoSender,
                   GrantedOnAck, Released, Quiet
    <3>4. QED
      BY <3>1, <3>2, <3>3
  <2>3. CASE present /\ NetReadRequest
    <3>0. net' \in NetSteps
      BY <2>3 DEF NetReadRequest, Answer, Refused, Granted,
                   BackToTop, flagVars, queueVars, capVars,
                   NetSteps
    <3>1. Flags'
      BY <2>3, <3>0 DEF NetReadRequest, Answer, Refused, Granted,
                   BackToTop, flagVars, queueVars, capVars,
                   Flags
    <3>2. ReleasedByPlace' /\ RequestMatches'
      BY <2>3 DEF NetReadRequest, Answer, Refused, Granted,
                   BackToTop, flagVars, queueVars, capVars,
                   Flags, ReleasedByPlace, RequestMatches, Quiet
    <3>3. AckStands' /\ NoSender' /\ GrantedOnAck'
      BY <2>3 DEF NetReadRequest, Answer, Refused, Granted,
                   BackToTop, flagVars, queueVars, capVars,
                   Flags, ReleasedByPlace, RequestMatches, AckStands, NoSender,
                   GrantedOnAck, Released, Quiet
    <3>4. QED
      BY <3>1, <3>2, <3>3
  <2>4. CASE present /\ NetBatchFull
    <3>1. Flags'
      BY <2>4 DEF NetBatchFull, flagVars, queueVars, capVars,
                   Flags, NetSteps
    <3>2. ReleasedByPlace' /\ RequestMatches'
      BY <2>4 DEF NetBatchFull, flagVars, queueVars, capVars,
                   Flags, ReleasedByPlace, RequestMatches, Quiet
    <3>3. AckStands' /\ NoSender' /\ GrantedOnAck'
      BY <2>4 DEF NetBatchFull, flagVars, queueVars, capVars,
                   Flags, ReleasedByPlace, RequestMatches, AckStands, NoSender,
                   GrantedOnAck, Released, Quiet
    <3>4. QED
      BY <3>1, <3>2, <3>3
  <2>5. CASE present /\ NetDisconnect
    <3>1. Flags'
      BY <2>5 DEF NetDisconnect, flagVars, queueVars, capVars,
                   Flags, NetSteps
    <3>2. ReleasedByPlace' /\ RequestMatches'
      BY <2>5 DEF NetDisconnect, flagVars, queueVars, capVars,
                   Flags, ReleasedByPlace, RequestMatches, Quiet
    <3>3. AckStands' /\ NoSender' /\ GrantedOnAck'
      BY <2>5 DEF NetDisconnect, flagVars, queueVars, capVars,
                   Flags, ReleasedByPlace, RequestMatches, AckStands, NoSender,
                   GrantedOnAck, Released, Quiet
    <3>4. QED
      BY <3>1, <3>2, <3>3
  <2>6. CASE present /\ NetSuspend
    <3>1. Flags'
      BY <2>6 DEF NetSuspend, flagVars, queueVars, capVars,
                   Flags, NetSteps
    <3>2. ReleasedByPlace' /\ RequestMatches'
      BY <2>6 DEF NetSuspend, flagVars, queueVars, capVars,
                   Flags, ReleasedByPlace, RequestMatches, Quiet
    <3>3. AckStands' /\ NoSender' /\ GrantedOnAck'
      BY <2>6 DEF NetSuspend, flagVars, queueVars, capVars,
                   Flags, ReleasedByPlace, RequestMatches, AckStands, NoSender,
                   GrantedOnAck, Released, Quiet
    <3>4. QED
      BY <3>1, <3>2, <3>3
  <2>7. CASE present /\ NetConfirm
    <3>1. Flags'
      BY <2>7 DEF NetConfirm, flagVars, queueVars, capVars,
                   Flags, NetSteps
    <3>2. ReleasedByPlace' /\ RequestMatches'
      BY <2>7 DEF NetConfirm, flagVars, queueVars, capVars,
                   Flags, ReleasedByPlace, RequestMatches, Quiet
    <3>3. AckStands' /\ NoSender' /\ GrantedOnAck'
      BY <2>7 DEF NetConfirm, flagVars, queueVars, capVars,
                   Flags, ReleasedByPlace, RequestMatches, AckStands, NoSender,
                   GrantedOnAck, Released, Quiet
    <3>4. QED
      BY <3>1, <3>2, <3>3
  <2>8. CASE present /\ NetAcknowledge
    <3>1. Flags'
      BY <2>8 DEF NetAcknowledge, flagVars, queueVars, capVars,
                   Flags, NetSteps
    <3>2. ReleasedByPlace' /\ RequestMatches'
      BY <2>8 DEF NetAcknowledge, flagVars, queueVars, capVars,
                   Flags, ReleasedByPlace, RequestMatches, Quiet
    <3>3. AckStands' /\ NoSender' /\ GrantedOnAck'
      BY <2>8 DEF NetAcknowledge, flagVars, queueVars, capVars,
                   Flags, ReleasedByPlace, RequestMatches, AckStands, NoSender,
                   GrantedOnAck, Released, Quiet
    <3>4. QED
      BY <3>1, <3>2, <3>3
  <2>9. CASE present /\ NetDelay
    <3>1. Flags'
      BY <2>9 DEF NetDelay, flagVars, queueVars, capVars,
                   Flags, NetSteps
    <3>2. ReleasedByPlace' /\ RequestMatches'
      BY <2>9 DEF NetDelay, flagVars, queueVars, capVars,
                   Flags, ReleasedByPlace, RequestMatches, Quiet
    <3>3. AckStands' /\ NoSender' /\ GrantedOnAck'
      BY <2>9 DEF NetDelay, flagVars, queueVars, capVars,
                   Flags, ReleasedByPlace, RequestMatches, AckStands, NoSender,
                   GrantedOnAck, Released, Quiet
    <3>4. QED
      BY <3>1, <3>2, <3>3
  <2>10. CASE present /\ NetResume
    <3>1. Flags'
      BY <2>10 DEF NetResume, flagVars, queueVars, capVars,
                   Flags, NetSteps
    <3>2. ReleasedByPlace' /\ RequestMatches'
      BY <2>10 DEF NetResume, flagVars, queueVars, capVars,
                   Flags, ReleasedByPlace, RequestMatches, Quiet
    <3>3. AckStands' /\ NoSender' /\ GrantedOnAck'
      BY <2>10 DEF NetResume, flagVars, queueVars, capVars,
                   Flags, ReleasedByPlace, RequestMatches, AckStands, NoSender,
                   GrantedOnAck, Released, Quiet
    <3>4. QED
      BY <3>1, <3>2, <3>3
  <2>11. CASE present /\ NetPop
    <3>1. Flags'
      BY <2>11 DEF NetPop, flagVars, queueVars, capVars,
                   Flags, NetSteps
    <3>2. ReleasedByPlace' /\ RequestMatches'
      BY <2>11 DEF NetPop, flagVars, queueVars, capVars,
                   Flags, ReleasedByPlace, RequestMatches, Quiet
    <3>3. AckStands' /\ NoSender' /\ GrantedOnAck'
      BY <2>11 DEF NetPop, flagVars, queueVars, capVars,
                   Flags, ReleasedByPlace, RequestMatches, AckStands, NoSender,
                   GrantedOnAck, Released, Quiet
    <3>4. QED
      BY <3>1, <3>2, <3>3
  <2>12. CASE present /\ NetConnect
    <3>1. Flags'
      BY <2>12 DEF NetConnect, BackToTop, flagVars, queueVars, capVars,
                   Flags, NetSteps
    <3>2. ReleasedByPlace' /\ RequestMatches'
      BY <2>12 DEF NetConnect, BackToTop, flagVars, queueVars, capVars,
                   Flags, ReleasedByPlace, RequestMatches, Quiet
    <3>3. AckStands' /\ NoSender' /\ GrantedOnAck'
      BY <2>12 DEF NetConnect, BackToTop, flagVars, queueVars, capVars,
                   Flags, ReleasedByPlace, RequestMatches, AckStands, NoSender,
                   GrantedOnAck, Released, Quiet
    <3>4. QED
      BY <3>1, <3>2, <3>3
  <2>13. CASE present /\ NetTransmit
    <3>1. Flags'
      BY <2>13 DEF NetTransmit, BackToTop, flagVars, queueVars, capVars,
                   Flags, NetSteps
    <3>2. ReleasedByPlace' /\ RequestMatches'
      BY <2>13 DEF NetTransmit, BackToTop, flagVars, queueVars, capVars,
                   Flags, ReleasedByPlace, RequestMatches, Quiet
    <3>3. AckStands' /\ NoSender' /\ GrantedOnAck'
      BY <2>13 DEF NetTransmit, BackToTop, flagVars, queueVars, capVars,
                   Flags, ReleasedByPlace, RequestMatches, AckStands, NoSender,
                   GrantedOnAck, Released, Quiet
    <3>4. QED
      BY <3>1, <3>2, <3>3
  <2>14. CASE Maintenance
    <3>1. Flags'
      <4>1. CASE MaintClear
        BY <4>1 DEF MaintClear, queueVars, capVars, netVars, Flags
      <4>2. CASE MaintRequest
        BY <4>2 DEF MaintRequest, queueVars, capVars, netVars, Flags
      <4>3. CASE MaintGranted
        BY <4>3 DEF MaintGranted, queueVars, capVars, netVars, flagVars, Flags
      <4>4. CASE MaintEnd
        BY <4>4 DEF MaintEnd, queueVars, capVars, netVars, Flags
      <4>5. QED
        BY <2>14, <4>1, <4>2, <4>3, <4>4 DEF Maintenance
    <3>2. ReleasedByPlace' /\ RequestMatches'
      BY <2>14 DEF Maintenance, MaintClear, MaintRequest, MaintGranted,
                   MaintEnd, flagVars, queueVars, capVars, netVars,
                   Flags, ReleasedByPlace, RequestMatches, Quiet
    <3>3. AckStands' /\ NoSender' /\ GrantedOnAck'
      BY <2>14 DEF Maintenance, MaintClear, MaintRequest, MaintGranted,
                   MaintEnd, flagVars, queueVars, capVars, netVars,
                   Flags, ReleasedByPlace, RequestMatches, AckStands, NoSender,
                   GrantedOnAck, Released, Quiet
    <3>4. QED
      BY <3>1, <3>2, <3>3
  <2>15. CASE SetStreamingEnabled
    <3>1. Flags'
      BY <2>15 DEF SetStreamingEnabled, queueVars, capVars, netVars,
                   Flags, NetSteps
    <3>2. ReleasedByPlace' /\ RequestMatches'
      BY <2>15 DEF SetStreamingEnabled, queueVars, capVars, netVars,
                   Flags, ReleasedByPlace, RequestMatches, Quiet
    <3>3. AckStands' /\ NoSender' /\ GrantedOnAck'
      BY <2>15 DEF SetStreamingEnabled, queueVars, capVars, netVars,
                   Flags, ReleasedByPlace, RequestMatches, AckStands, NoSender,
                   GrantedOnAck, Released, Quiet
    <3>4. QED
      BY <3>1, <3>2, <3>3
  <2>16. CASE UNCHANGED pipelineVars
    <3>1. Flags'
      BY <2>16 DEF pipelineVars,
                   Flags, NetSteps
    <3>2. ReleasedByPlace' /\ RequestMatches'
      BY <2>16 DEF pipelineVars,
                   Flags, ReleasedByPlace, RequestMatches, Quiet
    <3>3. AckStands' /\ NoSender' /\ GrantedOnAck'
      BY <2>16 DEF pipelineVars,
                   Flags, ReleasedByPlace, RequestMatches, AckStands, NoSender,
                   GrantedOnAck, Released, Quiet
    <3>4. QED
      BY <3>1, <3>2, <3>3
  <2>17. QED
    BY <2>1, <2>2, <2>3, <2>4, <2>5, <2>6, <2>7, <2>8,
       <2>9, <2>10, <2>11, <2>12, <2>13, <2>14, <2>15, <2>16 DEF PipelineNext, Network
<1>3. ExclusiveInv => MaintenanceExclusive
  BY DEF ExclusiveInv, AckStands, NoSender, GrantedOnAck, MaintenanceExclusive,
         Released
<1>4. QED
  BY <1>1, <1>2, <1>3, PTL DEF PipelineSpec

-----------------------------------------------------------------------------
(***************************************************************************)
(* The order of packets: whatever is on the wire precedes whatever was     *)
(* collected, which precedes whatever is queued, which precedes the packet *)
(* the capture task holds.                                                 *)
(***************************************************************************)
Before(a, b) == \A i \in 1 .. Len(a), j \in 1 .. Len(b) : a[i] < b[j]

Below(a, n) == \A i \in 1 .. Len(a) : a[i] < n

(* An ordered sequence stays ordered when a later number is appended.      *)
LEMMA AppendLater ==
  ASSUME NEW a \in Seq(Nat), NEW n \in Nat, Increasing(a), Below(a, n)
  PROVE  /\ Append(a, n) \in Seq(Nat)
         /\ Increasing(Append(a, n))
         /\ \A k \in Nat : n < k => Below(Append(a, n), k)
  BY DEF Increasing, Below

(* What precedes a sequence and a number precedes the two put together.    *)
LEMMA BeforeAppend ==
  ASSUME NEW a \in Seq(Nat), NEW b \in Seq(Nat), NEW n \in Nat,
         Before(a, b), Below(a, n)
  PROVE  Before(a, Append(b, n))
<1>1. /\ Len(a) \in Nat /\ Len(b) \in Nat
      /\ Len(Append(b, n)) = Len(b) + 1
      /\ Append(b, n)[Len(b) + 1] = n
      /\ \A j \in 1 .. Len(b) : Append(b, n)[j] = b[j]
  OBVIOUS
<1>2. QED
  BY <1>1 DEF Before, Below

(* Dropping the oldest keeps every order.                                  *)
LEMMA TailOrdered ==
  ASSUME NEW q \in Seq(Nat), q # <<>>, Increasing(q)
  PROVE  /\ Tail(q) \in Seq(Nat) /\ Head(q) \in Nat
         /\ Increasing(Tail(q))
         /\ \A a \in Seq(Nat) : Before(a, q) =>
              Before(a, Tail(q)) /\ Below(a, Head(q))
         /\ \A n \in Nat : Below(q, n) => Below(Tail(q), n) /\ Head(q) < n
         /\ \A j \in 1 .. Len(Tail(q)) : Head(q) < Tail(q)[j]
<1>1. /\ Tail(q) \in Seq(Nat) /\ Head(q) \in Nat /\ Len(q) \in Nat
      /\ Head(q) = q[1] /\ 1 \in 1 .. Len(q)
      /\ Len(Tail(q)) = Len(q) - 1
      /\ \A i \in 1 .. Len(Tail(q)) : Tail(q)[i] = q[i + 1]
  OBVIOUS
<1>2. Increasing(Tail(q)) /\ \A j \in 1 .. Len(Tail(q)) : Head(q) < Tail(q)[j]
  BY <1>1 DEF Increasing
<1>3. \A a \in Seq(Nat) : Before(a, q) =>
        Before(a, Tail(q)) /\ Below(a, Head(q))
  BY <1>1 DEF Before, Below
<1>4. \A n \in Nat : Below(q, n) => Below(Tail(q), n) /\ Head(q) < n
  BY <1>1 DEF Below
<1>5. QED
  BY <1>1, <1>2, <1>3, <1>4

(* Taking the head of a sequence behind another keeps the two in order.    *)
LEMMA TakeHead ==
  ASSUME NEW b \in Seq(Nat), NEW q \in Seq(Nat), q # <<>>,
         Increasing(q), Before(b, q)
  PROVE  Before(Append(b, Head(q)), Tail(q))
<1>1. /\ Tail(q) \in Seq(Nat) /\ Head(q) \in Nat
      /\ Before(b, Tail(q))
      /\ \A j \in 1 .. Len(Tail(q)) : Head(q) < Tail(q)[j]
  BY TailOrdered
<1>2. QED
  BY <1>1 DEF Before

(* Two ordered sequences one before the other make an ordered sequence.    *)
LEMMA ConcatOrdered ==
  ASSUME NEW w \in Seq(Nat), NEW p \in Seq(Nat),
         Increasing(w), Increasing(p), Before(w, p)
  PROVE  /\ w \o p \in Seq(Nat)
         /\ Increasing(w \o p)
         /\ \A q \in Seq(Nat) : Before(w, q) /\ Before(p, q) => Before(w \o p, q)
         /\ \A n \in Nat : Below(w, n) /\ Below(p, n) => Below(w \o p, n)
<1> DEFINE c == w \o p
           m == Len(w)
<1>1. /\ c \in Seq(Nat) /\ m \in Nat /\ Len(c) \in Nat
      /\ \A i \in 1 .. Len(c) :
           \/ i \in 1 .. m /\ c[i] = w[i]
           \/ i > m /\ i - m \in 1 .. Len(p) /\ c[i] = p[i - m]
  OBVIOUS
<1> HIDE DEF c, m
<1>2. Increasing(c)
  <2> SUFFICES ASSUME NEW i \in 1 .. Len(c), NEW j \in 1 .. Len(c), i < j
               PROVE  c[i] < c[j]
    BY DEF Increasing
  <2>1. CASE j \in 1 .. m
    <3>1. i \in 1 .. m /\ j <= m
      BY <1>1, <2>1
    <3>2. c[i] = w[i] /\ c[j] = w[j]
      BY <1>1, <3>1
    <3>3. w[i] < w[j]
      BY <3>1, <2>1 DEF Increasing, m
    <3>4. QED
      BY <3>2, <3>3
  <2>2. CASE i \in 1 .. m /\ j > m
    <3>1. c[i] = w[i]
      BY <1>1, <2>2
    <3>2. j - m \in 1 .. Len(p) /\ c[j] = p[j - m]
      BY <1>1, <2>2
    <3>3. w[i] < p[j - m]
      BY <3>2, <2>2 DEF Before, m
    <3>4. QED
      BY <3>1, <3>2, <3>3
  <2>3. CASE i > m
    <3>1. /\ i - m \in 1 .. Len(p) /\ c[i] = p[i - m]
          /\ j - m \in 1 .. Len(p) /\ c[j] = p[j - m]
          /\ i - m < j - m
      BY <1>1, <2>3
    <3>2. QED
      BY <3>1 DEF Increasing
  <2>4. QED
    BY <1>1, <2>1, <2>2, <2>3
<1>3. ASSUME NEW q \in Seq(Nat), Before(w, q), Before(p, q)
      PROVE  Before(c, q)
  <2> SUFFICES ASSUME NEW i \in 1 .. Len(c), NEW j \in 1 .. Len(q)
               PROVE  c[i] < q[j]
    BY DEF Before
  <2>1. CASE i \in 1 .. m /\ c[i] = w[i]
    BY <1>3, <2>1 DEF Before, m
  <2>2. CASE i - m \in 1 .. Len(p) /\ c[i] = p[i - m]
    BY <1>3, <2>2 DEF Before
  <2>3. QED
    BY <1>1, <2>1, <2>2
<1>4. ASSUME NEW n \in Nat, Below(w, n), Below(p, n) PROVE Below(c, n)
  <2> SUFFICES ASSUME NEW i \in 1 .. Len(c) PROVE c[i] < n
    BY DEF Below
  <2>1. CASE i \in 1 .. m /\ c[i] = w[i]
    BY <1>4, <2>1 DEF Below, m
  <2>2. CASE i - m \in 1 .. Len(p) /\ c[i] = p[i - m]
    BY <1>4, <2>2 DEF Below
  <2>3. QED
    BY <1>1, <2>1, <2>2
<1>5. QED
  BY <1>1, <1>2, <1>3, <1>4 DEF c

(* A prefix of an ordered sequence keeps its place.                        *)
LEMMA PrefixOrdered ==
  ASSUME NEW b \in Seq(Nat), NEW n \in 0 .. Len(b), Increasing(b)
  PROVE  /\ SubSeq(b, 1, n) \in Seq(Nat)
         /\ Increasing(SubSeq(b, 1, n))
         /\ \A w \in Seq(Nat) : Before(w, b) => Before(w, SubSeq(b, 1, n))
         /\ \A q \in Seq(Nat) : Before(b, q) => Before(SubSeq(b, 1, n), q)
         /\ \A k \in Nat : Below(b, k) => Below(SubSeq(b, 1, n), k)
<1>1. /\ SubSeq(b, 1, n) \in Seq(Nat) /\ Len(b) \in Nat
      /\ Len(SubSeq(b, 1, n)) = n
      /\ \A i \in 1 .. n : SubSeq(b, 1, n)[i] = b[i] /\ i \in 1 .. Len(b)
  OBVIOUS
<1>2. Increasing(SubSeq(b, 1, n))
  BY <1>1 DEF Increasing
<1>3. /\ \A w \in Seq(Nat) : Before(w, b) => Before(w, SubSeq(b, 1, n))
      /\ \A q \in Seq(Nat) : Before(b, q) => Before(SubSeq(b, 1, n), q)
      /\ \A k \in Nat : Below(b, k) => Below(SubSeq(b, 1, n), k)
  BY <1>1 DEF Before, Below
<1>4. QED
  BY <1>1, <1>2, <1>3

Horizon == IF cap = "read" THEN nextSeq ELSE capSeq

OrderTypes ==
  /\ queue \in Seq(Nat) /\ batch \in Seq(Nat) /\ wire \in Seq(Nat)
  /\ nextSeq \in Nat /\ capSeq \in Nat

OrderInv ==
  /\ OrderTypes
  /\ Increasing(wire) /\ Increasing(batch) /\ Increasing(queue)
  /\ Before(wire, batch) /\ Before(wire, queue) /\ Before(batch, queue)
  /\ Below(wire, Horizon) /\ Below(batch, Horizon) /\ Below(queue, Horizon)
  /\ cap # "read" => capSeq < nextSeq

(* Nothing is out of order in an empty sequence.                           *)
LEMMA EmptyOrdered ==
  /\ <<>> \in Seq(Nat) /\ Increasing(<<>>)
  /\ \A a \in Seq(Nat) : Before(a, <<>>) /\ Before(<<>>, a)
  /\ \A n \in Nat : Below(<<>>, n)
  BY DEF Increasing, Before, Below

(***************************************************************************)
(* Packets reach the wire in the order of their numbers and at most once,  *)
(* through dropped packets, partial writes and suspensions (queue.rs:67,   *)
(* network.rs:35-110, transport.rs:393-438).                               *)
(***************************************************************************)
THEOREM WireOrdered == PipelineSpec => []WireOrder
<1>1. PipelineInit => OrderInv
  <2> SUFFICES ASSUME PipelineInit PROVE OrderInv
    OBVIOUS
  <2>1. wire = <<>> /\ batch = <<>> /\ queue = <<>> /\ OrderTypes
    BY DEF PipelineInit, OrderTypes
  <2>2. Horizon \in Nat /\ cap = "read"
    BY DEF PipelineInit, Horizon
  <2>3. QED
    BY <2>1, <2>2, EmptyOrdered DEF OrderInv
<1>2. OrderInv /\ [PipelineNext]_pipelineVars => OrderInv'
  <2> SUFFICES ASSUME OrderInv, [PipelineNext]_pipelineVars PROVE OrderInv'
    OBVIOUS
  <2>1. CASE CaptureTake \/ CaptureLose \/ CaptureGate
    <3>1. /\ UNCHANGED <<queue, batch, wire>>
          /\ nextSeq' \in Nat /\ capSeq' \in Nat
          /\ cap' # "read" => capSeq' < nextSeq'
          /\ Horizon \in Nat /\ Horizon' \in Nat /\ Horizon <= Horizon'
      BY <2>1 DEF CaptureTake, CaptureLose, CaptureGate, queueVars, netVars,
                  OrderInv, OrderTypes, Horizon
    <3>2. \A a \in Seq(Nat) : Below(a, Horizon) => Below(a, Horizon')
      BY <3>1 DEF Below
    <3>3. QED
      BY <3>1, <3>2 DEF OrderInv, OrderTypes, Increasing, Before, Below
  <2>2. CASE CapturePush
    <3>1. /\ UNCHANGED <<batch, wire, nextSeq, capSeq>>
          /\ Horizon = capSeq /\ Horizon' = nextSeq
          /\ capSeq < nextSeq /\ cap' = "read"
      BY <2>2 DEF CapturePush, netVars, OrderInv, OrderTypes, Horizon
    <3>2. \A a \in Seq(Nat) : Below(a, Horizon) => Below(a, Horizon')
      BY <3>1 DEF Below, OrderInv, OrderTypes
    <3>3. CASE queue' = queue
      BY <3>1, <3>2, <3>3 DEF OrderInv, OrderTypes, Increasing, Before, Below
    <3>4. CASE queue' = Push(queue, capSeq)
      <4> DEFINE q == IF Len(queue) = Depth THEN Tail(queue) ELSE queue
      <4>1. /\ q \in Seq(Nat) /\ Increasing(q)
            /\ Before(wire, q) /\ Before(batch, q) /\ Below(q, capSeq)
        <5>1. CASE q = queue
          BY <3>1, <5>1 DEF OrderInv, OrderTypes
        <5>2. CASE q = Tail(queue) /\ queue # <<>>
          BY <3>1, <5>2, TailOrdered DEF OrderInv, OrderTypes
        <5>3. QED
          BY <5>1, <5>2, PipelineAssumption DEF PipelineAssumption
      <4>2. queue' = Append(q, capSeq)
        BY <3>4 DEF Push
      <4> HIDE DEF q
      <4>3. /\ queue' \in Seq(Nat) /\ Increasing(queue')
            /\ Below(queue', nextSeq)
        BY <3>1, <4>1, <4>2, AppendLater DEF OrderInv, OrderTypes
      <4>4. Before(wire, queue') /\ Before(batch, queue')
        BY <3>1, <4>1, <4>2, BeforeAppend DEF OrderInv, OrderTypes
      <4>5. Before(wire, batch) /\ Below(wire, nextSeq) /\ Below(batch, nextSeq)
        BY <3>1, <3>2 DEF OrderInv, OrderTypes
      <4>6. QED
        BY <3>1, <4>3, <4>4, <4>5
           DEF OrderInv, OrderTypes, Increasing, Before, Below
    <3>5. QED
      BY <2>2, <3>3, <3>4 DEF CapturePush
  <2>3. CASE NetPop
    <3>1. UNCHANGED <<wire, nextSeq, cap, capSeq>> /\ Horizon' = Horizon
      BY <2>3 DEF NetPop, capVars, Horizon
    <3>2. CASE queue = <<>>
      BY <2>3, <3>1, <3>2
         DEF NetPop, OrderInv, OrderTypes, Increasing, Before, Below
    <3>3. CASE queue # <<>>
      <4>1. batch' = Append(batch, Head(queue)) /\ queue' = Tail(queue)
        BY <2>3, <3>3 DEF NetPop
      <4>2. Horizon \in Nat
        BY DEF OrderInv, OrderTypes, Horizon
      <4>3. /\ queue' \in Seq(Nat) /\ Head(queue) \in Nat
            /\ Increasing(queue') /\ Before(wire, queue')
            /\ Below(queue', Horizon) /\ Head(queue) < Horizon
            /\ Below(wire, Head(queue)) /\ Below(batch, Head(queue))
        BY <3>3, <4>1, <4>2, TailOrdered DEF OrderInv, OrderTypes
      <4>4. /\ batch' \in Seq(Nat) /\ Increasing(batch')
            /\ Below(batch', Horizon) /\ Before(wire, batch')
        BY <4>1, <4>2, <4>3, AppendLater, BeforeAppend DEF OrderInv, OrderTypes
      <4>5. Before(batch', queue')
        BY <3>3, <4>1, TakeHead DEF OrderInv, OrderTypes
      <4>6. QED
        BY <3>1, <4>3, <4>4, <4>5 DEF OrderInv, OrderTypes, Increasing, Before, Below
    <3>4. QED
      BY <3>2, <3>3
  <2>4. CASE NetTransmit
    <3>1. /\ UNCHANGED <<queue, nextSeq, cap, capSeq>> /\ Horizon' = Horizon
          /\ batch' = <<>>
      BY <2>4 DEF NetTransmit, BackToTop, queueVars, capVars, Horizon
    <3>2. PICK p \in Seq(Nat) :
            /\ wire' = wire \o p
            /\ Increasing(p) /\ Before(wire, p) /\ Before(p, queue)
            /\ Below(p, Horizon)
      <4>1. Horizon \in Nat
        BY DEF OrderInv, OrderTypes, Horizon
      <4>2. CASE wire' = wire \o batch
        BY <4>2 DEF OrderInv, OrderTypes
      <4>3. ASSUME NEW n \in 0 .. Len(batch) - 1,
                   wire' = wire \o SubSeq(batch, 1, n)
            PROVE  \E p \in Seq(Nat) :
                     /\ wire' = wire \o p
                     /\ Increasing(p) /\ Before(wire, p) /\ Before(p, queue)
                     /\ Below(p, Horizon)
        <5>1. n \in 0 .. Len(batch)
          BY DEF OrderInv, OrderTypes
        <5>2. QED
          BY <4>1, <4>3, <5>1, PrefixOrdered DEF OrderInv, OrderTypes
      <4>4. QED
        BY <2>4, <4>2, <4>3 DEF NetTransmit
    <3>3. Horizon \in Nat
      BY DEF OrderInv, OrderTypes, Horizon
    <3>4. /\ wire' \in Seq(Nat) /\ Increasing(wire')
          /\ Before(wire', queue) /\ Below(wire', Horizon)
      BY <3>2, <3>3, ConcatOrdered DEF OrderInv, OrderTypes
    <3>5. /\ batch' \in Seq(Nat) /\ Increasing(batch')
          /\ Before(wire', batch') /\ Before(batch', queue)
          /\ Below(batch', Horizon)
      BY <3>1, <3>3, <3>4, EmptyOrdered DEF OrderInv, OrderTypes
    <3>6. QED
      BY <3>1, <3>4, <3>5 DEF OrderInv, OrderTypes, Increasing, Before, Below
  <2>5. CASE NetConnect \/ NetReadPaused \/ NetReadRequest
    <3>1. /\ UNCHANGED <<queue, wire, nextSeq, cap, capSeq>>
          /\ Horizon' = Horizon
          /\ batch' = batch \/ batch' = <<>>
      BY <2>5 DEF NetConnect, NetReadPaused, NetReadRequest, Answer, BackToTop,
                  queueVars, capVars, Horizon
    <3>2. CASE batch' = batch
      BY <3>1, <3>2 DEF OrderInv, OrderTypes, Increasing, Before, Below
    <3>3. CASE batch' = <<>>
      BY <3>1, <3>3 DEF OrderInv, OrderTypes, Increasing, Before, Below
    <3>4. QED
      BY <3>1, <3>2, <3>3
  <2>6. CASE NetSuspend
    <3>1. /\ UNCHANGED <<batch, wire, nextSeq, cap, capSeq>>
          /\ Horizon' = Horizon /\ queue' = <<>>
      BY <2>6 DEF NetSuspend, capVars, Horizon
    <3>2. QED
      BY <3>1 DEF OrderInv, OrderTypes, Increasing, Before, Below
  <2>7. CASE \/ NetBatchFull \/ NetDisconnect \/ NetConfirm \/ NetAcknowledge
             \/ NetDelay \/ NetResume \/ Maintenance \/ SetStreamingEnabled
             \/ UNCHANGED pipelineVars
    <3>1. /\ UNCHANGED <<queue, batch, wire, nextSeq, cap, capSeq>>
          /\ Horizon' = Horizon
      BY <2>7 DEF NetBatchFull, NetDisconnect, NetConfirm, NetAcknowledge,
                  NetDelay, NetResume, Maintenance, MaintClear, MaintRequest,
                  MaintGranted, MaintEnd, SetStreamingEnabled, pipelineVars, queueVars,
                  capVars, netVars, Horizon
    <3>2. QED
      BY <3>1 DEF OrderInv, OrderTypes, Increasing, Before, Below
  <2>8. QED
    BY <2>1, <2>2, <2>3, <2>4, <2>5, <2>6, <2>7 DEF PipelineNext, Capture, Network
<1>3. OrderInv => WireOrder
  BY DEF OrderInv, WireOrder
<1>4. QED
  BY <1>1, <1>2, <1>3, PTL DEF PipelineSpec

-----------------------------------------------------------------------------
(***************************************************************************)
(* The listeners.  A body holds the chunks it gave, those of its batch and *)
(* those of its queue, and each of the three is behind the one before it;  *)
(* for a client the three have no hole between them, and reach as far as   *)
(* the publisher has come with it.  The rest says whom the publisher and a *)
(* close still have in hand.                                               *)
(***************************************************************************)
\* The numbers that wait in a queue: none in one that was drained and ended.
Waits(q) == IF q = <<End>> THEN <<>> ELSE q

\* Numbers increase along each and from one to the next.
InTurn(y, b, q) ==
  Increasing(y) /\ Increasing(b) /\ Increasing(q) /\ Before(y, b) /\ Before(y, q) /\ Before(b, q)

\* One number after the other.
Counts(s, n) == \A i \in 1 .. Len(s) : s[i] = n + i

Bodies ==
  [step : {"none", "yielded", "waiting", "collecting", "ended"},
   queue : Seq(Nat \cup {End}), batch : Seq(Nat), yielded : Seq(Nat), from : Nat,
   ended : {"not", "listener", "bridge", "slow", "close"}]

SoundBody(b) ==
  /\ b \in Bodies
  /\ b.step = "none" => b = NoBody
  /\ (b.step = "ended" => b.ended # "not") /\ (b.ended = "listener" => b.step = "ended")
  /\ IF b.step = "ended" THEN Increasing(b.yielded)
     ELSE Waits(b.queue) \in Seq(Nat) /\ InTurn(b.yielded, b.batch, Waits(b.queue))
  /\ b.ended \in {"not", "listener"} => Counts(b.yielded, b.from)

\* A client has all the chunks from its first to the r-th.
Hears(b, r) ==
  /\ b.queue \in Seq(Nat)
  /\ Counts(b.yielded, b.from) /\ Counts(b.batch, b.from + Len(b.yielded))
  /\ Counts(b.queue, b.from + Len(b.yielded) + Len(b.batch))
  /\ b.from + Len(b.yielded) + Len(b.batch) + Len(b.queue) = r

Served(b) == b.step \notin {"none", "ended"} /\ b.ended = "not"

FanTypeOK ==
  /\ clients \subseteq Clients /\ body \in [Clients -> Bodies] /\ chunks \in Nat /\ slow \in Nat
  /\ publisher \in [step : {"idle", "holding", "publishing", "evicting", "ended"},
                    left : SUBSET Clients]
  /\ draining \in Clients \cup {Nobody}
  /\ closer \in [step : {"open", "joining", "ending", "closed"}, left : SUBSET Clients]

\* Whom the publisher has yet to reach, and whose queue is emptied.
Reaching ==
  /\ publisher.step \in {"idle", "holding", "ended"} => publisher.left = {}
  /\ publisher.step = "evicting" => draining \in publisher.left
  /\ \A c \in publisher.left : c \in clients \/ body[c].step = "ended"
  /\ draining # Nobody /\ publisher.step # "evicting"
       => draining \notin clients \cup publisher.left /\ body[draining].step # "none"
  /\ \A c \in closer.left : c \notin clients /\ body[c].step # "none"
  /\ closer.step \in {"ending", "closed"} => publisher.step = "ended"

ClientsSound == \A c \in Clients : SoundBody(body[c]) /\ (c \in clients <=> Served(body[c]))

ClientsHear == \A c \in clients : Hears(body[c], Reached(c))

FanInv == FanTypeOK /\ ClientsSound /\ ClientsHear /\ Reaching /\ SlowAreCounted

-----------------------------------------------------------------------------
\* What Tail, Append and \o leave of an order.
LEMMA TailOf ==
  ASSUME NEW S, NEW q \in Seq(S), q # <<>>
  PROVE  /\ Head(q) = q[1] /\ Head(q) \in S /\ Tail(q) \in Seq(S)
         /\ Len(q) \in Nat \ {0} /\ Len(Tail(q)) = Len(q) - 1
         /\ \A i \in 1 .. Len(q) - 1 : Tail(q)[i] = q[i + 1]
OBVIOUS

LEMMA AppendTo ==
  ASSUME NEW S, NEW q \in Seq(S), NEW e \in S
  PROVE  /\ Append(q, e) \in Seq(S) /\ Len(q) \in Nat /\ Len(Append(q, e)) = Len(q) + 1
         /\ \A i \in 1 .. Len(q) : Append(q, e)[i] = q[i]
         /\ Append(q, e)[Len(q) + 1] = e
OBVIOUS

LEMMA JoinOf ==
  ASSUME NEW s \in Seq(Nat), NEW t \in Seq(Nat)
  PROVE  /\ s \o t \in Seq(Nat) /\ Len(s) \in Nat /\ Len(t) \in Nat
         /\ Len(s \o t) = Len(s) + Len(t)
         /\ \A i \in 1 .. Len(s) : (s \o t)[i] = s[i]
         /\ \A i \in Len(s) + 1 .. Len(s) + Len(t) : (s \o t)[i] = t[i - Len(s)]
OBVIOUS

LEMMA Widens ==
  ASSUME NEW q \in Seq(Nat)
  PROVE  q \in Seq(Nat \cup {End})
<1>1. Len(q) \in Nat /\ DOMAIN q = 1 .. Len(q) /\ \A i \in 1 .. Len(q) : q[i] \in Nat
  OBVIOUS
<1>2. q = [i \in 1 .. Len(q) |-> q[i]]
  OBVIOUS
<1>3. q \in [1 .. Len(q) -> Nat \cup {End}]
  BY <1>1, <1>2
<1> QED
  BY <1>1, <1>3

LEMMA WaitsOf ==
  ASSUME NEW q \in Seq(Nat)
  PROVE  Waits(q) = q
<1>1. ASSUME q = <<End>>
      PROVE  FALSE
  <2>1. q[1] = End /\ Len(q) = 1
    BY <1>1
  <2>2. q[1] \in Nat
    BY <2>1
  <2> QED
    BY <2>1, <2>2, FanoutAssumption
<1> QED
  BY <1>1 DEF Waits

LEMMA TailClimbs ==
  ASSUME NEW y \in Seq(Nat), NEW b \in Seq(Nat), NEW q \in Seq(Nat), q # <<>>, InTurn(y, b, q)
  PROVE  InTurn(y, b, Tail(q))
  BY TailOrdered DEF InTurn

LEMMA HeadClimbs ==
  ASSUME NEW y \in Seq(Nat), NEW b \in Seq(Nat), NEW q \in Seq(Nat), q # <<>>, InTurn(y, b, q)
  PROVE  InTurn(y, Append(b, Head(q)), Tail(q))
<1>1. /\ Increasing(Tail(q)) /\ Tail(q) \in Seq(Nat) /\ Head(q) \in Nat
      /\ Before(y, Tail(q)) /\ Below(y, Head(q)) /\ Below(b, Head(q))
  BY TailOrdered DEF InTurn
<1>2. Increasing(Append(b, Head(q))) /\ Before(y, Append(b, Head(q)))
  BY <1>1, AppendLater, BeforeAppend DEF InTurn
<1>3. Before(Append(b, Head(q)), Tail(q))
  BY TakeHead DEF InTurn
<1> QED
  BY <1>1, <1>2, <1>3 DEF InTurn

LEMMA JoinClimbs ==
  ASSUME NEW y \in Seq(Nat), NEW b \in Seq(Nat), NEW q \in Seq(Nat), InTurn(y, b, q)
  PROVE  InTurn(y \o b, <<>>, q)
  BY ConcatOrdered, EmptyOrdered DEF InTurn

LEMMA CountsClimb ==
  ASSUME NEW y \in Seq(Nat), NEW b \in Seq(Nat), NEW q \in Seq(Nat), NEW n \in Nat,
         Counts(y, n), Counts(b, n + Len(y)), Counts(q, n + Len(y) + Len(b))
  PROVE  InTurn(y, b, q)
<1>1. Len(y) \in Nat /\ Len(b) \in Nat /\ Len(q) \in Nat
  OBVIOUS
<1>2. PICK u \in Nat, v \in Nat, w \in Nat : u = Len(y) /\ v = Len(b) /\ w = Len(q)
  BY <1>1
<1>3. /\ \A i \in 1 .. u : y[i] = n + i
      /\ \A i \in 1 .. v : b[i] = n + u + i
      /\ \A i \in 1 .. w : q[i] = n + u + v + i
  BY <1>2 DEF Counts
<1>4. Increasing(y) /\ Increasing(b) /\ Increasing(q)
  <2>1. \A i, j \in 1 .. u : i < j => y[i] < y[j]
    BY <1>3
  <2>2. \A i, j \in 1 .. v : i < j => b[i] < b[j]
    BY <1>3
  <2>3. \A i, j \in 1 .. w : i < j => q[i] < q[j]
    BY <1>3
  <2> QED
    BY <1>2, <2>1, <2>2, <2>3 DEF Increasing
<1>5. Before(y, b) /\ Before(y, q) /\ Before(b, q)
  <2>1. \A i \in 1 .. u, j \in 1 .. v : y[i] < b[j]
    BY <1>3
  <2>2. \A i \in 1 .. u, j \in 1 .. w : y[i] < q[j]
    BY <1>3
  <2>3. \A i \in 1 .. v, j \in 1 .. w : b[i] < q[j]
    BY <1>3
  <2> QED
    BY <1>2, <2>1, <2>2, <2>3 DEF Before
<1> QED
  BY <1>4, <1>5 DEF InTurn

-----------------------------------------------------------------------------
\* A body, operation by operation.
LEMMA BodyParts ==
  ASSUME NEW b \in Bodies
  PROVE  /\ b.queue \in Seq(Nat \cup {End}) /\ b.batch \in Seq(Nat) /\ b.yielded \in Seq(Nat)
         /\ b.from \in Nat /\ Len(b.queue) \in Nat /\ Len(b.batch) \in Nat
         /\ Len(b.yielded) \in Nat
         /\ b.step \in {"none", "yielded", "waiting", "collecting", "ended"}
         /\ b.ended \in {"not", "listener", "bridge", "slow", "close"}
<1>1. b.queue \in Seq(Nat \cup {End}) /\ b.batch \in Seq(Nat) /\ b.yielded \in Seq(Nat)
  BY DEF Bodies
<1> QED
  BY <1>1 DEF Bodies

LEMMA NoBodySound ==
  SoundBody(NoBody) /\ ~Served(NoBody) /\ NoBody.ended # "slow"
<1>1. <<>> \in Seq(Nat) /\ <<>> \in Seq(Nat \cup {End}) /\ Len(<<>>) = 0
  OBVIOUS
<1>2. NoBody \in Bodies
  BY <1>1 DEF NoBody, Bodies
<1>3. Waits(<<>>) = <<>>
  BY <1>1, WaitsOf
<1>4. Increasing(<<>>) /\ Before(<<>>, <<>>) /\ Counts(<<>>, 0)
  BY DEF Increasing, Before, Counts
<1> QED
  BY <1>1, <1>2, <1>3, <1>4 DEF SoundBody, Served, NoBody, InTurn

Newcomer(n) == [NoBody EXCEPT !.step = "yielded", !.from = n]

LEMMA Registers ==
  ASSUME NEW n \in Nat
  PROVE  /\ SoundBody(Newcomer(n)) /\ Served(Newcomer(n)) /\ Hears(Newcomer(n), n)
         /\ Newcomer(n).ended # "slow"
<1> DEFINE b == Newcomer(n)
<1>1. <<>> \in Seq(Nat) /\ <<>> \in Seq(Nat \cup {End}) /\ Len(<<>>) = 0
  OBVIOUS
<1>2. /\ b \in Bodies /\ b.step = "yielded" /\ b.queue = <<>> /\ b.batch = <<>>
      /\ b.yielded = <<>> /\ b.from = n /\ b.ended = "not"
  BY <1>1 DEF NoBody, Bodies, Newcomer
<1> HIDE DEF b
<1>3. Waits(<<>>) = <<>>
  BY <1>1, WaitsOf
<1>4. Increasing(<<>>) /\ Before(<<>>, <<>>) /\ \A m : Counts(<<>>, m)
  BY DEF Increasing, Before, Counts
<1>5. SoundBody(b) /\ Served(b)
  BY <1>1, <1>2, <1>3, <1>4 DEF SoundBody, Served, InTurn
<1>6. n + 0 + 0 + 0 = n
  OBVIOUS
<1>7. Hears(b, n)
  BY <1>1, <1>2, <1>4, <1>6 DEF Hears
<1> QED
  BY <1>2, <1>5, <1>7 DEF b

LEMMA Resumes ==
  ASSUME NEW b, SoundBody(b), b.step = "yielded", NEW r
  PROVE  LET d == [b EXCEPT !.step = "waiting"]
         IN  /\ SoundBody(d) /\ (Served(d) <=> Served(b)) /\ (Hears(b, r) => Hears(d, r))
             /\ d.ended = b.ended /\ d.step # "none"
<1> DEFINE d == [b EXCEPT !.step = "waiting"]
<1>1. b \in Bodies
  BY DEF SoundBody
<1>2. /\ d \in Bodies /\ d.step = "waiting" /\ d.queue = b.queue /\ d.batch = b.batch
      /\ d.yielded = b.yielded /\ d.from = b.from /\ d.ended = b.ended
  BY <1>1 DEF Bodies
<1> HIDE DEF d
<1>3. SoundBody(d)
  BY <1>2 DEF SoundBody
<1> QED
  BY <1>2, <1>3 DEF Served, Hears, d

Over(b, by) ==
  [b EXCEPT !.step = "ended", !.queue = <<>>, !.batch = <<>>,
            !.ended = IF b.ended = "not" THEN by ELSE b.ended]

LEMMA Finishes ==
  ASSUME NEW b, SoundBody(b), b.step # "none", NEW by \in {"listener", "bridge"}
  PROVE  /\ SoundBody(Over(b, by)) /\ ~Served(Over(b, by)) /\ Over(b, by).step = "ended"
         /\ Over(b, by).ended = "slow" <=> b.ended = "slow"
<1> DEFINE d == Over(b, by)
           e == IF b.ended = "not" THEN by ELSE b.ended
<1>1. b \in Bodies
  BY DEF SoundBody
<1>2. <<>> \in Seq(Nat) /\ <<>> \in Seq(Nat \cup {End})
  OBVIOUS
<1>3. /\ e \in {"listener", "bridge", "slow", "close"}
      /\ e = "slow" <=> b.ended = "slow"
      /\ e \in {"not", "listener"} => b.ended \in {"not", "listener"}
  BY <1>1, BodyParts
<1>4. d = [b EXCEPT !.step = "ended", !.queue = <<>>, !.batch = <<>>, !.ended = e]
  BY DEF Over
<1> HIDE DEF e, d
<1>5. /\ d \in Bodies /\ d.step = "ended" /\ d.yielded = b.yielded /\ d.from = b.from
      /\ d.ended = e
  BY <1>1, <1>2, <1>3, <1>4 DEF Bodies
<1>6. Increasing(d.yielded)
  BY <1>5 DEF SoundBody, InTurn
<1>7. d.ended \in {"not", "listener"} => Counts(d.yielded, d.from)
  BY <1>3, <1>5 DEF SoundBody
<1>8. SoundBody(d)
  BY <1>3, <1>5, <1>6, <1>7 DEF SoundBody
<1> QED
  BY <1>3, <1>5, <1>8 DEF Served, d

\* Told to end: what it still has is in order.
LEMMA Ends ==
  ASSUME NEW b, SoundBody(b), Served(b), NEW e \in {"slow", "close"}
  PROVE  LET d == [b EXCEPT !.ended = e]
         IN  SoundBody(d) /\ ~Served(d) /\ d.ended = e /\ d.step = b.step
<1> DEFINE d == [b EXCEPT !.ended = e]
<1>1. b \in Bodies
  BY DEF SoundBody
<1>2. /\ d \in Bodies /\ d.step = b.step /\ d.queue = b.queue /\ d.batch = b.batch
      /\ d.yielded = b.yielded /\ d.from = b.from /\ d.ended = e
  BY <1>1 DEF Bodies
<1> HIDE DEF d
<1>3. SoundBody(d)
  BY <1>2 DEF SoundBody, Served
<1> QED
  BY <1>2, <1>3 DEF Served, d

LEMMA Collects ==
  ASSUME NEW b, SoundBody(b), b.step \in {"waiting", "collecting"}, b.queue # <<>>,
         Head(b.queue) # End, NEW r
  PROVE  LET d == [b EXCEPT !.step = "collecting", !.queue = Tail(@),
                            !.batch = Append(@, Head(b.queue))]
         IN  /\ SoundBody(d) /\ (Served(d) <=> Served(b)) /\ (Hears(b, r) => Hears(d, r))
             /\ d.ended = b.ended /\ d.step = "collecting"
<1> DEFINE d == [b EXCEPT !.step = "collecting", !.queue = Tail(@),
                          !.batch = Append(@, Head(b.queue))]
<1>1. b \in Bodies /\ b.queue \in Seq(Nat)
  <2>1. b \in Bodies /\ Waits(b.queue) \in Seq(Nat)
    BY DEF SoundBody
  <2>2. Head(<<End>>) = End
    OBVIOUS
  <2>3. b.queue # <<End>>
    BY <2>2
  <2> QED
    BY <2>1, <2>3 DEF Waits
<1>2. PICK y \in Seq(Nat), a \in Seq(Nat), q \in Seq(Nat), n \in Nat :
        y = b.yielded /\ a = b.batch /\ q = b.queue /\ n = b.from
  BY <1>1, BodyParts
<1>3. /\ Head(q) = q[1] /\ Head(q) \in Nat /\ Tail(q) \in Seq(Nat)
      /\ Len(q) \in Nat \ {0} /\ Len(Tail(q)) = Len(q) - 1
      /\ \A i \in 1 .. Len(q) - 1 : Tail(q)[i] = q[i + 1]
  BY <1>2, TailOf
<1>4. /\ Append(a, Head(q)) \in Seq(Nat) /\ Len(a) \in Nat
      /\ Len(Append(a, Head(q))) = Len(a) + 1
      /\ \A i \in 1 .. Len(a) : Append(a, Head(q))[i] = a[i]
      /\ Append(a, Head(q))[Len(a) + 1] = q[1]
  BY <1>3, AppendTo
<1>5. Tail(q) \in Seq(Nat \cup {End})
  BY <1>3, Widens
<1>6. /\ d \in Bodies /\ d.step = "collecting" /\ d.queue = Tail(q)
      /\ d.batch = Append(a, Head(q)) /\ d.yielded = y /\ d.from = n /\ d.ended = b.ended
  BY <1>1, <1>2, <1>4, <1>5 DEF Bodies
<1> HIDE DEF d
<1>7. InTurn(y, a, q)
  <2>1. Waits(b.queue) = b.queue
    BY <1>1, WaitsOf
  <2> QED
    BY <1>2, <2>1 DEF SoundBody
<1>8. SoundBody(d)
  <2>1. InTurn(y, Append(a, Head(q)), Tail(q))
    BY <1>2, <1>7, HeadClimbs
  <2>2. Waits(Tail(q)) = Tail(q)
    BY <1>3, WaitsOf
  <2>3. d.ended # "listener" /\ (d.ended = "not" => Counts(d.yielded, d.from))
    BY <1>2, <1>6 DEF SoundBody
  <2> QED
    BY <1>3, <1>6, <2>1, <2>2, <2>3 DEF SoundBody
<1>9. ASSUME Hears(b, r)
      PROVE  Hears(d, r)
  <2>1. PICK u \in Nat, v \in Nat, w \in Nat : u = Len(y) /\ v = Len(a) /\ w = Len(q)
    BY <1>2
  <2>2. /\ Counts(y, n) /\ \A i \in 1 .. v : a[i] = n + u + i
        /\ \A i \in 1 .. w : q[i] = n + u + v + i
        /\ n + u + v + w = r
    BY <1>2, <1>9, <2>1 DEF Hears, Counts
  <2>3. w # 0 /\ w - 1 \in Nat
    BY <1>3, <2>1
  <2>4. Counts(Append(a, Head(q)), n + u)
    <3>1. \A i \in 1 .. v + 1 : i \in 1 .. v \/ i = v + 1
      OBVIOUS
    <3>2. q[1] = n + u + (v + 1)
      BY <2>2, <2>3
    <3> QED
      BY <1>4, <2>1, <2>2, <3>1, <3>2 DEF Counts
  <2>5. Counts(Tail(q), n + u + (v + 1))
    <3>1. \A i \in 1 .. w - 1 : i + 1 \in 1 .. w /\ n + u + v + (i + 1) = n + u + (v + 1) + i
      BY <2>3
    <3>2. \A i \in 1 .. w - 1 : Tail(q)[i] = n + u + (v + 1) + i
      BY <1>3, <2>1, <2>2, <3>1
    <3> QED
      BY <1>3, <2>1, <3>2 DEF Counts
  <2>6. n + u + (v + 1) + (w - 1) = r
    BY <2>2, <2>3
  <2>7. Len(d.yielded) = u /\ Len(d.batch) = v + 1 /\ Len(d.queue) = w - 1
    BY <1>3, <1>4, <1>6, <2>1
  <2> QED
    BY <1>3, <1>6, <2>2, <2>4, <2>5, <2>6, <2>7 DEF Hears
<1> QED
  BY <1>6, <1>8, <1>9 DEF Served, d

LEMMA Yields ==
  ASSUME NEW b, SoundBody(b), b.step = "collecting", NEW r, Served(b) => Hears(b, r)
  PROVE  LET d == [b EXCEPT !.step = "yielded", !.batch = <<>>, !.yielded = @ \o b.batch]
         IN  /\ SoundBody(d) /\ (Served(d) <=> Served(b)) /\ (Served(d) => Hears(d, r))
             /\ d.ended = b.ended /\ d.step = "yielded"
<1> DEFINE d == [b EXCEPT !.step = "yielded", !.batch = <<>>, !.yielded = @ \o b.batch]
<1>1. b \in Bodies
  BY DEF SoundBody
<1>2. PICK y \in Seq(Nat), a \in Seq(Nat), q \in Seq(Nat \cup {End}), n \in Nat :
        y = b.yielded /\ a = b.batch /\ q = b.queue /\ n = b.from
  BY <1>1, BodyParts
<1>3. <<>> \in Seq(Nat) /\ Len(<<>>) = 0
  OBVIOUS
<1>4. /\ y \o a \in Seq(Nat) /\ Len(y) \in Nat /\ Len(a) \in Nat
      /\ Len(y \o a) = Len(y) + Len(a)
      /\ \A i \in 1 .. Len(y) : (y \o a)[i] = y[i]
      /\ \A i \in Len(y) + 1 .. Len(y) + Len(a) : (y \o a)[i] = a[i - Len(y)]
  BY JoinOf
<1>5. /\ d \in Bodies /\ d.step = "yielded" /\ d.queue = q /\ d.batch = <<>>
      /\ d.yielded = y \o a /\ d.from = n /\ d.ended = b.ended
  BY <1>1, <1>2, <1>3, <1>4 DEF Bodies
<1> HIDE DEF d
<1>6. Waits(q) \in Seq(Nat) /\ InTurn(y \o a, <<>>, Waits(q))
  <2>1. Waits(q) \in Seq(Nat) /\ InTurn(y, a, Waits(q))
    BY <1>2 DEF SoundBody
  <2> QED
    BY <2>1, JoinClimbs
<1>7. ASSUME Hears(b, r)
      PROVE  Counts(y \o a, n) /\ Hears(d, r)
  <2>1. PICK u \in Nat, v \in Nat, w \in Nat : u = Len(y) /\ v = Len(a) /\ w = Len(q)
    BY <1>2
  <2>2. /\ \A i \in 1 .. u : y[i] = n + i
        /\ \A i \in 1 .. v : a[i] = n + u + i
        /\ Counts(q, n + u + v) /\ q \in Seq(Nat) /\ n + u + v + w = r
    BY <1>2, <1>7, <2>1 DEF Hears, Counts
  <2>3. Counts(y \o a, n)
    <3>1. \A i \in u + 1 .. u + v : i - u \in 1 .. v /\ n + u + (i - u) = n + i
      OBVIOUS
    <3>2. ASSUME NEW i \in u + 1 .. u + v
          PROVE  (y \o a)[i] = n + i
      <4>1. (y \o a)[i] = a[i - u]
        BY <1>4, <2>1
      <4>2. a[i - u] = n + u + (i - u)
        BY <2>2, <3>1
      <4> QED
        BY <3>1, <4>1, <4>2
    <3>3. \A i \in 1 .. u + v : i \in 1 .. u \/ i \in u + 1 .. u + v
      OBVIOUS
    <3>4. \A i \in 1 .. u : (y \o a)[i] = n + i
      BY <1>4, <2>1, <2>2
    <3> QED
      BY <1>4, <2>1, <3>2, <3>3, <3>4 DEF Counts
  <2>4. Counts(<<>>, n + (u + v))
    BY DEF Counts
  <2>5. n + (u + v) + 0 = n + u + v /\ n + (u + v) + 0 + w = r
    BY <2>2
  <2>6. Len(d.yielded) = u + v /\ Len(d.batch) = 0 /\ Len(d.queue) = w
    BY <1>3, <1>4, <1>5, <2>1
  <2> QED
    BY <1>5, <2>2, <2>3, <2>4, <2>5, <2>6 DEF Hears
<1>8. SoundBody(d)
  <2>1. d.ended # "listener" /\ (d.ended = "not" => Counts(d.yielded, d.from))
    BY <1>5, <1>7 DEF SoundBody, Served
  <2> QED
    BY <1>5, <1>6, <2>1 DEF SoundBody
<1> QED
  BY <1>5, <1>7, <1>8 DEF Served, d

\* A chunk reaches a client that had all before it.
LEMMA Queues ==
  ASSUME NEW b, SoundBody(b), Served(b), NEW n \in Nat, Hears(b, n - 1)
  PROVE  LET d == [b EXCEPT !.queue = Append(@, n)]
         IN  SoundBody(d) /\ Served(d) /\ Hears(d, n) /\ d.ended = b.ended /\ d.step = b.step
<1> DEFINE d == [b EXCEPT !.queue = Append(@, n)]
<1>1. b \in Bodies /\ b.queue \in Seq(Nat)
  BY DEF SoundBody, Hears
<1>2. PICK y \in Seq(Nat), a \in Seq(Nat), q \in Seq(Nat), m \in Nat :
        y = b.yielded /\ a = b.batch /\ q = b.queue /\ m = b.from
  BY <1>1, BodyParts
<1>3. /\ Append(q, n) \in Seq(Nat) /\ Len(q) \in Nat /\ Len(Append(q, n)) = Len(q) + 1
      /\ \A i \in 1 .. Len(q) : Append(q, n)[i] = q[i]
      /\ Append(q, n)[Len(q) + 1] = n
  BY AppendTo
<1>4. Append(q, n) \in Seq(Nat \cup {End})
  BY <1>3
<1>5. /\ d \in Bodies /\ d.step = b.step /\ d.queue = Append(q, n) /\ d.batch = a
      /\ d.yielded = y /\ d.from = m /\ d.ended = b.ended
  BY <1>1, <1>2, <1>4 DEF Bodies
<1> HIDE DEF d
<1>6. PICK u \in Nat, v \in Nat, w \in Nat : u = Len(y) /\ v = Len(a) /\ w = Len(q)
  BY <1>2
<1>7. /\ Counts(y, m) /\ Counts(a, m + u) /\ \A i \in 1 .. w : q[i] = m + u + v + i
      /\ m + u + v + w = n - 1
  BY <1>2, <1>6 DEF Hears, Counts
<1>8. m + u + v + (w + 1) = n
  BY <1>7
<1>9. Counts(Append(q, n), m + u + v)
  <2>1. \A i \in 1 .. w + 1 : i \in 1 .. w \/ i = w + 1
    OBVIOUS
  <2> QED
    BY <1>3, <1>6, <1>7, <1>8, <2>1 DEF Counts
<1>10. InTurn(y, a, Append(q, n))
  BY <1>3, <1>6, <1>7, <1>9, CountsClimb
<1>11. Hears(d, n)
  BY <1>3, <1>5, <1>6, <1>7, <1>8, <1>9 DEF Hears
<1>12. Waits(Append(q, n)) = Append(q, n)
  BY <1>3, WaitsOf
<1>13. SoundBody(d)
  BY <1>3, <1>5, <1>7, <1>10, <1>12 DEF SoundBody, Served
<1> QED
  BY <1>5, <1>11, <1>13 DEF Served, d

\* One that has ended takes no notice.
LEMMA QueuesInVain ==
  ASSUME NEW b, SoundBody(b), b.step = "ended", NEW n \in Nat
  PROVE  LET d == [b EXCEPT !.queue = Append(@, n)]
         IN  SoundBody(d) /\ ~Served(d) /\ d.ended = b.ended /\ d.step = "ended"
<1> DEFINE d == [b EXCEPT !.queue = Append(@, n)]
<1>1. b \in Bodies
  BY DEF SoundBody
<1>2. Append(b.queue, n) \in Seq(Nat \cup {End})
  BY <1>1, BodyParts, AppendTo
<1>3. /\ d \in Bodies /\ d.step = b.step /\ d.batch = b.batch
      /\ d.yielded = b.yielded /\ d.from = b.from /\ d.ended = b.ended
  BY <1>1, <1>2 DEF Bodies
<1> HIDE DEF d
<1>4. SoundBody(d)
  BY <1>3 DEF SoundBody
<1> QED
  BY <1>3, <1>4 DEF Served, d

LEMMA Drains ==
  ASSUME NEW b, SoundBody(b), b.step \notin {"none", "ended"}
  PROVE  LET d == [b EXCEPT !.queue = Drained(@)]
         IN  SoundBody(d) /\ (Served(d) <=> Served(b)) /\ d.ended = b.ended /\ d.step = b.step
<1> DEFINE d == [b EXCEPT !.queue = Drained(@)]
<1>1. b \in Bodies
  BY DEF SoundBody
<1>2. PICK y \in Seq(Nat), a \in Seq(Nat), q \in Seq(Nat \cup {End}), n \in Nat :
        y = b.yielded /\ a = b.batch /\ q = b.queue /\ n = b.from
  BY <1>1, BodyParts
<1>3. Waits(q) \in Seq(Nat) /\ InTurn(y, a, Waits(q))
  BY <1>2 DEF SoundBody
<1>4. /\ <<>> \in Seq(Nat) /\ <<>> \in Seq(Nat \cup {End})
      /\ <<End>> \in Seq(Nat \cup {End}) /\ <<End>> # <<>>
  OBVIOUS
<1>5. Tail(<<End>>) = <<>>
  OBVIOUS
<1>6. Waits(<<>>) = <<>> /\ Waits(<<End>>) = <<>>
  BY <1>4, WaitsOf DEF Waits
<1>7. /\ Drained(q) \in Seq(Nat \cup {End}) /\ Waits(Drained(q)) \in Seq(Nat)
      /\ InTurn(y, a, Waits(Drained(q)))
  <2>1. CASE q = <<>>
    <3>1. Drained(q) = <<End>>
      BY <2>1 DEF Drained
    <3>2. InTurn(y, a, <<>>)
      BY <1>3, <1>6, <2>1
    <3> QED
      BY <1>4, <1>6, <3>1, <3>2
  <2>2. CASE q = <<End>>
    <3>1. Drained(q) = <<>>
      BY <1>4, <1>5, <2>2 DEF Drained
    <3>2. InTurn(y, a, <<>>)
      BY <1>3, <1>6, <2>2
    <3> QED
      BY <1>4, <1>6, <3>1, <3>2
  <2>3. CASE q # <<>> /\ q # <<End>>
    <3>1. Waits(q) = q /\ Drained(q) = Tail(q)
      BY <2>3 DEF Waits, Drained
    <3>2. InTurn(y, a, Tail(q))
      BY <1>3, <2>3, <3>1, TailClimbs
    <3>3. Tail(q) \in Seq(Nat)
      BY <1>3, <2>3, <3>1, TailOf
    <3>4. Waits(Tail(q)) = Tail(q) /\ Tail(q) \in Seq(Nat \cup {End})
      BY <3>3, WaitsOf, Widens
    <3> QED
      BY <3>1, <3>2, <3>3, <3>4
  <2> QED
    BY <2>1, <2>2, <2>3
<1>8. /\ d \in Bodies /\ d.step = b.step /\ d.queue = Drained(q) /\ d.batch = a
      /\ d.yielded = y /\ d.from = n /\ d.ended = b.ended
  BY <1>1, <1>2, <1>7 DEF Bodies
<1> HIDE DEF d
<1>9. SoundBody(d)
  BY <1>2, <1>7, <1>8 DEF SoundBody
<1> QED
  BY <1>8, <1>9 DEF Served, d

-----------------------------------------------------------------------------
LEMMA SameSlow ==
  ASSUME SlowAreCounted, slow' = slow,
         \A o \in Clients : body'[o].ended = "slow" <=> body[o].ended = "slow"
  PROVE  SlowAreCounted'
<1>1. {o \in Clients : body'[o].ended = "slow"} = {o \in Clients : body[o].ended = "slow"}
  OBVIOUS
<1> QED
  BY <1>1 DEF SlowAreCounted

\* One body changes, and with it whether its client is one.
LEMMA OneBody ==
  ASSUME FanInv, NEW c \in Clients, NEW d, SoundBody(d), body' = [body EXCEPT ![c] = d],
         clients' \subseteq Clients, c \in clients' <=> Served(d),
         \A o \in Clients \ {c} : o \in clients' <=> o \in clients
  PROVE  /\ body' \in [Clients -> Bodies] /\ ClientsSound' /\ body'[c] = d
         /\ \A o \in Clients \ {c} : body'[o] = body[o]
<1>1. /\ body' \in [Clients -> Bodies] /\ body'[c] = d
      /\ \A o \in Clients \ {c} : body'[o] = body[o]
  BY DEF FanInv, FanTypeOK, SoundBody
<1>2. ASSUME NEW o \in Clients
      PROVE  SoundBody(body'[o]) /\ (o \in clients' <=> Served(body'[o]))
  <2>1. CASE o = c
    BY <1>1, <2>1
  <2>2. CASE o # c
    BY <1>1, <2>2 DEF FanInv, ClientsSound
  <2> QED
    BY <2>1, <2>2
<1> QED
  BY <1>1, <1>2 DEF ClientsSound

\* A body that was there goes on, or ends; publisher and closer do nothing.
LEMMA BodyStep ==
  ASSUME FanInv, NEW c \in Clients, NEW d, SoundBody(d), body' = [body EXCEPT ![c] = d],
         UNCHANGED <<publisher, chunks, closer, slow>>, draining' \in {draining, Nobody},
         publisher.step = "evicting" => draining' = draining,
         d.step # "none", body[c].step = "ended" => d.step = "ended",
         d.ended = "slow" <=> body[c].ended = "slow",
         \/ clients' = clients /\ (Served(d) <=> Served(body[c]))
              /\ (Served(d) => Hears(d, Reached(c)))
         \/ clients' = clients \ {c} /\ d.step = "ended"
  PROVE  FanInv'
<1>1. /\ clients' \subseteq Clients /\ (c \in clients' <=> Served(d)) /\ clients' \subseteq clients
      /\ \A o \in Clients \ {c} : o \in clients' <=> o \in clients
  BY DEF FanInv, FanTypeOK, ClientsSound, Served
<1>2. /\ body' \in [Clients -> Bodies] /\ ClientsSound' /\ body'[c] = d
      /\ \A o \in Clients \ {c} : body'[o] = body[o]
  BY <1>1, OneBody
<1>3. FanTypeOK'
  BY <1>1, <1>2 DEF FanInv, FanTypeOK
<1>4. ClientsHear'
  <2>1. ASSUME NEW o \in clients'
        PROVE  Hears(body'[o], IF o \in publisher.left THEN chunks - 1 ELSE chunks)
    <3>1. CASE o = c
      BY <1>1, <1>2, <2>1, <3>1 DEF Served, Reached
    <3>2. CASE o # c
      BY <1>1, <1>2, <2>1, <3>2 DEF FanInv, ClientsHear, Reached
    <3> QED
      BY <3>1, <3>2
  <2> QED
    BY <2>1 DEF ClientsHear, Reached
<1>5. Reaching'
  <2>1. ASSUME NEW o \in Clients
        PROVE  /\ body[o].step # "none" => body'[o].step # "none"
               /\ body[o].step = "ended" => body'[o].step = "ended"
    BY <1>2
  <2>2. publisher.left \subseteq Clients /\ closer.left \subseteq Clients
        /\ draining \in Clients \cup {Nobody}
    BY DEF FanInv, FanTypeOK
  <2>3. ASSUME NEW o \in publisher.left
        PROVE  o \in clients' \/ body'[o].step = "ended"
    <3>1. o \in clients \/ body[o].step = "ended"
      BY <2>3 DEF FanInv, Reaching
    <3>2. o # c => (o \in clients' <=> o \in clients)
      BY <1>1, <2>2, <2>3
    <3> QED
      BY <1>2, <2>1, <2>2, <2>3, <3>1, <3>2
  <2>4. ASSUME NEW o \in closer.left
        PROVE  o \notin clients' /\ body'[o].step # "none"
    BY <1>1, <2>1, <2>2, <2>4 DEF FanInv, Reaching
  <2>5. publisher.step = "evicting" => draining' \in publisher.left
    BY DEF FanInv, Reaching
  <2>6. draining' # Nobody /\ publisher.step # "evicting"
          => draining' \notin clients' \cup publisher.left /\ body'[draining'].step # "none"
    BY <1>1, <2>1, <2>2 DEF FanInv, Reaching
  <2> QED
    BY <2>3, <2>4, <2>5, <2>6 DEF FanInv, Reaching
<1>6. SlowAreCounted'
  <2>1. \A o \in Clients : body'[o].ended = "slow" <=> body[o].ended = "slow"
    BY <1>2
  <2> QED
    BY <2>1, SameSlow DEF FanInv
<1> QED
  BY <1>2, <1>3, <1>4, <1>5, <1>6 DEF FanInv

LEMMA SameBodies ==
  ASSUME FanInv, UNCHANGED <<clients, body, slow>>
  PROVE  /\ ClientsSound' /\ SlowAreCounted' /\ clients' \subseteq Clients
         /\ body' \in [Clients -> Bodies] /\ slow' \in Nat
         /\ \A c \in clients : c \in Clients /\ body[c].step \notin {"none", "ended"}
<1>1. SlowAreCounted'
  BY SameSlow DEF FanInv
<1> QED
  BY <1>1 DEF FanInv, FanTypeOK, ClientsSound, Served

-----------------------------------------------------------------------------
\* What a response does.
LEMMA RegisterKeeps ==
  ASSUME FanInv, NEW c \in Clients, RegisterClient(c)
  PROVE  FanInv'
<1> DEFINE d == Newcomer(chunks)
<1>1. chunks \in Nat /\ body[c].step = "none" /\ c \notin clients
  BY DEF FanInv, FanTypeOK, ClientsSound, Served, RegisterClient
<1>2. SoundBody(d) /\ Served(d) /\ Hears(d, chunks) /\ d.ended # "slow"
  BY <1>1, Registers
<1>3. body' = [body EXCEPT ![c] = d]
  BY DEF RegisterClient, Newcomer
<1> HIDE DEF d
<1>4. clients' = clients \cup {c} /\ UNCHANGED <<publisher, chunks, draining, closer, slow>>
  BY DEF RegisterClient
<1>5. /\ body' \in [Clients -> Bodies] /\ ClientsSound' /\ body'[c] = d
      /\ \A o \in Clients \ {c} : body'[o] = body[o]
  <2>1. clients' \subseteq Clients
    BY <1>4 DEF FanInv, FanTypeOK
  <2> QED
    BY <1>2, <1>3, <1>4, <2>1, OneBody
<1>6. FanTypeOK'
  BY <1>4, <1>5 DEF FanInv, FanTypeOK
<1>7. c \notin publisher.left /\ c \notin closer.left /\ c # draining
  <2>1. c \notin publisher.left /\ c \notin closer.left
    BY <1>1 DEF FanInv, Reaching
  <2>2. draining \in Clients \cup {Nobody} /\ Nobody \notin Clients
    BY FanoutAssumption DEF FanInv, FanTypeOK
  <2>3. publisher.step # "evicting" /\ draining # Nobody => body[draining].step # "none"
    BY DEF FanInv, Reaching
  <2>4. publisher.step = "evicting" => draining \in publisher.left
    BY DEF FanInv, Reaching
  <2> QED
    BY <1>1, <2>1, <2>2, <2>3, <2>4
<1>8. ClientsHear'
  <2>1. ASSUME NEW o \in clients'
        PROVE  Hears(body'[o], IF o \in publisher.left THEN chunks - 1 ELSE chunks)
    <3>1. CASE o = c
      BY <1>2, <1>5, <1>7, <3>1
    <3>2. CASE o # c
      BY <1>4, <1>5, <3>2 DEF FanInv, FanTypeOK, ClientsHear, Reached
    <3> QED
      BY <3>1, <3>2
  <2> QED
    BY <1>4, <2>1 DEF ClientsHear, Reached
<1>9. Reaching'
  <2>1. publisher.left \subseteq Clients /\ closer.left \subseteq Clients
        /\ draining \in Clients \cup {Nobody}
    BY DEF FanInv, FanTypeOK
  <2>2. \A o \in publisher.left : o \in clients' \/ body'[o].step = "ended"
    BY <1>4, <1>5, <1>7, <2>1 DEF FanInv, Reaching
  <2>3. \A o \in closer.left : o \notin clients' /\ body'[o].step # "none"
    BY <1>4, <1>5, <1>7, <2>1 DEF FanInv, Reaching
  <2>4. draining # Nobody /\ publisher.step # "evicting"
          => draining \notin clients' \cup publisher.left /\ body'[draining].step # "none"
    BY <1>4, <1>5, <1>7, <2>1 DEF FanInv, Reaching
  <2> QED
    BY <1>4, <2>2, <2>3, <2>4 DEF FanInv, Reaching
<1>10. SlowAreCounted'
  <2>1. body[c].ended # "slow"
    BY <1>1, NoBodySound DEF FanInv, ClientsSound, SoundBody
  <2>2. \A o \in Clients : body'[o].ended = "slow" <=> body[o].ended = "slow"
    BY <1>2, <1>5, <2>1
  <2> QED
    BY <1>4, <2>2, SameSlow DEF FanInv
<1> QED
  BY <1>5, <1>6, <1>8, <1>9, <1>10 DEF FanInv

LEMMA RespondKeeps ==
  ASSUME FanInv, NEW c \in Clients, Respond(c) \/ Abandon(c)
  PROVE  FanInv'
<1>1. SoundBody(body[c]) /\ DOMAIN body = Clients
      /\ (Served(body[c]) => Hears(body[c], Reached(c)))
  BY DEF FanInv, FanTypeOK, ClientsSound, ClientsHear
<1>2. ASSUME Resume(c)
      PROVE  FanInv'
  <2> DEFINE d == [body[c] EXCEPT !.step = "waiting"]
  <2>1. body' = [body EXCEPT ![c] = d] /\ body[c].step = "yielded"
        /\ UNCHANGED <<clients, publisher, chunks, draining, closer, slow>>
    BY <1>2 DEF Resume
  <2>2. /\ SoundBody(d) /\ (Served(d) <=> Served(body[c]))
        /\ (Hears(body[c], Reached(c)) => Hears(d, Reached(c)))
        /\ d.ended = body[c].ended /\ d.step # "none"
    BY <1>1, <2>1, Resumes
  <2> HIDE DEF d
  <2> QED
    BY <1>1, <2>1, <2>2, BodyStep
<1>3. ASSUME NEW by \in {"listener", "bridge"}, Finish(c, by), body[c].step # "none",
             UNCHANGED <<publisher, chunks, draining, closer, slow>>
      PROVE  FanInv'
  <2> DEFINE d == Over(body[c], by)
  <2>1. body' = [body EXCEPT ![c] = d] /\ clients' = clients \ {c}
    BY <1>1, <1>3 DEF Finish, Over
  <2>2. SoundBody(d) /\ d.step = "ended" /\ (d.ended = "slow" <=> body[c].ended = "slow")
    BY <1>1, <1>3, Finishes
  <2> HIDE DEF d
  <2> QED
    BY <1>3, <2>1, <2>2, BodyStep
<1>4. ASSUME Collect(c), Head(body[c].queue) # End
      PROVE  FanInv'
  <2> DEFINE d == [body[c] EXCEPT !.step = "collecting", !.queue = Tail(@),
                                  !.batch = Append(@, Head(body[c].queue))]
  <2>1. /\ body' = [body EXCEPT ![c] = d] /\ body[c].step \in {"waiting", "collecting"}
        /\ body[c].queue # <<>> /\ UNCHANGED <<clients, publisher, chunks, draining, closer, slow>>
    BY <1>1, <1>4 DEF Collect
  <2>2. /\ SoundBody(d) /\ (Served(d) <=> Served(body[c]))
        /\ (Hears(body[c], Reached(c)) => Hears(d, Reached(c)))
        /\ d.ended = body[c].ended /\ d.step = "collecting"
    BY <1>1, <1>4, <2>1, Collects
  <2> HIDE DEF d
  <2> QED
    BY <1>1, <2>1, <2>2, BodyStep
<1>5. ASSUME Yield(c)
      PROVE  FanInv'
  <2> DEFINE d == [body[c] EXCEPT !.step = "yielded", !.batch = <<>>,
                                  !.yielded = @ \o body[c].batch]
  <2>1. body' = [body EXCEPT ![c] = d] /\ body[c].step = "collecting"
        /\ UNCHANGED <<clients, publisher, chunks, draining, closer, slow>>
    BY <1>1, <1>5 DEF Yield
  <2>2. /\ SoundBody(d) /\ (Served(d) <=> Served(body[c])) /\ (Served(d) => Hears(d, Reached(c)))
        /\ d.ended = body[c].ended /\ d.step = "yielded"
    BY <1>1, <2>1, Yields
  <2> HIDE DEF d
  <2> QED
    BY <2>1, <2>2, BodyStep
<1>6. CASE Collect(c)
  <2>1. CASE Head(body[c].queue) = End
    BY <1>3, <1>6, <2>1 DEF Collect
  <2> QED
    BY <1>4, <1>6, <2>1
<1>7. CASE Abandon(c)
  BY <1>3, <1>7 DEF Abandon
<1> QED
  BY <1>2, <1>5, <1>6, <1>7 DEF Respond

LEMMA DrainKeeps ==
  ASSUME FanInv, Drain
  PROVE  FanInv'
<1> DEFINE d == [body[draining] EXCEPT !.queue = Drained(@)]
<1>1. /\ draining \in Clients /\ draining # Nobody /\ publisher.step # "evicting"
      /\ draining' \in {draining, Nobody} /\ UNCHANGED <<clients, publisher, chunks, closer, slow>>
  BY DEF FanInv, FanTypeOK, Drain
<1>2. /\ SoundBody(body[draining]) /\ ~Served(body[draining]) /\ DOMAIN body = Clients
      /\ body[draining].step # "none"
  BY <1>1 DEF FanInv, FanTypeOK, ClientsSound, Reaching
<1>3. CASE body[draining].step = "ended"
  <2>1. body' = [body EXCEPT ![draining] = body[draining]]
    BY <1>3 DEF Drain, FanInv, FanTypeOK
  <2> QED
    BY <1>1, <1>2, <1>3, <2>1, BodyStep
<1>4. CASE body[draining].step # "ended"
  <2>1. body' = [body EXCEPT ![draining] = d]
    BY <1>4 DEF Drain
  <2>2. /\ SoundBody(d) /\ (Served(d) <=> Served(body[draining]))
        /\ d.ended = body[draining].ended /\ d.step = body[draining].step
    BY <1>2, <1>4, Drains
  <2> HIDE DEF d
  <2> QED
    BY <1>1, <1>2, <1>4, <2>1, <2>2, BodyStep
<1> QED
  BY <1>3, <1>4

-----------------------------------------------------------------------------
\* What the worker and a close do.
LEMMA StepsKeep ==
  ASSUME FanInv, TakeChunk \/ Published \/ WorkerEnds \/ ClosePlayout
  PROVE  FanInv'
<1>1. /\ UNCHANGED <<clients, body, slow, chunks, draining>>
      /\ publisher.left = {} \/ publisher' = publisher
      /\ publisher'.left = publisher.left /\ closer'.left = closer.left
      /\ publisher.step # "evicting" \/ publisher' = publisher
      /\ publisher'.step # "evicting" \/ publisher' = publisher
  BY DEF FanInv, FanTypeOK, Reaching, TakeChunk, Published, WorkerEnds, ClosePlayout
<1>2. FanTypeOK'
  BY <1>1, SameBodies DEF FanInv, FanTypeOK, TakeChunk, Published, WorkerEnds, ClosePlayout
<1>3. ClientsHear'
  BY <1>1 DEF FanInv, ClientsHear, Reached
<1>4. Reaching'
  <2>1. closer'.step \in {"ending", "closed"} => publisher'.step = "ended"
    BY DEF FanInv, FanTypeOK, Reaching, TakeChunk, Published, WorkerEnds, ClosePlayout
  <2> QED
    BY <1>1, <2>1 DEF FanInv, FanTypeOK, Reaching, Published
<1> QED
  BY <1>1, <1>2, <1>3, <1>4, SameBodies DEF FanInv

LEMMA PublishKeeps ==
  ASSUME FanInv, Publish
  PROVE  FanInv'
<1>1. /\ UNCHANGED <<clients, body, slow, draining, closer>> /\ publisher.step = "holding"
      /\ publisher' = [step |-> "publishing", left |-> clients] /\ publisher.left = {}
      /\ chunks' = chunks + 1 /\ chunks \in Nat
  BY DEF FanInv, FanTypeOK, Reaching, Publish
<1>2. FanTypeOK'
  BY <1>1, SameBodies DEF FanInv, FanTypeOK
<1>3. \A c \in clients : Reached(c) = chunks /\ Reached(c)' = chunks
  BY <1>1 DEF Reached
<1>4. ClientsHear'
  BY <1>1, <1>3 DEF FanInv, ClientsHear
<1>5. Reaching'
  BY <1>1 DEF FanInv, Reaching
<1> QED
  BY <1>1, <1>2, <1>4, <1>5, SameBodies DEF FanInv

LEMMA PutKeeps ==
  ASSUME FanInv, NEW c \in Clients, Put(c)
  PROVE  FanInv'
<1> DEFINE d == [body[c] EXCEPT !.queue = Append(@, chunks)]
<1>1. /\ UNCHANGED <<clients, chunks, draining, closer, slow>> /\ draining = Nobody
      /\ publisher.step = "publishing" /\ c \in publisher.left
      /\ publisher' = [publisher EXCEPT !.left = @ \ {c}] /\ body' = [body EXCEPT ![c] = d]
  BY DEF Put
<1>2. /\ SoundBody(body[c]) /\ (c \in clients <=> Served(body[c])) /\ chunks \in Nat
      /\ c \in clients \/ body[c].step = "ended"
      /\ c \in clients => Hears(body[c], chunks - 1)
  BY <1>1 DEF FanInv, FanTypeOK, ClientsSound, ClientsHear, Reached, Reaching
<1>3. /\ SoundBody(d) /\ (Served(d) <=> c \in clients) /\ (c \in clients => Hears(d, chunks))
      /\ d.ended = body[c].ended /\ d.step = body[c].step
  <2>1. CASE c \in clients
    BY <1>2, <2>1, Queues
  <2>2. CASE c \notin clients
    BY <1>2, <2>2, QueuesInVain
  <2> QED
    BY <2>1, <2>2
<1> HIDE DEF d
<1>4. /\ publisher'.step = "publishing" /\ publisher'.left = publisher.left \ {c}
      /\ publisher' \in [step : {"publishing"}, left : SUBSET Clients]
  BY <1>1 DEF FanInv, FanTypeOK
<1>5. /\ body' \in [Clients -> Bodies] /\ ClientsSound' /\ body'[c] = d
      /\ \A o \in Clients \ {c} : body'[o] = body[o]
  <2>1. clients' \subseteq Clients
    BY <1>1 DEF FanInv, FanTypeOK
  <2> QED
    BY <1>1, <1>3, <2>1, OneBody
<1>6. FanTypeOK'
  BY <1>1, <1>4, <1>5 DEF FanInv, FanTypeOK
<1>7. ClientsHear'
  <2>1. ASSUME NEW o \in clients
        PROVE  Hears(body'[o], IF o \in publisher.left \ {c} THEN chunks - 1 ELSE chunks)
    <3>1. CASE o = c
      BY <1>3, <1>5, <2>1, <3>1
    <3>2. CASE o # c
      BY <1>5, <2>1, <3>2 DEF FanInv, FanTypeOK, ClientsHear, Reached
    <3> QED
      BY <3>1, <3>2
  <2> QED
    BY <1>1, <1>4, <2>1 DEF ClientsHear, Reached
<1>8. Reaching'
  <2>1. \A o \in Clients : body'[o].step = body[o].step
    BY <1>3, <1>5
  <2>2. publisher.left \subseteq Clients /\ closer.left \subseteq Clients
    BY DEF FanInv, FanTypeOK
  <2>3. \A o \in publisher'.left : o \in clients' \/ body'[o].step = "ended"
    BY <1>1, <1>4, <2>1, <2>2 DEF FanInv, Reaching
  <2>4. \A o \in closer.left : o \notin clients' /\ body'[o].step # "none"
    BY <1>1, <2>1, <2>2 DEF FanInv, Reaching
  <2>5. closer.step \notin {"ending", "closed"}
    BY <1>1 DEF FanInv, Reaching
  <2> QED
    BY <1>1, <1>4, <2>3, <2>4, <2>5 DEF Reaching
<1>9. SlowAreCounted'
  <2>1. \A o \in Clients : body'[o].ended = "slow" <=> body[o].ended = "slow"
    BY <1>3, <1>5
  <2> QED
    BY <1>1, <2>1, SameSlow DEF FanInv
<1> QED
  BY <1>5, <1>6, <1>7, <1>8, <1>9 DEF FanInv

LEMMA FullKeeps ==
  ASSUME FanInv, NEW c \in Clients, Full(c)
  PROVE  FanInv'
<1>1. /\ UNCHANGED <<clients, body, slow, chunks, closer>> /\ c \in publisher.left
      /\ publisher' = [step |-> "evicting", left |-> publisher.left] /\ draining' = c
      /\ publisher.step = "publishing"
  BY DEF Full
<1>2. FanTypeOK'
  BY <1>1, SameBodies DEF FanInv, FanTypeOK
<1>3. ClientsHear'
  BY <1>1 DEF FanInv, ClientsHear, Reached
<1>4. Reaching'
  BY <1>1 DEF FanInv, Reaching
<1> QED
  BY <1>1, <1>2, <1>3, <1>4, SameBodies DEF FanInv

\* One more has ended for being slow.
LEMMA OneMoreSlow ==
  ASSUME SlowAreCounted, NEW c \in Clients, slow' = slow + 1, body[c].ended # "slow",
         body'[c].ended = "slow",
         \A o \in Clients \ {c} : body'[o] = body[o]
  PROVE  SlowAreCounted'
<1> DEFINE S == {o \in Clients : body[o].ended = "slow"}
           T == {o \in Clients : body'[o].ended = "slow"}
<1>1. T = S \cup {c} /\ c \notin S /\ S \subseteq Clients
  OBVIOUS
<1>2. IsFiniteSet(S)
  BY <1>1, FanoutAssumption, FS_Subset
<1> HIDE DEF S, T
<1>3. Cardinality(T) = Cardinality(S) + 1
  BY <1>1, <1>2, FS_AddElement
<1> QED
  BY <1>3 DEF SlowAreCounted, S, T

LEMMA EvictKeeps ==
  ASSUME FanInv, Evict
  PROVE  FanInv'
<1>1. /\ publisher.step = "evicting" /\ draining \in publisher.left
      /\ publisher' = [step |-> "publishing", left |-> publisher.left \ {draining}]
      /\ UNCHANGED <<chunks, closer>> /\ draining \in Clients /\ publisher.left \subseteq Clients
      /\ Nobody \notin Clients
  BY FanoutAssumption DEF FanInv, FanTypeOK, Reaching, Evict
<1>2. CASE draining \notin clients
  <2>1. UNCHANGED <<clients, body, slow>> /\ draining' = Nobody
    BY <1>2 DEF Evict
  <2>2. FanTypeOK'
    BY <1>1, <2>1, SameBodies DEF FanInv, FanTypeOK
  <2>3. ClientsHear'
    BY <1>1, <1>2, <2>1 DEF FanInv, ClientsHear, Reached
  <2>4. Reaching'
    BY <1>1, <2>1 DEF FanInv, Reaching
  <2> QED
    BY <2>1, <2>2, <2>3, <2>4, SameBodies DEF FanInv
<1>3. CASE draining \in clients
  <2> DEFINE d == [body[draining] EXCEPT !.ended = "slow"]
  <2>1. /\ UNCHANGED draining /\ clients' = clients \ {draining} /\ slow' = slow + 1
        /\ body' = [body EXCEPT ![draining] = d]
    BY <1>3 DEF Evict, TakeOut
  <2>2. SoundBody(body[draining]) /\ Served(body[draining])
    BY <1>1, <1>3 DEF FanInv, ClientsSound
  <2>3. SoundBody(d) /\ ~Served(d) /\ d.ended = "slow" /\ d.step = body[draining].step
    BY <2>2, Ends
  <2> HIDE DEF d
  <2>4. /\ body' \in [Clients -> Bodies] /\ ClientsSound' /\ body'[draining] = d
        /\ \A o \in Clients \ {draining} : body'[o] = body[o]
    <3>1. clients' \subseteq Clients
      BY <2>1 DEF FanInv, FanTypeOK
    <3> QED
      BY <1>1, <2>1, <2>3, <3>1, OneBody
  <2>5. FanTypeOK'
    BY <1>1, <2>1, <2>4 DEF FanInv, FanTypeOK
  <2>6. ClientsHear'
    BY <1>1, <2>1, <2>4 DEF FanInv, FanTypeOK, ClientsHear, Reached
  <2>7. Reaching'
    <3>1. \A o \in Clients : body'[o].step = body[o].step
      BY <2>3, <2>4
    <3>2. closer.left \subseteq Clients
      BY DEF FanInv, FanTypeOK
    <3>3. \A o \in publisher'.left : o \in clients' \/ body'[o].step = "ended"
      BY <1>1, <2>1, <3>1 DEF FanInv, Reaching
    <3>4. \A o \in closer.left : o \notin clients' /\ body'[o].step # "none"
      BY <2>1, <3>1, <3>2 DEF FanInv, Reaching
    <3>5. closer.step \notin {"ending", "closed"}
      BY <1>1 DEF FanInv, Reaching
    <3>6. draining \notin clients' \cup publisher'.left /\ body'[draining].step # "none"
      BY <1>1, <2>1, <2>2, <3>1 DEF Served
    <3> QED
      BY <1>1, <2>1, <3>3, <3>4, <3>5, <3>6 DEF Reaching
  <2>8. SlowAreCounted'
    BY <1>1, <2>1, <2>2, <2>3, <2>4, OneMoreSlow DEF Served, FanInv
  <2> QED
    BY <2>4, <2>5, <2>6, <2>7, <2>8 DEF FanInv
<1> QED
  BY <1>2, <1>3

LEMMA CloseKeeps ==
  ASSUME FanInv, CloseClients
  PROVE  FanInv'
<1>1. /\ publisher.step = "ended" /\ closer' = [step |-> "ending", left |-> clients]
      /\ clients' = {} /\ UNCHANGED <<publisher, chunks, draining, slow>>
      /\ body' = [c \in Clients |->
                    IF c \in clients THEN [body[c] EXCEPT !.ended = "close"] ELSE body[c]]
  BY DEF CloseClients
<1>2. ASSUME NEW c \in Clients
      PROVE  /\ SoundBody(body'[c]) /\ ~Served(body'[c]) /\ body'[c].step = body[c].step
             /\ body'[c].ended = "slow" <=> body[c].ended = "slow"
             /\ body'[c] \in Bodies
  <2>1. SoundBody(body[c]) /\ (c \in clients <=> Served(body[c]))
    BY DEF FanInv, ClientsSound
  <2>2. CASE c \in clients
    <3>1. body'[c] = [body[c] EXCEPT !.ended = "close"]
      BY <1>1, <2>2
    <3>2. /\ SoundBody(body'[c]) /\ ~Served(body'[c]) /\ body'[c].step = body[c].step
          /\ body'[c].ended = "close"
      BY <2>1, <2>2, <3>1, Ends
    <3> QED
      BY <2>1, <2>2, <3>2 DEF Served, SoundBody
  <2>3. CASE c \notin clients
    BY <1>1, <2>1, <2>3 DEF SoundBody
  <2> QED
    BY <2>2, <2>3
<1>3. ClientsSound' /\ ClientsHear'
  BY <1>1, <1>2 DEF ClientsSound, ClientsHear
<1>4. FanTypeOK'
  <2>1. body' \in [Clients -> Bodies]
    <3>1. body' = [c \in Clients |-> body'[c]]
      BY <1>1
    <3> QED
      BY <1>2, <3>1
  <2> QED
    BY <1>1, <2>1 DEF FanInv, FanTypeOK
<1>5. Reaching'
  <2>1. publisher.left = {} /\ draining \in Clients \cup {Nobody} /\ clients \subseteq Clients
    BY <1>1 DEF FanInv, FanTypeOK, Reaching
  <2>2. \A c \in clients : body'[c].step # "none"
    BY <1>2, <2>1 DEF FanInv, ClientsSound, Served
  <2>3. draining # Nobody => body'[draining].step # "none"
    BY <1>1, <1>2, <2>1 DEF FanInv, Reaching
  <2> QED
    BY <1>1, <2>1, <2>2, <2>3 DEF Reaching
<1>6. SlowAreCounted'
  BY <1>1, <1>2, SameSlow DEF FanInv
<1> QED
  BY <1>3, <1>4, <1>5, <1>6 DEF FanInv

LEMMA EndKeeps ==
  ASSUME FanInv, EndClient
  PROVE  FanInv'
<1>1. /\ UNCHANGED <<clients, body, publisher, chunks, slow>> /\ closer.step = "ending"
      /\ \/ draining' \in closer.left /\ draining' \in Clients
              /\ closer' = [closer EXCEPT !.left = @ \ {draining'}]
         \/ closer' = [closer EXCEPT !.step = "closed"] /\ UNCHANGED draining
  BY DEF FanInv, FanTypeOK, EndClient
<1>2. FanTypeOK'
  BY <1>1, SameBodies DEF FanInv, FanTypeOK
<1>3. ClientsHear'
  BY <1>1 DEF FanInv, ClientsHear, Reached
<1>4. Reaching'
  <2>1. publisher.step = "ended" /\ publisher.left = {}
    BY <1>1 DEF FanInv, Reaching
  <2>2. /\ closer'.left \subseteq closer.left
        /\ draining' = draining \/ draining' \in closer.left
    BY <1>1 DEF FanInv, FanTypeOK
  <2> QED
    BY <1>1, <2>1, <2>2 DEF FanInv, Reaching
<1> QED
  BY <1>1, <1>2, <1>3, <1>4, SameBodies DEF FanInv

LEMMA FanInit ==
  ASSUME FanoutInit
  PROVE  FanInv
<1>1. SoundBody(NoBody) /\ ~Served(NoBody) /\ NoBody.ended # "slow" /\ NoBody \in Bodies
  BY NoBodySound DEF SoundBody
<1>2. FanTypeOK
  BY <1>1 DEF FanoutInit, FanTypeOK
<1>3. ClientsSound /\ ClientsHear
  BY <1>1 DEF FanoutInit, ClientsSound, ClientsHear
<1>4. Reaching
  BY DEF FanoutInit, Reaching
<1>5. SlowAreCounted
  <2>1. {c \in Clients : body[c].ended = "slow"} = {}
    BY <1>1 DEF FanoutInit
  <2> QED
    BY <2>1, FS_EmptySet DEF FanoutInit, SlowAreCounted
<1> QED
  BY <1>2, <1>3, <1>4, <1>5 DEF FanInv

LEMMA FanStep ==
  FanInv /\ [FanoutNext]_fanoutVars => FanInv'
<1> SUFFICES ASSUME FanInv, [FanoutNext]_fanoutVars
             PROVE  FanInv'
  OBVIOUS
<1>1. CASE UNCHANGED fanoutVars
  BY <1>1 DEF fanoutVars, FanInv, FanTypeOK, ClientsSound, ClientsHear, Reached, Reaching,
              SlowAreCounted
<1>2. CASE WorkerRuns
  BY <1>2, StepsKeep, PublishKeeps, PutKeeps, FullKeeps, EvictKeeps DEF WorkerRuns
<1>3. CASE Drain \/ ClosePlayout \/ CloseClients \/ EndClient
  BY <1>3, DrainKeeps, StepsKeep, CloseKeeps, EndKeeps
<1>4. CASE \E c \in Clients : RegisterClient(c) \/ Respond(c) \/ Abandon(c)
  BY <1>4, RegisterKeeps, RespondKeeps
<1> QED
  BY <1>1, <1>2, <1>3, <1>4 DEF FanoutNext, Closed

-----------------------------------------------------------------------------
\* What counts from n is the run after n.
LEMMA RunOf ==
  ASSUME NEW s \in Seq(Nat), NEW n \in Nat, Counts(s, n)
  PROVE  s = Run(n, n + Len(s))
<1>1. PICK k \in Nat : k = Len(s)
  OBVIOUS
<1>2. s = [i \in 1 .. k |-> s[i]]
  BY <1>1
<1>3. \A i \in 1 .. k : s[i] = n + i
  BY <1>1 DEF Counts
<1>4. (n + k) - n = k
  BY <1>1
<1>5. Run(n, n + k) = [i \in 1 .. k |-> n + i]
  BY <1>4 DEF Run
<1> QED
  BY <1>1, <1>2, <1>3, <1>5

LEMMA CountsOn ==
  ASSUME NEW s \in Seq(Nat), NEW t \in Seq(Nat), NEW n \in Nat, Counts(s, n),
         Counts(t, n + Len(s))
  PROVE  s \o t \in Seq(Nat) /\ Len(s \o t) = Len(s) + Len(t) /\ Counts(s \o t, n)
<1>1. /\ s \o t \in Seq(Nat) /\ Len(s \o t) = Len(s) + Len(t)
      /\ \A i \in 1 .. Len(s) : (s \o t)[i] = s[i]
      /\ \A i \in Len(s) + 1 .. Len(s) + Len(t) : (s \o t)[i] = t[i - Len(s)]
  BY JoinOf
<1>2. PICK u \in Nat, v \in Nat : u = Len(s) /\ v = Len(t)
  OBVIOUS
<1>3. ASSUME NEW i \in 1 .. u + v
      PROVE  (s \o t)[i] = n + i
  <2>1. CASE i \in 1 .. u
    BY <1>1, <1>2, <2>1 DEF Counts
  <2>2. CASE i \in u + 1 .. u + v
    <3>1. i - u \in 1 .. v /\ n + u + (i - u) = n + i
      BY <2>2
    <3>2. (s \o t)[i] = t[i - u]
      BY <1>1, <1>2, <2>2
    <3>3. t[i - u] = n + u + (i - u)
      BY <1>2, <3>1 DEF Counts
    <3> QED
      BY <3>1, <3>2, <3>3
  <2> QED
    BY <1>2, <2>1, <2>2
<1> QED
  BY <1>1, <1>2, <1>3 DEF Counts

(***************************************************************************)
(* For any number of listeners, queues and batches of any size: a client   *)
(* has, holds or has queued every chunk since it came (fanout.py:74),      *)
(* what any response was given is in order and never twice, even while     *)
(* its queue is emptied under it (fanout.py:114), and each eviction is     *)
(* counted once (fanout.py:108).                                           *)
(***************************************************************************)
THEOREM ListenersInOrder ==
  FanoutSpec => [](MissesNothing /\ StaysOrdered /\ SlowAreCounted)
<1>1. ASSUME FanInv, NEW c \in Clients
      PROVE  /\ c \in clients =>
                  body[c].yielded \o body[c].batch \o body[c].queue = Run(body[c].from, Reached(c))
             /\ \A i, j \in DOMAIN body[c].yielded :
                  i < j => body[c].yielded[i] < body[c].yielded[j]
             /\ body[c].ended \in {"not", "listener"} =>
                  body[c].yielded = Run(body[c].from, body[c].from + Len(body[c].yielded))
  <2>1. SoundBody(body[c]) /\ body[c] \in Bodies /\ (c \in clients => Hears(body[c], Reached(c)))
    BY <1>1 DEF FanInv, ClientsSound, ClientsHear, SoundBody
  <2>2. PICK y \in Seq(Nat), a \in Seq(Nat), q \in Seq(Nat \cup {End}), n \in Nat :
          y = body[c].yielded /\ a = body[c].batch /\ q = body[c].queue /\ n = body[c].from
    BY <2>1, BodyParts
  <2>3. ASSUME Hears(body[c], Reached(c))
        PROVE  y \o a \o q = Run(n, Reached(c))
    <3>1. /\ q \in Seq(Nat) /\ Counts(y, n) /\ Counts(a, n + Len(y))
          /\ Counts(q, n + Len(y) + Len(a)) /\ n + Len(y) + Len(a) + Len(q) = Reached(c)
      BY <2>2, <2>3 DEF Hears
    <3>2. PICK u \in Nat, v \in Nat, w \in Nat : u = Len(y) /\ v = Len(a) /\ w = Len(q)
      BY <3>1
    <3>3. y \o a \in Seq(Nat) /\ Len(y \o a) = u + v /\ Counts(y \o a, n)
      BY <3>1, <3>2, CountsOn
    <3>4. n + (u + v) = n + u + v /\ n + (u + v + w) = n + u + v + w
      OBVIOUS
    <3>5. Counts(q, n + Len(y \o a))
      BY <3>1, <3>2, <3>3, <3>4
    <3>6. /\ y \o a \o q \in Seq(Nat) /\ Len(y \o a \o q) = u + v + w
          /\ Counts(y \o a \o q, n)
      <4>1. PICK given \in Seq(Nat) : given = y \o a
        BY <3>3
      <4>2. given \o q \in Seq(Nat) /\ Len(given \o q) = Len(given) + Len(q) /\ Counts(given \o q, n)
        BY <3>1, <3>3, <3>5, <4>1, CountsOn
      <4> QED
        BY <3>2, <3>3, <4>1, <4>2
    <3>7. y \o a \o q = Run(n, n + (u + v + w))
      BY <3>6, RunOf
    <3> QED
      BY <3>1, <3>2, <3>4, <3>7
  <2>4. Increasing(y)
    BY <2>1, <2>2 DEF SoundBody, InTurn
  <2>5. \A i, j \in DOMAIN y : i < j => y[i] < y[j]
    BY <2>4 DEF Increasing
  <2>6. body[c].ended \in {"not", "listener"} => y = Run(n, n + Len(y))
    BY <2>1, <2>2, RunOf DEF SoundBody
  <2> QED
    BY <2>1, <2>2, <2>3, <2>5, <2>6
<1>2. FanInv => MissesNothing /\ StaysOrdered /\ SlowAreCounted
  <2>1. FanInv => clients \subseteq Clients /\ SlowAreCounted
    BY DEF FanInv, FanTypeOK
  <2> QED
    BY <1>1, <2>1 DEF MissesNothing, StaysOrdered
<1> QED
  BY <1>2, FanInit, FanStep, PTL DEF FanoutSpec

-----------------------------------------------------------------------------
(***************************************************************************)
(* One producer's packets.  Either the producer leads playout: nothing is  *)
(* stored beyond what it sent, and of the numbers it sent last there is a  *)
(* packet for every Stride, since it skips no more in a row.  Or playout   *)
(* has overtaken it, nothing is stored, and each number between the two    *)
(* was concealed in this outage.                                           *)
(***************************************************************************)
Stride == MaxSkip + 1

\* Of the a numbers before s.
Latest(B, s, a) == {b \in B : Ahead(b, s) <= a}

Leads(B, p, s) ==
  /\ \A b \in B : 1 <= Ahead(b, s) /\ Ahead(b, s) <= Ahead(p, s)
  /\ \A a \in 1 .. Ahead(p, s) : a <= Cardinality(Latest(B, s, a)) * Stride

Trails(B, p, s, o) == B = {} /\ Ahead(s, p) <= o

StreamInv ==
  /\ PlayoutInv /\ sendSeq \in Seqs /\ ~closed
  /\ playoutSeq # NoSeq =>
       Leads(Buffered, playoutSeq, sendSeq) \/ Trails(Buffered, playoutSeq, sendSeq, outage)
  /\ LateOnlyAfterConcealment

-----------------------------------------------------------------------------
LEMMA StreamBounds ==
  /\ Stride \in Nat \ {0} /\ Capacity \in Nat \ {0} /\ Half \in Nat /\ Stride < Half
  /\ MaxSkip \in Nat /\ Stride = MaxSkip + 1 /\ MaxOutage \in Nat /\ MaxOutage < Half
  /\ \A c \in Nat : c * Stride \in Nat /\ (c + 1) * Stride = c * Stride + Stride
  /\ \A c \in 0 .. Capacity : c * Stride + Stride < Half
<1>1. /\ Stride \in Nat \ {0} /\ Capacity \in Nat \ {0} /\ Half \in Nat /\ MaxSkip \in Nat
      /\ (Capacity + 1) * Stride < Half /\ MaxOutage \in Nat /\ MaxOutage < Half
  BY PlayoutAssumption, StreamAssumption DEF Stride, Capacity
<1> PICK k \in Nat \ {0}, m \in Nat \ {0} : k = Stride /\ m = Capacity
  BY <1>1
<1>2. \A c \in Nat : c * k \in Nat /\ (c + 1) * k = c * k + k
  OBVIOUS
<1>3. \A c \in 0 .. m : c * k <= m * k
  OBVIOUS
<1>4. (m + 1) * k = m * k + k /\ m * k \in Nat
  BY <1>2
<1>5. k < Half /\ \A c \in 0 .. m : c * k + k < Half
  BY <1>1, <1>2, <1>3, <1>4
<1> QED
  BY <1>1, <1>2, <1>5 DEF Stride

\* How far a number is ahead is a distance.
LEMMA Distances ==
  ASSUME NEW a \in Seqs, NEW b \in Seqs
  PROVE  /\ Ahead(a, b) \in 0 .. SeqMod - 1 /\ (Ahead(a, b) = 0 <=> a = b)
         /\ SeqMod = 2 * Half /\ SeqMod \in Nat
         /\ Ahead(a, b) >= 1 => Ahead(Succ(a), b) = Ahead(a, b) - 1
         /\ Ahead(a, b) < SeqMod - 1 => Ahead(a, Succ(b)) = Ahead(a, b) + 1
         /\ Ahead(a, b) >= 1 => Ahead(b, a) = SeqMod - Ahead(a, b)
  BY PlayoutAssumption DEF Ahead, Succ, Seqs, SeqMod

LEMMA DistancesAdd ==
  ASSUME NEW a \in Seqs, NEW b \in Seqs, NEW c \in Seqs
  PROVE  /\ Ahead(a, b) + Ahead(b, c) < SeqMod => Ahead(a, c) = Ahead(a, b) + Ahead(b, c)
         /\ Ahead(a, c) = Ahead(b, c) => a = b
  BY PlayoutAssumption DEF Ahead, Seqs, SeqMod

LEMMA SkippedBy ==
  ASSUME NEW s \in Seqs, NEW n \in 0 .. MaxSkip
  PROVE  /\ Skipped(s, n) \in Seqs /\ Succ(Skipped(s, n)) \in Seqs
         /\ Ahead(s, Skipped(s, n)) = n
<1>1. Half \in Nat /\ n \in Nat /\ n < Half
  BY StreamBounds
<1>2. SeqMod \in Nat /\ SeqMod > 0 /\ s \in Nat /\ s < SeqMod /\ n < SeqMod
  BY <1>1 DEF SeqMod, Seqs
<1>3. CASE s + n < SeqMod
  <2>1. Skipped(s, n) = s + n
    BY <1>1, <1>2, <1>3 DEF Skipped
  <2> QED
    BY <1>1, <1>2, <1>3, <2>1, SuccType DEF Seqs, Ahead
<1>4. CASE s + n >= SeqMod
  <2>1. Skipped(s, n) = s + n - SeqMod
    BY <1>1, <1>2, <1>4 DEF Skipped
  <2> QED
    BY <1>1, <1>2, <1>4, <2>1, SuccType DEF Seqs, Ahead
<1> QED
  BY <1>1, <1>2, <1>3, <1>4

LEMMA LatestFinite ==
  ASSUME NEW B, B \subseteq Seqs, NEW s, NEW a
  PROVE  /\ IsFiniteSet(B) /\ Cardinality(B) \in Nat /\ IsFiniteSet(Latest(B, s, a))
         /\ Cardinality(Latest(B, s, a)) \in Nat
<1>1. IsFiniteSet(Seqs)
  BY FS_Interval, PlayoutAssumption DEF Seqs, SeqMod
<1>2. Latest(B, s, a) \subseteq Seqs
  BY DEF Latest
<1>3. IsFiniteSet(B) /\ IsFiniteSet(Latest(B, s, a))
  BY <1>1, <1>2, FS_Subset
<1> QED
  BY <1>3, FS_CardinalityType

\* A lead is no longer than the packets that fill it allow.
LEMMA LeadIsFilled ==
  ASSUME NEW B, B \subseteq Seqs, NEW p \in Seqs, NEW s \in Seqs, Leads(B, p, s)
  PROVE  Ahead(p, s) <= Cardinality(B) * Stride
<1>1. Cardinality(B) \in Nat /\ Cardinality(B) * Stride \in Nat
  BY LatestFinite, StreamBounds
<1>2. Ahead(p, s) \in Nat
  BY Distances
<1>3. CASE Ahead(p, s) = 0
  BY <1>1, <1>3
<1>4. CASE Ahead(p, s) # 0
  <2>1. Latest(B, s, Ahead(p, s)) = B
    BY DEF Leads, Latest
  <2>2. Ahead(p, s) \in 1 .. Ahead(p, s)
    BY <1>2, <1>4
  <2> QED
    BY <2>1, <2>2 DEF Leads
<1> QED
  BY <1>3, <1>4

\* Playout moves on by one number, played or not.
LEMMA LeadShrinks ==
  ASSUME NEW B, B \subseteq Seqs, NEW p \in Seqs, NEW s \in Seqs, Leads(B, p, s), Ahead(p, s) >= 1
  PROVE  Leads(B \ {p}, Succ(p), s)
<1>1. Ahead(p, s) \in Nat /\ Ahead(Succ(p), s) = Ahead(p, s) - 1
  BY Distances
<1>2. ASSUME NEW b \in B \ {p}
      PROVE  1 <= Ahead(b, s) /\ Ahead(b, s) <= Ahead(p, s) - 1
  <2>1. 1 <= Ahead(b, s) /\ Ahead(b, s) <= Ahead(p, s)
    BY DEF Leads
  <2>2. Ahead(b, s) \in Nat /\ Ahead(b, s) # Ahead(p, s)
    BY Distances, DistancesAdd
  <2> QED
    BY <1>1, <2>1, <2>2
<1>3. ASSUME NEW a \in 1 .. Ahead(p, s) - 1
      PROVE  a <= Cardinality(Latest(B \ {p}, s, a)) * Stride
  <2>1. ~(Ahead(p, s) <= a) /\ a \in 1 .. Ahead(p, s)
    BY <1>1
  <2>2. Latest(B \ {p}, s, a) = Latest(B, s, a)
    BY <2>1 DEF Latest
  <2> QED
    BY <2>1, <2>2 DEF Leads
<1> QED
  BY <1>1, <1>2, <1>3 DEF Leads

\* The producer moves on: n numbers are skipped and the next is stored.
LEMMA LeadGrows ==
  ASSUME NEW B, B \subseteq Seqs, NEW p \in Seqs, NEW s \in Seqs, Leads(B, p, s),
         Cardinality(B) < Capacity, NEW n \in 0 .. MaxSkip
  PROVE  LET q == Skipped(s, n)
         IN  /\ q \notin B /\ ~Behind(p, q)
             /\ Leads(B \cup {q}, p, Succ(q))
<1> DEFINE q == Skipped(s, n)
           r == Succ(q)
<1>1. q \in Seqs /\ r \in Seqs /\ Ahead(s, q) = n
  BY SkippedBy
<1>2. Ahead(q, r) = 1
  BY <1>1, Distances, PlayoutAssumption DEF SeqMod
<1> HIDE DEF q, r
<1>3. PICK k \in Nat, d \in Nat, h \in Nat, m \in Nat :
        k = Stride /\ d = Ahead(p, s) /\ h = Half /\ m = SeqMod
  <2>1. Ahead(p, s) \in Nat /\ SeqMod \in Nat
    BY Distances
  <2>2. Stride \in Nat /\ Half \in Nat
    BY StreamBounds
  <2> QED
    BY <2>1, <2>2
<1>4. m = 2 * h /\ d + n + 1 < h /\ n + 1 <= k /\ n \in Nat
  <2>1. Cardinality(B) \in 0 .. Capacity
    BY LatestFinite, StreamBounds
  <2>2. d <= Cardinality(B) * Stride /\ Cardinality(B) * Stride + Stride < Half
    BY <1>3, <2>1, LeadIsFilled, StreamBounds
  <2>3. n + 1 <= Stride
    BY StreamBounds
  <2>4. PICK c \in Nat : c = Cardinality(B) * Stride
    BY <2>1, StreamBounds
  <2> QED
    BY <1>1, <1>3, <2>2, <2>3, <2>4, Distances
<1>5. ASSUME NEW b \in Seqs, Ahead(b, s) <= d
      PROVE  Ahead(b, q) = Ahead(b, s) + n /\ Ahead(b, r) = Ahead(b, s) + n + 1
  <2>1. PICK e \in Nat : e = Ahead(b, s)
    BY Distances
  <2>2. e + n < m /\ e + n < m - 1
    BY <1>4, <1>5, <2>1
  <2>3. Ahead(b, q) = e + n
    BY <1>1, <1>3, <2>1, <2>2, DistancesAdd
  <2>4. Ahead(b, q) < SeqMod - 1
    BY <1>3, <2>2, <2>3
  <2>5. Ahead(b, r) = e + n + 1
    BY <1>1, <2>3, <2>4, Distances DEF r
  <2> QED
    BY <2>1, <2>3, <2>5
<1>6. \A b \in B : b \in Seqs /\ 1 <= Ahead(b, s) /\ Ahead(b, s) <= d /\ Ahead(b, s) \in Nat
  BY <1>3, Distances DEF Leads
<1>7. q \notin B
  <2>1. ASSUME q \in B
        PROVE  FALSE
    <3>1. PICK e \in Nat : e = Ahead(q, s)
      BY <1>6, <2>1
    <3> QED
      BY <1>2, <1>4, <1>5, <1>6, <2>1, <3>1
  <2> QED
    BY <2>1
<1>8. ~Behind(p, q) /\ Ahead(p, r) = d + n + 1
  BY <1>3, <1>4, <1>5 DEF Behind
<1>9. ASSUME NEW b \in B \cup {q}
      PROVE  1 <= Ahead(b, r) /\ Ahead(b, r) <= Ahead(p, r)
  <2>1. CASE b = q
    BY <1>2, <1>4, <1>8, <2>1
  <2>2. CASE b \in B
    <3>1. PICK e \in Nat : e = Ahead(b, s)
      BY <1>6, <2>2
    <3> QED
      BY <1>4, <1>5, <1>6, <1>8, <2>2, <3>1
  <2> QED
    BY <2>1, <2>2
<1>10. ASSUME NEW a \in 1 .. d + n + 1
       PROVE  a <= Cardinality(Latest(B \cup {q}, r, a)) * Stride
  <2> DEFINE L == Latest(B \cup {q}, r, a)
             K == Latest(B, s, a - (n + 1))
  <2>1. IsFiniteSet(K) /\ Cardinality(K) \in Nat
    BY LatestFinite
  <2>2. L = K \cup {q} /\ q \notin K
    <3>1. ASSUME NEW b \in B
          PROVE  Ahead(b, r) <= a <=> Ahead(b, s) <= a - (n + 1)
      <4>1. PICK e \in Nat : e = Ahead(b, s)
        BY <1>6
      <4> QED
        BY <1>4, <1>5, <1>6, <4>1
    <3>2. Ahead(q, r) <= a
      BY <1>2
    <3> QED
      BY <1>7, <3>1, <3>2 DEF Latest
  <2> HIDE DEF L, K
  <2>3. Cardinality(L) = Cardinality(K) + 1
    BY <2>1, <2>2, FS_AddElement
  <2>4. PICK c \in Nat : c = Cardinality(K)
    BY <2>1
  <2>5. PICK t \in Nat : t = c * Stride
    BY StreamBounds
  <2>6. Cardinality(L) * Stride = t + k
    BY <1>3, <2>3, <2>4, <2>5, StreamBounds
  <2>7. CASE a <= n + 1
    BY <1>4, <2>6, <2>7 DEF L
  <2>8. CASE a > n + 1
    <3>1. a - (n + 1) \in 1 .. d
      BY <1>4, <2>8
    <3>2. a - (n + 1) <= t
      BY <1>3, <2>4, <2>5, <3>1 DEF Leads, K
    <3> QED
      BY <1>4, <2>6, <3>2 DEF L
  <2> QED
    BY <1>4, <2>7, <2>8
<1>11. Leads(B \cup {q}, p, r)
  BY <1>8, <1>9, <1>10 DEF Leads
<1> QED
  BY <1>7, <1>8, <1>11 DEF q, r

\* One packet, and playout no more than the skipped numbers before it.
LEMMA LeadBegins ==
  ASSUME NEW p \in Seqs, NEW q \in Seqs, Ahead(p, q) <= MaxSkip
  PROVE  Leads({q}, p, Succ(q))
<1> DEFINE r == Succ(q)
<1>1. /\ MaxSkip + 1 < Half /\ MaxSkip \in Nat /\ Half \in Nat /\ Stride = MaxSkip + 1
  BY StreamBounds
<1>2. PICK e \in Nat : e = Ahead(p, q)
  BY Distances
<1>3. Ahead(q, r) = 1 /\ Ahead(p, r) = e + 1
  <2>1. SeqMod = 2 * Half /\ Ahead(q, q) = 0
    BY Distances
  <2>2. Ahead(q, q) < SeqMod - 1 /\ Ahead(p, q) < SeqMod - 1
    BY <1>1, <1>2, <2>1
  <2> QED
    BY <1>2, <2>1, <2>2, Distances
<1> HIDE DEF r
<1>4. ASSUME NEW a \in 1 .. e + 1
      PROVE  a <= Cardinality(Latest({q}, r, a)) * Stride
  <2>1. Latest({q}, r, a) = {q}
    BY <1>3 DEF Latest
  <2>2. Cardinality(Latest({q}, r, a)) = 1
    BY <2>1, FS_Singleton
  <2>3. 1 * Stride = Stride
    BY <1>1
  <2> QED
    BY <1>1, <1>2, <2>2, <2>3
<1> QED
  BY <1>1, <1>2, <1>3, <1>4 DEF Leads, r

-----------------------------------------------------------------------------
LEMMA SendKeeps ==
  ASSUME StreamInv, Send
  PROVE  StreamInv'
<1>1. PICK n \in 0 .. MaxSkip, x \in Payloads :
        Ingest(Skipped(sendSeq, n), x) /\ sendSeq' = Succ(Skipped(sendSeq, n))
  BY DEF Send
<1> DEFINE s == sendSeq
           q == Skipped(sendSeq, n)
           r == Succ(q)
           p == playoutSeq
<1>2. /\ s \in Seqs /\ q \in Seqs /\ r \in Seqs /\ Ahead(s, q) = n
      /\ n \in Nat /\ n < Half /\ MaxSkip \in Nat /\ p \in Seqs \cup {NoSeq}
      /\ Buffered \subseteq Seqs /\ packets \in [Seqs -> Slots]
  BY SkippedBy, StreamBounds DEF StreamInv, PlayoutInv, TypeOK, Buffered, Stored
<1>3. PlayoutInv' /\ r = sendSeq'
  BY <1>1, <1>2, IngestInv DEF StreamInv
<1>4. closed' = closed /\ outage' = outage /\ sendSeq' \in Seqs
  BY <1>1, <1>2 DEF Ingest
<1> HIDE DEF q, r
<1>5. ASSUME ~IsLate(q), q \notin Buffered,
             p # NoSeq => Leads(Buffered \cup {q}, p, r),
             p = NoSeq => Buffered = {}
      PROVE  StreamInv'
  <2>1. IngestStore(q, x)
    <3>1. Cardinality(Buffered) < Capacity /\ Cardinality(Buffered) \in Nat /\ Capacity \in Nat
      BY StoredFinite, StreamBounds DEF Send, Paced, Buffered
    <3>2. ~(Cardinality(Buffered) >= Capacity)
      BY <3>1
    <3>3. Ingest(q, x)
      BY <1>1 DEF q
    <3> QED
      BY <1>5, <3>2, <3>3 DEF Ingest, IngestLate, IngestDuplicate, IngestOverflow
  <2>2. Buffered' = Buffered \cup {q}
    BY <1>2, <1>5, <2>1, StoreAdds DEF IngestStore, Buffered
  <2>3. /\ playoutSeq' = (IF p = NoSeq THEN q ELSE p) /\ outcome' = "stored"
    BY <2>1 DEF IngestStore
  <2>4. Leads(Buffered', playoutSeq', r)
    <3>1. CASE p = NoSeq
      <4>1. Ahead(q, q) <= MaxSkip
        BY <1>2, Distances
      <4>2. Leads({q}, q, r)
        BY <1>2, <4>1, LeadBegins DEF r
      <4> QED
        BY <1>5, <2>2, <2>3, <3>1, <4>2
    <3>2. CASE p # NoSeq
      BY <1>5, <2>2, <2>3, <3>2
    <3> QED
      BY <3>1, <3>2
  <2> QED
    BY <1>3, <1>4, <2>3, <2>4 DEF StreamInv, LateOnlyAfterConcealment
<1>6. CASE p = NoSeq
  BY <1>5, <1>6 DEF StreamInv, PlayoutInv, BufferWindow, IsLate
<1>7. CASE p # NoSeq /\ Leads(Buffered, p, s)
  <2>1. p \in Seqs /\ Cardinality(Buffered) < Capacity
    BY <1>2, <1>7 DEF Send, Paced
  <2>2. q \notin Buffered /\ ~Behind(p, q) /\ Leads(Buffered \cup {q}, p, r)
    BY <1>2, <1>7, <2>1, LeadGrows DEF q, r
  <2> QED
    BY <1>5, <1>7, <2>2 DEF IsLate
<1>8. CASE p # NoSeq /\ Trails(Buffered, p, s, outage)
  <2>1. p \in Seqs /\ Buffered = {} /\ outage \in Nat /\ outage <= MaxOutage
    BY <1>2, <1>8, StreamBounds DEF Trails, StreamInv, PlayoutInv, TypeOK
  <2>2. PICK k \in Nat, h \in Nat, m \in Nat :
          k = Ahead(s, p) /\ h = Half /\ m = SeqMod /\ m = 2 * h
    BY <1>2, <2>1, StreamBounds, Distances
  <2>3. k <= outage /\ k < h /\ n < h
    BY <1>2, <1>8, <2>1, <2>2, StreamBounds DEF Trails
  <2>4. CASE k <= n
    <3>1. Ahead(p, q) = n - k
      BY <1>2, <2>1, <2>2, <2>3, <2>4, PlayoutAssumption DEF Ahead, Seqs, SeqMod
    <3>2. ~Behind(p, q) /\ Ahead(p, q) <= MaxSkip
      BY <1>2, <2>2, <2>3, <2>4, <3>1 DEF Behind
    <3>3. Leads({q}, p, r)
      BY <1>2, <2>1, <3>2, LeadBegins DEF r
    <3> QED
      BY <1>5, <1>8, <2>1, <3>2, <3>3 DEF IsLate
  <2>5. CASE n < k
    <3>1. Ahead(q, p) = k - n /\ Ahead(p, q) = m - (k - n)
      BY <1>2, <2>1, <2>2, <2>3, <2>5, PlayoutAssumption DEF Ahead, Seqs, SeqMod
    <3>2. Ahead(r, p) = k - n - 1
      BY <1>2, <2>1, <2>2, <2>5, <3>1, Distances DEF r
    <3>3. Behind(p, q)
      BY <2>2, <2>3, <2>5, <3>1 DEF Behind
    <3>4. IngestLate(q)
      BY <1>1, <1>8, <3>3 DEF Ingest, IngestDuplicate, IngestOverflow, IngestStore, IsLate, q
    <3>5. UNCHANGED <<packets, playoutSeq>> /\ outcome' = "late"
      BY <3>4 DEF IngestLate
    <3>6. Trails(Buffered', playoutSeq', r, outage') /\ outage' > 0
      BY <1>4, <2>1, <2>2, <2>3, <2>5, <3>2, <3>5 DEF Trails, Buffered
    <3> QED
      BY <1>3, <1>4, <3>5, <3>6 DEF StreamInv, LateOnlyAfterConcealment
  <2> QED
    BY <2>2, <2>4, <2>5
<1> QED
  BY <1>6, <1>7, <1>8 DEF StreamInv

LEMMA TickKeeps ==
  ASSUME StreamInv, Tick
  PROVE  StreamInv'
<1>1. PlayoutInv' /\ sendSeq' = sendSeq
  <2>1. [Next]_vars
    BY DEF Tick, Next
  <2> QED
    BY <2>1, PlayoutNextInv DEF StreamInv, Tick
<1>2. /\ sendSeq \in Seqs /\ packets \in [Seqs -> Slots] /\ Buffered \subseteq Seqs
      /\ playoutSeq \in Seqs \cup {NoSeq} /\ outage \in Nat /\ outage <= MaxOutage
  BY StreamBounds DEF StreamInv, PlayoutInv, TypeOK, Buffered, Stored
<1>3. CASE WorkerStart \/ (NextChunk /\ (ChunkEnd \/ ChunkIdle \/ ChunkHold))
  <2>1. UNCHANGED <<closed, packets, playoutSeq, outage>> /\ outcome' # "duplicate"
        /\ (outcome' = "late" => outcome = "late")
    BY <1>3 DEF WorkerStart, ChunkEnd, ChunkIdle, ChunkHold, StreamInv, LateOnlyAfterConcealment
  <2>2. Buffered' = Buffered
    BY <2>1 DEF Buffered
  <2> QED
    BY <1>1, <2>1, <2>2 DEF StreamInv, LateOnlyAfterConcealment
<1>4. ASSUME Playing, NEW P, P = playoutSeq,
             packets[P] # "none"
      PROVE  P \in Seqs /\ Leads(Buffered, P, sendSeq) /\ P \in Buffered
             /\ Ahead(P, sendSeq) >= 1
  <2>1. P \in Seqs /\ P \in Buffered
    BY <1>2, <1>4 DEF Playing, Buffered, Stored
  <2> QED
    BY <1>4, <2>1 DEF StreamInv, Trails, Leads, Playing
<1>5. CASE ChunkReduce
  <2> DEFINE P == playoutSeq
             Q == Succ(playoutSeq)
  <2>1. /\ Playing /\ packets[P] # "none" /\ packets[Q] # "none"
        /\ packets' = [packets EXCEPT ![P] = "none", ![Q] = "none"]
        /\ playoutSeq' = Succ(Q) /\ outcome' = "reduce" /\ closed' = closed
    BY <1>5 DEF ChunkReduce, MayReduce
  <2>2. P \in Seqs /\ Leads(Buffered, P, sendSeq) /\ Ahead(P, sendSeq) >= 1
    BY <1>4, <2>1
  <2>3. Q \in Seqs /\ Q # P
    BY <2>2, SuccType
  <2>4. Q \in Buffered \ {P}
    BY <2>1, <2>3 DEF Buffered, Stored
  <2>5. Leads(Buffered \ {P}, Q, sendSeq)
    BY <1>2, <2>2, LeadShrinks
  <2>6. Ahead(Q, sendSeq) >= 1
    BY <2>4, <2>5 DEF Leads
  <2>7. Buffered' = (Buffered \ {P}) \ {Q}
    BY <1>2, <2>1, <2>2, <2>3 DEF Buffered, Stored
  <2>8. Leads((Buffered \ {P}) \ {Q}, Succ(Q), sendSeq)
    BY <1>2, <2>3, <2>5, <2>6, LeadShrinks
  <2>9. Leads(Buffered', playoutSeq', sendSeq)
    BY <2>1, <2>7, <2>8
  <2> QED
    BY <1>1, <2>1, <2>9 DEF StreamInv, LateOnlyAfterConcealment
<1>6. CASE ChunkPlay
  <2> DEFINE P == playoutSeq
  <2>1. /\ Playing /\ packets[P] # "none" /\ packets' = [packets EXCEPT ![P] = "none"]
        /\ playoutSeq' = Succ(P) /\ outcome' = packets[P] /\ closed' = closed
    BY <1>6 DEF ChunkPlay
  <2>2. P \in Seqs /\ Leads(Buffered, P, sendSeq) /\ Ahead(P, sendSeq) >= 1
    BY <1>4, <2>1
  <2>3. Leads(Buffered \ {P}, Succ(P), sendSeq)
    BY <1>2, <2>2, LeadShrinks
  <2>4. Buffered' = Buffered \ {P}
    BY <1>2, <2>1, <2>2 DEF Buffered, Stored
  <2>5. outcome' \notin {"late", "duplicate"}
    BY <1>2, <2>1, <2>2 DEF Slots, Payloads
  <2>6. Leads(Buffered', playoutSeq', sendSeq)
    BY <2>1, <2>3, <2>4
  <2> QED
    BY <1>1, <2>1, <2>5, <2>6 DEF StreamInv, LateOnlyAfterConcealment
<1>7. CASE ChunkConceal
  <2> DEFINE P == playoutSeq
  <2>1. /\ Playing /\ packets[P] = "none" /\ P \in Seqs /\ P # NoSeq /\ closed' = closed
        /\ outcome' \notin {"late", "duplicate"}
    BY <1>2, <1>7 DEF ChunkConceal, Playing, Concealment
  <2>2. CASE outage + 1 > MaxOutage
    BY <1>1, <1>7, <2>1, <2>2 DEF ChunkConceal, ClearForRebuffer, StreamInv,
                                  LateOnlyAfterConcealment
  <2>3. CASE ~(outage + 1 > MaxOutage)
    <3>1. playoutSeq' = Succ(P) /\ outage' = outage + 1 /\ packets' = packets
      BY <1>7, <2>3 DEF ChunkConceal
    <3>2. P \notin Buffered /\ Buffered' = Buffered
      BY <2>1, <3>1 DEF Buffered, Stored
    <3>3. Ahead(P, sendSeq) \in Nat /\ Ahead(sendSeq, P) \in Nat
      BY <1>2, <2>1, Distances
    <3>4. ASSUME Buffered = {}, Ahead(sendSeq, P) <= outage
          PROVE  Trails(Buffered', playoutSeq', sendSeq', outage')
      <4>1. Ahead(sendSeq, P) < SeqMod - 1
        BY <1>2, <2>1, <2>3, <3>3, <3>4, StreamBounds, Distances
      <4>2. Ahead(sendSeq, Succ(P)) = Ahead(sendSeq, P) + 1
        BY <1>2, <2>1, <4>1, Distances
      <4> QED
        BY <1>1, <1>2, <3>1, <3>2, <3>3, <3>4, <4>2 DEF Trails
    <3>5. CASE Leads(Buffered, P, sendSeq) /\ Ahead(P, sendSeq) >= 1
      <4>1. Leads(Buffered \ {P}, Succ(P), sendSeq)
        BY <1>2, <2>1, <3>5, LeadShrinks
      <4>2. Leads(Buffered', playoutSeq', sendSeq)
        BY <3>1, <3>2, <4>1
      <4> QED
        BY <1>1, <2>1, <4>2 DEF StreamInv, LateOnlyAfterConcealment
    <3>6. CASE Leads(Buffered, P, sendSeq) /\ Ahead(P, sendSeq) = 0
      <4>1. Buffered = {}
        <5>1. \A b \in Buffered : 1 <= Ahead(b, sendSeq) /\ Ahead(b, sendSeq) <= 0
                                  /\ Ahead(b, sendSeq) \in Nat
          BY <1>2, <3>6, Distances DEF Leads
        <5> QED
          BY <5>1
      <4>2. Ahead(sendSeq, P) = 0
        BY <1>2, <2>1, <3>6, Distances
      <4> QED
        BY <1>1, <1>2, <2>1, <3>4, <4>1, <4>2 DEF StreamInv, LateOnlyAfterConcealment
    <3>7. CASE Trails(Buffered, P, sendSeq, outage)
      BY <1>1, <2>1, <3>4, <3>7 DEF Trails, StreamInv, LateOnlyAfterConcealment
    <3> QED
      BY <2>1, <3>3, <3>5, <3>6, <3>7 DEF StreamInv
  <2> QED
    BY <2>2, <2>3
<1> QED
  BY <1>3, <1>5, <1>6, <1>7 DEF Tick, NextChunk

(***************************************************************************)
(* A producer that keeps its order, skips no more than MaxSkip in a row    *)
(* and does not run ahead of the buffer is never refused as late           *)
(* (playout.py's ingest) but for what was concealed in the outage that     *)
(* still lasts, nor taken for a duplicate: for a sequence space of any     *)
(* size that capacity and skips do not fill half of.                       *)
(***************************************************************************)
THEOREM LateOnlyConcealed == StreamSpec => []LateOnlyAfterConcealment
<1>1. StreamInit => StreamInv
  <2> SUFFICES ASSUME StreamInit
               PROVE  StreamInv
    OBVIOUS
  <2>1. PlayoutInv
    BY PlayoutInitInv DEF StreamInit
  <2>2. sendSeq \in Seqs
    BY PlayoutAssumption DEF StreamInit, Seqs, SeqMod
  <2> QED
    BY <2>1, <2>2 DEF StreamInit, Init, StreamInv, LateOnlyAfterConcealment
<1>2. StreamInv /\ [StreamNext]_streamVars => StreamInv'
  <2> SUFFICES ASSUME StreamInv, [StreamNext]_streamVars
               PROVE  StreamInv'
    OBVIOUS
  <2>1. CASE UNCHANGED streamVars
    <3>1. PlayoutInv'
      BY <2>1, PlayoutNextInv DEF streamVars, vars, StreamInv
    <3> QED
      BY <2>1, <3>1 DEF streamVars, StreamInv, LateOnlyAfterConcealment, Trails, Buffered
  <2>2. CASE StreamNext
    BY <2>2, SendKeeps, TickKeeps DEF StreamNext
  <2> QED
    BY <2>1, <2>2
<1>3. StreamInv => LateOnlyAfterConcealment
  BY DEF StreamInv
<1> QED
  BY <1>1, <1>2, <1>3, PTL DEF StreamSpec
=============================================================================
