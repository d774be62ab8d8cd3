---------------------------- MODULE PlayoutStream ----------------------------
(***************************************************************************)
(* The playout buffer behind one TCP producer.  The sender numbers packets *)
(* in order (firmware/streamline/src/stream/capture.rs), skipping a number *)
(* for a packet it lost, and TCP keeps that order: of the arrivals Playout *)
(* allows only these remain.  The sender captures in real time, so it does *)
(* not run ahead of playout by more than the buffer can hold: `Paced`.     *)
(***************************************************************************)
EXTENDS Playout

CONSTANT MaxSkip    \* packets the sender loses in a row

ASSUME StreamAssumption ==
  /\ MaxSkip \in Nat
  /\ (Capacity + 1) * (MaxSkip + 1) < Half /\ MaxOutage < Half

VARIABLE sendSeq    \* the number of the next packet sent

streamVars == <<closed, ready, packets, playoutSeq, arrivalSeq, target,
                applied, lossRun, outage, last, worker, outcome, sendSeq>>

StreamInit == Init /\ sendSeq \in {0, SeqMod - 1}

Paced == Cardinality(Buffered) < Capacity

Skipped(s, n) == (s + n) % SeqMod

Send ==
  /\ Paced
  /\ \E n \in 0 .. MaxSkip, p \in Payloads :
       /\ Ingest(Skipped(sendSeq, n), p)
       /\ sendSeq' = Succ(Skipped(sendSeq, n))

Tick == (NextChunk \/ WorkerStart) /\ UNCHANGED sendSeq

StreamNext == Send \/ Tick

StreamSpec ==
  /\ StreamInit /\ [][StreamNext]_streamVars
  /\ WF_streamVars(Send) /\ WF_streamVars(Tick)

-----------------------------------------------------------------------------
(***************************************************************************)
(* A producer that keeps sending is heard again and again: no loss, gap or *)
(* wrap of the sequence space leaves playout concealing or filling forever.*)
(***************************************************************************)
StreamIsHeard == []<>(outcome \in {"audio", "silence", "reduce"})

(***************************************************************************)
(* In an ordered stream a packet is late only because playout concealed it *)
(* during the current outage, and it is never taken for a duplicate.       *)
(***************************************************************************)
LateOnlyAfterConcealment ==
  /\ outcome # "duplicate"
  /\ outcome = "late" => outage > 0
=============================================================================
