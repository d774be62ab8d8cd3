----------------------------- MODULE ResponseBody -----------------------------
(***************************************************************************)
(* A response body written through the inline buffer of                    *)
(* buffered_writer.rs, as the download of a crash dump fills it            *)
(* (handlers/coredump.rs, adapters/coredump.rs): the dump is read from its *)
(* partition in chunks, each handed on with write_all, and the connection  *)
(* below takes as many bytes of a write as it likes, none, or fails.  The  *)
(* server runs one handler at a time, so the erase never meets a download. *)
(*                                                                         *)
(* A byte is its place in the dump, so order, loss and repetition show.    *)
(***************************************************************************)
EXTENDS Naturals, Sequences, SequencesExt

CONSTANTS
  BufferBytes,     \* BODY_BUFFER_BYTES
  ChunkBytes,      \* bytes read from flash at a time
  PartitionBytes,  \* size of the coredump partition
  DumpSizes,       \* sizes the stored header may give
  Headers          \* offsets it may give, from the start of the partition

ASSUME BodyAssumption ==
  /\ BufferBytes \in Nat \ {0} /\ ChunkBytes \in Nat \ {0}
  /\ PartitionBytes \in Nat /\ DumpSizes \subseteq Nat /\ Headers \subseteq Nat

VARIABLES
  partition,       \* what the partition holds: "unavailable", "empty" or "present"
  step,       \* how far the handler is
  dump,       \* offset and size of the stored dump
  offset,     \* bytes of the dump read so far
  pending,    \* what write_all has not handed over of the last chunk
  buffer,     \* BufferedWriter.buffer up to end
  start,      \* BufferedWriter.start
  sent        \* what the connection took

bodyVars == <<partition, step, dump, offset, pending, buffer, start, sent>>

(***************************************************************************)
(* GET /api/coredump, the download and the erase: by what the partition    *)
(* holds.                                                                  *)
(***************************************************************************)
DumpState(partitioned, valid) ==
  IF ~partitioned THEN "unavailable" ELSE IF valid THEN "present" ELSE "empty"

DumpStatus(state) == IF state = "unavailable" THEN 503 ELSE 200
ImageStatus(state) == IF state = "empty" THEN 404 ELSE DumpStatus(state)

BodyInit ==
  /\ \E partitioned, valid \in BOOLEAN : partition = DumpState(partitioned, valid)
  /\ step = "idle"
  /\ dump = [at |-> 0, size |-> 0]
  /\ offset = 0 /\ start = 0
  /\ pending = <<>> /\ buffer = <<>> /\ sent = <<>>

(***************************************************************************)
(* What the device makes of a body of its own: http::probe reads a route   *)
(* to its end, within a size and a time.  A read is its bytes, the seconds *)
(* since the start and whether it succeeded.                               *)
(***************************************************************************)
ProbeBytes == 65536
ProbeSeconds == 10

ProbePasses(status, reads) ==
  LET received[i \in 0 .. Len(reads)] == IF i = 0 THEN 0 ELSE received[i - 1] + reads[i].bytes
      Good(i) == reads[i].ok /\ received[i] <= ProbeBytes /\ reads[i].at <= ProbeSeconds
  IN /\ status = 200
     /\ \E last \in DOMAIN reads :
          reads[last].bytes = 0 /\ \A i \in 1 .. last : Good(i) /\ (reads[i].bytes = 0 => i = last)

Fits(d) == d.at + d.size <= PartitionBytes

\* A valid dump, checked again as it is read; one that exceeds its partition is
\* refused after the status line was sent.
Download ==
  /\ step = "idle" /\ ImageStatus(partition) = 200
  /\ UNCHANGED partition
  /\ dump' \in [at : Headers, size : DumpSizes]
  /\ step' = IF Fits(dump') THEN "sending" ELSE "failed"
  /\ offset' = 0 /\ start' = 0
  /\ pending' = <<>> /\ buffer' = <<>> /\ sent' = <<>>

\* What the connection may take of a write.
Takes(bytes) == {SubSeq(bytes, 1, n) : n \in 0 .. Len(bytes)}
Rest(bytes, taken) == SubSeq(bytes, Len(taken) + 1, Len(bytes))

\* drain: it ends with everything taken, or gives up with what was not.
Unsent == SubSeq(buffer, start + 1, Len(buffer))

Drain(taken) ==
  /\ sent' = sent \o taken
  /\ IF taken = Unsent THEN buffer' = <<>> /\ start' = 0
     ELSE buffer' = buffer /\ start' = start + Len(taken)

MustDrain(bytes) == Len(bytes) > BufferBytes - Len(buffer)

\* An error ends the handler, and the connection.
GiveUp ==
  /\ step' = "failed"
  /\ UNCHANGED <<dump, offset, pending>>

Chunk ==
  [i \in 1 .. (IF dump.size - offset < ChunkBytes THEN dump.size - offset ELSE ChunkBytes)
     |-> offset + i]

ReadFlash ==
  /\ step = "sending" /\ pending = <<>> /\ offset < dump.size
  /\ \/ pending' = Chunk /\ offset' = offset + Len(Chunk) /\ step' = step
     \/ step' = "failed" /\ UNCHANGED <<pending, offset>>
  /\ UNCHANGED <<dump, buffer, start, sent>>

\* What a write drains first.
Drained(bytes) == IF MustDrain(bytes) THEN Unsent ELSE <<>>

\* A write that fits goes to the buffer.
WriteBuffered ==
  /\ Len(pending) < BufferBytes
  /\ buffer' = (IF MustDrain(pending) THEN <<>> ELSE buffer) \o pending
  /\ start' = (IF MustDrain(pending) THEN 0 ELSE start)
  /\ sent' = sent \o Drained(pending)
  /\ pending' = <<>>

\* One that never does goes to the connection.
WriteLarge ==
  /\ Len(pending) >= BufferBytes
  /\ IF MustDrain(pending) THEN buffer' = <<>> /\ start' = 0 ELSE UNCHANGED <<buffer, start>>
  /\ \E taken \in Takes(pending) \ {<<>>} :
       sent' = sent \o Drained(pending) \o taken /\ pending' = Rest(pending, taken)

\* The same, ahead of what is buffered.
WritePast ==
  /\ Len(pending) >= BufferBytes
  /\ \E taken \in Takes(pending) \ {<<>>} :
       sent' = sent \o taken /\ pending' = Rest(pending, taken)
  /\ UNCHANGED <<buffer, start>>

WriteAtOnce == WriteBuffered \/ WritePast
BufferedWrite == WriteBuffered \/ WriteLarge

WriteBody ==
  /\ step = "sending" /\ pending # <<>>
  /\ BufferedWrite
  /\ UNCHANGED <<step, dump, offset>>

\* A write the connection fails, before or after part of the drain.
BodyWriteFails ==
  /\ step = "sending" /\ pending # <<>>
  /\ MustDrain(pending) \/ Len(pending) >= BufferBytes
  /\ IF MustDrain(pending) THEN \E taken \in Takes(Unsent) : Drain(taken)
     ELSE UNCHANGED <<buffer, start, sent>>
  /\ GiveUp

Flush ==
  /\ step = "sending" /\ pending = <<>> /\ offset = dump.size
  /\ \/ Drain(Unsent) /\ step' = "done" /\ UNCHANGED <<dump, offset, pending>>
     \/ (\E taken \in Takes(Unsent) : Drain(taken)) /\ GiveUp

\* The request is over; the next one starts from a new writer.
Answered ==
  /\ step \in {"done", "failed"}
  /\ step' = "idle"
  /\ UNCHANGED <<dump, offset, pending, buffer, start, sent>>

\* Erasing an empty partition succeeds; erasing may fail.
EraseDump ==
  /\ step = "idle" /\ DumpStatus(partition) = 200
  /\ partition' \in {partition, "empty"}
  /\ UNCHANGED <<step, dump, offset, pending, buffer, start, sent>>

\* The next panic stores a dump, and the device starts anew.
Crash ==
  /\ partition' = IF partition = "unavailable" THEN partition ELSE "present"
  /\ step' = "idle"
  /\ UNCHANGED <<dump, offset, pending, buffer, start, sent>>

BodyStep == ReadFlash \/ WriteBody \/ BodyWriteFails \/ Flush
BodyNext == Download \/ (BodyStep /\ UNCHANGED partition) \/ (Answered /\ UNCHANGED partition) \/ EraseDump \/ Crash

(***************************************************************************)
(* The body is the dump: however the connection splits, refuses or fails   *)
(* the writes, what it took, what is buffered and what is still to be      *)
(* handed over are the bytes read so far, each once and in order, and a    *)
(* download that ends well sent every byte (adapters/coredump.rs:61-87).   *)
(***************************************************************************)
BodyIsTheDump ==
  /\ step \in {"sending", "done"} =>
       sent \o Unsent \o pending = [i \in 1 .. offset |-> i]
  /\ IsPrefix(sent, [i \in 1 .. dump.size |-> i])
  /\ step = "done" => Len(sent) = dump.size
=============================================================================
