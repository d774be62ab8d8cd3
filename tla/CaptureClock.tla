----------------------------- MODULE CaptureClock -----------------------------
(***************************************************************************)
(* The capture task against the clock and the driver (firmware             *)
(* stream/capture.rs): packets are filled by reads that return what they   *)
(* like, outages are charged to the sequence by the time they took, and a  *)
(* packet an outage tore is started over at a frame boundary.              *)
(*                                                                         *)
(* A tick of the model is the time of FramesPerTick frames.  A read that   *)
(* fails takes nothing from the driver, which drops whole frames only.     *)
(***************************************************************************)
EXTENDS Integers

CONSTANTS
  FrameBytes,        \* BYTES_PER_FRAME
  PacketFrames,      \* FRAMES_PER_PACKET
  Buffered,          \* frames the driver's DMA retains
  FramesPerTick,     \* FRAMES_PER_MS
  Waits,             \* how long a read or a back-off may take
  MaxElapsed,        \* bound: ticks without a packet
  MaxLost            \* bound: packets charged as lost

ASSUME CaptureAssumption ==
  /\ FrameBytes \in Nat \ {0} /\ PacketFrames \in Nat \ {0}
  /\ Buffered \in Nat /\ FramesPerTick \in Nat /\ Waits \subseteq Nat

VARIABLES
  engine,            \* CaptureEngine, and the packets it charged
  phase,             \* the driver's position in a frame
  owed               \* frames the outages that ended took beyond Buffered

captureVars == <<engine, phase, owed>>

PacketBytes == PacketFrames * FrameBytes
Never == -1

\* elapsed: since the last packet; partial: since the first read of this one.
NewEngine == [filled |-> 0, skip |-> 0, elapsed |-> 0, partial |-> Never,
              charged |-> 0, remainder |-> 0, lost |-> 0]

Past(e, ticks) ==
  [e EXCEPT !.elapsed = @ + ticks, !.partial = IF @ = Never THEN Never ELSE @ + ticks]

Beyond(ticks) ==
  LET frames == ticks * FramesPerTick IN IF frames > Buffered THEN frames - Buffered ELSE 0

\* The first loss since the last packet, or a packet that outlasts the driver.
Torn(e) == (Beyond(e.elapsed) > 0 /\ e.charged = 0) \/ Beyond(e.partial) > 0

\* CaptureEngine::observe_time.
Observed(e) ==
  LET frames == e.remainder + Beyond(e.elapsed) - e.charged
      counted == [e EXCEPT !.charged = Beyond(e.elapsed),
                           !.lost = @ + frames \div PacketFrames,
                           !.remainder = frames % PacketFrames]
  IN  IF Torn(e)
      THEN [counted EXCEPT !.skip = (FrameBytes - (e.filled % FrameBytes)) % FrameBytes,
                           !.filled = 0, !.partial = Never]
      ELSE counted

\* The bytes of a read that took so many ticks: the tail of a torn frame is
\* skipped, the rest is kept.
Filled(e, bytes, ticks) ==
  LET skipped == IF e.skip < bytes THEN e.skip ELSE bytes
      kept == bytes - skipped
  IN  [e EXCEPT !.skip = @ - skipped,
                !.filled = @ + kept,
                !.partial = IF kept > 0 /\ @ = Never THEN ticks ELSE @]

Complete(e) == e.filled = PacketBytes
EmptiedKeepsCharge(e) == [e EXCEPT !.filled = 0, !.partial = Never, !.elapsed = 0]
Emptied(e) == [e EXCEPT !.filled = 0, !.partial = Never, !.elapsed = 0, !.charged = 0]

\* CaptureEngine::step, when the read returns bytes.
Read ==
  \E ticks \in Waits : \E bytes \in 1 .. PacketBytes - engine.filled :
    LET full == Filled(Observed(Past(engine, ticks)), bytes, ticks) IN
    /\ phase' = (phase + bytes) % FrameBytes
    /\ engine' = IF Complete(full) THEN Emptied(full) ELSE full
    /\ owed' = IF Complete(full) THEN owed + Beyond(full.elapsed) ELSE owed

\* And when it returns none, or fails: the task backs off.
ReadNothing ==
  \E ticks \in Waits, backoff \in Waits :
    /\ engine' = Observed(Past(Observed(Past(engine, ticks)), backoff))
    /\ UNCHANGED <<phase, owed>>

CaptureInit == engine = NewEngine /\ phase = 0 /\ owed = 0

CaptureNext ==
  /\ engine.elapsed < MaxElapsed /\ engine.lost < MaxLost
  /\ Read \/ ReadNothing

-----------------------------------------------------------------------------
\* TestSource::read over a tone of the given period: its bytes from a position,
\* a byte being the level of its half and its place in the sample.
ToneByte(period, position) == [high |-> position < period \div 2, part |-> position % 2]
Tone(period, position, read) ==
  [i \in 1..read |-> ToneByte(period, (position + i - 1) % period)]

-----------------------------------------------------------------------------
(***************************************************************************)
(* However reads are cut, fail or time out, the next byte of a packet is   *)
(* at its own place in a frame: an outage never swaps the channels.        *)
(***************************************************************************)
FramesAligned == (phase + engine.skip) % FrameBytes = engine.filled % FrameBytes

(***************************************************************************)
(* The sequence keeps the time: each outage moves it by its length beyond  *)
(* what the driver retains, once, however many reads observe it, and the   *)
(* frames that make no packet are carried to the next.                     *)
(***************************************************************************)
OutagesChargedOnce ==
  engine.lost * PacketFrames + engine.remainder = owed + Beyond(engine.elapsed)

(***************************************************************************)
(* Whatever the input does, a packet is frames of one channel order and an *)
(* outage is charged for the time it took.                                 *)
(***************************************************************************)
TimeKept == FramesAligned /\ OutagesChargedOnce
=============================================================================
