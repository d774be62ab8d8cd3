----------------------------- MODULE PlayDetector -----------------------------
(***************************************************************************)
(* Is the line input playing?  The detector the capture task feeds one     *)
(* level per packet (firmware play.rs, levels.rs), and the flag it shows   *)
(* (stream/status.rs): it learns the input's idle level, derives both      *)
(* thresholds from it, and debounces.  A codec change makes it learn       *)
(* again; an input that stalls makes it forget.                            *)
(***************************************************************************)
EXTENDS Naturals, Sequences

CONSTANTS
  Levels,                  \* the RMS levels packets have
  Music,                   \* the one that is music: see LevelsAssumption
  StartMin,                \* START_RMS_MIN
  StopMin,                 \* STOP_RMS_MIN
  StartAfter, StopAfter,   \* START_AFTER_PACKETS, STOP_AFTER_PACKETS
  Discharge,               \* SILENCE_DISCHARGE
  Warmup                   \* WARMUP_PACKETS

StartFactor == 3           \* START_IDLE_FACTOR
StopFactor == 2            \* STOP_IDLE_FACTOR
StepsPerUnit == 4          \* 256 / IDLE_STEP_X256

ASSUME DetectorAssumption ==
  /\ Levels \subseteq Nat /\ Music \in Nat
  /\ StartMin \in Nat /\ StopMin \in Nat
  /\ StartAfter \in Nat \ {0} /\ StopAfter \in Nat \ {0}
  /\ Discharge \in Nat /\ Warmup \in Nat

\* Music is louder than all else, and stands above the thresholds a detector
\* can have learned: starting, from a relearning full of it; stopping, from
\* any other level.
ASSUME LevelsAssumption ==
  /\ Music >= StartMin /\ Music >= StopMin /\ Music >= StopFactor * 2
  /\ Music >= StartFactor * ((Warmup + StartAfter) \div StepsPerUnit)
  /\ \A level \in Levels : level # Music => StopFactor * (level + 1) <= Music

VARIABLES
  detector,                \* PlayDetector
  heard,                   \* StreamStatus.playing
  steady,                  \* since it started, every packet was Music
  quietRun                 \* packets below StopMin in a row, up to Discharge + 1

playVars == <<detector, heard, steady, quietRun>>

Quiet(level) == level < StopMin

-----------------------------------------------------------------------------
(***************************************************************************)
(* LevelStats::analyze: a packet of [left, right] frames.                  *)
(***************************************************************************)
ClipThreshold == 32760
Magnitude(x) == IF x > 32767 THEN 65536 - x ELSE x
FullScale == 32768

SquareRoot(x) == CHOOSE r \in 0..FullScale : r * r <= x /\ x < (r + 1) * (r + 1)

\* Samples are 16-bit two's complement; "side" is 1 or 2.
LevelOf(pcm, side) ==
  LET m == [i \in DOMAIN pcm |-> Magnitude(pcm[i][side])]
      squares[i \in 0..Len(pcm)] == IF i = 0 THEN 0 ELSE squares[i - 1] + m[i] * m[i]
      clips[i \in 0..Len(pcm)] ==
        IF i = 0 THEN 0 ELSE clips[i - 1] + (IF m[i] >= ClipThreshold THEN 1 ELSE 0)
  IN  [peak |-> IF pcm = <<>> THEN 0
                ELSE CHOOSE p \in {m[i] : i \in DOMAIN pcm} : \A i \in DOMAIN pcm : m[i] <= p,
       rms |-> IF pcm = <<>> THEN 0 ELSE SquareRoot(squares[Len(pcm)] \div Len(pcm)),
       clipped |-> clips[Len(pcm)]]

-----------------------------------------------------------------------------
NewDetector ==
  [playing |-> FALSE, warmup |-> Warmup, hold |-> 0, run |-> 0, charge |-> 0, idle |-> 0]

Less(n, m) == IF n > m THEN n - m ELSE 0
AtMost(n, m) == IF n > m THEN m ELSE n
AtLeast(n, m) == IF n < m THEN m ELSE n

Playing(d) == d.playing \/ d.hold > 0
NoiseFloor(d) == d.idle \div StepsPerUnit
StartThreshold(d) == AtLeast(NoiseFloor(d) * StartFactor, StartMin)
StopThreshold(d) == AtLeast(NoiseFloor(d) * StopFactor, StopMin)

LearnIdle(d, level) ==
  IF d.playing /\ level >= StopThreshold(d) THEN d.idle
  ELSE IF level * StepsPerUnit > d.idle THEN d.idle + 1
  ELSE Less(d.idle, 1)

HoldTooShort(d) == [NewDetector EXCEPT !.hold = IF Playing(d) THEN Warmup + StartAfter - 1 ELSE 0]

\* PlayDetector::relearn: what plays is shown playing until it was heard again.
Relearned(d) == [NewDetector EXCEPT !.hold = IF Playing(d) THEN Warmup + StartAfter ELSE 0]

BurstResets(d, level) == IF level < StopThreshold(d) THEN AtMost(d.charge + 1, StopAfter) ELSE 0

\* A packet over the stop threshold takes back some of the charge.
Charged(d, level) ==
  IF level < StopThreshold(d) THEN AtMost(d.charge + 1, StopAfter) ELSE Less(d.charge, Discharge)

\* PlayDetector::update, "learned" being the level's part before the decision.
Decided(d, learned, level) ==
  LET run == IF level >= StartThreshold(d) THEN AtMost(d.run + 1, StartAfter) ELSE 0
      charge == Charged(d, level)
  IN  IF d.playing
        THEN [learned EXCEPT !.run = run, !.charge = charge, !.playing = charge < StopAfter]
      ELSE IF run >= StartAfter
        THEN [learned EXCEPT !.run = run, !.charge = 0, !.playing = TRUE]
      ELSE [learned EXCEPT !.run = run, !.charge = charge]

Updated(d, level) ==
  LET learned == [d EXCEPT !.hold = Less(@, 1), !.idle = LearnIdle(d, level)]
  IN  IF d.warmup > 0 THEN [learned EXCEPT !.warmup = @ - 1]
      ELSE Decided(d, learned, level)

-----------------------------------------------------------------------------
Packet(level) ==
  /\ detector' = Updated(detector, level)
  /\ heard' = Playing(detector')
  /\ steady' = (level = Music /\ (steady \/ detector'.playing))
  /\ quietRun' = IF Quiet(level) THEN AtMost(quietRun + 1, Discharge + 1) ELSE 0

Measure == \E level \in Levels : Packet(level)

\* A codec change was made: the next capture step starts over.
Relearn ==
  /\ detector' = Relearned(detector)
  /\ UNCHANGED <<heard, steady, quietRun>>

\* CaptureEngine::observe_time, when no packet came for STALL_EXPIRY_MS.
Stall ==
  /\ Playing(detector)
  /\ detector' = NewDetector /\ heard' = FALSE /\ steady' = FALSE
  /\ UNCHANGED quietRun

PlayInit ==
  /\ detector = NewDetector
  /\ heard = FALSE /\ steady = FALSE /\ quietRun = 0

PlayNext == Measure \/ Relearn \/ Stall
PlaySpec == PlayInit /\ [][PlayNext]_playVars

-----------------------------------------------------------------------------
(***************************************************************************)
(* Changing the codec does not interrupt music: whatever changes while the *)
(* input is music, and however close together, the device shows it playing  *)
(* (and streams it) all the way through the relearning.                    *)
(***************************************************************************)
RelearnIsSeamless == steady => heard

(***************************************************************************)
(* An idle input stops even if its noise goes on spiking over the stop     *)
(* threshold, as long as the spikes are rarer than one in Discharge + 1.   *)
(***************************************************************************)
Spaced == /\ quietRun' = 0 => quietRun > Discharge
          /\ detector'.warmup <= detector.warmup
NoisyIdleStops == <>[][Spaced]_playVars => <>[]~heard
=============================================================================
