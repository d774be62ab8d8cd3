------------------------- MODULE DeviceControlProofs -------------------------
(***************************************************************************)
(* The device under its owner, for every schedule, password, level, board  *)
(* and failing write: what the owner noted stays the password, updates by  *)
(* itself stay apart, relearning is not heard, and the codec, its local    *)
(* output and the active profile follow the settings.                      *)
(***************************************************************************)
EXTENDS Connectivity, PlayDetector, DeviceSettings, TLAPS

(* The setup network's password and the update schedule.                    *)

NetSafety == NetInit /\ [][NetNext]_netVars

\* The label names the stored password, and this boot serves that one or none.
PasswordKept ==
  /\ label # Absent => storedPassword = label /\ label \in Passwords
  /\ served # Absent => served = storedPassword

LEMMA StartingKeeps ==
  ASSUME PasswordKept, Starting, UNCHANGED <<storedPassword, label>>
  PROVE  PasswordKept'
BY DEF PasswordKept, Starting

LEMMA ProceedKeeps ==
  ASSUME PasswordKept, NEW p \in Passwords, Proceed(p), storedPassword' = p,
         label # Absent => p = storedPassword
  PROVE  PasswordKept'
<1>1. served' = p /\ label' = IF label = Absent THEN p ELSE label
  BY DEF Proceed
<1>2. CASE label = Absent
  BY <1>1, <1>2 DEF PasswordKept
<1>3. CASE label # Absent
  BY <1>1, <1>3 DEF PasswordKept
<1> QED
  BY <1>2, <1>3

LEMMA PasswordNext == PasswordKept /\ [NetNext]_netVars => PasswordKept'
<1> SUFFICES ASSUME PasswordKept, [NetNext]_netVars
             PROVE  PasswordKept'
  OBVIOUS
<1>0. CASE UNCHANGED <<storedPassword, served, label>>
  BY <1>0 DEF PasswordKept
<1>1. CASE SetupPassword
  <2>1. PICK read \in {storedPassword, "unreadable"} :
          \/ KeepPassword(read) /\ read # "unreadable" /\ Proceed(read) /\ UNCHANGED storedPassword
          \/ ~KeepPassword(read) /\ \E p \in Minted : storedPassword' = p /\ Proceed(p)
    BY <1>1 DEF SetupPassword
  <2>2. CASE KeepPassword(read) /\ read # "unreadable" /\ Proceed(read) /\ UNCHANGED storedPassword
    <3>1. read \in Passwords /\ read = storedPassword
      BY <2>1, <2>2 DEF KeepPassword
    <3> QED
      BY <2>2, <3>1, ProceedKeeps
  <2>3. CASE ~KeepPassword(read) /\ \E p \in Minted : storedPassword' = p /\ Proceed(p)
    <3>1. PICK p \in Minted : storedPassword' = p /\ Proceed(p)
      BY <2>3
    <3>2. p \in Passwords
      BY DEF Minted
    <3>3. read = storedPassword /\ storedPassword \notin Passwords
      BY <2>3 DEF KeepPassword
    <3>4. label = Absent
      BY <3>3 DEF PasswordKept
    <3> QED
      BY <3>1, <3>2, <3>4, ProceedKeeps
  <2> QED
    BY <2>1, <2>2, <2>3
<1>2. CASE MintFails
  <2>1. storedPassword \notin Passwords /\ Starting /\ label' = label
    BY <1>2 DEF MintFails
  <2>2. label = Absent /\ served' = Absent
    BY <2>1 DEF PasswordKept, Starting
  <2> QED
    BY <2>1, <2>2 DEF PasswordKept
<1>3. CASE Corrupted
  <2>1. label' = Absent /\ served' = Absent
    BY <1>3 DEF Corrupted, Starting
  <2> QED
    BY <2>1 DEF PasswordKept
<1>4. CASE Restarts
  BY <1>4, StartingKeeps DEF Restarts
<1>5. CASE Loop
  BY <1>0, <1>5 DEF Loop, TakeRejoin, Reconnect, Association, LeaveRecovery, StayConnected,
     TakeUpdate, Update, KeepLoop, KeepBoot, bootVars
<1>6. CASE OpenSetup \/ Join \/ JoinFails \/ Ready
  BY <1>0, <1>6 DEF OpenSetup, Join, JoinFails, Ready, Serving
<1>7. CASE Tick \/ Requested \/ Lease \/ HomeChanges \/ LinkDrops \/ AudioChanges
  BY <1>0, <1>7 DEF Tick, Requested, Lease, HomeChanges, LinkDrops, AudioChanges, bootVars
<1>8. CASE OtaEnds
  <2>1. Restarts \/ UNCHANGED bootVars
    BY <1>8 DEF OtaEnds
  <2> QED
    BY <1>0, <1>4, <2>1 DEF bootVars
<1>9. CASE UNCHANGED netVars
  BY <1>0, <1>9 DEF netVars
<1>a. CASE RestartWorker \/ Error \/ PowerFails
  BY <1>4, <1>a DEF RestartWorker, Error, PowerFails
<1>b. \/ SetupPassword \/ MintFails \/ Corrupted \/ Loop \/ OtaEnds
      \/ RestartWorker \/ Error \/ PowerFails
      \/ OpenSetup \/ Join \/ JoinFails \/ Ready
      \/ Tick \/ Requested \/ Lease \/ HomeChanges \/ LinkDrops \/ AudioChanges
      \/ UNCHANGED netVars
  BY DEF NetNext, BootStep
<1> QED
  BY <1>1, <1>2, <1>3, <1>5, <1>6, <1>7, <1>8, <1>9, <1>a, <1>b

\* The setup network never gets another password than the one the owner noted,
\* whatever fails to be read or written (setup_network.rs, adapters/nvs.rs).
THEOREM LabelTold == NetSafety => []LabelStaysTrue
<1>1. NetInit => PasswordKept
  BY DEF NetInit, PasswordKept
<1>2. PasswordKept => LabelStaysTrue
  BY DEF PasswordKept, LabelStaysTrue
<1> QED
  BY <1>1, <1>2, PasswordNext, PTL DEF NetSafety

-----------------------------------------------------------------------------
Timers == [tried : BOOLEAN, age : Nat, retryIn : Int]

\* A timer that is or may come due again is as old as the last update, whether
\* it waits for its first, its interval or its early retry.
UpdateDueLate ==
  /\ auto \in Timers /\ sinceUpdate \in Nat /\ schedule \in Schedules
  /\ auto.age <= sinceUpdate
  /\ ~auto.tried \/ auto.retryIn # NoRetry => sinceUpdate >= Daily
  /\ loopAt = "updating" => auto = Taken /\ sinceUpdate >= Daily

LEMMA TimersMade ==
  /\ NewAuto \in Timers /\ NewAuto.age = 0 /\ ~NewAuto.tried
  /\ Taken \in Timers /\ Taken.age = 0 /\ Taken.tried /\ Taken.retryIn = NoRetry
BY DEF NewAuto, Taken, Timers, NoRetry

LEMMA LongestLate == Longest \in Nat /\ Longest >= Daily
BY NetAssumption DEF Longest

LEMMA StartingLate ==
  ASSUME UpdateDueLate, Starting, schedule' \in Schedules
  PROVE  UpdateDueLate'
<1>1. auto' = NewAuto /\ sinceUpdate' = Longest /\ loopAt' = "waiting"
  BY DEF Starting
<1>2. Longest \in Nat /\ Longest >= Daily /\ 0 <= Longest
  BY LongestLate
<1> QED
  BY <1>1, <1>2, TimersMade DEF UpdateDueLate

LEMMA CappedGrows ==
  ASSUME NEW n \in Nat, NEW m \in Nat, m <= n
  PROVE  /\ Capped(n + 1, Longest) \in Nat
         /\ Capped(m + 1, Longest) <= Capped(n + 1, Longest)
         /\ n >= Daily => Capped(n + 1, Longest) >= Daily
BY LongestLate, NetAssumption DEF Capped

LEMMA TickLate ==
  ASSUME UpdateDueLate, Tick
  PROVE  UpdateDueLate'
<1>1. /\ loopAt # "updating" /\ loopAt' = loopAt /\ schedule' = schedule
      /\ auto' = [auto EXCEPT !.age = Capped(@ + 1, Longest),
                              !.retryIn = IF @ > 0 THEN @ - 1 ELSE @]
      /\ sinceUpdate' = Capped(sinceUpdate + 1, Longest)
  BY DEF Tick, loopVars, flashVars
<1>2. /\ auto \in Timers /\ sinceUpdate \in Nat /\ auto.age \in Nat /\ auto.retryIn \in Int
      /\ auto.age <= sinceUpdate
  BY DEF UpdateDueLate, Timers
<1>3. /\ Capped(sinceUpdate + 1, Longest) \in Nat
      /\ Capped(auto.age + 1, Longest) <= Capped(sinceUpdate + 1, Longest)
      /\ sinceUpdate >= Daily => Capped(sinceUpdate + 1, Longest) >= Daily
  BY <1>2, CappedGrows
<1>4. Capped(auto.age + 1, Longest) \in Nat
  <2>1. auto.age <= auto.age
    BY <1>2
  <2> QED
    BY <1>2, <2>1, CappedGrows
<1> DEFINE a == Capped(auto.age + 1, Longest)
           r == IF auto.retryIn > 0 THEN auto.retryIn - 1 ELSE auto.retryIn
<1>5. auto' = [auto EXCEPT !.age = a, !.retryIn = r]
  BY <1>1
<1>6. a \in Nat /\ r \in Int /\ (r # NoRetry => auto.retryIn # NoRetry)
  BY <1>2, <1>4 DEF NoRetry
<1>7. a <= sinceUpdate'
  BY <1>1, <1>3
<1> HIDE DEF a, r
<1>8. auto' \in Timers /\ auto'.age = a /\ auto'.retryIn = r /\ auto'.tried = auto.tried
  BY <1>2, <1>5, <1>6 DEF Timers
<1>9. ~auto'.tried \/ auto'.retryIn # NoRetry => sinceUpdate' >= Daily
  <2>1. ~auto.tried \/ auto.retryIn # NoRetry => sinceUpdate >= Daily
    BY DEF UpdateDueLate
  <2> QED
    BY <1>1, <1>3, <1>6, <1>8, <2>1
<1> QED
  BY <1>1, <1>3, <1>7, <1>8, <1>9 DEF UpdateDueLate

\* When the timer is due, the last update is as old as the shortest schedule.
LEMMA DueIsLate ==
  ASSUME UpdateDueLate, AutoDue
  PROVE  sinceUpdate >= Daily
<1>1. CASE auto.retryIn # NoRetry
  BY <1>1 DEF UpdateDueLate
<1>2. CASE ~auto.tried
  BY <1>2 DEF UpdateDueLate
<1>3. CASE auto.retryIn = NoRetry /\ auto.tried
  <2>1. schedule \in {"daily", "weekly"} /\ auto.age >= Interval[schedule]
    BY <1>3 DEF AutoDue, UpdateDueLate, Schedules
  <2>2. Interval[schedule] \in Nat /\ Interval[schedule] >= Daily
    <3>1. Interval["daily"] = Daily /\ Interval["weekly"] = Weekly
      BY DEF Interval
    <3>2. CASE schedule = "daily"
      BY <3>1, <3>2, NetAssumption
    <3>3. CASE schedule = "weekly"
      BY <3>1, <3>3, NetAssumption
    <3> QED
      BY <2>1, <3>2, <3>3
  <2>3. auto.age \in Nat /\ sinceUpdate \in Nat /\ auto.age <= sinceUpdate
    BY DEF UpdateDueLate, Timers
  <2> QED
    BY <2>1, <2>2, <2>3, NetAssumption
<1> QED
  BY <1>1, <1>2, <1>3

LEMMA UpdateLate ==
  ASSUME UpdateDueLate, Update
  PROVE  UpdateDueLate'
<1>1. /\ loopAt = "updating" /\ loopAt' = "waiting" /\ schedule' = schedule
      /\ \/ auto' = auto /\ sinceUpdate' \in {0, sinceUpdate}
         \/ auto' = StartFailed /\ sinceUpdate' = sinceUpdate
  BY DEF Update, InLoop, LoopGoes, KeepBoot, flashVars
<1>2. auto = Taken /\ sinceUpdate >= Daily /\ sinceUpdate \in Nat /\ schedule \in Schedules
  BY <1>1 DEF UpdateDueLate
<1>3. CASE auto' = auto /\ sinceUpdate' \in {0, sinceUpdate}
  <2>1. sinceUpdate' \in Nat /\ 0 <= sinceUpdate'
    BY <1>2, <1>3
  <2> QED
    BY <1>1, <1>2, <1>3, <2>1, TimersMade DEF UpdateDueLate
<1>4. CASE auto' = StartFailed /\ sinceUpdate' = sinceUpdate
  <2>1. auto' \in Timers /\ auto'.age = 0
    <3>1. auto \in Timers /\ auto.age = 0 /\ AutoRetry \in Int
      BY <1>2, TimersMade, NetAssumption
    <3>2. auto' = [auto EXCEPT !.retryIn = AutoRetry]
      BY <1>4 DEF StartFailed
    <3> QED
      BY <3>1, <3>2 DEF Timers
  <2>2. auto'.age <= sinceUpdate'
    BY <1>2, <1>4, <2>1
  <2> QED
    BY <1>1, <1>2, <1>4, <2>1, <2>2 DEF UpdateDueLate
<1> QED
  BY <1>1, <1>3, <1>4

LEMMA LateNext == UpdateDueLate /\ [NetNext]_netVars => UpdateDueLate'
<1> SUFFICES ASSUME UpdateDueLate, [NetNext]_netVars
             PROVE  UpdateDueLate'
  OBVIOUS
<1>0. ASSUME UNCHANGED <<auto, sinceUpdate>>, schedule' \in Schedules,
             loopAt' = "updating" => loopAt = "updating"
      PROVE  UpdateDueLate'
  BY <1>0 DEF UpdateDueLate, Taken
<1>s. schedule \in Schedules /\ "daily" \in Schedules
  BY DEF UpdateDueLate, Schedules
<1>1. CASE Restarts
  BY <1>1, <1>s, StartingLate DEF Restarts, flashVars
<1>2. CASE MintFails \/ Corrupted
  BY <1>2, <1>s, StartingLate DEF MintFails, Corrupted, flashVars
<1>3. CASE Tick
  BY <1>3, TickLate
<1>4. CASE Update
  BY <1>4, UpdateLate
<1>5. CASE TakeUpdate
  <2>1. /\ AutoDue /\ auto' = Taken /\ UNCHANGED <<sinceUpdate, schedule>>
    BY <1>5 DEF TakeUpdate, KeepBoot, flashVars
  <2>2. sinceUpdate >= Daily
    BY <2>1, DueIsLate
  <2>3. sinceUpdate \in Nat /\ Taken' = Taken /\ 0 <= sinceUpdate
    BY DEF UpdateDueLate, Taken, NoRetry
  <2> QED
    BY <1>s, <2>1, <2>2, <2>3, TimersMade DEF UpdateDueLate
<1>6. CASE TakeRejoin
  <2>1. UNCHANGED <<auto, sinceUpdate, schedule>> /\ loopAt' = "connecting"
    BY <1>6 DEF TakeRejoin, LoopGoes, KeepBoot, flashVars
  <2> QED
    BY <1>0, <1>s, <2>1
<1>7. CASE Reconnect \/ Association \/ LeaveRecovery \/ StayConnected
  <2>1. UNCHANGED <<auto, sinceUpdate, schedule>> /\ loopAt' \in {"connected", "polling", "waiting"}
    BY <1>7 DEF Reconnect, Association, LeaveRecovery, StayConnected, StillLeased, RetryFails,
       Polled, Associate, LoopGoes, KeepLoop, KeepBoot, flashVars
  <2> QED
    BY <1>0, <1>s, <2>1
<1>8. CASE SetupPassword \/ OpenSetup \/ Join \/ JoinFails \/ Ready
  <2>1. UNCHANGED <<auto, sinceUpdate, schedule, loopAt>>
    BY <1>8 DEF SetupPassword, Proceed, OpenSetup, Join, JoinFails, Ready, Serving, loopVars,
       flashVars
  <2> QED
    BY <1>0, <1>s, <2>1
<1>9. CASE Requested
  <2>1. UNCHANGED <<auto, sinceUpdate, loopAt>> /\ schedule' \in Schedules
    BY <1>9, <1>s DEF Requested, loopVars
  <2> QED
    BY <1>0, <2>1
<1>a. CASE Lease \/ HomeChanges \/ LinkDrops \/ AudioChanges \/ UNCHANGED netVars
  <2>1. UNCHANGED <<auto, sinceUpdate, schedule, loopAt>>
    BY <1>a DEF Lease, HomeChanges, LinkDrops, AudioChanges, netVars, loopVars, flashVars
  <2> QED
    BY <1>0, <1>s, <2>1
<1>b. CASE OtaEnds
  <2>1. Restarts \/ UNCHANGED <<loopVars, flashVars>>
    BY <1>b DEF OtaEnds
  <2> QED
    BY <1>0, <1>1, <1>s, <2>1 DEF loopVars, flashVars
<1>c. CASE RestartWorker \/ Error \/ PowerFails
  BY <1>1, <1>c DEF RestartWorker, Error, PowerFails
<1>d. \/ MintFails \/ Corrupted \/ Tick \/ Update \/ TakeUpdate \/ TakeRejoin
      \/ Reconnect \/ Association \/ LeaveRecovery \/ StayConnected
      \/ SetupPassword \/ OpenSetup \/ Join \/ JoinFails \/ Ready \/ Requested
      \/ Lease \/ HomeChanges \/ LinkDrops \/ AudioChanges \/ UNCHANGED netVars
      \/ OtaEnds \/ RestartWorker \/ Error \/ PowerFails
  BY DEF NetNext, BootStep, Loop
<1> QED
  BY <1>2, <1>3, <1>4, <1>5, <1>6, <1>7, <1>8, <1>9, <1>a, <1>b, <1>c, <1>d

\* Within a boot the updates the device starts by itself are a day apart
\* (AutoUpdateTimer, update.rs).
THEOREM UpdatesApart == NetSafety => UpdatesSpaced
<1>1. NetInit => UpdateDueLate
  <2> SUFFICES ASSUME NetInit
               PROVE  UpdateDueLate
    OBVIOUS
  <2>1. auto = NewAuto /\ sinceUpdate = Longest /\ schedule = "daily" /\ loopAt = "waiting"
    BY DEF NetInit
  <2>2. Longest \in Nat /\ Longest >= Daily /\ 0 <= Longest
    BY LongestLate
  <2> QED
    BY <2>1, <2>2, TimersMade DEF UpdateDueLate, Schedules
<1>2. UpdateDueLate /\ [NetNext]_netVars
      => [loopAt = "updating" /\ loopAt' = "waiting" /\ ~otaBusy /\ otaBusy'
            => sinceUpdate >= Daily]_netVars
  BY DEF UpdateDueLate
<1> QED
  BY <1>1, <1>2, LateNext, PTL DEF NetSafety, UpdatesSpaced

-----------------------------------------------------------------------------
(***************************************************************************)
(* A detector that learns again counts its hold down in step with the      *)
(* packets it still needs, so the hold outlasts the relearning; and what   *)
(* it learns from these packets stays small enough for the next one to     *)
(* count as a signal.                                                      *)
(***************************************************************************)

Detectors ==
  [playing : BOOLEAN, warmup : Nat, hold : Nat, run : Nat, charge : Nat, idle : Nat]

\* A relearning full of music: the hold is what is left of it.
Awaiting(d) ==
  /\ d.warmup <= Warmup /\ d.run < StartAfter
  /\ d.warmup > 0 => d.run = 0
  /\ d.hold + d.run = d.warmup + StartAfter
  /\ d.idle + d.warmup <= Warmup + d.run

\* A detector that shows playing hears music as music.
Attuned(d) ==
  d.playing => d.warmup = 0 /\ StopThreshold(d) <= Music /\ d.charge < StopAfter

PlayTypeOK == detector \in Detectors /\ heard \in BOOLEAN /\ steady \in BOOLEAN

PlayInv ==
  /\ PlayTypeOK /\ Attuned(detector)
  /\ steady => heard /\ (detector.playing \/ Awaiting(detector))

\* What the thresholds are made of, in the terms the provers read.
LEMMA NoiseFloors ==
  ASSUME NEW n \in Nat
  PROVE  /\ n \div StepsPerUnit \in Nat
         /\ StepsPerUnit * (n \div StepsPerUnit) <= n
         /\ n < StepsPerUnit * (n \div StepsPerUnit) + StepsPerUnit
  BY DEF StepsPerUnit

LEMMA LearnedIdle ==
  ASSUME NEW d \in Detectors, NEW level \in Nat
  PROVE  /\ LearnIdle(d, level) \in Nat
         /\ LearnIdle(d, level) <= d.idle + 1
         /\ LearnIdle(d, level) > d.idle => d.idle < StepsPerUnit * level
         /\ d.playing /\ level >= StopThreshold(d) => LearnIdle(d, level) = d.idle
  BY DEF LearnIdle, Less, Detectors, StepsPerUnit

\* A detector that learned "idle" with one more packet of "level" still hears
\* music over its stop threshold.
LEMMA StopsBelowMusic ==
  ASSUME NEW d \in Detectors, NEW e \in Detectors, NEW level \in Levels,
         e.idle = LearnIdle(d, level),
         \/ level >= StartThreshold(d)
         \/ d.playing /\ StopThreshold(d) <= Music
  PROVE  StopThreshold(e) <= Music
<1> DEFINE f == d.idle \div StepsPerUnit
           g == e.idle \div StepsPerUnit
<1>0. level \in Nat /\ Music \in Nat /\ StopMin \in Nat /\ StartMin \in Nat
  BY DetectorAssumption
<1>1. /\ f \in Nat /\ 4 * f <= d.idle /\ d.idle < 4 * f + 4
      /\ g \in Nat /\ 4 * g <= e.idle /\ e.idle < 4 * g + 4
  BY NoiseFloors DEF Detectors, StepsPerUnit
<1>2. e.idle \in Nat /\ d.idle \in Nat /\ e.idle <= d.idle + 1 /\ (e.idle > d.idle => d.idle < 4 * level)
  BY <1>0, LearnedIdle DEF StepsPerUnit, Detectors
<1>3. level = Music \/ 2 * (level + 1) <= Music
  BY LevelsAssumption DEF StopFactor
<1>4. Music >= 4 /\ Music >= StopMin
  BY LevelsAssumption, DetectorAssumption DEF StopFactor
<1> HIDE DEF f, g
<1>5. ASSUME level >= StartThreshold(d) PROVE 2 * g <= Music
  <2>1. level >= 3 * f
    BY <1>0, <1>1, <1>5 DEF StartThreshold, AtLeast, NoiseFloor, StartFactor, f
  <2>2. g <= f + 1
    BY <1>1, <1>2
  <2> QED BY <2>1, <2>2, <1>0, <1>1, <1>3, <1>4
<1>6. ASSUME d.playing, StopThreshold(d) <= Music PROVE 2 * g <= Music
  <2>1. 2 * f <= Music
    BY <1>0, <1>1, <1>6 DEF StopThreshold, AtLeast, NoiseFloor, StopFactor, f
  <2>2. CASE e.idle <= d.idle
    <3>1. g <= f
      BY <2>2, <1>1, <1>2
    <3> QED BY <3>1, <2>1, <1>0, <1>1
  <2>3. CASE e.idle > d.idle /\ level # Music
    <3>1. g <= level
      BY <2>3, <1>0, <1>1, <1>2
    <3> QED BY <3>1, <2>3, <1>0, <1>1, <1>3
  <2>4. ~(e.idle > d.idle /\ level = Music)
    BY <1>0, <1>2, <1>6, LearnedIdle DEF StopThreshold, Detectors
  <2> QED BY <2>2, <2>3, <2>4, <1>2
<1>7. 2 * g <= Music
  BY <1>5, <1>6
<1> QED BY <1>0, <1>1, <1>4, <1>7 DEF StopThreshold, AtLeast, NoiseFloor, StopFactor, g

-----------------------------------------------------------------------------
LEMMA Fresh ==
  ASSUME NEW n \in Nat
  PROVE  LET d == [NewDetector EXCEPT !.hold = n] IN
         d \in Detectors /\ ~d.playing /\ NewDetector \in Detectors /\ ~NewDetector.playing
<1>1. Warmup \in Nat /\ 0 \in Nat
  BY DetectorAssumption
<1>2. NewDetector \in Detectors /\ ~NewDetector.playing
  BY <1>1 DEF NewDetector, Detectors
<1>3. [NewDetector EXCEPT !.hold = n] \in Detectors
  BY <1>2 DEF Detectors
<1>4. ~[NewDetector EXCEPT !.hold = n].playing
  BY <1>2 DEF Detectors
<1> QED BY <1>2, <1>3, <1>4

LEMMA Starts == PlayInit => PlayInv
<1>1. NewDetector \in Detectors /\ ~NewDetector.playing
  BY Fresh
<1> QED BY <1>1 DEF PlayInit, PlayInv, PlayTypeOK, Attuned

LEMMA RelearnKeeps == PlayInv /\ Relearn => PlayInv'
<1> SUFFICES ASSUME PlayInv, Relearn PROVE PlayInv'
  OBVIOUS
<1>1. PlayTypeOK' /\ Attuned(detector')
  <2>1. PICK n \in Nat : detector' = [NewDetector EXCEPT !.hold = n]
    <3>1. 0 \in Nat /\ Warmup + StartAfter \in Nat
      BY DetectorAssumption
    <3>2. \E n \in {0, Warmup + StartAfter} : detector' = [NewDetector EXCEPT !.hold = n]
      BY DEF Relearn, Relearned
    <3> QED
      BY <3>1, <3>2
  <2>2. detector' \in Detectors /\ ~detector'.playing
    BY <2>1, Fresh
  <2> QED BY <2>2 DEF PlayInv, PlayTypeOK, Relearn, Attuned
<1>2. ASSUME steady PROVE heard /\ Awaiting(detector')
  <2>1. Playing(detector)
    BY <1>2, DetectorAssumption DEF PlayInv, PlayTypeOK, Detectors, Awaiting, Playing
  <2>2. detector' = [NewDetector EXCEPT !.hold = Warmup + StartAfter]
    BY <2>1 DEF Relearn, Relearned
  <2> QED BY <1>2, <2>2, DetectorAssumption DEF PlayInv, NewDetector, Awaiting
<1> QED BY <1>1, <1>2 DEF PlayInv, Relearn

LEMMA StallKeeps == PlayInv /\ Stall => PlayInv'
<1>1. NewDetector \in Detectors /\ ~NewDetector.playing
  BY Fresh
<1> QED BY <1>1 DEF PlayInv, PlayTypeOK, Stall, Attuned

\* What a packet makes of the detector, in the three stages it can be in.
LEMMA UpdatedType ==
  ASSUME NEW d \in Detectors, NEW level \in Levels
  PROVE  Updated(d, level) \in Detectors
<1>1. LearnIdle(d, level) \in Nat /\ level \in Nat
  BY LearnedIdle, DetectorAssumption
<1>2. d.warmup \in Nat /\ d.hold \in Nat /\ d.run \in Nat /\ d.charge \in Nat
  BY DEF Detectors
<1>3. Charged(d, level) \in Nat
  BY <1>1, <1>2, DetectorAssumption DEF Charged, AtMost, Less
<1>4. AtMost(d.run + 1, StartAfter) \in Nat /\ Less(d.hold, 1) \in Nat
  BY <1>2, DetectorAssumption DEF AtMost, Less
<1> DEFINE learned == [d EXCEPT !.hold = Less(@, 1), !.idle = LearnIdle(d, level)]
           below == Charged(d, level) < StopAfter
<1>5. learned \in Detectors /\ learned.warmup = d.warmup
  BY <1>1, <1>4 DEF Detectors
<1>6. below \in BOOLEAN
  OBVIOUS
<1>7. CASE d.warmup > 0
  <2>1. Updated(d, level) = [learned EXCEPT !.warmup = @ - 1]
    BY <1>7 DEF Updated
  <2>2. learned.warmup - 1 \in Nat
    BY <1>2, <1>5, <1>7
  <2> HIDE DEF learned
  <2> QED BY <2>1, <2>2, <1>5 DEF Detectors
<1>8. CASE ~(d.warmup > 0)
  <2>1. Updated(d, level) = Decided(d, learned, level)
    BY <1>8 DEF Updated
  <2> DEFINE run == IF level >= StartThreshold(d) THEN AtMost(d.run + 1, StartAfter) ELSE 0
             charge == Charged(d, level)
  <2>2. run \in Nat /\ charge \in Nat /\ 0 \in Nat
    BY <1>3, <1>4
  <2>3. \/ Updated(d, level) = [learned EXCEPT !.run = run, !.charge = charge, !.playing = below]
        \/ Updated(d, level) = [learned EXCEPT !.run = run, !.charge = 0, !.playing = TRUE]
        \/ Updated(d, level) = [learned EXCEPT !.run = run, !.charge = charge]
    BY <2>1, Zenon DEF Decided
  <2> HIDE DEF learned, below, run, charge
  <2>4. [learned EXCEPT !.run = run, !.charge = charge] \in Detectors
    BY <2>2, <1>5 DEF Detectors
  <2>5. [learned EXCEPT !.run = run, !.charge = 0, !.playing = TRUE] \in Detectors
    BY <2>2, <1>5 DEF Detectors
  <2>6. [learned EXCEPT !.run = run, !.charge = charge, !.playing = below] \in Detectors
    BY <2>2, <1>5, <1>6 DEF Detectors
  <2> QED BY <2>3, <2>4, <2>5, <2>6
<1> QED BY <1>7, <1>8

LEMMA UpdatedPlaying ==
  ASSUME NEW d \in Detectors, NEW level \in Levels, Attuned(d)
  PROVE  Attuned(Updated(d, level))
<1> DEFINE e == Updated(d, level)
<1> SUFFICES ASSUME e.playing PROVE e.warmup = 0 /\ StopThreshold(e) <= Music /\ e.charge < StopAfter
  BY DEF Attuned
<1>1. ~(d.warmup > 0)
  BY DEF Attuned, Updated, Detectors
<1>2. d.warmup = 0 /\ level \in Nat /\ Charged(d, level) \in Nat
  BY <1>1, DetectorAssumption DEF Detectors, Charged, AtMost, Less
<1>3. e.idle = LearnIdle(d, level) /\ e.warmup = 0
  BY <1>1, <1>2 DEF Updated, Decided, Detectors
<1>4. e.charge < StopAfter
  <2>1. CASE d.playing
    <3>1. e.playing = (Charged(d, level) < StopAfter) /\ e.charge = Charged(d, level)
      BY <1>1, <2>1 DEF Updated, Decided, Detectors
    <3> QED BY <3>1
  <2>2. CASE ~d.playing
    <3>1. e.charge = 0
      BY <1>1, <2>2 DEF Updated, Decided, Detectors
    <3> QED BY <3>1, DetectorAssumption
  <2> QED BY <2>1, <2>2
<1>5. \/ level >= StartThreshold(d)
      \/ d.playing /\ StopThreshold(d) <= Music
  <2>1. CASE d.playing
    BY <2>1 DEF Attuned
  <2>2. CASE ~d.playing
    BY <1>1, <2>2, DetectorAssumption DEF Updated, Decided, Detectors
  <2> QED BY <2>1, <2>2
<1>6. e \in Detectors
  BY UpdatedType
<1> HIDE DEF e
<1> QED BY <1>3, <1>4, <1>5, <1>6, StopsBelowMusic

\* One more packet of music: the relearning goes on, or ends in time.
LEMMA MusicAwaited ==
  ASSUME NEW d \in Detectors, Music \in Levels, Awaiting(d), ~d.playing
  PROVE  LET e == Updated(d, Music) IN
         /\ Playing(e)
         /\ e.playing \/ Awaiting(e)
<1> DEFINE e == Updated(d, Music)
           f == d.idle \div StepsPerUnit
<1>1. /\ d.warmup \in Nat /\ d.hold \in Nat /\ d.run \in Nat /\ d.charge \in Nat /\ d.idle \in Nat
      /\ Music \in Nat /\ Warmup \in Nat /\ StartAfter \in Nat \ {0} /\ StartMin \in Nat
  BY DetectorAssumption DEF Detectors
<1>2. LearnIdle(d, Music) \in Nat /\ LearnIdle(d, Music) <= d.idle + 1
  BY <1>1, LearnedIdle
<1>3. Less(d.hold, 1) = d.hold - 1 /\ d.hold \in Nat /\ d.hold >= 1
  BY <1>1 DEF Less, Awaiting
<1>4. CASE d.warmup > 0
  <2>1. /\ e.warmup = d.warmup - 1 /\ e.hold = d.hold - 1 /\ e.run = d.run /\ e.run = 0
        /\ e.idle = LearnIdle(d, Music)
    BY <1>3, <1>4 DEF Updated, Detectors, Awaiting
  <2> QED BY <2>1, <1>1, <1>2, <1>3, <1>4 DEF Awaiting, Playing
<1>5. CASE ~(d.warmup > 0)
  <2>1. Music >= StartThreshold(d)
    <3> DEFINE whole == (Warmup + StartAfter) \div StepsPerUnit
    <3>1. d.idle <= Warmup + StartAfter
      BY <1>1, <1>5 DEF Awaiting
    <3>2. /\ f \in Nat /\ 4 * f <= d.idle
          /\ whole \in Nat /\ Warmup + StartAfter < 4 * whole + 4
      BY <1>1, NoiseFloors DEF StepsPerUnit
    <3>3. 3 * whole <= Music /\ StartMin <= Music
      BY LevelsAssumption, <3>2, <1>1 DEF StartFactor
    <3> HIDE DEF f, whole
    <3>4. f <= whole
      BY <3>1, <3>2, <1>1
    <3> QED BY <3>2, <3>3, <3>4, <1>1 DEF StartThreshold, AtLeast, NoiseFloor, StartFactor, f
  <2>2. AtMost(d.run + 1, StartAfter) = d.run + 1
    BY <1>1 DEF AtMost, Awaiting
  <2>3. /\ e.warmup = d.warmup /\ e.hold = d.hold - 1 /\ e.run = d.run + 1
        /\ e.idle = LearnIdle(d, Music)
        /\ e.playing <=> d.run + 1 >= StartAfter
    BY <1>3, <1>5, <2>1, <2>2 DEF Updated, Decided, Detectors
  <2> QED BY <2>3, <1>1, <1>2, <1>3, <1>5 DEF Awaiting, Playing
<1> QED BY <1>4, <1>5

\* Music goes on playing what plays.
LEMMA MusicPlays ==
  ASSUME NEW d \in Detectors, Music \in Levels, Attuned(d), d.playing
  PROVE  Updated(d, Music).playing
<1>1. d.warmup = 0 /\ StopThreshold(d) <= Music /\ d.charge \in Nat /\ d.charge < StopAfter
  BY DEF Attuned, Detectors
<1>2. Charged(d, Music) < StopAfter
  <2>1. StopThreshold(d) \in Nat
    BY NoiseFloors, DetectorAssumption DEF StopThreshold, AtLeast, NoiseFloor, StopFactor, Detectors
  <2> QED BY <2>1, <1>1, DetectorAssumption DEF Charged, Less
<1> QED BY <1>1, <1>2 DEF Updated, Decided, Detectors

LEMMA PacketKeeps == ASSUME NEW level \in Levels PROVE PlayInv /\ Packet(level) => PlayInv'
<1> SUFFICES ASSUME PlayInv, Packet(level) PROVE PlayInv'
  OBVIOUS
<1>1. detector \in Detectors /\ Attuned(detector) /\ detector' = Updated(detector, level)
  BY DEF PlayInv, PlayTypeOK, Packet
<1>2. detector' \in Detectors /\ Attuned(detector')
  BY <1>1, UpdatedType, UpdatedPlaying
<1>3. heard' \in BOOLEAN /\ steady' \in BOOLEAN
  BY <1>1, <1>2 DEF PlayInv, PlayTypeOK, Packet, Playing, Detectors
<1>4. ASSUME steady' PROVE heard' /\ (detector'.playing \/ Awaiting(detector'))
  <2>1. level = Music /\ (steady \/ detector'.playing)
    BY <1>4 DEF Packet
  <2>2. CASE detector'.playing
    BY <2>2 DEF Packet, Playing
  <2>3. CASE ~detector'.playing
    <3>1. ~detector.playing
      BY <2>1, <2>3, <1>1, MusicPlays
    <3>2. Awaiting(detector)
      BY <2>1, <2>3, <3>1 DEF PlayInv
    <3>3. Playing(detector') /\ (detector'.playing \/ Awaiting(detector'))
      BY <1>1, <2>1, <3>1, <3>2, MusicAwaited
    <3> QED BY <3>3 DEF Packet
  <2> QED BY <2>2, <2>3
<1> QED BY <1>2, <1>3, <1>4 DEF PlayInv, PlayTypeOK

\* The detector's fields keep their types, and an input that plays is told
\* from its noise: its stop threshold is never above music.
THEOREM PlayInductive == PlaySpec => []PlayInv
<1>1. PlayInv /\ [PlayNext]_playVars => PlayInv'
  <2> SUFFICES ASSUME PlayInv, [PlayNext]_playVars PROVE PlayInv'
    OBVIOUS
  <2>1. CASE Measure
    BY <2>1, PacketKeeps DEF Measure
  <2>2. CASE Relearn
    BY <2>2, RelearnKeeps
  <2>3. CASE Stall
    BY <2>3, StallKeeps
  <2>4. CASE UNCHANGED playVars
    BY <2>4 DEF playVars, PlayInv, PlayTypeOK, Attuned
  <2> QED BY <2>1, <2>2, <2>3, <2>4 DEF PlayNext
<1> QED BY <1>1, Starts, PTL DEF PlaySpec

\* Relearning never interrupts music, for every warmup and debouncing.
THEOREM Seamless == PlaySpec => []RelearnIsSeamless
<1>1. PlayInv => RelearnIsSeamless
  BY DEF PlayInv, RelearnIsSeamless
<1> QED BY <1>1, PlayInductive, PTL

-----------------------------------------------------------------------------
(***************************************************************************)
(* The audio settings, from the registers up.                              *)
(***************************************************************************)
Fields == {"gain", "line", "mute", "source", "power"}
Audio == [line : DrivenLines, gain : Nat]
Codecs == [audio : Audio, route : DrivenLines \cup {None}]
Outputs == {Inactive, Faulted, Active}

HasInput(r, audio) == r["gain"] = audio.gain /\ r["line"] = audio.line
SameInput(r, s) == r["gain"] = s["gain"] /\ r["line"] = s["line"]

\* An open route carries the line of the settings, powered and unmuted.
RouteLive(c, r) ==
  c.route # None =>
    c.route = c.audio.line /\ r["source"] = c.route /\ r["power"] = TRUE /\ r["mute"] = FALSE

\* Registers that were not written, and the one that was, last.
LEMMA Untouched ==
  ASSUME NEW r, NEW w, NEW k \in Nat, NEW f \in DOMAIN r, \A i \in 1 .. k : w[i][1] # f
  PROVE  Holding(r, w, k)[f] = r[f]
BY DEF Holding

LEMMA WrittenLast ==
  ASSUME NEW r, NEW w, NEW k \in Nat, NEW f \in DOMAIN r, NEW j \in 1 .. k,
         w[j][1] = f, \A i \in 1 .. k : i > j => w[i][1] # f
  PROVE  Holding(r, w, k)[f] = w[j][2]
<1> DEFINE at == {i \in 1 .. k : w[i][1] = f}
<1>1. j \in at /\ \A i \in at : j >= i /\ i \in Nat /\ j \in Nat
  OBVIOUS
<1>2. Holding(r, w, k)[f] = IF at = {} THEN r[f] ELSE w[Max(at)][2]
  BY DEF Holding
<1> HIDE DEF at
<1>3. Max(at) = j
  <2>1. \E m \in at : \A i \in at : m >= i
    BY <1>1
  <2>2. Max(at) \in at /\ \A i \in at : Max(at) >= i
    BY <2>1 DEF Max
  <2>3. Max(at) >= j
    BY <1>1, <2>2
  <2>4. j >= Max(at) /\ Max(at) \in Nat /\ j \in Nat
    BY <1>1, <2>2
  <2> HIDE DEF at
  <2> QED
    BY <2>3, <2>4
<1>4. at # {}
  BY <1>1
<1> QED
  BY <1>2, <1>3, <1>4

LEMMA OutcomeOf ==
  ASSUME NEW r, NEW w, Len(w) \in Nat, NEW o \in Outcomes(r, w)
  PROVE  /\ o.ok \in BOOLEAN
         /\ DOMAIN o.reg = DOMAIN r
         /\ \E k \in 0 .. Len(w) : o.reg = Holding(r, w, k) /\ (o.ok => k = Len(w))
<1>1. \A k : DOMAIN Holding(r, w, k) = DOMAIN r
  BY DEF Holding
<1>2. CASE \E k \in 0 .. Len(w) : o = [reg |-> Holding(r, w, k), ok |-> FALSE]
  <2>1. PICK k \in 0 .. Len(w) : o = [reg |-> Holding(r, w, k), ok |-> FALSE]
    BY <1>2
  <2>2. o.reg = Holding(r, w, k) /\ o.ok = FALSE
    BY <2>1
  <2> QED
    BY <1>1, <2>2
<1>3. CASE o = [reg |-> Holding(r, w, Len(w)), ok |-> TRUE]
  <2>1. o.reg = Holding(r, w, Len(w)) /\ o.ok = TRUE
    BY <1>3
  <2>2. Len(w) \in 0 .. Len(w)
    OBVIOUS
  <2> QED
    BY <1>1, <2>1, <2>2
<1> QED
  BY <1>2, <1>3 DEF Outcomes

LEMMA JoinedOn ==
  ASSUME NEW S, NEW s \in Seq(S), NEW t \in Seq(S)
  PROVE  /\ s \o t \in Seq(S) /\ Len(s \o t) = Len(s) + Len(t)
         /\ \A i \in 1 .. Len(s) : (s \o t)[i] = s[i]
         /\ \A i \in 1 .. Len(t) : (s \o t)[Len(s) + i] = t[i]
OBVIOUS

LEMMA TwoAndTwo ==
  ASSUME NEW a, NEW b, NEW c, NEW d, NEW w, w = <<a, b>> \o <<c, d>>
  PROVE  Len(w) = 4 /\ w[1] = a /\ w[2] = b /\ w[3] = c /\ w[4] = d
<1> DEFINE S == {a, b, c, d}
           s == <<a, b>>
           t == <<c, d>>
<1>1. s \in Seq(S) /\ t \in Seq(S) /\ Len(s) = 2 /\ Len(t) = 2
  OBVIOUS
<1>2. s[1] = a /\ s[2] = b /\ t[1] = c /\ t[2] = d /\ w = s \o t
  OBVIOUS
<1> HIDE DEF S, s, t
<1>3. /\ w \in Seq(S) /\ Len(w) = 4
      /\ \A i \in 1 .. 2 : w[i] = s[i]
      /\ \A i \in 1 .. 2 : w[2 + i] = t[i]
  BY <1>1, <1>2, JoinedOn
<1>4. w[1] = s[1] /\ w[2] = s[2] /\ w[2 + 1] = t[1] /\ w[2 + 2] = t[2]
  BY <1>3
<1> QED
  BY <1>2, <1>3, <1>4

LEMMA OneAndTwo ==
  ASSUME NEW S, NEW r \in Seq(S), NEW s \in Seq(S)
  PROVE  Len(r) = 1 /\ Len(s) = 2 =>
           /\ r \o s \in Seq(S) /\ Len(r \o s) = 3
           /\ (r \o s)[1] = r[1] /\ (r \o s)[2] = s[1] /\ (r \o s)[3] = s[2]
<1> DEFINE u == r \o s
<1>1. /\ u \in Seq(S) /\ Len(u) = Len(r) + Len(s)
      /\ \A i \in 1 .. Len(r) : u[i] = r[i]
      /\ \A i \in 1 .. Len(s) : u[Len(r) + i] = s[i]
  BY JoinedOn
<1> HIDE DEF u
<1>2. Len(r) = 1 /\ Len(s) = 2 => u[1] = r[1] /\ u[1 + 1] = s[1] /\ u[1 + 2] = s[2]
  BY <1>1
<1>3. Len(r) = 1 /\ Len(s) = 2 => u \in Seq(S) /\ Len(u) = 3
  BY <1>1
<1>4. Len(r) = 1 /\ Len(s) = 2 => u[2] = s[1] /\ u[3] = s[2]
  BY <1>2
<1> QED
  BY <1>2, <1>3, <1>4 DEF u

LEMMA ThreeAndTwo ==
  ASSUME NEW S, NEW r \in Seq(S), NEW s \in Seq(S)
  PROVE  Len(r) = 3 /\ Len(s) = 2 =>
           /\ Len(r \o s) = 5
           /\ (r \o s)[1] = r[1] /\ (r \o s)[2] = r[2] /\ (r \o s)[3] = r[3]
           /\ (r \o s)[4] = s[1] /\ (r \o s)[5] = s[2]
<1> DEFINE u == r \o s
<1>1. /\ Len(u) = Len(r) + Len(s)
      /\ \A i \in 1 .. Len(r) : u[i] = r[i]
      /\ \A i \in 1 .. Len(s) : u[Len(r) + i] = s[i]
  BY JoinedOn
<1> HIDE DEF u
<1>2. Len(r) = 3 /\ Len(s) = 2 =>
        u[1] = r[1] /\ u[2] = r[2] /\ u[3] = r[3] /\ u[3 + 1] = s[1] /\ u[3 + 2] = s[2]
  BY <1>1
<1>3. Len(r) = 3 /\ Len(s) = 2 => Len(u) = 5
  BY <1>1
<1>4. Len(r) = 3 /\ Len(s) = 2 => u[4] = s[1] /\ u[5] = s[2]
  BY <1>2
<1> QED
  BY <1>2, <1>3, <1>4 DEF u

LEMMA OneTwoTwo ==
  ASSUME NEW a, NEW b, NEW c, NEW d, NEW e
  PROVE  LET w == <<a>> \o <<b, c>> \o <<d, e>>
         IN  Len(w) = 5 /\ w[1] = a /\ w[2] = b /\ w[3] = c /\ w[4] = d /\ w[5] = e
<1> DEFINE S == {a, b, c, d, e}
           r == <<a>>
           s == <<b, c>>
           t == <<d, e>>
           u == r \o s
           v == u \o t
<1>1. r \in Seq(S) /\ s \in Seq(S) /\ t \in Seq(S) /\ Len(r) = 1 /\ Len(s) = 2 /\ Len(t) = 2
  OBVIOUS
<1>2. r[1] = a /\ s[1] = b /\ s[2] = c /\ t[1] = d /\ t[2] = e
  OBVIOUS
<1>3. SUFFICES Len(v) = 5 /\ v[1] = a /\ v[2] = b /\ v[3] = c /\ v[4] = d /\ v[5] = e
  OBVIOUS
<1> HIDE DEF S, r, s, t
<1>4. u \in Seq(S) /\ Len(u) = 3 /\ u[1] = r[1] /\ u[2] = s[1] /\ u[3] = s[2]
  BY <1>1, OneAndTwo
<1> HIDE DEF u
<1>5. Len(v) = 5 /\ v[1] = u[1] /\ v[2] = u[2] /\ v[3] = u[3] /\ v[4] = t[1] /\ v[5] = t[2]
  BY <1>1, <1>4, ThreeAndTwo
<1> HIDE DEF v
<1> QED
  BY <1>2, <1>4, <1>5

LEMMA InputWritten ==
  ASSUME NEW r, DOMAIN r = Fields, NEW audio, NEW o \in ApplyInput(r, audio)
  PROVE  /\ o.ok \in BOOLEAN /\ DOMAIN o.reg = Fields
         /\ o.reg["mute"] = r["mute"] /\ o.reg["source"] = r["source"]
         /\ o.reg["power"] = r["power"]
         /\ o.ok => HasInput(o.reg, audio)
<1> DEFINE w == <<<<"gain", audio.gain>>, <<"line", audio.line>>>>
<1>1. o \in Outcomes(r, w)
  BY DEF ApplyInput, InputControls
<1>2. Len(w) = 2 /\ w[1][1] = "gain" /\ w[2][1] = "line" /\ w[1][2] = audio.gain
      /\ w[2][2] = audio.line
  OBVIOUS
<1> HIDE DEF w
<1>3. o.ok \in BOOLEAN /\ DOMAIN o.reg = Fields
  BY <1>1, <1>2, OutcomeOf
<1>b. Len(w) \in Nat
  BY <1>2
<1>c. \E k \in 0 .. Len(w) : o.reg = Holding(r, w, k) /\ (o.ok => k = Len(w))
  BY <1>1, <1>b, OutcomeOf
<1>4. PICK k \in 0 .. 2 : o.reg = Holding(r, w, k) /\ (o.ok => k = 2)
  BY <1>2, <1>c
<1>5. k \in Nat /\ \A i \in 1 .. k : i \in {1, 2}
  OBVIOUS
<1>6. /\ "mute" \in DOMAIN r /\ "source" \in DOMAIN r /\ "power" \in DOMAIN r
      /\ "gain" \in DOMAIN r /\ "line" \in DOMAIN r
  BY DEF Fields
<1>7. \A i \in 1 .. k : w[i][1] # "mute" /\ w[i][1] # "source" /\ w[i][1] # "power"
  BY <1>2, <1>5
<1>8. o.reg["mute"] = r["mute"] /\ o.reg["source"] = r["source"] /\ o.reg["power"] = r["power"]
  BY <1>4, <1>5, <1>6, <1>7, Untouched
<1>9. ASSUME o.ok PROVE HasInput(o.reg, audio)
  <2>1. k = 2 /\ o.reg = Holding(r, w, k) /\ 1 \in 1 .. k /\ 2 \in 1 .. k
    BY <1>4, <1>9
  <2>2. \A i \in 1 .. k : i > 1 => w[i][1] # "gain"
    BY <1>2, <1>5
  <2>3. \A i \in 1 .. k : i > 2 => w[i][1] # "line"
    BY <1>2, <1>5
  <2>4. Holding(r, w, k)["gain"] = w[1][2]
    BY <1>2, <1>5, <1>6, <2>1, <2>2, WrittenLast
  <2>5. Holding(r, w, k)["line"] = w[2][2]
    BY <1>2, <1>5, <1>6, <2>1, <2>3, WrittenLast
  <2> QED
    BY <1>2, <2>1, <2>4, <2>5 DEF HasInput
<1> QED
  BY <1>3, <1>8, <1>9

LEMMA Configured ==
  ASSUME NEW r, DOMAIN r = Fields, NEW audio, NEW o \in Configure(r, audio)
  PROVE  /\ o.ok \in BOOLEAN /\ DOMAIN o.reg = Fields
         /\ o.ok => HasInput(o.reg, audio) /\ o.reg["power"] = FALSE
<1> DEFINE w == <<<<"mute", TRUE>>, <<"power", FALSE>>>> \o InputControls(audio)
<1>1. o \in Outcomes(r, w)
  BY DEF Configure
<1>a. /\ Len(w) = 4 /\ w[1] = <<"mute", TRUE>> /\ w[2] = <<"power", FALSE>>
      /\ w[3] = <<"gain", audio.gain>> /\ w[4] = <<"line", audio.line>>
  <2> DEFINE a == <<"mute", TRUE>>
             b == <<"power", FALSE>>
             c == <<"gain", audio.gain>>
             d == <<"line", audio.line>>
  <2>1. w = <<a, b>> \o <<c, d>>
    BY DEF InputControls
  <2> HIDE DEF w, a, b, c, d
  <2>2. Len(w) = 4 /\ w[1] = a /\ w[2] = b /\ w[3] = c /\ w[4] = d
    BY <2>1, TwoAndTwo
  <2> QED
    BY <2>2 DEF a, b, c, d
<1> HIDE DEF w
<1>2. /\ Len(w) = 4 /\ w[1][1] = "mute" /\ w[2][1] = "power" /\ w[3][1] = "gain"
      /\ w[4][1] = "line" /\ w[2][2] = FALSE /\ w[3][2] = audio.gain /\ w[4][2] = audio.line
  BY <1>a
<1>3. o.ok \in BOOLEAN /\ DOMAIN o.reg = Fields
  BY <1>1, <1>2, OutcomeOf
<1>b. Len(w) \in Nat
  BY <1>2
<1>c. \E k \in 0 .. Len(w) : o.reg = Holding(r, w, k) /\ (o.ok => k = Len(w))
  BY <1>1, <1>b, OutcomeOf
<1>4. o.ok => o.reg = Holding(r, w, 4)
  BY <1>2, <1>c
<1>5. \A i \in 1 .. 4 : i \in {1, 2, 3, 4}
  OBVIOUS
<1>6. "power" \in DOMAIN r /\ "gain" \in DOMAIN r /\ "line" \in DOMAIN r
  BY DEF Fields
<1>7. Holding(r, w, 4)["power"] = FALSE
  <2>1. \A i \in 1 .. 4 : i > 2 => w[i][1] # "power"
    BY <1>2, <1>5
  <2> QED
    BY <1>2, <1>6, <2>1, WrittenLast
<1>8. Holding(r, w, 4)["gain"] = audio.gain
  <2>1. \A i \in 1 .. 4 : i > 3 => w[i][1] # "gain"
    BY <1>2, <1>5
  <2> QED
    BY <1>2, <1>6, <2>1, WrittenLast
<1>9. Holding(r, w, 4)["line"] = audio.line
  <2>1. \A i \in 1 .. 4 : i > 4 => w[i][1] # "line"
    OBVIOUS
  <2> QED
    BY <1>2, <1>6, <2>1, WrittenLast
<1> QED
  BY <1>3, <1>4, <1>7, <1>8, <1>9 DEF HasInput

LEMMA RoutedWritten ==
  ASSUME NEW r, DOMAIN r = Fields, NEW audio, NEW line, NEW o \in ApplyRouted(r, audio, line)
  PROVE  /\ o.ok \in BOOLEAN /\ DOMAIN o.reg = Fields
         /\ o.ok => /\ HasInput(o.reg, audio) /\ o.reg["source"] = line
                    /\ o.reg["mute"] = FALSE /\ o.reg["power"] = r["power"]
<1> DEFINE w == <<<<"mute", TRUE>>>> \o InputControls(audio)
                  \o <<<<"source", line>>, <<"mute", FALSE>>>>
<1>1. o \in Outcomes(r, w)
  BY DEF ApplyRouted
<1>a. /\ Len(w) = 5 /\ w[1] = <<"mute", TRUE>> /\ w[2] = <<"gain", audio.gain>>
      /\ w[3] = <<"line", audio.line>> /\ w[4] = <<"source", line>> /\ w[5] = <<"mute", FALSE>>
  <2> DEFINE a == <<"mute", TRUE>>
             b == <<"gain", audio.gain>>
             c == <<"line", audio.line>>
             d == <<"source", line>>
             e == <<"mute", FALSE>>
  <2>1. w = <<a>> \o <<b, c>> \o <<d, e>>
    BY DEF InputControls
  <2> HIDE DEF w, a, b, c, d, e
  <2>2. Len(w) = 5 /\ w[1] = a /\ w[2] = b /\ w[3] = c /\ w[4] = d /\ w[5] = e
    BY <2>1, OneTwoTwo
  <2> QED
    BY <2>2 DEF a, b, c, d, e
<1> HIDE DEF w
<1>2. /\ Len(w) = 5 /\ w[1][1] = "mute" /\ w[2][1] = "gain" /\ w[3][1] = "line"
      /\ w[4][1] = "source" /\ w[5][1] = "mute" /\ w[2][2] = audio.gain
      /\ w[3][2] = audio.line /\ w[4][2] = line /\ w[5][2] = FALSE
  BY <1>a
<1>3. o.ok \in BOOLEAN /\ DOMAIN o.reg = Fields
  BY <1>1, <1>2, OutcomeOf
<1>b. Len(w) \in Nat
  BY <1>2
<1>c. \E k \in 0 .. Len(w) : o.reg = Holding(r, w, k) /\ (o.ok => k = Len(w))
  BY <1>1, <1>b, OutcomeOf
<1>4. o.ok => o.reg = Holding(r, w, 5)
  BY <1>2, <1>c
<1>5. \A i \in 1 .. 5 : i \in {1, 2, 3, 4, 5}
  OBVIOUS
<1>6. /\ "mute" \in DOMAIN r /\ "source" \in DOMAIN r /\ "power" \in DOMAIN r
      /\ "gain" \in DOMAIN r /\ "line" \in DOMAIN r
  BY DEF Fields
<1>7. Holding(r, w, 5)["power"] = r["power"]
  <2>1. \A i \in 1 .. 5 : w[i][1] # "power"
    BY <1>2, <1>5
  <2> QED
    BY <1>6, <2>1, Untouched
<1>8. Holding(r, w, 5)["gain"] = audio.gain
  <2>1. \A i \in 1 .. 5 : i > 2 => w[i][1] # "gain"
    BY <1>2, <1>5
  <2> QED
    BY <1>2, <1>6, <2>1, WrittenLast
<1>9. Holding(r, w, 5)["line"] = audio.line
  <2>1. \A i \in 1 .. 5 : i > 3 => w[i][1] # "line"
    BY <1>2, <1>5
  <2> QED
    BY <1>2, <1>6, <2>1, WrittenLast
<1>d. Holding(r, w, 5)["source"] = line
  <2>1. \A i \in 1 .. 5 : i > 4 => w[i][1] # "source"
    BY <1>2, <1>5
  <2> QED
    BY <1>2, <1>6, <2>1, WrittenLast
<1>e. Holding(r, w, 5)["mute"] = FALSE
  <2>1. \A i \in 1 .. 5 : i > 5 => w[i][1] # "mute"
    OBVIOUS
  <2> QED
    BY <1>2, <1>6, <2>1, WrittenLast
<1> QED
  BY <1>3, <1>4, <1>7, <1>8, <1>9, <1>d, <1>e DEF HasInput

LEMMA EnableWritten ==
  ASSUME NEW r, DOMAIN r = Fields, NEW line, NEW o \in EnableOutput(r, line)
  PROVE  /\ o.ok \in BOOLEAN /\ DOMAIN o.reg = Fields /\ SameInput(o.reg, r)
         /\ o.ok => o.reg["source"] = line /\ o.reg["mute"] = FALSE /\ o.reg["power"] = TRUE
<1> DEFINE w == <<<<"mute", TRUE>>, <<"source", line>>, <<"power", TRUE>>, <<"mute", FALSE>>>>
<1>1. o \in Outcomes(r, w)
  BY DEF EnableOutput
<1>2. /\ Len(w) = 4 /\ w[1][1] = "mute" /\ w[2][1] = "source" /\ w[3][1] = "power"
      /\ w[4][1] = "mute" /\ w[2][2] = line /\ w[3][2] = TRUE /\ w[4][2] = FALSE
  OBVIOUS
<1> HIDE DEF w
<1>3. o.ok \in BOOLEAN /\ DOMAIN o.reg = Fields
  BY <1>1, <1>2, OutcomeOf
<1>b. Len(w) \in Nat
  BY <1>2
<1>c. \E k \in 0 .. Len(w) : o.reg = Holding(r, w, k) /\ (o.ok => k = Len(w))
  BY <1>1, <1>b, OutcomeOf
<1>4. PICK k \in 0 .. 4 : o.reg = Holding(r, w, k) /\ (o.ok => k = 4)
  BY <1>2, <1>c
<1>5. k \in Nat /\ (\A i \in 1 .. k : i \in {1, 2, 3, 4}) /\ \A i \in 1 .. 4 : i \in {1, 2, 3, 4}
  OBVIOUS
<1>6. /\ "mute" \in DOMAIN r /\ "source" \in DOMAIN r /\ "power" \in DOMAIN r
      /\ "gain" \in DOMAIN r /\ "line" \in DOMAIN r
  BY DEF Fields
<1>7. SameInput(o.reg, r)
  <2>1. \A i \in 1 .. k : w[i][1] # "gain" /\ w[i][1] # "line"
    BY <1>2, <1>5
  <2> QED
    BY <1>4, <1>5, <1>6, <2>1, Untouched DEF SameInput
<1>8. Holding(r, w, 4)["source"] = line
  <2>1. \A i \in 1 .. 4 : i > 2 => w[i][1] # "source"
    BY <1>2, <1>5
  <2> QED
    BY <1>2, <1>6, <2>1, WrittenLast
<1>9. Holding(r, w, 4)["power"] = TRUE
  <2>1. \A i \in 1 .. 4 : i > 3 => w[i][1] # "power"
    BY <1>2, <1>5
  <2> QED
    BY <1>2, <1>6, <2>1, WrittenLast
<1>a. Holding(r, w, 4)["mute"] = FALSE
  <2>1. \A i \in 1 .. 4 : i > 4 => w[i][1] # "mute"
    OBVIOUS
  <2> QED
    BY <1>2, <1>6, <2>1, WrittenLast
<1> QED
  BY <1>3, <1>4, <1>7, <1>8, <1>9, <1>a

LEMMA DisableWritten ==
  ASSUME NEW r, DOMAIN r = Fields, NEW o \in DisableOutput(r)
  PROVE  /\ o.ok \in BOOLEAN /\ DOMAIN o.reg = Fields /\ SameInput(o.reg, r)
         /\ o.reg["power"] \in {r["power"], FALSE}
         /\ o.ok => o.reg["power"] = FALSE
<1>1. PICK done : /\ o.reg = [f \in DOMAIN r |-> IF f \in done THEN DisableWrites[f] ELSE r[f]]
                  /\ done \in SUBSET DOMAIN DisableWrites
                  /\ o.ok \in BOOLEAN
                  /\ o.ok => done = DOMAIN DisableWrites
  <2> DEFINE Off(done) == [f \in DOMAIN r |-> IF f \in done THEN DisableWrites[f] ELSE r[f]]
  <2>1. \/ \E done \in SUBSET DOMAIN DisableWrites : o = [reg |-> Off(done), ok |-> FALSE]
        \/ o = [reg |-> Off(DOMAIN DisableWrites), ok |-> TRUE]
    BY DEF DisableOutput
  <2> HIDE DEF Off
  <2>2. CASE \E done \in SUBSET DOMAIN DisableWrites : o = [reg |-> Off(done), ok |-> FALSE]
    <3>1. PICK done \in SUBSET DOMAIN DisableWrites : o = [reg |-> Off(done), ok |-> FALSE]
      BY <2>2
    <3>2. o.reg = Off(done) /\ o.ok = FALSE
      BY <3>1
    <3> QED
      BY <3>2 DEF Off
  <2>3. CASE o = [reg |-> Off(DOMAIN DisableWrites), ok |-> TRUE]
    <3>2. o.reg = Off(DOMAIN DisableWrites) /\ o.ok = TRUE
      BY <2>3
    <3>3. DOMAIN DisableWrites \in SUBSET DOMAIN DisableWrites
      OBVIOUS
    <3> QED
      BY <3>2, <3>3 DEF Off
  <2> QED
    BY <2>1, <2>2, <2>3
<1>2. DOMAIN DisableWrites = {"mute", "power"} /\ DisableWrites["power"] = FALSE
  BY DEF DisableWrites
<1>3. DOMAIN o.reg = Fields
  BY <1>1
<1>4. SameInput(o.reg, r)
  BY <1>1, <1>2 DEF SameInput, Fields
<1>5. o.reg["power"] \in {r["power"], FALSE}
  BY <1>1, <1>2 DEF Fields
<1>6. o.ok => o.reg["power"] = FALSE
  BY <1>1, <1>2 DEF Fields
<1> QED
  BY <1>1, <1>3, <1>4, <1>5, <1>6
\* What the operations of the codec leave (codec/mod.rs, analog_passthrough.rs).
Results(res) == res.ok \in BOOLEAN /\ DOMAIN res.reg = Fields /\ res.codec \in Codecs

Opened(res, c, r, line) ==
  /\ Results(res) /\ res.codec.audio = c.audio /\ SameInput(res.reg, r)
  /\ res.ok => /\ res.codec.route = line /\ res.reg["source"] = line
               /\ res.reg["mute"] = FALSE /\ res.reg["power"] = TRUE
  /\ ~res.ok => res.codec = c

LEMMA Enabled ==
  ASSUME NEW c \in Codecs, NEW r, DOMAIN r = Fields, NEW line \in DrivenLines,
         NEW res \in Enable(c, r, line)
  PROVE  Opened(res, c, r, line)
<1>1. PICK o \in EnableOutput(r, line) :
        res = Result(IF o.ok THEN [c EXCEPT !.route = line] ELSE c, o.reg, o.ok)
  BY DEF Enable
<1> DEFINE moved == [c EXCEPT !.route = line]
<1>2. moved \in Codecs /\ moved.audio = c.audio /\ moved.route = line
  BY DEF Codecs
<1>3. /\ o.ok \in BOOLEAN /\ DOMAIN o.reg = Fields /\ SameInput(o.reg, r)
      /\ o.ok => o.reg["source"] = line /\ o.reg["mute"] = FALSE /\ o.reg["power"] = TRUE
  BY EnableWritten
<1>4. res.reg = o.reg /\ res.ok = o.ok /\ res.codec = IF o.ok THEN moved ELSE c
  BY <1>1 DEF Result
<1> HIDE DEF moved
<1> QED
  BY <1>2, <1>3, <1>4 DEF Results, Opened

LEMMA Disabled ==
  ASSUME NEW c \in Codecs, NEW r, DOMAIN r = Fields, NEW res \in Disable(c, r)
  PROVE  /\ Results(res) /\ res.codec.audio = c.audio /\ SameInput(res.reg, r)
         /\ res.codec.route = None
         /\ res.reg["power"] \in {r["power"], FALSE}
         /\ res.ok => res.reg["power"] = FALSE
<1>1. PICK o \in DisableOutput(r) : res = Result([c EXCEPT !.route = None], o.reg, o.ok)
  BY DEF Disable
<1> DEFINE closed == [c EXCEPT !.route = None]
<1>2. closed \in Codecs /\ closed.audio = c.audio /\ closed.route = None
  BY DEF Codecs
<1>3. /\ o.ok \in BOOLEAN /\ DOMAIN o.reg = Fields /\ SameInput(o.reg, r)
      /\ o.reg["power"] \in {r["power"], FALSE} /\ (o.ok => o.reg["power"] = FALSE)
  BY DisableWritten
<1>4. res.reg = o.reg /\ res.ok = o.ok /\ res.codec = closed
  BY <1>1 DEF Result
<1> HIDE DEF closed
<1> QED
  BY <1>2, <1>3, <1>4 DEF Results

\* An applied change moves an open route along; one that failed left no route.
LEMMA Applied ==
  ASSUME NEW c \in Codecs, NEW r, DOMAIN r = Fields, NEW audio \in Audio, RouteLive(c, r),
         NEW res \in Apply(c, r, audio)
  PROVE  /\ Results(res)
         /\ res.ok => /\ res.codec.audio = audio /\ HasInput(res.reg, audio)
                      /\ RouteLive(res.codec, res.reg)
                      /\ (res.codec.route # None <=> c.route # None)
         /\ ~res.ok => res.codec.audio = c.audio /\ res.codec.route = None
         /\ c.route = None => res.codec.route = None /\ res.reg["power"] = r["power"]
<1> DEFINE route == RouteForChange(c, audio)
           writes == IF route # None THEN ApplyRouted(r, audio, route) ELSE ApplyInput(r, audio)
           now == [audio |-> audio, route |-> IF route # None THEN route ELSE c.route]
<1>1. PICK o \in writes : res \in IF o.ok THEN {Result(now, o.reg, TRUE)}
                               ELSE IF c.route # None
                                 THEN {Result(d.codec, d.reg, FALSE) : d \in Disable(c, o.reg)}
                               ELSE {Result(c, o.reg, FALSE)}
  BY Zenon DEF Apply
<1>2. /\ c.audio \in Audio /\ c.route \in DrivenLines \cup {None} /\ audio.line \in DrivenLines
  BY DEF Codecs, Audio
<1>3. route \in {None, audio.line}
  BY DEF RouteForChange
<1>4. now \in Codecs /\ now.audio = audio /\ now.route = IF route # None THEN route ELSE c.route
  BY <1>2, <1>3 DEF Codecs
<1>5. /\ c.route = None => route = None
      /\ route # None => c.route # None /\ route = audio.line
      /\ route = None /\ c.route # None => c.audio.line = audio.line
  BY <1>2, SettingsAssumption DEF RouteForChange
<1>6. route # None => o \in ApplyRouted(r, audio, route)
  BY <1>1
<1>7. route = None => o \in ApplyInput(r, audio)
  BY <1>1
<1> HIDE DEF route, writes, now
<1>8. route # None =>
        /\ o.ok \in BOOLEAN /\ DOMAIN o.reg = Fields
        /\ o.ok => /\ HasInput(o.reg, audio) /\ o.reg["source"] = route
                   /\ o.reg["mute"] = FALSE /\ o.reg["power"] = r["power"]
  BY <1>6, RoutedWritten
<1>9. route = None =>
        /\ o.ok \in BOOLEAN /\ DOMAIN o.reg = Fields
        /\ o.reg["mute"] = r["mute"] /\ o.reg["source"] = r["source"]
        /\ o.reg["power"] = r["power"]
        /\ o.ok => HasInput(o.reg, audio)
  BY <1>7, InputWritten
<1>10. CASE o.ok
  <2>1. res.codec = now /\ res.reg = o.reg /\ res.ok = TRUE
    BY <1>1, <1>10 DEF Result
  <2>2. Results(res) /\ res.codec.audio = audio /\ HasInput(res.reg, audio)
    BY <1>4, <1>8, <1>9, <1>10, <2>1 DEF Results
  <2>3. res.codec.route # None <=> c.route # None
    BY <1>4, <1>5, <2>1
  <2>4. c.route = None => res.codec.route = None /\ res.reg["power"] = r["power"]
    BY <1>4, <1>5, <1>9, <2>1
  <2>5. RouteLive(res.codec, res.reg)
    <3>1. CASE route # None
      BY <1>4, <1>5, <1>8, <1>10, <2>1, <3>1 DEF RouteLive
    <3>2. CASE route = None
      BY <1>4, <1>5, <1>9, <2>1, <3>2 DEF RouteLive
    <3> QED
      BY <3>1, <3>2
  <2> QED
    BY <2>1, <2>2, <2>3, <2>4, <2>5
<1>11. CASE ~o.ok /\ c.route # None
  <2>1. PICK d \in Disable(c, o.reg) : res = Result(d.codec, d.reg, FALSE)
    BY <1>1, <1>11
  <2>2. DOMAIN o.reg = Fields
    BY <1>8, <1>9
  <2>3. Results(d) /\ d.codec.audio = c.audio /\ d.codec.route = None
    BY <2>2, Disabled
  <2>4. res.codec = d.codec /\ res.reg = d.reg /\ res.ok = FALSE
    BY <2>1 DEF Result
  <2> QED
    BY <1>11, <2>3, <2>4 DEF Results
<1>12. CASE ~o.ok /\ c.route = None
  <2>1. res.codec = c /\ res.reg = o.reg /\ res.ok = FALSE
    BY <1>1, <1>12 DEF Result
  <2> QED
    BY <1>5, <1>9, <1>12, <2>1 DEF Results
<1> QED
  BY <1>10, <1>11, <1>12

\* What is taken back is the settings and the route before, or no route at all.
TakenBack(res, r, previous) ==
  /\ Results(res) /\ res.codec.audio = previous.audio
  /\ res.ok => /\ HasInput(res.reg, previous.audio) /\ RouteLive(res.codec, res.reg)
               /\ (res.codec.route # None <=> previous.route # None)
  /\ ~res.ok => res.codec.route = None
  /\ previous.route = None =>
       res.codec.route = None /\ res.reg["power"] \in {r["power"], FALSE}

Restorable(c, previous) ==
  /\ previous.route # None => previous.route = previous.audio.line
  /\ previous.route = None => c.route = None

LEMMA RolledBack ==
  ASSUME NEW c \in Codecs, NEW r, DOMAIN r = Fields, NEW previous \in Codecs,
         Restorable(c, previous), NEW res \in RollBack(c, r, previous)
  PROVE  TakenBack(res, r, previous)
<1>0. /\ previous.route # None => previous.route = previous.audio.line
      /\ previous.route = None => c.route = None
  BY DEF Restorable
<1> SUFFICES /\ Results(res) /\ res.codec.audio = previous.audio
             /\ res.ok => /\ HasInput(res.reg, previous.audio) /\ RouteLive(res.codec, res.reg)
                          /\ (res.codec.route # None <=> previous.route # None)
             /\ ~res.ok => res.codec.route = None
             /\ previous.route = None =>
                  res.codec.route = None /\ res.reg["power"] \in {r["power"], FALSE}
  BY Zenon DEF TakenBack
<1> DEFINE back == [c EXCEPT !.audio = previous.audio]
           Steps(o) == IF o.ok /\ previous.route # None THEN Enable(back, o.reg, previous.route)
                       ELSE {Result(back, o.reg, o.ok)}
           restored == UNION {Steps(o) : o \in ApplyInput(r, previous.audio)}
<1>1. PICK t \in restored :
        res \in IF t.ok THEN {t} ELSE {Result(d.codec, d.reg, FALSE) : d \in Disable(back, t.reg)}
  BY Zenon DEF RollBack
<1>2. PICK o \in ApplyInput(r, previous.audio) : t \in Steps(o)
  BY <1>1
<1>3. /\ back \in Codecs /\ back.audio = previous.audio /\ back.route = c.route
      /\ previous.audio \in Audio /\ previous.route \in DrivenLines \cup {None}
  BY DEF Codecs
<1>4. o.ok /\ previous.route # None => t \in Enable(back, o.reg, previous.route)
  BY <1>2
<1>5. ~(o.ok /\ previous.route # None) => t = Result(back, o.reg, o.ok)
  BY <1>2
<1> HIDE DEF back, restored
<1>6. /\ o.ok \in BOOLEAN /\ DOMAIN o.reg = Fields /\ o.reg["power"] = r["power"]
      /\ o.ok => HasInput(o.reg, previous.audio)
  BY <1>3, InputWritten
<1>7. /\ Results(t) /\ t.codec.audio = previous.audio
      /\ t.ok => /\ HasInput(t.reg, previous.audio) /\ RouteLive(t.codec, t.reg)
                 /\ (t.codec.route # None <=> previous.route # None)
      /\ previous.route = None => t.codec.route = None /\ t.reg["power"] = r["power"]
  <2>1. CASE o.ok /\ previous.route # None
    <3>1. previous.route \in DrivenLines
      BY <1>3, <2>1
    <3>2. /\ Results(t) /\ t.codec.audio = back.audio /\ SameInput(t.reg, o.reg)
          /\ t.ok => /\ t.codec.route = previous.route /\ t.reg["source"] = previous.route
                     /\ t.reg["mute"] = FALSE /\ t.reg["power"] = TRUE
      BY <1>3, <1>4, <1>6, <2>1, <3>1, Enabled DEF Opened
    <3>3. HasInput(t.reg, previous.audio)
      BY <1>6, <2>1, <3>2 DEF HasInput, SameInput
    <3>4. t.ok => RouteLive(t.codec, t.reg)
      BY <1>0, <1>3, <2>1, <3>2 DEF RouteLive
    <3>5. t.ok => t.codec.route # None
      BY <2>1, <3>2
    <3> QED
      BY <1>3, <2>1, <3>2, <3>3, <3>4, <3>5
  <2>2. CASE o.ok /\ previous.route = None
    <3>1. t.codec = back /\ t.reg = o.reg /\ t.ok = TRUE
      BY <1>5, <2>2 DEF Result
    <3>2. t.codec.route = None
      BY <1>0, <1>3, <2>2, <3>1
    <3>3. RouteLive(t.codec, t.reg)
      BY <3>2 DEF RouteLive
    <3> QED
      BY <1>3, <1>6, <2>2, <3>1, <3>2, <3>3 DEF Results
  <2>3. CASE ~o.ok
    <3>1. t.codec = back /\ t.reg = o.reg /\ t.ok = FALSE
      BY <1>5, <1>6, <2>3 DEF Result
    <3> QED
      BY <1>0, <1>3, <1>6, <3>1 DEF Results
  <2> QED
    BY <1>6, <2>1, <2>2, <2>3
<1>8. CASE t.ok
  <2>1. res = t
    BY <1>1, <1>8
  <2> QED
    BY <1>7, <1>8, <2>1
<1>9. CASE ~t.ok
  <2>1. PICK d \in Disable(back, t.reg) : res = Result(d.codec, d.reg, FALSE)
    BY <1>1, <1>9
  <2>2. DOMAIN t.reg = Fields
    BY <1>7 DEF Results
  <2>3. /\ Results(d) /\ d.codec.audio = back.audio /\ d.codec.route = None
        /\ d.reg["power"] \in {t.reg["power"], FALSE}
    BY <1>3, <2>2, Disabled
  <2>4. res.codec = d.codec /\ res.reg = d.reg /\ res.ok = FALSE
    BY <2>1 DEF Result
  <2>5. Results(res)
    BY <2>3, <2>4 DEF Results
  <2> QED
    BY <1>3, <1>7, <2>3, <2>4, <2>5
<1> QED
  BY <1>8, <1>9

\* change_audio: the settings asked for, or the ones before.
Leaves(x, c, r, audio, commits) ==
  /\ x.change.codec \in Codecs /\ DOMAIN x.change.reg = Fields
  /\ RouteLive(x.change.codec, x.change.reg)
  /\ c.route = None => /\ x.change.codec.route = None
                       /\ x.change.reg["power"] \in {r["power"], FALSE}
  /\ x.asked \in BOOLEAN
  /\ x.outcome = "changed" <=> x.asked /\ commits
  /\ x.outcome = "changed" =>
       /\ x.change.codec.audio = audio /\ HasInput(x.change.reg, audio)
       /\ (x.change.codec.route # None <=> c.route # None)
  /\ x.outcome # "changed" => x.change.codec.audio = c.audio
  /\ x.outcome \notin {"changed", "broken"} => HasInput(x.change.reg, c.audio)

LEMMA Changed ==
  ASSUME NEW c \in Codecs, NEW r, DOMAIN r = Fields, NEW audio \in Audio, RouteLive(c, r),
         NEW commits \in BOOLEAN, NEW x \in ChangeAudio(c, r, audio, commits)
  PROVE  Leaves(x, c, r, audio, commits)
<1>1. PICK a \in Apply(c, r, audio) :
        x \in IF a.ok /\ commits THEN {[change |-> a, outcome |-> "changed", asked |-> TRUE]}
              ELSE {[change |-> b, outcome |-> IF b.ok THEN "restored" ELSE "broken",
                     asked |-> a.ok] : b \in RollBack(a.codec, a.reg, c)}
  BY Zenon DEF ChangeAudio
<1>2. /\ Results(a)
      /\ a.ok => /\ a.codec.audio = audio /\ HasInput(a.reg, audio)
                 /\ RouteLive(a.codec, a.reg) /\ (a.codec.route # None <=> c.route # None)
      /\ c.route = None => a.codec.route = None /\ a.reg["power"] = r["power"]
  BY Applied
<1>3. CASE a.ok /\ commits
  <2>1. x.change = a /\ x.outcome = "changed" /\ x.asked = TRUE
    BY <1>1, <1>3
  <2> QED
    BY <1>2, <1>3, <2>1 DEF Results, Leaves
<1>4. CASE ~(a.ok /\ commits)
  <2>1. PICK b \in RollBack(a.codec, a.reg, c) :
          x = [change |-> b, outcome |-> IF b.ok THEN "restored" ELSE "broken", asked |-> a.ok]
    BY <1>1, <1>4
  <2>2. x.change = b /\ x.asked = a.ok /\ x.outcome = IF b.ok THEN "restored" ELSE "broken"
    BY <2>1
  <2>3. a.codec \in Codecs /\ DOMAIN a.reg = Fields /\ a.ok \in BOOLEAN
    BY <1>2 DEF Results
  <2>4. c.route # None => c.route = c.audio.line
    BY DEF RouteLive
  <2>5. c.route = None => a.codec.route = None
    BY <1>2
  <2>6. /\ Results(b) /\ b.codec.audio = c.audio
        /\ b.ok => HasInput(b.reg, c.audio) /\ RouteLive(b.codec, b.reg)
        /\ ~b.ok => b.codec.route = None
        /\ c.route = None => b.codec.route = None /\ b.reg["power"] \in {a.reg["power"], FALSE}
    <3> DEFINE ac == a.codec
               ar == a.reg
    <3>1. ac \in Codecs /\ DOMAIN ar = Fields /\ b \in RollBack(ac, ar, c)
      BY <2>1, <2>3
    <3>2. Restorable(ac, c)
      BY <2>4, <2>5 DEF Restorable
    <3> HIDE DEF ac, ar
    <3>3. TakenBack(b, ar, c)
      BY <3>1, <3>2, RolledBack
    <3> QED
      BY <3>3 DEF ar, TakenBack
  <2>7. RouteLive(b.codec, b.reg)
    BY <2>6 DEF RouteLive, Results
  <2>8. x.outcome # "changed"
    BY <2>2
  <2>9. x.outcome # "broken" => b.ok
    BY <2>2
  <2> QED
    BY <1>2, <1>4, <2>2, <2>3, <2>6, <2>7, <2>8, <2>9 DEF Results, Leaves
<1> QED
  BY <1>3, <1>4
\* What the device shows agrees with the route and with the power.
Honest(c, r, out) ==
  /\ RouteLive(c, r) /\ out \in Outputs
  /\ out.active <=> c.route # None
  /\ r["power"] = FALSE \/ out.active \/ out.fault

LEMMA OutputFields ==
  /\ \A out \in Outputs : out.active \in BOOLEAN /\ out.fault \in BOOLEAN
  /\ Inactive \in Outputs /\ Faulted \in Outputs /\ Active \in Outputs
  /\ Inactive.active = FALSE /\ Faulted.active = FALSE /\ Faulted.fault = TRUE
  /\ Active.active = TRUE
BY DEF Outputs, Inactive, Faulted, Active

Follows(x, c, r) ==
  /\ x.codec \in Codecs /\ x.codec.audio = c.audio
  /\ DOMAIN x.reg = Fields /\ SameInput(x.reg, r)
  /\ Honest(x.codec, x.reg, x.output)

LEMMA ReconciledHonest ==
  ASSUME NEW c \in Codecs, NEW r, DOMAIN r = Fields, NEW out, Honest(c, r, out),
         NEW enabled \in BOOLEAN, NEW line \in DrivenLines, line = c.audio.line,
         NEW x \in Reconcile(out, enabled, line, c, r)
  PROVE  Follows(x, c, r)
<1>0. None \notin DrivenLines
  BY SettingsAssumption
<1>1. CASE ~enabled
  <2>1. PICK d \in Disable(c, r) : x = Reconciled(IF d.ok THEN Inactive ELSE Faulted, d)
    BY <1>1 DEF Reconcile
  <2>2. /\ x.codec = d.codec /\ x.reg = d.reg
        /\ x.output = IF d.ok THEN Inactive ELSE Faulted
    BY <2>1 DEF Reconciled
  <2>3. /\ Results(d) /\ d.codec.audio = c.audio /\ SameInput(d.reg, r) /\ d.codec.route = None
        /\ d.ok => d.reg["power"] = FALSE
    BY Disabled
  <2>4. Honest(d.codec, d.reg, x.output)
    BY <2>2, <2>3, OutputFields DEF Honest, RouteLive
  <2> QED
    BY <2>2, <2>3, <2>4 DEF Results, Follows
<1>2. CASE enabled /\ out.active
  <2>1. x = Reconciled(out, Result(c, r, TRUE))
    BY <1>2 DEF Reconcile
  <2>2. x.codec = c /\ x.reg = r /\ x.output = out
    BY <2>1 DEF Reconciled, Result
  <2> QED
    BY <2>2 DEF SameInput, Follows
<1>3. CASE enabled /\ ~out.active
  <2>1. PICK e \in Enable(c, r, line) :
          x \in IF e.ok THEN {Reconciled(Active, e)}
                ELSE {Reconciled(Faulted, d) : d \in Disable(e.codec, e.reg)}
    BY <1>3 DEF Reconcile
  <2>2. /\ Results(e) /\ e.codec.audio = c.audio /\ SameInput(e.reg, r)
        /\ e.ok => /\ e.codec.route = line /\ e.reg["source"] = line
                   /\ e.reg["mute"] = FALSE /\ e.reg["power"] = TRUE
        /\ ~e.ok => e.codec = c
    <3>1. Opened(e, c, r, line)
      BY <2>1, Enabled
    <3> QED
      BY <3>1, Zenon DEF Opened
  <2>3. CASE e.ok
    <3>1. x.codec = e.codec /\ x.reg = e.reg /\ x.output = Active
      BY <2>1, <2>3 DEF Reconciled
    <3>2. RouteLive(e.codec, e.reg)
      BY <2>2, <2>3 DEF RouteLive
    <3>3. Honest(e.codec, e.reg, Active)
      BY <1>0, <2>2, <2>3, <3>2, OutputFields DEF Honest
    <3> QED
      BY <2>2, <3>1, <3>3 DEF Results, Follows
  <2>4. CASE ~e.ok
    <3>1. PICK d \in Disable(e.codec, e.reg) : x = Reconciled(Faulted, d)
      BY <2>1, <2>4
    <3>2. x.codec = d.codec /\ x.reg = d.reg /\ x.output = Faulted
      BY <3>1 DEF Reconciled
    <3> DEFINE er == e.reg
    <3>3. e.codec = c /\ DOMAIN er = Fields /\ SameInput(er, r) /\ d \in Disable(c, er)
      BY <2>2, <2>4 DEF Results, Follows
    <3> HIDE DEF er
    <3>4. /\ Results(d) /\ d.codec.audio = c.audio /\ SameInput(d.reg, er)
          /\ d.codec.route = None
      BY <3>3, Disabled
    <3>5. Honest(d.codec, d.reg, Faulted)
      BY <3>4, OutputFields DEF Honest, RouteLive
    <3>6. SameInput(d.reg, r)
      BY <3>3, <3>4 DEF SameInput
    <3> QED
      BY <3>2, <3>4, <3>5, <3>6 DEF Results, Follows
  <2> QED
    BY <2>2, <2>3, <2>4 DEF Results, Follows
<1> QED
  BY <1>1, <1>2, <1>3

Configs == [audio : Audio, output : BOOLEAN]

LEMMA ConfigFields ==
  ASSUME NEW c \in Configs
  PROVE  c.audio \in Audio /\ c.output \in BOOLEAN /\ c.audio.line \in DrivenLines
BY DEF Configs, Audio

\* A codec that comes up has the settings, and an output that agrees.
Brought(x, c) ==
  /\ x.codec \in Codecs \cup {None} /\ DOMAIN x.reg = Fields /\ x.output \in Outputs
  /\ x.codec # None =>
       /\ x.codec \in Codecs /\ x.codec.audio = c.audio /\ HasInput(x.reg, c.audio)
       /\ Honest(x.codec, x.reg, x.output)

LEMMA UnknownFields ==
  DOMAIN Unknown = Fields /\ Unknown["power"] = FALSE
BY DEF Unknown, Fields

LEMMA NewCodecUp ==
  ASSUME NEW audio \in Audio, NEW n \in NewCodec(Unknown, audio)
  PROVE  /\ n.ok \in BOOLEAN
         /\ ~n.ok => n.reg = Unknown
         /\ n.ok => /\ n.codec \in Codecs /\ n.codec.audio = audio /\ n.codec.route = None
                    /\ DOMAIN n.reg = Fields /\ HasInput(n.reg, audio)
                    /\ n.reg["power"] = FALSE
<1> DEFINE fresh == [audio |-> audio, route |-> None]
<1>1. PICK o \in Configure(Unknown, audio) :
        n = IF o.ok THEN Result(fresh, o.reg, TRUE) ELSE Result(None, Unknown, FALSE)
  BY DEF NewCodec
<1>2. /\ o.ok \in BOOLEAN /\ DOMAIN o.reg = Fields
      /\ o.ok => HasInput(o.reg, audio) /\ o.reg["power"] = FALSE
  BY UnknownFields, Configured
<1>3. fresh \in Codecs /\ fresh.audio = audio /\ fresh.route = None
  BY DEF Codecs
<1> HIDE DEF fresh
<1>4. CASE o.ok
  <2>1. n.codec = fresh /\ n.reg = o.reg /\ n.ok = TRUE
    BY <1>1, <1>4 DEF Result
  <2> QED
    BY <1>2, <1>3, <1>4, <2>1
<1>5. CASE ~o.ok
  <2>1. n.reg = Unknown /\ n.ok = FALSE
    BY <1>1, <1>5 DEF Result
  <2> QED
    BY <2>1
<1> QED
  BY <1>4, <1>5

LEMMA StartCodecUp ==
  ASSUME NEW c \in Configs, NEW x \in StartCodec(c)
  PROVE  Brought(x, c)
<1>0. c.audio \in Audio /\ c.output \in BOOLEAN /\ c.audio.line \in DrivenLines
  BY ConfigFields
<1>1. PICK n \in NewCodec(Unknown, c.audio) :
        x \in IF ~n.ok THEN {NoCodec(c, n.reg)}
              ELSE IF c.output THEN Reconcile(Inactive, TRUE, c.audio.line, n.codec, n.reg)
              ELSE {[codec |-> n.codec, reg |-> n.reg, output |-> Inactive]}
  BY Zenon DEF StartCodec
<1> DEFINE audio == c.audio
<1>2. /\ n.ok \in BOOLEAN
      /\ ~n.ok => n.reg = Unknown
      /\ n.ok => /\ n.codec \in Codecs /\ n.codec.audio = audio /\ n.codec.route = None
                 /\ DOMAIN n.reg = Fields /\ HasInput(n.reg, audio)
                 /\ n.reg["power"] = FALSE
  <2>1. audio \in Audio /\ n \in NewCodec(Unknown, audio)
    BY <1>0
  <2> HIDE DEF audio
  <2> QED
    BY <2>1, NewCodecUp
<1>3. CASE ~n.ok
  <2>1. /\ x.codec = None /\ x.reg = n.reg
        /\ x.output = IF c.output THEN Faulted ELSE Inactive
    BY <1>1, <1>3 DEF NoCodec
  <2> QED
    BY <1>2, <1>3, <2>1, UnknownFields, OutputFields DEF Brought
<1>4. ASSUME n.ok PROVE Honest(n.codec, n.reg, Inactive)
  BY <1>2, <1>4, OutputFields DEF Honest, RouteLive
<1>5. CASE n.ok /\ c.output
  <2> DEFINE nc == n.codec
             nr == n.reg
  <2>1. /\ x \in Reconcile(Inactive, TRUE, audio.line, nc, nr)
        /\ nc \in Codecs /\ DOMAIN nr = Fields /\ Honest(nc, nr, Inactive)
        /\ audio.line \in DrivenLines /\ audio.line = nc.audio.line
        /\ nc.audio = audio /\ HasInput(nr, audio)
    BY <1>0, <1>1, <1>2, <1>4, <1>5
  <2> HIDE DEF nc, nr
  <2>2. /\ x.codec \in Codecs /\ x.codec.audio = nc.audio
        /\ DOMAIN x.reg = Fields /\ SameInput(x.reg, nr)
        /\ Honest(x.codec, x.reg, x.output)
    BY <2>1, ReconciledHonest DEF Follows
  <2>3. HasInput(x.reg, audio)
    BY <2>1, <2>2 DEF HasInput, SameInput
  <2>4. x.output \in Outputs
    BY <2>2 DEF Honest
  <2> QED
    BY <2>1, <2>2, <2>3, <2>4 DEF Brought
<1>6. CASE n.ok /\ ~c.output
  <2>1. x.codec = n.codec /\ x.reg = n.reg /\ x.output = Inactive
    BY <1>1, <1>6
  <2> QED
    BY <1>2, <1>4, <1>6, <2>1, OutputFields DEF Brought
<1> QED
  BY <1>2, <1>3, <1>5, <1>6
(* Values. *)

Catalogs ==
  [board : DOMAIN BoardTable, active : Profiles \cup {None},
   of : [Profiles -> Audio \cup {None}]]
Selections ==
  [id : DOMAIN BoardTable \cup {None}, custom : DOMAIN BoardTable \cup {None}]
Generations ==
  [board : Selections, config : Configs \cup {None}, profiles : Catalogs \cup {None}]

LEMMA BoardFacts ==
  ASSUME NEW id \in DOMAIN BoardTable
  PROVE  LET b == BoardTable[id]
         IN  /\ DefaultLine(b) \in DrivenLines /\ b.gainMax \in Nat
             /\ \A l : AcceptsLine(b, l) => l \in DrivenLines
             /\ \A l : NextLine(b, l) \in DrivenLines
<1> DEFINE b == BoardTable[id]
           lines == Lines(b)
<1>1. b \in Range(BoardTable)
  BY DEF Range
<1>2. lines \in Seq(DrivenLines) /\ lines # <<>> /\ b.gainMax \in Nat
  BY <1>1, SettingsAssumption
<1> HIDE DEF b, lines
<1>3. /\ Len(lines) \in Nat /\ Len(lines) # 0 /\ DOMAIN lines = 1 .. Len(lines)
      /\ \A i \in 1 .. Len(lines) : lines[i] \in DrivenLines
  BY <1>2
<1>4. lines[1] \in DrivenLines
  BY <1>3
<1>5. ASSUME NEW l, AcceptsLine(b, l) PROVE l \in DrivenLines
  BY <1>3, <1>5 DEF AcceptsLine, Range, lines
<1>6. ASSUME NEW l PROVE NextLine(b, l) \in DrivenLines
  <2>1. CASE AcceptsLine(b, l)
    <3> DEFINE at == CHOOSE i \in DOMAIN lines : lines[i] = l
    <3>1. \E i \in DOMAIN lines : lines[i] = l
      BY <2>1 DEF AcceptsLine, Range, lines
    <3>2. at \in DOMAIN lines
      BY <3>1
    <3>3. NextLine(b, l) = lines[(at % Len(lines)) + 1]
      BY <2>1 DEF NextLine, lines
    <3> HIDE DEF at
    <3>4. at \in Nat /\ Len(lines) \in Nat \ {0}
      BY <1>3, <3>2
    <3>5. at % Len(lines) \in 0 .. (Len(lines) - 1)
      BY <3>4
    <3>6. (at % Len(lines)) + 1 \in 1 .. Len(lines)
      BY <3>4, <3>5
    <3> QED
      BY <1>3, <3>3, <3>6
  <2>2. CASE ~AcceptsLine(b, l)
    BY <1>4, <2>2 DEF NextLine, lines
  <2> QED
    BY <2>1, <2>2
<1>7. DefaultLine(b) \in DrivenLines
  BY <1>4 DEF DefaultLine, lines
<1> QED
  BY <1>2, <1>5, <1>6, <1>7 DEF b

LEMMA AudioFields ==
  /\ \A a \in Audio : a.line \in DrivenLines /\ a.gain \in Nat
  /\ \A l \in DrivenLines, g \in Nat : [line |-> l, gain |-> g] \in Audio
  /\ \A a \in Audio, l \in DrivenLines : [a EXCEPT !.line = l] \in Audio
  /\ \A a \in Audio, g \in Nat : [a EXCEPT !.gain = g] \in Audio
BY DEF Audio

LEMMA BaselineTyped ==
  ASSUME NEW id \in DOMAIN BoardTable
  PROVE  Baseline(BoardTable[id]) \in Configs
BY BoardFacts, AudioFields DEF Baseline, Configs

LEMMA AudioOnTyped ==
  ASSUME NEW id \in DOMAIN BoardTable
  PROVE  AudioOn(BoardTable[id]) \subseteq Audio
BY BoardFacts DEF AudioOn, Audio

LEMMA CompatibleTyped ==
  ASSUME NEW id \in DOMAIN BoardTable, NEW c \in Configs
  PROVE  CompatibleConfig(BoardTable[id], c) \in Configs
<1> DEFINE b == BoardTable[id]
           a == CompatibleAudio(b, c.audio)
<1>1. c.audio.line \in DrivenLines /\ c.audio.gain \in Nat /\ c.output \in BOOLEAN
  BY DEF Configs, Audio
<1>2. DefaultLine(b) \in DrivenLines /\ b.gainMax \in Nat
  BY BoardFacts
<1> HIDE DEF b
<1>3. a \in Audio
  BY <1>1, <1>2 DEF CompatibleAudio, Audio
<1>4. CompatibleConfig(b, c) = [c EXCEPT !.audio = a, !.output = c.output /\ b.output # None]
  BY DEF CompatibleConfig
<1> HIDE DEF a
<1>5. CompatibleConfig(b, c) \in Configs
  BY <1>3, <1>4 DEF Configs
<1> QED
  BY <1>5 DEF b

LEMMA PressedTyped ==
  ASSUME NEW id \in DOMAIN BoardTable, NEW a \in Audio,
         NEW action \in {"cycle_input", "gain_up", "gain_down"}
  PROVE  Pressed(BoardTable[id], action, a) \in Audio
<1> DEFINE b == BoardTable[id]
<1>1. b.gainMax \in Nat /\ \A l : NextLine(b, l) \in DrivenLines
  BY BoardFacts
<1>2. a.gain \in Nat
  BY AudioFields
<1> HIDE DEF b
<1>3. GainStepOf(b) \in Nat
  BY <1>1 DEF GainStepOf, GainSteps
<1>4. SteppedUp(b, a.gain) \in Nat /\ SteppedDown(b, a.gain) \in Nat
  BY <1>1, <1>2, <1>3 DEF SteppedUp, SteppedDown
<1>5. Pressed(b, action, a) \in Audio
  <2>1. CASE action = "cycle_input"
    BY <1>1, <2>1, AudioFields DEF Pressed
  <2>2. CASE action = "gain_up"
    BY <1>4, <2>2, AudioFields DEF Pressed
  <2>3. CASE action = "gain_down"
    BY <1>4, <2>3, AudioFields DEF Pressed
  <2> QED
    BY <2>1, <2>2, <2>3
<1> QED
  BY <1>5 DEF b

LEMMA SelectTyped ==
  ASSUME NEW ids \in Images, NEW stored \in Selections
  PROVE  Select(ids, stored).id \in DOMAIN BoardTable
<1>1. DefaultId \in DOMAIN BoardTable /\ ids \subseteq DOMAIN BoardTable
  BY SettingsAssumption
<1>2. stored.custom # None => stored.custom \in DOMAIN BoardTable
  BY DEF Selections
<1>3. stored.id # None => stored.id \in DOMAIN BoardTable
  BY DEF Selections
<1> QED
  BY <1>1, <1>2, <1>3 DEF Select

LEMMA CatalogFields ==
  ASSUME NEW c \in Catalogs
  PROVE  /\ c.active \in Profiles \cup {None} /\ c.of \in [Profiles -> Audio \cup {None}]
         /\ [c EXCEPT !.active = None] \in Catalogs
         /\ ActiveAudio([c EXCEPT !.active = None]) = None
         /\ \A p \in Profiles : /\ [c EXCEPT !.active = p] \in Catalogs
                                /\ ActiveAudio([c EXCEPT !.active = p]) \in {None, c.of[p]}
<1>1. c.active \in Profiles \cup {None} /\ c.of \in [Profiles -> Audio \cup {None}]
  BY DEF Catalogs
<1>2. ASSUME NEW a \in Profiles \cup {None}
      PROVE  /\ [c EXCEPT !.active = a] \in Catalogs
             /\ [c EXCEPT !.active = a].active = a /\ [c EXCEPT !.active = a].of = c.of
  BY DEF Catalogs
<1>3. ActiveAudio([c EXCEPT !.active = None]) = None
  BY <1>2 DEF ActiveAudio
<1>4. ASSUME NEW p \in Profiles
      PROVE  ActiveAudio([c EXCEPT !.active = p]) \in {None, c.of[p]}
  BY <1>2 DEF ActiveAudio
<1> QED
  BY <1>1, <1>2, <1>3, <1>4

LEMMA EmptyTyped ==
  ASSUME NEW id \in DOMAIN BoardTable
  PROVE  EmptyCatalog(id) \in Catalogs /\ ActiveAudio(EmptyCatalog(id)) = None
BY DEF EmptyCatalog, Catalogs, ActiveAudio

LEMMA ReconciledTyped ==
  ASSUME NEW c \in Catalogs, NEW audio
  PROVE  /\ ReconciledCatalog(c, audio) \in Catalogs
         /\ ActiveAudio(ReconciledCatalog(c, audio)) \in {None, audio}
<1>1. [c EXCEPT !.active = None] \in Catalogs /\ ActiveAudio([c EXCEPT !.active = None]) = None
  BY CatalogFields
<1> QED
  BY <1>1 DEF ReconciledCatalog

LEMMA ReplacedTyped ==
  ASSUME catalog \in Catalogs, NEW of \in [Profiles -> Audio \cup {None}]
  PROVE  Replaced(of) \in Catalogs /\ ActiveAudio(Replaced(of)) \in {None, config.audio}
<1> DEFINE a == IF catalog.active # None /\ of[catalog.active] # None THEN catalog.active ELSE None
           c == [catalog EXCEPT !.of = of, !.active = a]
<1>1. a \in Profiles \cup {None}
  BY DEF Catalogs
<1>2. Replaced(of) = ReconciledCatalog(c, config.audio)
  BY DEF Replaced
<1> HIDE DEF a
<1>3. c \in Catalogs
  BY <1>1 DEF Catalogs
<1> HIDE DEF c
<1> QED
  BY <1>2, <1>3, ReconciledTyped
(* The device. *)

\* What the configuration, the flash and the hardware may hold.
SettingsTyped ==
  /\ builtin \in Images /\ board \in DOMAIN BoardTable
  /\ config \in Configs /\ catalog \in Catalogs /\ flash \in Generations
  /\ codec \in Codecs \cup {None} /\ DOMAIN reg = Fields /\ output \in Outputs

\* Until a restart is asked for, the codec runs with the configuration's input
\* and the device shows what its output does.
Settled ==
  ~restart /\ codec # None => codec.audio = config.audio /\ Honest(codec, reg, output)

SettingsInv == SettingsTyped /\ Settled

\* What the runs' two action properties say of a step.
MixedStep ==
  codec # None /\ codec' # None /\ InputApplied /\ ~InputApplied' /\ ~restart' => stream' # "on"
ProfileStep == ActiveProfileApplied /\ ~StartsAnew => ActiveProfileApplied'

LEMMA InputIs ==
  /\ InputApplied <=> (codec # None => HasInput(reg, config.audio))
  /\ InputApplied' <=> (codec' # None => HasInput(reg', config'.audio))
BY DEF InputApplied, HasInput

LEMMA WritesTyped ==
  ASSUME SettingsTyped, NEW c \in Configs, NEW cat \in Catalogs
  PROVE  /\ WithConfig(c) \in Generations /\ WithProfiles(cat) \in Generations
         /\ BothNext(c, cat) \in Generations /\ Erased \in Generations
<1>1. flash \in Generations /\ board \in DOMAIN BoardTable
  BY DEF SettingsTyped
<1> DEFINE id == IF flash.board.id = None THEN board ELSE flash.board.id
           sel == [flash.board EXCEPT !.id = id]
<1>2. flash.board \in Selections
  BY <1>1 DEF Generations
<1>3. sel \in Selections
  BY <1>1, <1>2 DEF Selections
<1>4. WithConfig(c) = [flash EXCEPT !.config = c, !.board = sel]
  BY <1>1, <1>2 DEF WithConfig, Generations, Selections
<1> HIDE DEF id, sel
<1>5. WithConfig(c) \in Generations
  BY <1>1, <1>3, <1>4 DEF Generations
<1>6. \A g \in Generations : [g EXCEPT !.profiles = cat] \in Generations
  BY DEF Generations
<1>7. WithProfiles(cat) \in Generations
  BY <1>1, <1>6 DEF WithProfiles
<1>8. BothNext(c, cat) \in Generations
  BY <1>5, <1>6, <1>7 DEF BothNext
<1>9. Erased \in Generations
  <2>1. Nothing \in Selections
    BY DEF Nothing, Selections
  <2> QED
    BY <2>1 DEF Erased, Generations
<1> QED
  BY <1>5, <1>7, <1>8, <1>9

LEMMA FlashTyped ==
  ASSUME SettingsTyped, NEW next \in Generations, Lands(next) \/ Fails(next)
  PROVE  flash' \in Generations
BY DEF SettingsTyped, Lands, Fails

\* A step that leaves the hardware alone, and the settings or the service.
LEMMA QuietKeeps ==
  ASSUME SettingsInv, UNCHANGED <<codec, reg, output>>,
         builtin' \in Images, board' \in DOMAIN BoardTable, flash' \in Generations,
         config' \in Configs, catalog' \in Catalogs,
         restart' = TRUE \/ (restart' = restart /\ config'.audio = config.audio)
  PROVE  SettingsInv' /\ MixedStep
<1>1. SettingsTyped'
  BY DEF SettingsInv, SettingsTyped
<1>2. Settled'
  BY DEF SettingsInv, Settled, Honest, RouteLive
<1>3. MixedStep
  BY InputIs DEF MixedStep
<1> QED
  BY <1>1, <1>2, <1>3 DEF SettingsInv

\* The device coming up, with or without a codec.
LEMMA StartedKeeps ==
  ASSUME builtin' \in Images, board' \in DOMAIN BoardTable, flash' \in Generations,
         config' \in Configs, catalog' \in Catalogs, NEW s, Brought(s, config'), Started(s)
  PROVE  SettingsInv' /\ MixedStep
<1>1. codec' = s.codec /\ reg' = s.reg /\ output' = s.output
  BY DEF Started
<1>2. SettingsTyped'
  BY <1>1 DEF Brought, SettingsTyped
<1>3. Settled'
  BY <1>1 DEF Brought, Settled
<1>4. codec' # None => HasInput(reg', config'.audio)
  BY <1>1 DEF Brought
<1>5. MixedStep
  BY <1>4, InputIs DEF MixedStep
<1> QED
  BY <1>2, <1>3, <1>5 DEF SettingsInv

LEMMA NothingUp ==
  ASSUME NEW c
  PROVE  Brought([codec |-> None, reg |-> Unknown, output |-> Inactive], c)
BY UnknownFields, OutputFields DEF Brought

LEMMA BootKeeps ==
  ASSUME SettingsInv, builtin' \in Images, UNCHANGED flash, Boot
  PROVE  SettingsInv' /\ MixedStep
<1> DEFINE selection == Select(builtin', flash.board)
           loaded == Loaded(selection)
<1>1. flash \in Generations /\ flash' \in Generations
  BY DEF SettingsInv, SettingsTyped
<1>2. /\ flash.board \in Selections /\ flash.config \in Configs \cup {None}
      /\ flash.profiles \in Catalogs \cup {None}
  BY <1>1 DEF Generations
<1>3. selection.id \in DOMAIN BoardTable
  BY <1>2, SelectTyped
<1>4. /\ board' = selection.id /\ catalog' = LoadedCatalog(selection)
      /\ IF loaded = None THEN StartSetup ELSE StartRecovery(loaded) \/ StartAudio(loaded)
  BY DEF Boot
<1> HIDE DEF selection
<1>5. loaded # None => loaded \in Configs
  BY <1>2 DEF Loaded
<1>6. catalog' \in Catalogs
  BY <1>2, <1>3, <1>4, EmptyTyped DEF LoadedCatalog
<1> HIDE DEF loaded
<1>7. board' \in DOMAIN BoardTable
  BY <1>3, <1>4
<1>8. \E s : config' \in Configs /\ Brought(s, config') /\ Started(s)
  <2>1. CASE StartSetup
    BY <1>7, <2>1, BaselineTyped, NothingUp DEF StartSetup
  <2>2. CASE loaded # None /\ StartRecovery(loaded)
    <3>1. config' = loaded /\ loaded \in Configs
      BY <1>5, <2>2 DEF StartRecovery
    <3>2. CASE \E s \in StartCodec(loaded) : Started(s)
      BY <3>1, <3>2, StartCodecUp
    <3>3. CASE Started([codec |-> None, reg |-> Unknown, output |-> Inactive])
      BY <3>1, <3>3, NothingUp
    <3> QED
      BY <2>2, <3>2, <3>3 DEF StartRecovery
  <2>3. CASE loaded # None /\ StartAudio(loaded)
    <3>1. config' = loaded /\ loaded \in Configs
      BY <1>5, <2>3 DEF StartAudio
    <3>2. \E s \in StartCodec(loaded) : Started(s)
      BY <2>3 DEF StartAudio
    <3> QED
      BY <3>1, <3>2, StartCodecUp
  <2> QED
    BY <1>4, <2>1, <2>2, <2>3
<1>9. PICK s : config' \in Configs /\ Brought(s, config') /\ Started(s)
  BY <1>8
<1> QED
  BY <1>1, <1>6, <1>7, <1>9, StartedKeeps

\* What a request commits of the configuration and the catalog, or leaves.
Commits(c, cat) ==
  /\ flash' \in Generations
  /\ (config' = c /\ catalog' = cat) \/ UNCHANGED memory

LEMMA BothTyped ==
  ASSUME SettingsTyped, NEW c \in Configs, NEW cat \in Catalogs,
         BothLand(c, cat) \/ BothFail(c, cat)
  PROVE  Commits(c, cat) /\ config' \in Configs /\ catalog' \in Catalogs
<1>1. BothNext(c, cat) \in Generations /\ config \in Configs /\ catalog \in Catalogs
  BY WritesTyped DEF SettingsTyped
<1>2. flash' \in Generations
  BY <1>1, FlashTyped DEF BothLand, BothFail
<1>3. (config' = c /\ catalog' = cat) \/ UNCHANGED memory
  BY DEF BothLand, BothFail
<1> QED
  BY <1>1, <1>2, <1>3 DEF Commits, memory

LEMMA ChangeKeeps ==
  ASSUME SettingsInv, ~restart, NEW audio \in Audio, NEW cat \in Catalogs,
         Change(audio, cat), UNCHANGED running
  PROVE  /\ SettingsInv' /\ MixedStep
         /\ UNCHANGED memory \/ (config'.audio = audio /\ catalog' = cat)
<1> DEFINE c == [config EXCEPT !.audio = audio]
<1>1. SettingsTyped /\ Settled
  BY DEF SettingsInv
<1>2. /\ config \in Configs /\ catalog \in Catalogs /\ builtin' \in Images
      /\ board' \in DOMAIN BoardTable /\ flash \in Generations
      /\ codec \in Codecs \cup {None} /\ DOMAIN reg = Fields /\ output \in Outputs
  BY <1>1 DEF SettingsTyped, running
<1>3. c \in Configs /\ c.audio = audio
  BY <1>2 DEF Configs
<1>4. ChangeWithoutCodec(c, cat) \/ ChangeWithCodec(c, cat)
  BY DEF Change
<1> HIDE DEF c
<1>5. CASE ChangeWithoutCodec(c, cat)
  <2>1. BothLand(c, cat) \/ BothFail(c, cat)
    BY <1>5 DEF ChangeWithoutCodec
  <2>2. Commits(c, cat) /\ config' \in Configs /\ catalog' \in Catalogs
    BY <1>1, <1>3, <2>1, BothTyped
  <2>3. UNCHANGED <<codec, reg, output>>
    BY <1>5 DEF ChangeWithoutCodec, hardware
  <2>4. restart' = TRUE \/ (restart' = restart /\ config'.audio = config.audio)
    BY <1>5 DEF ChangeWithoutCodec, BothFail, memory
  <2>5. flash' \in Generations
    BY <2>2 DEF Commits
  <2>6. SettingsInv' /\ MixedStep
    BY <1>2, <2>2, <2>3, <2>4, <2>5, QuietKeeps
  <2> QED
    BY <1>3, <2>2, <2>6 DEF Commits
<1>6. CASE ChangeWithCodec(c, cat)
  <2>1. PICK commits \in BOOLEAN : \E r \in ChangeAudio(codec, reg, c.audio, commits) :
       /\ codec' = r.change.codec /\ reg' = r.change.reg
       /\ output' = IF r.outcome # "changed" /\ output.active /\ codec'.route = None
                    THEN Faulted ELSE output
       /\ Paused(r.outcome)
       /\ IF ~r.asked THEN UNCHANGED <<flash, config, catalog>>
          ELSE IF commits THEN BothLand(c, cat)
          ELSE BothFail(c, cat)
    BY <1>6 DEF ChangeWithCodec
  <2>2. PICK x \in ChangeAudio(codec, reg, c.audio, commits) :
       /\ codec' = x.change.codec /\ reg' = x.change.reg
       /\ output' = IF x.outcome # "changed" /\ output.active /\ codec'.route = None
                    THEN Faulted ELSE output
       /\ Paused(x.outcome)
       /\ IF ~x.asked THEN UNCHANGED <<flash, config, catalog>>
          ELSE IF commits THEN BothLand(c, cat)
          ELSE BothFail(c, cat)
    BY <2>1
  <2>3. codec # None /\ UNCHANGED restart
    BY <1>6 DEF ChangeWithCodec
  <2>4. codec \in Codecs /\ codec.audio = config.audio /\ Honest(codec, reg, output)
    BY <1>1, <1>2, <2>3 DEF Settled
  <2>5. RouteLive(codec, reg) /\ (output.active <=> codec.route # None)
        /\ (reg["power"] = FALSE \/ output.active \/ output.fault)
    BY <2>4 DEF Honest
  <2>6. /\ codec' \in Codecs /\ DOMAIN reg' = Fields /\ RouteLive(codec', reg')
        /\ codec.route = None => codec'.route = None /\ reg'["power"] \in {reg["power"], FALSE}
        /\ x.asked \in BOOLEAN
        /\ x.outcome = "changed" <=> x.asked /\ commits
        /\ x.outcome = "changed" =>
             /\ codec'.audio = audio /\ HasInput(reg', audio)
             /\ (codec'.route # None <=> codec.route # None)
        /\ x.outcome # "changed" => codec'.audio = codec.audio
        /\ x.outcome \notin {"changed", "broken"} => HasInput(reg', codec.audio)
    <3>1. x \in ChangeAudio(codec, reg, audio, commits)
      BY <1>3, <2>2
    <3>2. Leaves(x, codec, reg, audio, commits)
      BY <1>2, <2>4, <2>5, <3>1, Changed
    <3>3. codec' = x.change.codec /\ reg' = x.change.reg
      BY <2>2
    <3> QED
      BY <3>2, <3>3 DEF Leaves
  <2>7. /\ flash' \in Generations /\ config' \in Configs /\ catalog' \in Catalogs
        /\ UNCHANGED memory \/ (config' = c /\ catalog' = cat)
    <3>1. CASE ~x.asked
      BY <1>2, <2>2, <3>1 DEF memory
    <3>2. CASE x.asked
      <4>1. BothLand(c, cat) \/ BothFail(c, cat)
        BY <2>2, <3>2
      <4> QED
        BY <1>1, <1>3, <4>1, BothTyped DEF Commits
    <3> QED
      BY <3>1, <3>2
  <2>8. codec'.audio = config'.audio
    <3>1. CASE x.outcome = "changed"
      <4>1. config' = c
        BY <2>2, <2>6, <3>1 DEF BothLand
      <4> QED
        BY <1>3, <2>6, <3>1, <4>1
    <3>2. CASE x.outcome # "changed"
      <4>1. config' = config
        BY <2>2, <2>6, <3>2 DEF BothFail, memory
      <4> QED
        BY <2>4, <2>6, <3>2, <4>1
    <3> QED
      BY <3>1, <3>2
  <2>9. Honest(codec', reg', output')
    <3>1. CASE x.outcome = "changed"
      <4>1. output' = output
        BY <2>2, <3>1
      <4>2. output.active <=> codec'.route # None
        BY <2>5, <2>6, <3>1
      <4>3. reg'["power"] = FALSE \/ output.active \/ output.fault
        BY <2>5, <2>6
      <4> QED
        BY <1>2, <2>6, <4>1, <4>2, <4>3 DEF Honest
    <3>2. CASE x.outcome # "changed" /\ output.active /\ codec'.route = None
      <4>1. output' = Faulted
        BY <2>2, <3>2
      <4> QED
        BY <2>6, <3>2, <4>1, OutputFields DEF Honest
    <3>3. CASE x.outcome # "changed" /\ ~(output.active /\ codec'.route = None)
      <4>1. output' = output
        BY <2>2, <3>3
      <4>2. output.active <=> codec'.route # None
        BY <2>5, <2>6, <3>3
      <4>3. reg'["power"] = FALSE \/ output.active \/ output.fault
        BY <2>5, <2>6
      <4> QED
        BY <1>2, <2>6, <4>1, <4>2, <4>3 DEF Honest
    <3> QED
      BY <3>1, <3>2, <3>3
  <2>a. SettingsTyped'
    BY <1>2, <2>6, <2>7, <2>9 DEF SettingsTyped, Honest
  <2>b. Settled'
    BY <2>8, <2>9 DEF Settled
  <2>c. MixedStep
    <3>1. CASE x.outcome = "broken"
      <4>1. stream' # "on"
        BY <2>2, <3>1 DEF Paused
      <4> QED
        BY <4>1 DEF MixedStep
    <3>2. CASE x.outcome # "broken"
      <4>1. HasInput(reg', codec'.audio)
        BY <2>6, <3>2
      <4>2. HasInput(reg', config'.audio)
        BY <2>8, <4>1
      <4> QED
        BY <4>2, InputIs DEF MixedStep
    <3> QED
      BY <3>1, <3>2
  <2> QED
    BY <1>3, <2>7, <2>a, <2>b, <2>c DEF SettingsInv
<1> QED
  BY <1>4, <1>5, <1>6
LEMMA ProfileKept ==
  ASSUME \/ ActiveAudio(catalog') \in {None, config'.audio}
         \/ UNCHANGED catalog /\ config'.audio = config.audio
  PROVE  ProfileStep
BY DEF ProfileStep, ActiveProfileApplied

\* What every step keeps.
StepKept == SettingsInv' /\ MixedStep /\ ProfileStep

LEMMA BootsKeep ==
  ASSUME SettingsInv, Reboot \/ PowerLoss \/ PressedRestart
  PROVE  StepKept
<1>1. builtin' \in Images /\ UNCHANGED flash /\ Boot
  BY DEF SettingsInv, SettingsTyped, Reboot, PowerLoss, PressedRestart
<1>2. SettingsInv' /\ MixedStep
  BY <1>1, BootKeeps
<1>3. ProfileStep
  BY DEF ProfileStep, StartsAnew
<1> QED
  BY <1>2, <1>3 DEF StepKept

\* A change of the settings under a catalog whose active profile agrees.
LEMMA ChangesKeep ==
  ASSUME SettingsInv, ~restart, NEW audio \in Audio, NEW cat \in Catalogs,
         ActiveAudio(cat) \in {None, audio}, Change(audio, cat), UNCHANGED running
  PROVE  StepKept
<1>1. /\ SettingsInv' /\ MixedStep
      /\ UNCHANGED memory \/ (config'.audio = audio /\ catalog' = cat)
  BY ChangeKeeps
<1>2. ProfileStep
  BY <1>1, ProfileKept DEF memory
<1> QED
  BY <1>1, <1>2 DEF StepKept

LEMMA AudioTo ==
  ASSUME SettingsInv, ~restart, NEW audio \in Audio, SetAudioTo(audio), UNCHANGED running
  PROVE  StepKept
<1>1. catalog \in Catalogs
  BY DEF SettingsInv, SettingsTyped
<1> DEFINE cat == [catalog EXCEPT !.active = None]
<1>2. cat \in Catalogs /\ ActiveAudio(cat) = None /\ Change(audio, cat)
  BY <1>1, CatalogFields DEF SetAudioTo
<1> HIDE DEF cat
<1> QED
  BY <1>2, ChangesKeep

LEMMA ProfilesKeep ==
  ASSUME SettingsInv, NEW cat \in Catalogs, ActiveAudio(cat) \in {None, config.audio},
         SaveProfiles(cat), UNCHANGED <<running, config, hardware, restart>>
  PROVE  StepKept
<1>1. SettingsTyped /\ WithProfiles(cat) \in Generations
  BY WritesTyped DEF SettingsInv, SettingsTyped
<1>2. flash' \in Generations
  BY <1>1, FlashTyped DEF SaveProfiles
<1>3. catalog' \in {cat, catalog} /\ config' = config
  BY DEF SaveProfiles
<1>4. UNCHANGED <<codec, reg, output>> /\ UNCHANGED <<builtin, board>>
  BY DEF hardware, running
<1>5. SettingsInv' /\ MixedStep
  BY <1>1, <1>2, <1>3, <1>4, QuietKeeps DEF SettingsTyped
<1>6. ProfileStep
  BY <1>3, ProfileKept
<1> QED
  BY <1>5, <1>6 DEF StepKept

\* A write of the configuration that leaves the audio settings, or restarts.
LEMMA WrittenKeeps ==
  ASSUME SettingsInv, NEW c \in Configs, Lands(WithConfig(c)) \/ Fails(WithConfig(c)) \/ UNCHANGED flash,
         UNCHANGED <<running, memory, hardware>>, restart' = TRUE \/ UNCHANGED restart
  PROVE  StepKept
<1>1. SettingsTyped /\ WithConfig(c) \in Generations /\ flash \in Generations
  BY WritesTyped DEF SettingsInv, SettingsTyped
<1>2. flash' \in Generations
  BY <1>1, FlashTyped
<1>3. UNCHANGED <<codec, reg, output>> /\ UNCHANGED <<builtin, board, config, catalog>>
  BY DEF hardware, running, memory
<1>4. SettingsInv' /\ MixedStep
  BY <1>1, <1>2, <1>3, QuietKeeps DEF SettingsTyped
<1>5. ProfileStep
  BY <1>3, ProfileKept
<1> QED
  BY <1>4, <1>5 DEF StepKept

LEMMA ErasedKeeps ==
  ASSUME SettingsInv, Lands(Erased) \/ Fails(Erased),
         UNCHANGED <<running, memory, hardware>>, restart' = TRUE \/ UNCHANGED restart
  PROVE  StepKept
<1>1. SettingsTyped /\ Erased \in Generations
  BY WritesTyped DEF SettingsInv, SettingsTyped
<1>2. flash' \in Generations
  BY <1>1, FlashTyped
<1>3. UNCHANGED <<codec, reg, output>> /\ UNCHANGED <<builtin, board, config, catalog>>
  BY DEF hardware, running, memory
<1>4. SettingsInv' /\ MixedStep
  BY <1>1, <1>2, <1>3, QuietKeeps DEF SettingsTyped
<1>5. ProfileStep
  BY <1>3, ProfileKept
<1> QED
  BY <1>4, <1>5 DEF StepKept

LEMMA StillKeeps ==
  ASSUME SettingsInv, UNCHANGED <<flash, running, memory, codec, reg, output>>,
         restart' = TRUE \/ UNCHANGED restart
  PROVE  StepKept
<1>1. SettingsTyped
  BY DEF SettingsInv
<1>2. UNCHANGED <<builtin, board, config, catalog>>
  BY DEF running, memory
<1>3. SettingsInv' /\ MixedStep
  BY <1>1, <1>2, QuietKeeps DEF SettingsTyped
<1>4. ProfileStep
  BY <1>2, ProfileKept
<1> QED
  BY <1>3, <1>4 DEF StepKept

LEMMA SetOutputKeeps == SettingsInv /\ SetOutput => StepKept
<1> SUFFICES ASSUME SettingsInv, SetOutput
             PROVE  StepKept
  OBVIOUS
<1>1. PICK enabled \in BOOLEAN :
        \/ /\ UpdateLands([config EXCEPT !.output = enabled])
           /\ ReconcileOutput(enabled)
        \/ /\ UpdateFails([config EXCEPT !.output = enabled])
           /\ UNCHANGED <<codec, reg, output>>
  BY DEF SetOutput
<1> DEFINE c == [config EXCEPT !.output = enabled]
<1>2. SettingsTyped /\ Settled
  BY DEF SettingsInv
<1>3. /\ config \in Configs /\ catalog \in Catalogs /\ builtin \in Images
      /\ board \in DOMAIN BoardTable /\ flash \in Generations
      /\ codec \in Codecs \cup {None} /\ DOMAIN reg = Fields /\ output \in Outputs
  BY <1>2 DEF SettingsTyped
<1>4. c \in Configs /\ c.audio = config.audio
  BY <1>3 DEF Configs
<1>5. ~restart /\ UNCHANGED restart /\ UNCHANGED <<builtin, board, catalog, stream>>
  BY DEF SetOutput, Accepting, running
<1> HIDE DEF c
<1>6. WithConfig(c) \in Generations
  BY <1>2, <1>3, <1>4, WritesTyped
<1>7. CASE UpdateFails(c) /\ UNCHANGED <<codec, reg, output>>
  <2>1. flash' \in Generations /\ config' = config
    BY <1>2, <1>6, <1>7, FlashTyped DEF UpdateFails
  <2>2. SettingsInv' /\ MixedStep
    BY <1>3, <1>5, <1>7, <2>1, QuietKeeps
  <2> QED
    BY <1>5, <2>1, <2>2, ProfileKept DEF StepKept
<1>8. CASE UpdateLands(c) /\ ReconcileOutput(enabled)
  <2>1. flash' \in Generations /\ config' = c
    BY <1>2, <1>3, <1>6, <1>8, FlashTyped DEF UpdateLands
  <2>2. CASE codec = None
    <3>1. UNCHANGED <<codec, reg>> /\ output' \in Outputs
      BY <1>8, <2>2, OutputFields DEF ReconcileOutput
    <3>2. SettingsInv'
      BY <1>3, <1>4, <1>5, <2>1, <2>2, <3>1 DEF SettingsInv, SettingsTyped, Settled
    <3>3. MixedStep
      BY <2>2 DEF MixedStep
    <3> QED
      BY <1>4, <1>5, <2>1, <3>2, <3>3, ProfileKept DEF StepKept
  <2>3. CASE codec # None
    <3>1. codec \in Codecs /\ codec.audio = config.audio /\ Honest(codec, reg, output)
      BY <1>2, <1>3, <1>5, <2>3 DEF Settled
    <3> DEFINE line == config.audio.line
    <3>2. line \in DrivenLines /\ line = codec.audio.line
      BY <1>3, <3>1, ConfigFields
    <3>3. PICK x \in Reconcile(output, enabled, line, codec, reg) :
            codec' = x.codec /\ reg' = x.reg /\ output' = x.output
      BY <1>8, <2>3 DEF ReconcileOutput
    <3> HIDE DEF line
    <3>4. Follows(x, codec, reg)
      BY <1>3, <3>1, <3>2, <3>3, ReconciledHonest
    <3>5. /\ codec' \in Codecs /\ codec'.audio = codec.audio
          /\ DOMAIN reg' = Fields /\ SameInput(reg', reg)
          /\ Honest(codec', reg', output')
      BY <3>3, <3>4 DEF Follows
    <3>6. SettingsInv'
      BY <1>3, <1>4, <1>5, <2>1, <3>1, <3>5 DEF SettingsInv, SettingsTyped, Settled, Honest
    <3>7. MixedStep
      <4>1. HasInput(reg, config.audio) => HasInput(reg', config'.audio)
        BY <1>4, <2>1, <3>5 DEF HasInput, SameInput
      <4> QED
        BY <4>1, InputIs DEF MixedStep
    <3> QED
      BY <1>4, <1>5, <2>1, <3>6, <3>7, ProfileKept DEF StepKept
  <2> QED
    BY <2>2, <2>3
<1> QED
  BY <1>1, <1>7, <1>8 DEF c

LEMMA SetBoardKeeps == SettingsInv /\ SetBoard => StepKept
<1> SUFFICES ASSUME SettingsInv, SetBoard
             PROVE  StepKept
  OBVIOUS
<1>1. PICK u \in Updates(builtin, Customs) :
        LET c == CompatibleConfig(BoardTable[u.id], config) IN
        \/ /\ Lands(BoardNext(u, c))
           /\ config' = c /\ catalog' = EmptyCatalog(u.id) /\ restart' = TRUE
        \/ Fails(BoardNext(u, c)) /\ UNCHANGED <<memory, restart>>
  BY DEF SetBoard
<1>2. SettingsTyped
  BY DEF SettingsInv
<1>3. /\ config \in Configs /\ catalog \in Catalogs /\ builtin \in Images
      /\ board \in DOMAIN BoardTable /\ flash \in Generations
  BY <1>2 DEF SettingsTyped
<1>4. u \in Selections /\ u.id \in DOMAIN BoardTable
  <2>1. builtin \subseteq DOMAIN BoardTable
    BY <1>3, SettingsAssumption
  <2> QED
    BY <2>1 DEF Updates, Customs, Selections
<1> DEFINE c == CompatibleConfig(BoardTable[u.id], config)
<1>5. c \in Configs
  BY <1>3, <1>4, CompatibleTyped
<1>6. EmptyCatalog(u.id) \in Catalogs /\ ActiveAudio(EmptyCatalog(u.id)) = None
  BY <1>4, EmptyTyped
<1> HIDE DEF c
<1>7. BoardNext(u, c) \in Generations
  BY <1>4, <1>5, <1>6 DEF BoardNext, Generations
<1>8. \/ /\ Lands(BoardNext(u, c))
         /\ config' = c /\ catalog' = EmptyCatalog(u.id) /\ restart' = TRUE
      \/ Fails(BoardNext(u, c)) /\ UNCHANGED <<memory, restart>>
  BY <1>1 DEF c
<1>9. flash' \in Generations
  BY <1>2, <1>7, <1>8, FlashTyped
<1>10. UNCHANGED <<codec, reg, output>> /\ UNCHANGED <<builtin, board>>
  BY DEF SetBoard, hardware, running
<1>11. /\ config' \in Configs /\ catalog' \in Catalogs
       /\ restart' = TRUE \/ (restart' = restart /\ config'.audio = config.audio)
  BY <1>3, <1>5, <1>6, <1>8 DEF memory
<1>12. SettingsInv' /\ MixedStep
  BY <1>3, <1>9, <1>10, <1>11, QuietKeeps
<1>13. ProfileStep
  BY <1>6, <1>8, ProfileKept DEF memory
<1> QED
  BY <1>12, <1>13 DEF StepKept

LEMMA SetAudioProfilesKeep == SettingsInv /\ SetAudioProfiles => StepKept
<1> SUFFICES ASSUME SettingsInv, SetAudioProfiles
             PROVE  StepKept
  OBVIOUS
<1>1. catalog \in Catalogs /\ board \in DOMAIN BoardTable
  BY DEF SettingsInv, SettingsTyped
<1>2. PICK of \in [Profiles -> AudioOn(B) \cup {None}] : SaveProfiles(Replaced(of))
  BY DEF SetAudioProfiles
<1>3. AudioOn(B) \subseteq Audio
  BY <1>1, AudioOnTyped DEF B
<1>4. of \in [Profiles -> Audio \cup {None}]
  BY <1>2, <1>3
<1>5. Replaced(of) \in Catalogs /\ ActiveAudio(Replaced(of)) \in {None, config.audio}
  BY <1>1, <1>4, ReplacedTyped
<1>6. UNCHANGED <<running, config, hardware, restart>>
  BY DEF SetAudioProfiles
<1> DEFINE cat == Replaced(of)
<1>7. cat \in Catalogs /\ ActiveAudio(cat) \in {None, config.audio} /\ SaveProfiles(cat)
  BY <1>2, <1>5
<1> HIDE DEF cat
<1> QED
  BY <1>6, <1>7, ProfilesKeep

LEMMA SetAudioProfileKeeps == SettingsInv /\ SetAudioProfile => StepKept
<1> SUFFICES ASSUME SettingsInv, SetAudioProfile
             PROVE  StepKept
  OBVIOUS
<1>1. PICK p \in Profiles :
        catalog.of[p] # None /\ Change(catalog.of[p], [catalog EXCEPT !.active = p])
  BY DEF SetAudioProfile
<1>2. catalog \in Catalogs /\ ~restart /\ UNCHANGED running
  BY DEF SettingsInv, SettingsTyped, SetAudioProfile, Accepting
<1> DEFINE audio == catalog.of[p]
           cat == [catalog EXCEPT !.active = p]
<1>3. audio \in Audio
  BY <1>1, <1>2, CatalogFields
<1>4. cat \in Catalogs /\ ActiveAudio(cat) \in {None, audio}
  BY <1>2, CatalogFields
<1>5. Change(audio, cat)
  BY <1>1
<1> HIDE DEF audio, cat
<1> QED
  BY <1>2, <1>3, <1>4, <1>5, ChangesKeep

LEMMA RewritesKeep ==
  ASSUME SettingsInv, Rewritten \/ SetTarget \/ Commission
  PROVE  StepKept
<1>1. config \in Configs
  BY DEF SettingsInv, SettingsTyped
<1>2. Lands(WithConfig(config)) \/ Fails(WithConfig(config)) \/ UNCHANGED flash
  BY DEF Rewritten, SetTarget, Commission, UpdateLands, UpdateFails
<1>3. UNCHANGED <<running, memory, hardware>>
  BY DEF Rewritten, SetTarget, Commission, UpdateLands, UpdateFails, memory
<1>4. restart' = TRUE \/ UNCHANGED restart
  BY DEF Rewritten, SetTarget, Commission
<1> QED
  BY <1>1, <1>2, <1>3, <1>4, WrittenKeeps

LEMMA PressKeeps == SettingsInv /\ Press => StepKept
<1> SUFFICES ASSUME SettingsInv, Press
             PROVE  StepKept
  OBVIOUS
<1>0. ~restart /\ SettingsTyped
  BY DEF Press, Accepting, SettingsInv
<1>1. CASE Toggle
  BY <1>1, StillKeeps DEF Toggle
<1>2. CASE Step
  <2>1. PICK action \in {"cycle_input", "gain_up", "gain_down"} :
          SetAudioTo(Pressed(B, action, config.audio)) /\ UNCHANGED running
    BY <1>2 DEF Step
  <2>2. board \in DOMAIN BoardTable /\ config.audio \in Audio
    BY <1>0, ConfigFields DEF SettingsTyped
  <2> DEFINE audio == Pressed(B, action, config.audio)
  <2>3. audio \in Audio
    BY <2>2, PressedTyped DEF B
  <2>4. SetAudioTo(audio) /\ UNCHANGED running
    BY <2>1
  <2> HIDE DEF audio
  <2> QED
    BY <1>0, <2>3, <2>4, AudioTo
<1>3. CASE PressedRestart
  BY <1>3, BootsKeep
<1>4. CASE PressedReset
  <2>1. CASE Fails(Erased) /\ UNCHANGED <<running, memory, hardware, restart>>
    BY <2>1, ErasedKeeps
  <2>2. CASE /\ flash' = Erased /\ UNCHANGED builtin
             /\ board' = DefaultId /\ catalog' = EmptyCatalog(DefaultId)
             /\ StartSetup /\ restart' = FALSE
    <3>1. DefaultId \in DOMAIN BoardTable
      BY SettingsAssumption
    <3>2. flash' \in Generations /\ builtin' \in Images
      BY <1>0, <2>2, WritesTyped DEF SettingsTyped
    <3>3. catalog' \in Catalogs /\ ActiveAudio(catalog') = None
      BY <2>2, <3>1, EmptyTyped
    <3>4. config' \in Configs
      BY <2>2, <3>1, BaselineTyped DEF StartSetup
    <3> DEFINE s == [codec |-> None, reg |-> Unknown, output |-> Inactive]
    <3>5. Brought(s, config') /\ Started(s)
      BY <2>2, NothingUp DEF StartSetup
    <3> HIDE DEF s
    <3>6. board' \in DOMAIN BoardTable
      BY <2>2, <3>1
    <3>7. SettingsInv' /\ MixedStep
      BY <3>2, <3>3, <3>4, <3>5, <3>6, StartedKeeps
    <3> QED
      BY <3>3, <3>7, ProfileKept DEF StepKept
  <2> QED
    BY <1>4, <2>1, <2>2 DEF PressedReset
<1> QED
  BY <1>1, <1>2, <1>3, <1>4 DEF Press

LEMMA SettingsNext == SettingsInv /\ [Next]_vars => StepKept
<1> SUFFICES ASSUME SettingsInv, [Next]_vars
             PROVE  StepKept
  OBVIOUS
<1>0. CASE UNCHANGED vars
  BY <1>0, StillKeeps DEF vars, running, memory
<1>1. CASE Reboot \/ PowerLoss
  BY <1>1, BootsKeep
<1>2. CASE SetAudio
  <2>1. PICK audio \in AudioOn(B) : SetAudioTo(audio) /\ UNCHANGED running
    BY <1>2 DEF SetAudio
  <2>2. AudioOn(B) \subseteq Audio /\ ~restart
    BY <1>2, AudioOnTyped DEF B, SettingsInv, SettingsTyped, SetAudio, Accepting
  <2>3. audio \in Audio
    BY <2>1, <2>2
  <2> QED
    BY <2>1, <2>2, <2>3, AudioTo
<1>3. CASE SetAudioProfiles
  BY <1>3, SetAudioProfilesKeep
<1>4. CASE SetAudioProfile
  BY <1>4, SetAudioProfileKeeps
<1>5. CASE ClearAudioProfile
  <2> DEFINE cat == [catalog EXCEPT !.active = None]
  <2>1. cat \in Catalogs /\ ActiveAudio(cat) = None
    BY CatalogFields DEF SettingsInv, SettingsTyped
  <2>2. SaveProfiles(cat) /\ UNCHANGED <<running, config, hardware, restart>>
    BY <1>5 DEF ClearAudioProfile
  <2> HIDE DEF cat
  <2> QED
    BY <2>1, <2>2, ProfilesKeep
<1>6. CASE SetOutput
  BY <1>6, SetOutputKeeps
<1>7. CASE SetTarget \/ Commission
  BY <1>7, RewritesKeep
<1>8. CASE SetBoard
  BY <1>8, SetBoardKeeps
<1>9. CASE FactoryReset
  BY <1>9, ErasedKeeps DEF FactoryReset
<1>10. CASE SetStream \/ RequestRestart
  BY <1>10, StillKeeps DEF SetStream, RequestRestart, hardware
<1>11. CASE SetName \/ SetAdminKey \/ SetFirmware \/ SetLed \/ SetButton
  BY <1>11, RewritesKeep DEF SetName, SetAdminKey, SetFirmware, SetLed, SetButton
<1>12. CASE Press
  BY <1>12, PressKeeps
<1> QED
  BY <1>0, <1>1, <1>2, <1>3, <1>4, <1>5, <1>6, <1>7, <1>8, <1>9, <1>10, <1>11, <1>12 DEF Next

LEMMA SettingsInit == Init => SettingsInv
<1> SUFFICES ASSUME Init
             PROVE  SettingsInv
  OBVIOUS
<1>1. DefaultId \in DOMAIN BoardTable
  BY SettingsAssumption
<1>2. config \in Configs /\ catalog \in Catalogs
  BY <1>1, BaselineTyped, EmptyTyped DEF Init
<1>3. flash \in Generations
  BY DEF Init, Erased, Generations, Nothing, Selections
<1>4. DOMAIN reg = Fields /\ output \in Outputs /\ codec = None
  BY UnknownFields, OutputFields DEF Init
<1> QED
  BY <1>1, <1>2, <1>3, <1>4 DEF Init, SettingsInv, SettingsTyped, Settled

(***************************************************************************)
(* The inductive invariant: types, and until a restart is asked for the    *)
(* codec runs with the configuration's settings, an open route carries     *)
(* their line powered and unmuted, and the device shows it.                *)
(***************************************************************************)
THEOREM SettingsInductive == Spec => []SettingsInv
<1>1. SettingsInv /\ [Next]_vars => SettingsInv'
  BY SettingsNext DEF StepKept
<1> QED
  BY <1>1, SettingsInit, PTL DEF Spec

(***************************************************************************)
(* The local output is shown active exactly while it is routed, carries    *)
(* the configured input powered and unmuted, and is never left powered     *)
(* without being active or shown as a fault (analog_passthrough.rs,        *)
(* CodecControl and AnalogPassthroughState).                               *)
(***************************************************************************)
THEOREM OutputShown == Spec => []OutputHonest
<1>1. SettingsInv => OutputHonest
  <2> SUFFICES ASSUME SettingsInv, codec # None, ~restart
               PROVE  /\ output.active <=> codec.route # None
                      /\ output.active =>
                           /\ codec.route = config.audio.line /\ reg.source = codec.route
                           /\ reg.power /\ ~reg.mute
                      /\ reg.power => output.active \/ output.fault
    BY Zenon DEF OutputHonest
  <2>1. codec.audio = config.audio /\ Honest(codec, reg, output)
    BY DEF SettingsInv, Settled
  <2>2. output.active <=> codec.route # None
    BY <2>1 DEF Honest
  <2>3. ASSUME output.active
        PROVE  /\ codec.route = config.audio.line /\ reg["source"] = codec.route
               /\ reg["power"] = TRUE /\ reg["mute"] = FALSE
    BY <2>1, <2>2, <2>3 DEF Honest, RouteLive
  <2>4. reg["power"] = FALSE \/ output.active \/ output.fault
    BY <2>1 DEF Honest
  <2> QED
    BY <2>2, <2>3, <2>4
<1> QED
  BY <1>1, SettingsInductive, PTL

(***************************************************************************)
(* No failing register write or flash write leaves the codec capturing     *)
(* with other settings than the configuration's while the stream is on     *)
(* (analog_passthrough.rs, change_audio, and handlers/audio.rs).           *)
(***************************************************************************)
THEOREM MixedPauses == Spec => MixedInputPauses
<1>1. SettingsInv /\ [Next]_vars => MixedStep
  BY SettingsNext DEF StepKept
<1> QED
  BY <1>1, SettingsInductive, PTL DEF Spec, MixedInputPauses, MixedStep

(***************************************************************************)
(* No request, press or failed write parts an active profile from the      *)
(* settings in force (profiles.rs and handlers/audio.rs).                  *)
(***************************************************************************)
THEOREM ProfileStays == Spec => ProfileStaysApplied
<1>1. SettingsInv /\ [Next]_vars => ProfileStep
  BY SettingsNext DEF StepKept
<1> QED
  BY <1>1, SettingsInductive, PTL DEF Spec, ProfileStaysApplied, ProfileStep
=============================================================================
