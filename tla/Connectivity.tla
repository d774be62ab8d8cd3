----------------------------- MODULE Connectivity -----------------------------
(***************************************************************************)
(* The device's way to its network and back (firmware main.rs,             *)
(* adapters/wifi.rs, reconnect.rs, setup_network.rs, adapters/nvs.rs): the *)
(* boot that mints the setup network's password once, joins the saved      *)
(* Wi-Fi or opens the setup access point, and serves; and the loop that    *)
(* reconnects, leaves recovery, and updates by itself on a schedule.       *)
(*                                                                         *)
(* A step that fails with an error restarts the device, which may also     *)
(* lose power anywhere.  The HTTP server and the OTA task run beside the   *)
(* loop: a request may restart the device or start an update at any step.  *)
(* Delays are counted in ticks; only their order matters.                  *)
(***************************************************************************)
EXTENDS Integers, Sequences, FiniteSets

CONSTANTS
  ConnectAttempts,     \* CONNECT_ATTEMPTS
  RejoinDelay,         \* RECONNECT_INITIAL_DELAY
  RejoinInterval,      \* RECONNECT_INTERVAL
  AutoDelay,           \* AUTO_UPDATE_INITIAL_DELAY
  AutoRetry,           \* the minute after an update that could not start
  Daily, Weekly,       \* the schedules' intervals
  Passwords,           \* setup-network passwords
  Absent, Garbled      \* no password in NVS, and one of a foreign shape

ASSUME NetAssumption ==
  Daily \in Nat /\ Weekly \in Nat /\ Daily <= Weekly /\ AutoRetry \in Nat

VARIABLES
  storedPassword,      \* in NVS, which a factory reset does not clear
  served,              \* what this boot serves and shows
  label,               \* what the owner noted from it
  saved,               \* flash holds a configuration
  schedule,            \* its auto_update_schedule
  home,                \* the saved network is there
  station,             \* "off", "associated" or "leased"
  stage,               \* of the boot
  tries,               \* of connect_station
  netMode,             \* Mode
  loopAt,              \* where the loop is
  rejoin,              \* ReconnectTimer, as ticks since the last attempt
  auto,                \* AutoUpdateTimer, likewise
  audible,             \* StreamStatus.playing
  otaBusy,             \* an OTA worker is reserved
  restarting,          \* a restart is pending
  sinceUpdate          \* ticks since the loop last started an update itself

bootVars == <<storedPassword, served, label, stage, tries, netMode>>
flashVars == <<saved, schedule>>
loopVars == <<loopAt, rejoin, auto, sinceUpdate>>
envVars == <<home, audible>>
netVars == <<storedPassword, served, label, saved, schedule, home, station, stage, tries,
             netMode, loopAt, rejoin, auto, audible, otaBusy, restarting, sinceUpdate>>

Schedules == {"disabled", "daily", "weekly"}
Interval == [daily |-> Daily, weekly |-> Weekly]
Longest == Weekly + 1
NoRetry == -1

-----------------------------------------------------------------------------
(***************************************************************************)
(* The timers.  Ages are since the last attempt, or since boot before one. *)
(***************************************************************************)
NewRejoin == [tried |-> FALSE, age |-> 0]
RejoinOnce == ~rejoin.tried /\ rejoin.age >= RejoinDelay
RejoinDue == rejoin.age >= IF rejoin.tried THEN RejoinInterval ELSE RejoinDelay

NewAuto == [tried |-> FALSE, age |-> 0, retryIn |-> NoRetry]
AutoDue ==
  /\ schedule # "disabled" /\ ~audible
  /\ IF auto.retryIn # NoRetry THEN auto.retryIn = 0
     ELSE auto.age >= IF auto.tried THEN Interval[schedule] ELSE AutoDelay
TakenWithRetry == [tried |-> TRUE, age |-> 0, retryIn |-> auto.retryIn]
Taken == [tried |-> TRUE, age |-> 0, retryIn |-> NoRetry]
StartFailed == [auto EXCEPT !.retryIn = AutoRetry]

Capped(n, limit) == IF n > limit THEN limit ELSE n

\* The wait for the control lock is short against a tick.
Tick ==
  /\ stage = "ready" /\ loopAt # "updating"
  /\ rejoin' = [rejoin EXCEPT !.age = Capped(@ + 1, RejoinInterval)]
  /\ auto' = [auto EXCEPT !.age = Capped(@ + 1, Longest),
                          !.retryIn = IF @ > 0 THEN @ - 1 ELSE @]
  /\ sinceUpdate' = Capped(sinceUpdate + 1, Longest)
  /\ UNCHANGED <<bootVars, flashVars, envVars, station, loopAt, otaBusy, restarting>>

-----------------------------------------------------------------------------
(***************************************************************************)
(* Boot.                                                                   *)
(***************************************************************************)
Starting ==
  /\ stage' = "password" /\ tries' = 1 /\ netMode' = "none" /\ served' = Absent
  /\ station' = "off" /\ loopAt' = "waiting"
  /\ rejoin' = NewRejoin /\ auto' = NewAuto
  /\ otaBusy' = FALSE /\ restarting' = FALSE
  \* A day may have passed without power.
  /\ sinceUpdate' = Longest

Restarts == Starting /\ UNCHANGED <<storedPassword, label, flashVars, envVars>>

\* main restarts the device on any error; the restart worker on request.
Error == stage # "ready" /\ Restarts
RestartWorker == restarting /\ Restarts

Minted == Passwords \ {storedPassword, label}

UnreadableIsAbsent(read) == read \in Passwords

\* A password of the generated shape is kept; a failure to read it is an error.
KeepPassword(read) == read \in Passwords \cup {"unreadable"}

Proceed(password) ==
  /\ served' = password /\ stage' = "join"
  /\ label' = IF label = Absent THEN password ELSE label
  /\ UNCHANGED <<tries, netMode, flashVars, envVars, station, loopVars, otaBusy, restarting>>

\* ensure_setup_network_password; the serial log shows what it returns.
SetupPassword ==
  /\ stage = "password"
  /\ \E read \in {storedPassword, "unreadable"} :
       \/ /\ KeepPassword(read) /\ read # "unreadable"
          /\ Proceed(read) /\ UNCHANGED storedPassword
       \/ /\ ~KeepPassword(read)
          /\ \E p \in Minted : storedPassword' = p /\ Proceed(p)

\* The write reports an error; what it wrote may be there.
MintFails ==
  /\ stage = "password" /\ storedPassword \notin Passwords
  /\ storedPassword' \in {storedPassword} \cup Minted
  /\ Starting
  /\ UNCHANGED <<label, flashVars, envVars>>

Serving(m) ==
  /\ netMode' = m /\ stage' = "serve"
  /\ UNCHANGED <<storedPassword, served, label, tries, flashVars, envVars, loopVars, otaBusy,
                 restarting>>

\* start_setup: nothing is saved, or the saved network did not answer.
OpenSetup == stage = "join" /\ ~saved /\ Serving("setup") /\ UNCHANGED station

\* connect_station: association and address, in bounded attempts.
Join ==
  /\ stage = "join" /\ saved /\ home
  /\ Serving("provisioned") /\ station' = "leased"

JoinFails ==
  /\ stage = "join" /\ saved
  /\ station' = "off"
  /\ IF tries < ConnectAttempts
     THEN /\ tries' = tries + 1
          /\ UNCHANGED <<storedPassword, served, label, stage, netMode, flashVars, envVars,
                         loopVars, otaBusy, restarting>>
     ELSE Serving("recovery")

\* boot_health::start: the server, then, provisioned, its probes and the
\* confirmation of the slot.
Ready ==
  /\ stage = "serve"
  /\ stage' = "ready"
  /\ UNCHANGED <<storedPassword, served, label, tries, netMode, flashVars, envVars, station,
                 loopVars, otaBusy, restarting>>

-----------------------------------------------------------------------------
(***************************************************************************)
(* The loop, which does nothing while a restart is pending.                *)
(***************************************************************************)
InLoop(at) == stage = "ready" /\ loopAt = at
LoopGoes(to) == loopAt' = to
KeepBoot == UNCHANGED <<bootVars, flashVars, envVars>>

\* The rejoin timer is taken: a lost link when provisioned, always in recovery.
TakeRejoin ==
  /\ InLoop("waiting") /\ ~restarting
  /\ netMode = "recovery" \/ (netMode = "provisioned" /\ station # "leased")
  /\ RejoinDue
  /\ rejoin' = [tried |-> TRUE, age |-> 0]
  /\ LoopGoes("connecting")
  /\ UNCHANGED <<auto, sinceUpdate, station, otaBusy, restarting>> /\ KeepBoot

\* reconnect_station: an attempt while the address is there already is a
\* success; else association is tried and the address polled for.
StillLeased == InLoop("connecting") /\ station = "leased" /\ LoopGoes("connected")
               /\ UNCHANGED station

Associate ==
  /\ InLoop("connecting") /\ station # "leased" /\ home
  /\ station' = "associated" /\ LoopGoes("polling")

RetryFails == InLoop("connecting") /\ station # "leased" /\ LoopGoes("waiting")
              /\ UNCHANGED station

Polled ==
  /\ InLoop("polling")
  /\ LoopGoes(IF station = "leased" THEN "connected" ELSE "waiting")
  /\ UNCHANGED station

KeepLoop == UNCHANGED <<rejoin, auto, sinceUpdate, otaBusy>> /\ KeepBoot

Reconnect ==
  /\ StillLeased \/ RetryFails \/ Polled
  /\ UNCHANGED restarting /\ KeepLoop

Association == Associate /\ UNCHANGED restarting /\ KeepLoop

\* In recovery the management probes pass, and request_when_idle restarts
\* unless an update or a restart is on its way.
LeaveRecovery ==
  /\ InLoop("connected") /\ netMode = "recovery" /\ ~restarting /\ ~otaBusy
  /\ restarting' = TRUE /\ LoopGoes("waiting")
  /\ UNCHANGED station /\ KeepLoop

\* Provisioned, reconnecting was all; in recovery a probe failed or it is busy.
StayConnected ==
  /\ InLoop("connected") /\ LoopGoes("waiting")
  /\ UNCHANGED <<station, restarting>> /\ KeepLoop

\* The schedule's turn is taken; then the control lock is waited for.
TakeUpdate ==
  /\ InLoop("waiting") /\ ~restarting /\ netMode = "provisioned"
  /\ AutoDue
  /\ auto' = Taken
  /\ LoopGoes("updating")
  /\ UNCHANGED <<rejoin, sinceUpdate, station, otaBusy, restarting>> /\ KeepBoot

\* spawn_update is refused by an update at work, and may fail to start.
Update ==
  /\ InLoop("updating")
  /\ LoopGoes("waiting")
  /\ \/ restarting /\ UNCHANGED <<auto, otaBusy, sinceUpdate>>
     \/ ~restarting /\ ~otaBusy
        /\ otaBusy' = TRUE /\ sinceUpdate' = 0 /\ UNCHANGED auto
     \/ ~restarting /\ auto' = StartFailed /\ UNCHANGED <<otaBusy, sinceUpdate>>
  /\ UNCHANGED <<rejoin, station, restarting>> /\ KeepBoot

Loop ==
  \/ TakeRejoin \/ Reconnect \/ Association \/ LeaveRecovery \/ StayConnected
  \/ TakeUpdate \/ Update

-----------------------------------------------------------------------------
(***************************************************************************)
(* What happens beside it.                                                 *)
(***************************************************************************)
\* POST handlers, which a pending restart refuses.
Requested ==
  /\ stage = "ready" /\ ~restarting
  /\ \/ otaBusy' = TRUE /\ ~otaBusy /\ UNCHANGED <<saved, schedule, restarting>>
     \/ schedule' \in Schedules \ {schedule} /\ saved
        /\ UNCHANGED <<saved, otaBusy, restarting>>
     \/ saved' = TRUE /\ restarting' = TRUE /\ UNCHANGED <<schedule, otaBusy>>
     \/ saved' = FALSE /\ restarting' = TRUE /\ schedule' = "daily" /\ UNCHANGED otaBusy
  /\ UNCHANGED <<bootVars, envVars, station, loopVars>>

\* The worker's report, or the reboot into what it installed.
OtaEnds ==
  /\ otaBusy
  /\ \/ /\ otaBusy' = FALSE
        /\ UNCHANGED <<bootVars, flashVars, envVars, station, loopVars, restarting>>
     \/ Restarts

\* The access point answers an association with an address, sooner or later.
Lease ==
  /\ station = "associated" /\ home
  /\ station' = "leased"
  /\ UNCHANGED <<bootVars, flashVars, envVars, loopVars, otaBusy, restarting>>

HomeChanges ==
  /\ home' = ~home
  /\ station' = IF home THEN "off" ELSE station
  /\ UNCHANGED <<bootVars, flashVars, audible, loopVars, otaBusy, restarting>>

LinkDrops ==
  /\ station # "off" /\ station' = "off"
  /\ UNCHANGED <<bootVars, flashVars, envVars, loopVars, otaBusy, restarting>>

AudioChanges ==
  /\ audible' = ~audible
  /\ UNCHANGED <<bootVars, flashVars, home, station, loopVars, otaBusy, restarting>>

PowerFails == Restarts

\* The password's record is damaged: the label is void.
Corrupted ==
  /\ storedPassword \in Passwords
  /\ storedPassword' = Garbled /\ label' = Absent
  /\ Starting
  /\ UNCHANGED <<flashVars, envVars>>

NetInit ==
  /\ storedPassword = Absent /\ served = Absent /\ label = Absent
  /\ saved \in BOOLEAN /\ schedule = "daily"
  /\ home \in BOOLEAN /\ audible = FALSE
  /\ station = "off" /\ stage = "password" /\ tries = 1 /\ netMode = "none"
  /\ loopAt = "waiting" /\ rejoin = NewRejoin /\ auto = NewAuto
  /\ otaBusy = FALSE /\ restarting = FALSE /\ sinceUpdate = Longest

BootStep == SetupPassword \/ OpenSetup \/ Join \/ JoinFails \/ Ready \/ RestartWorker

NetNext ==
  \/ BootStep \/ MintFails \/ Error \/ Loop \/ Tick \/ Requested \/ OtaEnds \/ Lease
  \/ HomeChanges \/ LinkDrops \/ AudioChanges \/ PowerFails \/ Corrupted

\* Boot and loop go on, time passes, and an update ends (each wait in it is
\* bounded).  A network that is there answers in time if it is asked again and
\* again, and the probes of a device that serves pass.
NetFairness ==
  /\ WF_netVars(SetupPassword) /\ WF_netVars(OpenSetup) /\ WF_netVars(JoinFails)
  /\ WF_netVars(Ready) /\ WF_netVars(RestartWorker) /\ WF_netVars(Tick)
  /\ WF_netVars(Reconnect) /\ WF_netVars(StayConnected) /\ WF_netVars(TakeUpdate)
  /\ WF_netVars(Update) /\ WF_netVars(OtaEnds) /\ SF_netVars(TakeRejoin)
  /\ SF_netVars(Join) /\ SF_netVars(Association) /\ SF_netVars(Lease)
  /\ SF_netVars(LeaveRecovery)

-----------------------------------------------------------------------------
(***************************************************************************)
(* The label stays true: whatever fails to be read or written, the setup   *)
(* network never gets another password than the one the owner noted.       *)
(***************************************************************************)
LabelStaysTrue == label # Absent /\ served # Absent => served = label

(***************************************************************************)
(* Once the saved network stays, the device comes to it and comes back to  *)
(* it: from recovery, whatever update was running there, and after a lost  *)
(* link, if requests do not restart it for ever and links last.            *)
(***************************************************************************)
RejoinsHome ==
  <>[](home /\ saved) /\ <>[][~Requested /\ ~LinkDrops]_netVars
    => []<>(netMode = "provisioned" /\ station = "leased")

(***************************************************************************)
(* Within a boot the updates the device starts by itself are a day apart:  *)
(* the early retry of one that could not start does not outlive it.        *)
(***************************************************************************)
UpdatesSpaced ==
  [][loopAt = "updating" /\ loopAt' = "waiting" /\ ~otaBusy /\ otaBusy'
     => sinceUpdate >= Daily]_netVars
=============================================================================
