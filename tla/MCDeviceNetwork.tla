---------------------------- MODULE MCDeviceNetwork ----------------------------
(***************************************************************************)
(* The device's network and its play detection for TLC, which run on their *)
(* own clocks: a behaviour is one of the two, named by "part".  What the   *)
(* network does with a detector's verdict is Connectivity's "audible".     *)
(***************************************************************************)
EXTENDS Connectivity, PlayDetector

VARIABLE part

NetworkInit ==
  /\ part \in {"network", "play"}
  /\ NetInit /\ (part # "network" => ~saved /\ ~home)
  /\ PlayInit

NetworkNext ==
  /\ UNCHANGED part
  /\ IF part = "network" THEN NetNext ELSE UNCHANGED netVars
  /\ IF part = "play" THEN PlayNext ELSE UNCHANGED playVars

OnNetwork == part = "network"

\* NetFairness of the part that runs; packets come for as long as capture does.
NetworkFairness ==
  /\ WF_netVars(OnNetwork /\ SetupPassword) /\ WF_netVars(OnNetwork /\ OpenSetup)
  /\ WF_netVars(OnNetwork /\ JoinFails) /\ WF_netVars(OnNetwork /\ Ready)
  /\ WF_netVars(OnNetwork /\ RestartWorker) /\ WF_netVars(OnNetwork /\ Tick)
  /\ WF_netVars(OnNetwork /\ Reconnect) /\ WF_netVars(OnNetwork /\ StayConnected)
  /\ WF_netVars(OnNetwork /\ TakeUpdate) /\ WF_netVars(OnNetwork /\ Update)
  /\ WF_netVars(OnNetwork /\ OtaEnds) /\ SF_netVars(OnNetwork /\ TakeRejoin)
  /\ SF_netVars(OnNetwork /\ Join) /\ SF_netVars(OnNetwork /\ Association)
  /\ SF_netVars(OnNetwork /\ Lease) /\ SF_netVars(OnNetwork /\ LeaveRecovery)
  /\ WF_playVars(part = "play" /\ Measure)

NetworkSpec ==
  NetworkInit /\ [][NetworkNext]_<<part, netVars, playVars>> /\ NetworkFairness

-----------------------------------------------------------------------------
\* Levels see each channel by itself, at both ends of the 16-bit range.
ASSUME LevelsAreMeasured ==
  LET Packet3(a, b, c) == << <<a, 0>>, <<b, 0>>, <<c, 0>> >> IN
  /\ LevelOf(<<>>, 1) = [peak |-> 0, rms |-> 0, clipped |-> 0]
  /\ \A a \in {0, 1, 32759, 32760, 32767, 32768, 32776, 65535}, b, c \in {0, 1, 255} :
       LET l == LevelOf(Packet3(a, b, c), 1)
       IN /\ l.rms <= l.peak /\ l.peak <= FullScale
          /\ l.clipped = (IF a \in {32760, 32767, 32768, 32776} THEN 1 ELSE 0)
          /\ LevelOf(Packet3(a, b, c), 2) = [peak |-> 0, rms |-> 0, clipped |-> 0]
=============================================================================
