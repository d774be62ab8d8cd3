------------------------------ MODULE MCRecording ------------------------------
(***************************************************************************)
(* A session's writer and its files for TLC.  The session hands the store  *)
(* finished chunks and an outcome, and the store's failures are among the  *)
(* session's own: a behaviour is one of the two, named by "part", with the *)
(* other in its initial state.                                             *)
(***************************************************************************)
EXTENDS RecordingStore, RecordingSession

VARIABLE part

recordingVars == <<part, vars, sessionVars>>

RecordingInit == part \in {"session", "store"} /\ Init /\ SessionInit

RecordingNext ==
  \/ part = "session" /\ SessionNext /\ UNCHANGED <<part, vars>>
  \/ part = "store" /\ Next /\ UNCHANGED <<part, sessionVars>>

\* SessionFairSpec's fairness, of the part that runs.
RecordingSpec ==
  /\ RecordingInit /\ [][RecordingNext]_recordingVars
  /\ WF_sessionVars(part = "session" /\ (Consume \/ FinishSession))
  /\ WF_sessionVars(part = "session" /\ (Stop \/ Joined))
=============================================================================
