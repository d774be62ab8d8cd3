--------------------------- MODULE RecordingStore ---------------------------
(***************************************************************************)
(* The files of one recording (recording/store.py, wav.py): captured into  *)
(* a part file, finalized and renamed to the WAV, described by a manifest, *)
(* deleted, and recovered when the bridge starts after it stopped at any   *)
(* point.  Names are changed one directory operation at a time and are     *)
(* durable once the directory is synced; what a file holds is durable once *)
(* the file is.                                                            *)
(***************************************************************************)
EXTENDS Naturals

CONSTANTS
  MaxFrames,            \* bound of the model: frames captured
  MaxCrashes,           \* bound of the model: crashes
  None

Manifests == [frames : 0 .. MaxFrames, state : {"complete", "interrupted"}]

ASSUME RecordingStoreAssumption ==
  MaxFrames \in Nat /\ MaxCrashes \in Nat /\ None \notin {"part", "wav"} \cup Manifests

VARIABLES
  file,         \* the audio: frames held, synced, and declared by its header
  dir,          \* its name, and the manifest
  past,         \* what the directory may be found as after a crash
  phase,        \* what the session's writer or the recovery does next
  outcome,      \* what the manifest being saved will say
  recovering,   \* the bridge is starting
  active,       \* the session is listed as active
  failed,       \* a file operation failed since the bridge started
  deleter,      \* how far a call of delete has come
  captured,     \* frames the session wrote
  crashes

call == <<deleter, active>>
vars == <<file, dir, past, phase, outcome, recovering, failed, call, captured, crashes>>

Dirs == [name : {"part", "wav", None}, manifest : Manifests \cup {None}]

NoFile == [frames |-> 0, synced |-> 0, header |-> 0]

Init ==
  /\ file = NoFile
  /\ dir = [name |-> None, manifest |-> None]
  /\ past = {dir}
  /\ phase = "new" /\ outcome = "complete" /\ recovering = FALSE
  /\ active = FALSE /\ failed = FALSE /\ deleter = "idle"
  /\ captured = 0 /\ crashes = 0

-----------------------------------------------------------------------------
(***************************************************************************)
(* Directory operations.                                                   *)
(***************************************************************************)
Becomes(d) == dir' = d /\ past' = past \cup {d}

Renamed == [dir EXCEPT !.name = "wav"]
Unlinked == [dir EXCEPT !.name = None]
Described == [dir EXCEPT !.manifest = [frames |-> file.frames, state |-> outcome]]
Undescribed == [dir EXCEPT !.manifest = None]

SyncDirectory == past' = {dir} /\ dir' = dir

-----------------------------------------------------------------------------
(***************************************************************************)
(* The session: capture, then publish.                                     *)
(***************************************************************************)
CreatePart ==
  /\ phase = "new"
  /\ Becomes([dir EXCEPT !.name = "part"])
  /\ phase' = "record" /\ active' = TRUE
  /\ UNCHANGED <<file, outcome, recovering, failed, deleter, captured, crashes>>

AppendFrame ==
  /\ phase = "record" /\ captured < MaxFrames
  /\ file' = [file EXCEPT !.frames = @ + 1]
  /\ captured' = captured + 1
  /\ UNCHANGED <<dir, past, phase, outcome, recovering, failed, call, crashes>>

\* The session was stopped or interrupted.
Finish ==
  /\ phase = "record"
  /\ outcome' \in {"complete", "interrupted"}
  /\ phase' = IF file.frames = 0 THEN "discard" ELSE "finalize"
  /\ UNCHANGED <<file, dir, past, recovering, failed, call, captured, crashes>>

\* A frame cannot be written: what came before it is finalized as interrupted.
AppendFails ==
  /\ phase = "record" /\ captured < MaxFrames
  /\ captured' = captured + 1
  /\ outcome' = "interrupted"
  /\ phase' = IF file.frames = 0 THEN "discard" ELSE "finalize"
  /\ UNCHANGED <<file, dir, past, recovering, failed, call, crashes>>

Discard ==
  /\ phase = "discard"
  /\ Becomes(Unlinked)
  /\ phase' = IF recovering THEN "orphan" ELSE "idle"
  /\ UNCHANGED <<file, outcome, recovering, failed, call, captured, crashes>>

WriteHeader == file' = [file EXCEPT !.header = file.frames]
Synced == [file EXCEPT !.header = file.frames, !.synced = file.frames]
SyncFile == file' = Synced

\* The length is written into the header and the file synced.
Finalize ==
  /\ phase = "finalize"
  /\ SyncFile
  /\ phase' = "publish"
  /\ UNCHANGED <<dir, past, outcome, recovering, failed, call, captured, crashes>>

Publish ==
  /\ phase = "publish"
  /\ Becomes(Renamed)
  /\ phase' = "sync"
  /\ UNCHANGED <<file, outcome, recovering, failed, call, captured, crashes>>

Sync ==
  /\ phase = "sync"
  /\ SyncDirectory
  /\ phase' = "manifest"
  /\ UNCHANGED <<file, outcome, recovering, failed, call, captured, crashes>>

SaveManifest ==
  /\ phase = "manifest"
  /\ Becomes(Described)
  /\ phase' = "sync-manifest"
  /\ UNCHANGED <<file, outcome, recovering, failed, call, captured, crashes>>

SyncManifest ==
  /\ phase = "sync-manifest"
  /\ SyncDirectory
  /\ phase' = IF recovering THEN "orphan" ELSE "idle"
  /\ UNCHANGED <<file, outcome, recovering, failed, call, captured, crashes>>

\* A later operation fails: the session syncs its part if it can, and the
\* files are left as they are for the next start.
Fails ==
  /\ phase \in {"discard", "finalize", "publish", "sync", "manifest", "sync-manifest"}
  /\ \/ UNCHANGED file
     \/ /\ dir.name = "part" /\ ~recovering
        /\ file' = [file EXCEPT !.synced = file.frames]
  /\ failed' = TRUE
  /\ phase' = IF recovering THEN "orphan" ELSE "idle"
  /\ UNCHANGED <<dir, past, outcome, recovering, call, captured, crashes>>

-----------------------------------------------------------------------------
(***************************************************************************)
(* The API: a session is active until it is stopped or has ended; an       *)
(* inactive recording that has a WAV may be deleted.                       *)
(***************************************************************************)
Inactive ==
  /\ active
  /\ active' = FALSE
  /\ UNCHANGED <<file, dir, past, phase, outcome, recovering, failed, deleter, captured, crashes>>

Delete(from, to, d) ==
  /\ deleter = from /\ deleter' = to
  /\ Becomes(d)
  /\ UNCHANGED <<file, phase, outcome, recovering, failed, active, captured, crashes>>

DeleteWav ==
  /\ ~recovering /\ phase # "down" /\ ~active /\ dir.name = "wav"
  /\ Delete("idle", "unlinked", Unlinked)

DeleteManifest == Delete("unlinked", "undescribed", Undescribed)

SyncDelete ==
  /\ deleter = "undescribed" /\ deleter' = "deleted"
  /\ SyncDirectory
  /\ UNCHANGED <<file, phase, outcome, recovering, failed, active, captured, crashes>>

-----------------------------------------------------------------------------
(***************************************************************************)
(* Crash and recovery: a part is repaired and published as interrupted,    *)
(* then a WAV without a manifest gets one.                                 *)
(***************************************************************************)
Crash ==
  /\ phase \notin {"new", "down"} /\ crashes < MaxCrashes
  /\ crashes' = crashes + 1
  /\ dir' \in past /\ past' = {dir'}
  /\ \E n \in file.synced .. file.frames :
       file' = IF dir'.name = None THEN NoFile
               ELSE [file EXCEPT !.frames = n, !.synced = n]
  /\ phase' = "down" /\ active' = FALSE /\ failed' = FALSE
  /\ deleter' = IF deleter = "deleted" THEN "deleted" ELSE "idle"
  /\ UNCHANGED <<outcome, recovering, captured>>

Repair ==
  IF dir.name # "part" THEN "orphan" ELSE IF file.frames = 0 THEN "discard" ELSE "finalize"

RecoveredComplete == "complete"
RecoveredOutcome == "interrupted"

RecoverPart ==
  /\ phase = "down"
  /\ recovering' = TRUE /\ outcome' = RecoveredOutcome
  /\ phase' = Repair
  /\ UNCHANGED <<file, dir, past, failed, call, captured, crashes>>

NeedsManifest == dir.name = "wav" /\ dir.manifest = None

RecoverManifest ==
  /\ phase = "orphan" /\ NeedsManifest
  /\ phase' = "manifest"
  /\ UNCHANGED <<file, dir, past, outcome, recovering, failed, call, captured, crashes>>

Recovered ==
  /\ phase = "orphan" /\ (NeedsManifest => failed)
  /\ phase' = "idle" /\ recovering' = FALSE
  /\ UNCHANGED <<file, dir, past, outcome, failed, call, captured, crashes>>

Session ==
  \/ CreatePart \/ AppendFrame \/ AppendFails \/ Finish \/ Discard \/ Finalize \/ Publish \/ Sync
  \/ SaveManifest \/ SyncManifest \/ Fails

Api == Inactive \/ DeleteWav \/ DeleteManifest \/ SyncDelete

Next == Session \/ Api \/ Crash \/ RecoverPart \/ RecoverManifest \/ Recovered

Spec == Init /\ [][Next]_vars

-----------------------------------------------------------------------------
(* The files are well formed. *)
TypeOK ==
  /\ file \in [frames : 0 .. MaxFrames, synced : 0 .. MaxFrames, header : 0 .. MaxFrames]
  /\ file.synced <= file.frames
  /\ dir \in past /\ past \subseteq Dirs
  /\ phase \in {"new", "record", "discard", "finalize", "publish", "sync", "manifest",
                "sync-manifest", "idle", "down", "orphan"}
  /\ outcome \in {"complete", "interrupted"}
  /\ recovering \in BOOLEAN /\ active \in BOOLEAN /\ failed \in BOOLEAN
  /\ deleter \in {"idle", "unlinked", "undescribed", "deleted"}
  /\ captured \in 0 .. MaxFrames /\ crashes \in 0 .. MaxCrashes

\* What list_saved shows when it finds a directory d.
Lists(d) == d.name = "wav" /\ d.manifest # None /\ d.manifest.frames = file.frames

(***************************************************************************)
(* A WAV can be played as it stands, whenever the bridge stopped.          *)
(***************************************************************************)
WavPlayable == dir.name = "wav" => file.header = file.frames

(***************************************************************************)
(* Captured audio is not discarded: once a session or the recovery is      *)
(* over, whatever audio is on disk is listed, and still is if the bridge   *)
(* stops now, unless it was deleted or a file operation failed.            *)
(***************************************************************************)
AudioListed ==
  phase = "idle" /\ ~failed /\ deleter = "idle" /\ file.frames > 0 =>
    \A d \in past : Lists(d)

(***************************************************************************)
(* A recording listed as complete holds everything that was captured, also *)
(* if the bridge stopped while it was finalized.                           *)
(***************************************************************************)
CompleteIsWhole ==
  Lists(dir) /\ dir.manifest.state = "complete" => file.frames = captured

(***************************************************************************)
(* A deleted recording is gone, however the bridge stops and whatever its  *)
(* session was still writing.                                              *)
(***************************************************************************)
DeletedIsGone == deleter = "deleted" => \A d \in past : d.name = None

(***************************************************************************)
(* The listing tells what is on disk: audio that was captured is listed,   *)
(* one called complete is whole, one that was deleted is gone.             *)
(***************************************************************************)
ListingTells == AudioListed /\ CompleteIsWhole /\ DeletedIsGone

(***************************************************************************)
(* docs/recordings.md:105, "Delete an inactive WAV and its manifest":      *)
(* once the delete and the session are over, no manifest is left.  The     *)
(* code does not keep it: a stopped session is inactive while it still     *)
(* finalizes, and writes its manifest after the delete.                    *)
(***************************************************************************)
DeletesManifest == deleter = "deleted" /\ phase = "idle" => dir.manifest = None
=============================================================================
