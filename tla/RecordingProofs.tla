------------------------- MODULE RecordingProofs -------------------------
(***************************************************************************)
(* A WAV can be played whenever the bridge stops, for recordings of any    *)
(* length and any number of crashes.                                       *)
(*                                                                         *)
(* WavPlayable is not inductive: a crash may bring back an older directory *)
(* and cut the file back to what was synced.  Published says the same of   *)
(* every directory a crash may bring back, adds that the audio is synced,  *)
(* and covers the steps from the sync to the rename.                       *)
(***************************************************************************)
EXTENDS RecordingStore, RecordingSession, TLAPS

Files == [frames : 0 .. MaxFrames, synced : 0 .. MaxFrames, header : 0 .. MaxFrames]

Phases == {"new", "record", "discard", "finalize", "publish", "sync", "manifest",
           "sync-manifest", "idle", "down", "orphan"}

FileInv ==
  /\ file \in Files /\ file.synced <= file.frames
  /\ captured \in 0 .. MaxFrames /\ file.frames <= captured

DirInv == dir \in past /\ past \subseteq Dirs

CallInv ==
  /\ phase \in Phases
  /\ outcome \in {"complete", "interrupted"}
  /\ recovering \in BOOLEAN /\ active \in BOOLEAN /\ failed \in BOOLEAN
  /\ deleter \in {"idle", "unlinked", "undescribed", "deleted"}
  /\ crashes \in 0 .. MaxCrashes

Whole == file.header = file.frames /\ file.synced = file.frames

Published ==
  /\ (\E d \in past : d.name = "wav") => Whole /\ phase \notin {"new", "record"}
  /\ phase = "publish" => Whole

IInv == FileInv /\ DirInv /\ CallInv /\ Published

LEMMA InitIInv == Init => IInv
<1> SUFFICES ASSUME Init PROVE IInv
  OBVIOUS
<1>1. FileInv
  BY RecordingStoreAssumption DEF Init, FileInv, Files, NoFile
<1>2. CallInv
  <2>1. recovering \in BOOLEAN /\ active \in BOOLEAN /\ failed \in BOOLEAN
    BY DEF Init
  <2>2. crashes \in 0 .. MaxCrashes
    BY RecordingStoreAssumption DEF Init
  <2> QED BY <2>1, <2>2 DEF Init, CallInv, Phases
<1>3. dir \in Dirs /\ dir.name # "wav" /\ past = {dir}
  BY RecordingStoreAssumption DEF Init, Dirs
<1>4. DirInv
  BY <1>3 DEF DirInv
<1>5. Published
  BY <1>3 DEF Init, Published
<1> QED BY <1>1, <1>2, <1>4, <1>5 DEF IInv

-----------------------------------------------------------------------------
(* The directories the operations make. *)

LEMMA NewDirs ==
  ASSUME IInv
  PROVE  /\ [dir EXCEPT !.name = "part"] \in Dirs /\ [dir EXCEPT !.name = "part"].name = "part"
         /\ Renamed \in Dirs
         /\ Unlinked \in Dirs /\ Unlinked.name = None
         /\ Described \in Dirs /\ Described.name = dir.name
         /\ Undescribed \in Dirs /\ Undescribed.name = dir.name
<1>1. dir \in Dirs
  BY DEF IInv, DirInv
<1>2. [frames |-> file.frames, state |-> outcome] \in Manifests
  BY DEF IInv, FileInv, CallInv, Files, Manifests
<1> QED BY <1>1, <1>2 DEF Dirs, Renamed, Unlinked, Described, Undescribed

\* An operation on the directory that leaves the audio its name, or takes it.
LEMMA DirStep ==
  ASSUME IInv, NEW d \in Dirs, Becomes(d),
         d.name = "wav" => dir.name = "wav" \/ (Whole /\ phase = "publish"),
         UNCHANGED <<file, captured>>, CallInv',
         phase' \in {"new", "record"} => phase = "new" /\ d.name # "wav",
         phase' = "publish" => phase = "publish"
  PROVE  IInv'
<1>1. dir' = d /\ past' = past \cup {d}
  BY DEF Becomes
<1>2. DirInv' /\ FileInv'
  BY <1>1 DEF IInv, DirInv, FileInv
<1>3. Published'
  <2>1. ASSUME NEW e \in past', e.name = "wav"
        PROVE  Whole' /\ phase' \notin {"new", "record"}
    <3>1. Whole
      BY <1>1, <2>1 DEF IInv, Published, DirInv
    <3>2. phase' \notin {"new", "record"}
      BY <1>1, <2>1 DEF IInv, Published, DirInv
    <3> QED BY <3>1, <3>2 DEF Whole
  <2>2. phase' = "publish" => Whole'
    BY DEF IInv, Published, Whole
  <2> QED BY <2>1, <2>2 DEF Published
<1> QED BY <1>2, <1>3 DEF IInv

LEMMA SyncStep ==
  ASSUME IInv, SyncDirectory, UNCHANGED <<file, captured>>, CallInv',
         phase' \in {"new", "record", "publish"} => phase' = phase
  PROVE  IInv'
BY DEF IInv, SyncDirectory, FileInv, DirInv, Published, Whole

\* Neither the files nor the directory change.
LEMMA QuietStep ==
  ASSUME IInv, UNCHANGED <<file, dir, past, captured>>, CallInv',
         phase' \in {"new", "record", "publish"} => phase' = phase
  PROVE  IInv'
BY DEF IInv, FileInv, DirInv, Published, Whole

-----------------------------------------------------------------------------
LEMMA CaptureStep == IInv /\ (CreatePart \/ AppendFrame \/ AppendFails \/ Finish) => IInv'
<1> SUFFICES ASSUME IInv, CreatePart \/ AppendFrame \/ AppendFails \/ Finish PROVE IInv'
  OBVIOUS
<1>1. CASE CreatePart
  <2>1. CallInv'
    BY <1>1 DEF CreatePart, call, IInv, CallInv, Phases
  <2> QED BY <1>1, <2>1, NewDirs, DirStep DEF CreatePart
<1>2. CASE AppendFrame
  <2>1. /\ file' = [file EXCEPT !.frames = @ + 1] /\ captured' = captured + 1
        /\ captured < MaxFrames /\ phase = "record" /\ phase' = phase
        /\ UNCHANGED <<dir, past, outcome, recovering, failed, deleter, active, crashes>>
    BY <1>2 DEF AppendFrame, call
  <2>2. FileInv'
    BY <2>1, RecordingStoreAssumption DEF IInv, FileInv, Files
  <2>3. CallInv' /\ DirInv'
    BY <2>1 DEF IInv, CallInv, DirInv
  <2>4. Published'
    BY <2>1 DEF IInv, Published
  <2> QED BY <2>2, <2>3, <2>4 DEF IInv
<1>3. CASE AppendFails
  <2>1. /\ captured < MaxFrames /\ captured' = captured + 1 /\ outcome' = "interrupted"
        /\ phase' \in {"discard", "finalize"}
        /\ UNCHANGED <<file, dir, past, recovering, failed, deleter, active, crashes>>
    BY <1>3 DEF AppendFails, call
  <2>2. FileInv'
    BY <2>1, RecordingStoreAssumption DEF IInv, FileInv, Files
  <2>3. CallInv' /\ DirInv'
    BY <2>1 DEF IInv, CallInv, DirInv, Phases
  <2>4. Published'
    BY <2>1 DEF IInv, Published, Whole
  <2> QED BY <2>2, <2>3, <2>4 DEF IInv
<1>4. CASE Finish
  <2>1. CallInv' /\ phase' \in {"discard", "finalize"}
    BY <1>4 DEF Finish, call, IInv, CallInv, Phases
  <2>2. UNCHANGED <<file, dir, past, captured>>
    BY <1>4 DEF Finish
  <2> QED BY <2>1, <2>2, QuietStep
<1> QED BY <1>1, <1>2, <1>3, <1>4

LEMMA FinalizeStep == IInv /\ Finalize => IInv'
<1> SUFFICES ASSUME IInv, Finalize PROVE IInv'
  OBVIOUS
<1>1. /\ file' = [file EXCEPT !.header = file.frames, !.synced = file.frames]
      /\ phase = "finalize" /\ phase' = "publish"
      /\ UNCHANGED <<dir, past, outcome, recovering, failed, deleter, active, captured, crashes>>
  BY DEF Finalize, SyncFile, Synced, call
<1>2. FileInv' /\ Whole'
  <2>1. file \in Files /\ file' = [file EXCEPT !.header = file.frames, !.synced = file.frames]
    BY <1>1 DEF IInv, FileInv
  <2>2. /\ file' \in Files
        /\ file'.frames = file.frames /\ file'.header = file.frames /\ file'.synced = file.frames
    BY <2>1 DEF Files
  <2> QED BY <1>1, <2>1, <2>2 DEF IInv, FileInv, Files, Whole
<1>3. CallInv' /\ DirInv'
  BY <1>1 DEF IInv, CallInv, DirInv, Phases
<1> QED BY <1>1, <1>2, <1>3 DEF IInv, Published

LEMMA PublishStep ==
  IInv /\ (Discard \/ Publish \/ Sync \/ SaveManifest \/ SyncManifest) => IInv'
<1> SUFFICES ASSUME IInv, Discard \/ Publish \/ Sync \/ SaveManifest \/ SyncManifest
             PROVE  IInv'
  OBVIOUS
<1>1. /\ UNCHANGED <<file, captured>> /\ CallInv'
      /\ phase' \in {"orphan", "idle", "sync", "manifest", "sync-manifest"}
  BY DEF Discard, Publish, Sync, SaveManifest, SyncManifest, call, IInv, CallInv, Phases
<1>2. CASE Discard
  BY <1>1, <1>2, NewDirs, DirStep, RecordingStoreAssumption DEF Discard
<1>3. CASE Publish
  BY <1>1, <1>3, NewDirs, DirStep DEF Publish, IInv, Published
<1>4. CASE Sync
  BY <1>1, <1>4, SyncStep DEF Sync
<1>5. CASE SaveManifest
  BY <1>1, <1>5, NewDirs, DirStep DEF SaveManifest
<1>6. CASE SyncManifest
  BY <1>1, <1>6, SyncStep DEF SyncManifest
<1> QED BY <1>2, <1>3, <1>4, <1>5, <1>6

LEMMA FailsStep == IInv /\ Fails => IInv'
<1> SUFFICES ASSUME IInv, Fails PROVE IInv'
  OBVIOUS
<1>1. /\ UNCHANGED <<dir, past, captured>> /\ phase' \in {"orphan", "idle"} /\ CallInv'
      /\ phase \in {"discard", "finalize", "publish", "sync", "manifest", "sync-manifest"}
  BY DEF Fails, call, IInv, CallInv, Phases
<1>2. CASE UNCHANGED file
  BY <1>1, <1>2, QuietStep
<1>3. CASE file' = [file EXCEPT !.synced = file.frames]
  <2>1. FileInv' /\ (Whole => Whole')
    BY <1>1, <1>3 DEF IInv, FileInv, Files, Whole
  <2> QED BY <1>1, <2>1 DEF IInv, DirInv, Published
<1> QED BY <1>2, <1>3 DEF Fails

LEMMA ApiStep == IInv /\ Api => IInv'
<1> SUFFICES ASSUME IInv, Api PROVE IInv'
  OBVIOUS
<1>1. CASE Inactive
  <2>1. CallInv'
    BY <1>1 DEF Inactive, IInv, CallInv
  <2> QED BY <1>1, <2>1, QuietStep DEF Inactive
<1>2. CASE DeleteWav
  <2>1. CallInv'
    BY <1>2 DEF DeleteWav, Delete, IInv, CallInv
  <2>4. UNCHANGED <<file, captured, phase>> /\ Becomes(Unlinked)
    BY <1>2 DEF DeleteWav, Delete
  <2>2. phase # "new" /\ dir.name = "wav"
    BY <1>2 DEF DeleteWav, IInv, DirInv, Published
  <2>3. phase \notin {"new", "record"}
    BY <2>2 DEF IInv, DirInv, Published
  <2> QED BY <2>1, <2>2, <2>3, <2>4, NewDirs, DirStep, RecordingStoreAssumption
<1>3. CASE DeleteManifest
  <2>1. CallInv'
    BY <1>3 DEF DeleteManifest, Delete, IInv, CallInv
  <2>2. DirInv' /\ FileInv'
    BY <1>3, NewDirs DEF DeleteManifest, Delete, Becomes, IInv, DirInv, FileInv
  <2>3. Published'
    BY <1>3, NewDirs DEF DeleteManifest, Delete, Becomes, IInv, DirInv, Published, Whole
  <2> QED BY <2>1, <2>2, <2>3 DEF IInv
<1>4. CASE SyncDelete
  <2>1. CallInv'
    BY <1>4 DEF SyncDelete, IInv, CallInv
  <2> QED BY <1>4, <2>1, SyncStep DEF SyncDelete
<1> QED BY <1>1, <1>2, <1>3, <1>4 DEF Api

LEMMA CrashStep == IInv /\ Crash => IInv'
<1> SUFFICES ASSUME IInv, Crash PROVE IInv'
  OBVIOUS
<1>1. PICK n \in file.synced .. file.frames :
        file' = IF dir'.name = None THEN NoFile
                ELSE [file EXCEPT !.frames = n, !.synced = n]
  BY DEF Crash
<1>2. /\ dir' \in past /\ past' = {dir'} /\ captured' = captured
      /\ phase' = "down" /\ crashes < MaxCrashes /\ crashes' = crashes + 1
  BY DEF Crash
<1>3. n \in 0 .. MaxFrames /\ n <= file.frames
  BY <1>1, RecordingStoreAssumption DEF IInv, FileInv, Files
<1>4. FileInv'
  <2>1. CASE dir'.name = None
    BY <1>1, <1>2, <2>1, RecordingStoreAssumption DEF IInv, FileInv, Files, NoFile
  <2>2. CASE dir'.name # None
    <3>1. file' = [file EXCEPT !.frames = n, !.synced = n] /\ file \in Files
      BY <1>1, <2>2 DEF IInv, FileInv
    <3>2. file' \in Files /\ file'.frames = n /\ file'.synced = n
      BY <1>3, <3>1 DEF Files
    <3> QED BY <1>2, <1>3, <3>1, <3>2 DEF IInv, FileInv, Files
  <2> QED BY <2>1, <2>2
<1>5. DirInv'
  BY <1>2 DEF IInv, DirInv
<1>6. CallInv'
  <2>1. recovering' \in BOOLEAN /\ active' \in BOOLEAN /\ failed' \in BOOLEAN
    BY DEF Crash, IInv, CallInv
  <2>2. crashes' \in 0 .. MaxCrashes
    BY <1>2, RecordingStoreAssumption DEF IInv, CallInv
  <2>3. /\ outcome' \in {"complete", "interrupted"}
        /\ deleter' \in {"idle", "unlinked", "undescribed", "deleted"}
    BY DEF Crash, IInv, CallInv
  <2> QED BY <1>2, <2>1, <2>2, <2>3 DEF CallInv, Phases
<1>7. Published'
  <2>1. SUFFICES ASSUME dir'.name = "wav" PROVE Whole'
    BY <1>2 DEF Published
  <2>2. Whole
    BY <1>2, <2>1 DEF IInv, Published
  <2>3. n = file.frames
    BY <1>1, <2>2 DEF Whole, IInv, FileInv, Files
  <2>4. CASE dir'.name = None
    BY <1>1, <2>4 DEF Whole, NoFile
  <2>5. CASE dir'.name # None
    BY <1>1, <2>2, <2>3, <2>5 DEF Whole, IInv, FileInv, Files
  <2> QED BY <2>4, <2>5
<1> QED BY <1>4, <1>5, <1>6, <1>7 DEF IInv

LEMMA RecoverStep == IInv /\ (RecoverPart \/ RecoverManifest \/ Recovered) => IInv'
<1> SUFFICES ASSUME IInv, RecoverPart \/ RecoverManifest \/ Recovered PROVE IInv'
  OBVIOUS
<1>1. /\ UNCHANGED <<file, dir, past, captured>>
      /\ phase' \in {"orphan", "discard", "finalize", "manifest", "idle"} /\ CallInv'
  BY DEF RecoverPart, RecoverManifest, Recovered, Repair, RecoveredOutcome, call, IInv,
         CallInv, Phases
<1> QED BY <1>1, QuietStep

LEMMA Invariance == Spec => []IInv
<1>1. IInv /\ [Next]_vars => IInv'
  <2>1. IInv /\ UNCHANGED vars => IInv'
    BY QuietStep DEF vars, call, IInv, CallInv
  <2> QED BY <2>1, CaptureStep, FinalizeStep, PublishStep, FailsStep, ApiStep, CrashStep,
             RecoverStep DEF Next, Session
<1> QED BY <1>1, InitIInv, PTL DEF Spec

-----------------------------------------------------------------------------
(***************************************************************************)
(* The file, its directory and the calls keep their type, and no more is   *)
(* synced than was written.                                                *)
(***************************************************************************)
THEOREM TypeCorrect == Spec => []TypeOK
<1>1. IInv => TypeOK
  BY DEF IInv, FileInv, Files, DirInv, CallInv, Phases, TypeOK
<1> QED BY <1>1, Invariance, PTL

(***************************************************************************)
(* A WAV's header declares what the file holds, whenever the bridge stops. *)
(***************************************************************************)
THEOREM AlwaysPlayable == Spec => []WavPlayable
<1>1. IInv => WavPlayable
  BY DEF IInv, DirInv, Published, Whole, WavPlayable
<1> QED BY <1>1, Invariance, PTL

-----------------------------------------------------------------------------
(***************************************************************************)
(* The listing, for recordings of any length and any number of crashes.    *)
(* What it shows is made over several steps and read back after a crash:   *)
(* the invariant says of each phase what has been made by then, and of     *)
(* every directory a crash may bring back that a manifest in it tells the  *)
(* truth.                                                                  *)
(***************************************************************************)
CaptureInv ==
  phase \in {"new", "record"} =>
    /\ ~recovering /\ deleter = "idle" /\ file.frames = captured
    /\ \A d \in past : d.manifest = None

NameInv ==
  /\ phase \in {"record", "discard", "finalize", "publish"} => dir.name = "part"
  /\ phase = "discard" => file.frames = 0
  /\ phase \in {"sync", "manifest", "sync-manifest"} /\ deleter = "idle" => dir.name = "wav"
  /\ phase = "sync-manifest" /\ deleter = "idle" => dir.manifest # None

OutcomeInv ==
  /\ phase = "orphan" => recovering
  /\ recovering => outcome = "interrupted"
  /\ outcome = "complete" /\ phase \in {"finalize", "publish", "sync", "manifest"} =>
       file.frames = captured

\* What a manifest in d claims.
Truthful(d) ==
  d.manifest # None =>
    /\ d.name # "part"
    /\ d.name = "wav" => d.manifest.frames = file.frames
    /\ d.manifest.state = "complete" => d.manifest.frames = captured

ManifestInv == \A d \in past : Truthful(d)

DeleteInv == (deleter # "idle" => dir.name = None) /\ DeletedIsGone

FoundInv ==
  /\ phase = "down" =>
       /\ past = {dir} /\ ~failed /\ deleter \in {"idle", "deleted"}
       /\ dir.name = None => file.frames = 0
  /\ phase = "orphan" /\ ~failed /\ deleter = "idle" /\ file.frames > 0 =>
       past = {dir} /\ dir.name = "wav"

ListInv ==
  /\ CaptureInv /\ NameInv /\ OutcomeInv /\ ManifestInv /\ DeleteInv /\ FoundInv
  /\ AudioListed

LEMMA InitListInv == Init => ListInv
<1> SUFFICES ASSUME Init PROVE ListInv
  OBVIOUS
<1>1. CaptureInv /\ NameInv /\ OutcomeInv /\ ManifestInv /\ DeleteInv /\ FoundInv /\ AudioListed
  BY DEF Init, NoFile, CaptureInv, NameInv, OutcomeInv, ManifestInv, Truthful, DeleteInv,
         DeletedIsGone, FoundInv, AudioListed
<1> QED BY <1>1 DEF ListInv


LEMMA MadeDirs ==
  ASSUME IInv
  PROVE  /\ Renamed.name = "wav" /\ Renamed.manifest = dir.manifest
         /\ Unlinked.name = None /\ Unlinked.manifest = dir.manifest
         /\ Described.name = dir.name /\ Described.manifest # None
         /\ Described.manifest.frames = file.frames /\ Described.manifest.state = outcome
         /\ Undescribed.name = dir.name /\ Undescribed.manifest = None
<1>1. dir \in Dirs
  BY DEF IInv, DirInv
<1>2. [frames |-> file.frames, state |-> outcome] \in Manifests
  BY DEF IInv, FileInv, CallInv, Files, Manifests
<1> QED
  BY <1>1, <1>2, RecordingStoreAssumption DEF Dirs, Renamed, Unlinked, Described, Undescribed

\* A manifest tells the truth wherever the session or a delete writes one,
\* keeps one, or drops one.
LEMMA Truths ==
  ASSUME IInv, ListInv
  PROVE  /\ Truthful(dir) /\ Truthful(Unlinked) /\ Truthful(Undescribed)
         /\ phase = "publish" => Truthful(Renamed)
         /\ phase = "manifest" => Truthful(Described)
<1>1. Truthful(dir)
  BY DEF IInv, DirInv, ListInv, ManifestInv
<1>2. Truthful(Unlinked) /\ Truthful(Undescribed)
  BY <1>1, MadeDirs, RecordingStoreAssumption DEF Truthful
<1>3. ASSUME phase = "publish" PROVE Truthful(Renamed)
  BY <1>1, <1>3, MadeDirs DEF Truthful, ListInv, NameInv
<1>4. ASSUME phase = "manifest" PROVE Truthful(Described)
  <2>1. dir.name # "part"
    BY <1>4, RecordingStoreAssumption DEF ListInv, NameInv, DeleteInv
  <2>2. outcome = "complete" => file.frames = captured
    BY <1>4 DEF ListInv, OutcomeInv
  <2> QED BY <2>1, <2>2, MadeDirs DEF Truthful
<1> QED BY <1>1, <1>2, <1>3, <1>4

\* A step that keeps the audio and adds at most one directory, a truthful one.
LEMMA ManifestKept ==
  ASSUME ManifestInv, NEW d, Truthful(d), past' \subseteq past \cup {d},
         file'.frames = file.frames, captured' = captured
  PROVE  ManifestInv'
<1> SUFFICES ASSUME NEW e \in past' PROVE Truthful(e)'
  BY DEF ManifestInv
<1>1. Truthful(e)
  BY DEF ManifestInv
<1> QED BY <1>1 DEF Truthful

\* Neither the names nor the calls change, and the audio keeps its length.
LEMMA FilesKept ==
  ASSUME IInv, ListInv, UNCHANGED <<dir, past, deleter, captured>>, file'.frames = file.frames
  PROVE  ManifestInv' /\ DeleteInv'
<1>1. Truthful(dir) /\ ManifestInv /\ past' \subseteq past \cup {dir}
  BY Truths DEF ListInv
<1> QED BY <1>1, ManifestKept DEF ListInv, DeleteInv, DeletedIsGone

-----------------------------------------------------------------------------
LEMMA CaptureList == IInv /\ ListInv /\ (CreatePart \/ AppendFrame \/ AppendFails \/ Finish) => ListInv'
<1> SUFFICES ASSUME IInv, ListInv, CreatePart \/ AppendFrame \/ AppendFails \/ Finish
             PROVE  ListInv'
  OBVIOUS
<1>1. CaptureInv /\ DeleteInv /\ OutcomeInv /\ phase \in {"new", "record"}
  BY DEF ListInv, CreatePart, AppendFrame, AppendFails, Finish
<1>2. ~recovering /\ deleter = "idle" /\ file.frames = captured /\ \A d \in past : d.manifest = None
  BY <1>1 DEF CaptureInv
<1>3. UNCHANGED <<recovering, deleter, failed>>
  BY DEF CreatePart, AppendFrame, AppendFails, Finish, call
<1>4. \A d \in past' : d.manifest = None
  BY <1>2 DEF CreatePart, AppendFrame, AppendFails, Finish, Becomes, IInv, DirInv, Dirs
<1>5. ManifestInv' /\ DeleteInv'
  BY <1>2, <1>3, <1>4 DEF ManifestInv, Truthful, DeleteInv, DeletedIsGone
<1>6. CASE CreatePart
  <2>1. dir'.name = "part" /\ phase' = "record" /\ UNCHANGED <<file, captured>>
    BY <1>6 DEF CreatePart, Becomes, IInv, DirInv, Dirs
  <2> QED
    BY <1>2, <1>3, <1>4, <1>5, <2>1
    DEF ListInv, CaptureInv, NameInv, OutcomeInv, FoundInv, AudioListed
<1>7. CASE AppendFrame
  <2>1. file'.frames = captured' /\ UNCHANGED <<dir, phase>> /\ phase = "record"
    BY <1>2, <1>7 DEF AppendFrame, IInv, FileInv, Files
  <2> QED
    BY <1>2, <1>3, <1>4, <1>5, <2>1
    DEF ListInv, CaptureInv, NameInv, OutcomeInv, FoundInv, AudioListed
<1>8. CASE AppendFails \/ Finish
  <2>1. /\ phase' = IF file.frames = 0 THEN "discard" ELSE "finalize"
        /\ phase = "record" /\ UNCHANGED <<dir, file>>
        /\ outcome' = "complete" => captured' = captured
    BY <1>8 DEF AppendFails, Finish
  <2> QED
    BY <1>2, <1>3, <1>4, <1>5, <2>1
    DEF ListInv, CaptureInv, NameInv, OutcomeInv, FoundInv, AudioListed
<1> QED BY <1>6, <1>7, <1>8

LEMMA PublishList ==
  IInv /\ ListInv /\ (Discard \/ Finalize \/ Publish \/ Sync \/ SaveManifest \/ SyncManifest)
    => ListInv'
<1> SUFFICES ASSUME IInv, ListInv,
                    Discard \/ Finalize \/ Publish \/ Sync \/ SaveManifest \/ SyncManifest
             PROVE  ListInv'
  OBVIOUS
<1>1. /\ UNCHANGED <<outcome, recovering, failed, deleter, captured>>
      /\ file'.frames = file.frames
      /\ phase' \in {"idle", "orphan", "publish", "sync", "manifest", "sync-manifest"}
  BY DEF Discard, Finalize, Publish, Sync, SaveManifest, SyncManifest, call, SyncFile, Synced,
         IInv, FileInv, Files
<1>2. dir \in past
  BY DEF IInv, DirInv
<1>3. CaptureInv'
  BY <1>1 DEF CaptureInv
<1>4. OutcomeInv'
  BY <1>1 DEF Discard, Finalize, Publish, Sync, SaveManifest, SyncManifest, ListInv, OutcomeInv
<1>5. CASE Discard
  <2>1. dir' = Unlinked /\ past' = past \cup {Unlinked}
    BY <1>5 DEF Discard, Becomes
  <2>2. ManifestInv'
    BY <1>1, <2>1, Truths, ManifestKept DEF ListInv
  <2>3. DeleteInv'
    BY <1>1, <2>1, MadeDirs DEF ListInv, DeleteInv, DeletedIsGone
  <2> QED
    BY <1>1, <1>3, <1>4, <1>5, <2>2, <2>3
    DEF Discard, ListInv, NameInv, FoundInv, AudioListed
<1>6. CASE Finalize
  <2>1. ManifestInv' /\ DeleteInv'
    BY <1>1, <1>6, FilesKept DEF Finalize
  <2> QED
    BY <1>1, <1>3, <1>4, <1>6, <2>1 DEF Finalize, ListInv, NameInv, FoundInv, AudioListed
<1>7. CASE Publish
  <2>1. dir' = Renamed /\ past' = past \cup {Renamed} /\ phase' = "sync" /\ phase = "publish"
    BY <1>7 DEF Publish, Becomes
  <2>2. ManifestInv'
    BY <1>1, <2>1, Truths, ManifestKept DEF ListInv
  <2>3. deleter = "idle"
    BY <2>1, RecordingStoreAssumption DEF ListInv, NameInv, DeleteInv
  <2> QED
    BY <1>1, <1>3, <1>4, <2>1, <2>2, <2>3, MadeDirs
    DEF ListInv, NameInv, DeleteInv, DeletedIsGone, FoundInv, AudioListed
<1>8. CASE SaveManifest
  <2>1. /\ dir' = Described /\ past' = past \cup {Described}
        /\ phase' = "sync-manifest" /\ phase = "manifest"
    BY <1>8 DEF SaveManifest, Becomes
  <2>2. ManifestInv'
    BY <1>1, <2>1, Truths, ManifestKept DEF ListInv
  <2>3. DeleteInv'
    BY <1>1, <1>2, <2>1, MadeDirs DEF ListInv, DeleteInv, DeletedIsGone
  <2> QED
    BY <1>1, <1>3, <1>4, <2>1, <2>2, <2>3, MadeDirs
    DEF ListInv, NameInv, FoundInv, AudioListed
<1>9. CASE Sync \/ SyncManifest
  <2>1. dir' = dir /\ past' = {dir}
    BY <1>9 DEF Sync, SyncManifest, SyncDirectory
  <2>2. ManifestInv'
    BY <1>1, <1>2, <2>1, Truths, ManifestKept DEF ListInv
  <2>3. DeleteInv'
    BY <1>1, <1>2, <2>1 DEF ListInv, DeleteInv, DeletedIsGone
  <2>4. CASE Sync
    BY <1>1, <1>3, <1>4, <2>1, <2>2, <2>3, <2>4
    DEF Sync, ListInv, NameInv, FoundInv, AudioListed
  <2>5. CASE SyncManifest
    <3>1. phase = "sync-manifest" /\ phase' \in {"orphan", "idle"}
      BY <2>5 DEF SyncManifest
    <3>2. deleter = "idle" => Lists(dir)
      BY <1>2, <3>1, RecordingStoreAssumption
      DEF ListInv, NameInv, ManifestInv, Truthful, Lists
    <3>3. FoundInv' /\ AudioListed' /\ NameInv'
      BY <1>1, <2>1, <3>1, <3>2 DEF FoundInv, AudioListed, NameInv, Lists
    <3> QED BY <1>3, <1>4, <2>2, <2>3, <3>3 DEF ListInv
  <2> QED BY <1>9, <2>4, <2>5
<1> QED BY <1>5, <1>6, <1>7, <1>8, <1>9

LEMMA FailsList == IInv /\ ListInv /\ Fails => ListInv'
<1> SUFFICES ASSUME IInv, ListInv, Fails PROVE ListInv'
  OBVIOUS
<1>1. /\ UNCHANGED <<dir, past, outcome, recovering, deleter, captured>> /\ failed'
      /\ phase' = IF recovering THEN "orphan" ELSE "idle"
      /\ file'.frames = file.frames
  BY DEF Fails, call, IInv, FileInv, Files
<1>2. ManifestInv' /\ DeleteInv'
  BY <1>1, FilesKept
<1> QED
  BY <1>1, <1>2 DEF ListInv, CaptureInv, NameInv, OutcomeInv, FoundInv, AudioListed

LEMMA ApiList == IInv /\ ListInv /\ Api => ListInv'
<1> SUFFICES ASSUME IInv, ListInv, Api PROVE ListInv'
  OBVIOUS
<1>1. UNCHANGED <<file, phase, outcome, recovering, failed, captured>> /\ dir \in past
  BY DEF Api, Inactive, DeleteWav, DeleteManifest, SyncDelete, Delete, IInv, DirInv
<1>2. OutcomeInv'
  BY <1>1 DEF ListInv, OutcomeInv
<1>3. CASE Inactive
  <2>1. UNCHANGED <<dir, past, deleter>>
    BY <1>3 DEF Inactive
  <2>2. ManifestInv' /\ DeleteInv'
    BY <1>1, <2>1, FilesKept
  <2> QED
    BY <1>1, <1>2, <2>1, <2>2
    DEF ListInv, CaptureInv, NameInv, FoundInv, AudioListed, Lists
<1>4. CASE DeleteWav
  <2>1. /\ ~recovering /\ phase # "down" /\ dir.name = "wav" /\ deleter' = "unlinked"
        /\ dir' = Unlinked /\ past' = past \cup {Unlinked}
    BY <1>4 DEF DeleteWav, Delete, Becomes
  <2>2. ManifestInv'
    BY <1>1, <2>1, Truths, ManifestKept DEF ListInv
  <2>3. phase \notin {"new", "record", "discard", "finalize", "publish", "orphan"}
    BY <1>1, <2>1 DEF ListInv, NameInv, OutcomeInv, IInv, Published
  <2> QED
    BY <1>1, <1>2, <2>1, <2>2, <2>3, MadeDirs
    DEF ListInv, CaptureInv, NameInv, DeleteInv, DeletedIsGone, FoundInv, AudioListed
<1>5. CASE DeleteManifest
  <2>1. /\ deleter = "unlinked" /\ deleter' = "undescribed"
        /\ dir' = Undescribed /\ past' = past \cup {Undescribed}
    BY <1>5 DEF DeleteManifest, Delete, Becomes
  <2>2. ManifestInv'
    BY <1>1, <2>1, Truths, ManifestKept DEF ListInv
  <2> QED
    BY <1>1, <1>2, <2>1, <2>2, MadeDirs
    DEF ListInv, CaptureInv, NameInv, DeleteInv, DeletedIsGone, FoundInv, AudioListed
<1>6. CASE SyncDelete
  <2>1. /\ deleter = "undescribed" /\ deleter' = "deleted"
        /\ dir' = dir /\ past' = {dir}
    BY <1>6 DEF SyncDelete, SyncDirectory
  <2>2. ManifestInv'
    BY <1>1, <2>1, Truths, ManifestKept DEF ListInv
  <2> QED
    BY <1>1, <1>2, <2>1, <2>2
    DEF ListInv, CaptureInv, NameInv, DeleteInv, DeletedIsGone, FoundInv, AudioListed
<1> QED BY <1>3, <1>4, <1>5, <1>6 DEF Api

\* A WAV that a crash brings back is as long as it was.
LEMMA CrashList == IInv /\ ListInv /\ Crash => ListInv'
<1> SUFFICES ASSUME IInv, ListInv, Crash PROVE ListInv'
  OBVIOUS
<1>1. PICK n \in file.synced .. file.frames :
        file' = IF dir'.name = None THEN NoFile
                ELSE [file EXCEPT !.frames = n, !.synced = n]
  BY DEF Crash
<1>2. /\ dir' \in past /\ past' = {dir'} /\ UNCHANGED <<outcome, recovering, captured>>
      /\ phase' = "down" /\ failed' = FALSE
      /\ deleter' = IF deleter = "deleted" THEN "deleted" ELSE "idle"
  BY DEF Crash
<1>3. dir'.name = None => file'.frames = 0
  BY <1>1 DEF NoFile
<1>4. ASSUME dir'.name = "wav" PROVE file'.frames = file.frames
  <2>1. file.synced = file.frames
    BY <1>2, <1>4 DEF IInv, Published, Whole
  <2>2. n = file.frames
    BY <1>1, <2>1 DEF IInv, FileInv, Files
  <2>3. file' = [file EXCEPT !.frames = n, !.synced = n]
    BY <1>1, <1>4, RecordingStoreAssumption
  <2> QED BY <2>2, <2>3 DEF IInv, FileInv, Files
<1>5. ManifestInv'
  BY <1>2, <1>4, RecordingStoreAssumption DEF ListInv, ManifestInv, Truthful
<1>6. DeleteInv'
  BY <1>2 DEF ListInv, DeleteInv, DeletedIsGone
<1> QED
  BY <1>2, <1>3, <1>5, <1>6
  DEF ListInv, CaptureInv, NameInv, OutcomeInv, FoundInv, AudioListed

LEMMA RecoverList == IInv /\ ListInv /\ (RecoverPart \/ RecoverManifest \/ Recovered) => ListInv'
<1> SUFFICES ASSUME IInv, ListInv, RecoverPart \/ RecoverManifest \/ Recovered
             PROVE  ListInv'
  OBVIOUS
<1>1. UNCHANGED <<file, dir, past, failed, deleter, active, captured, crashes>> /\ dir \in past
  BY DEF RecoverPart, RecoverManifest, Recovered, call, IInv, DirInv
<1>2. ManifestInv' /\ DeleteInv'
  BY <1>1, FilesKept
<1>3. CASE RecoverPart
  <2>1. /\ phase = "down" /\ recovering' /\ outcome' = "interrupted"
        /\ phase' = IF dir.name # "part" THEN "orphan"
                    ELSE IF file.frames = 0 THEN "discard" ELSE "finalize"
    BY <1>3 DEF RecoverPart, RecoveredOutcome, Repair
  <2>2. past = {dir} /\ (dir.name = None => file.frames = 0) /\ dir \in Dirs
    BY <2>1 DEF ListInv, FoundInv, IInv, DirInv
  <2>3. FoundInv'
    BY <1>1, <2>1, <2>2 DEF FoundInv, Dirs
  <2> QED
    BY <1>1, <1>2, <2>1, <2>3
    DEF ListInv, CaptureInv, NameInv, OutcomeInv, AudioListed
<1>4. CASE RecoverManifest
  <2>1. phase' = "manifest" /\ dir.name = "wav" /\ phase = "orphan" /\ UNCHANGED <<outcome, recovering>>
    BY <1>4 DEF RecoverManifest, NeedsManifest
  <2> QED
    BY <1>1, <1>2, <2>1
    DEF ListInv, CaptureInv, NameInv, OutcomeInv, FoundInv, AudioListed
<1>5. CASE Recovered
  <2>1. /\ phase' = "idle" /\ phase = "orphan" /\ outcome' = outcome /\ ~recovering'
        /\ failed \/ ~(dir.name = "wav" /\ dir.manifest = None)
    BY <1>5 DEF Recovered, NeedsManifest
  <2>2. AudioListed'
    <3>1. SUFFICES ASSUME ~failed, deleter = "idle", file.frames > 0 PROVE \A d \in past : Lists(d)
      BY <1>1, <2>1 DEF AudioListed, Lists
    <3>2. past = {dir} /\ dir.name = "wav" /\ dir.manifest # None
      BY <2>1, <3>1 DEF ListInv, FoundInv
    <3> QED BY <3>2 DEF ListInv, ManifestInv, Truthful, Lists
  <2> QED
    BY <1>1, <1>2, <2>1, <2>2 DEF ListInv, CaptureInv, NameInv, OutcomeInv, FoundInv
<1> QED BY <1>3, <1>4, <1>5

(***************************************************************************)
(* The listing tells what is on disk, for recordings of any length and any *)
(* number of crashes: what was captured is listed, a recording called      *)
(* complete is whole, and one that was deleted is gone.                    *)
(***************************************************************************)
THEOREM Tells == Spec => []ListingTells
<1>1. IInv /\ ListInv /\ [Next]_vars => ListInv'
  <2>1. ASSUME IInv, ListInv, UNCHANGED vars PROVE ListInv'
    <3>1. UNCHANGED <<file, dir, past, phase, outcome, recovering, failed, deleter, captured>>
      BY <2>1 DEF vars, call
    <3>2. ManifestInv' /\ DeleteInv'
      BY <2>1, <3>1, FilesKept
    <3> QED
      BY <2>1, <3>1, <3>2
      DEF ListInv, CaptureInv, NameInv, OutcomeInv, FoundInv, AudioListed, Lists
  <2> QED
    BY <2>1, CaptureList, PublishList, FailsList, ApiList, CrashList, RecoverList
    DEF Next, Session
<1>2. IInv /\ ListInv => ListingTells
  <2> SUFFICES ASSUME IInv, ListInv PROVE CompleteIsWhole
    BY DEF ListInv, DeleteInv, ListingTells
  <2> QED
    BY DEF IInv, DirInv, ListInv, ManifestInv, Truthful, CompleteIsWhole, Lists
<1> QED BY <1>1, <1>2, InitListInv, Invariance, PTL DEF Spec

-----------------------------------------------------------------------------
(***************************************************************************)
(* The session, for a queue, a gap, a recording and a wrap of the sequence *)
(* numbers of any size.                                                    *)
(*                                                                         *)
(* Why the silence written into a gap covers no audio: audio accepted in   *)
(* order and not yet written is still queued, behind nothing as late as    *)
(* itself.  So what the next packet skips was never accepted.              *)
(***************************************************************************)

\* Numbers divide with a rest, and with one only.
LEMMA Division ==
  ASSUME NEW a \in Int
  PROVE  /\ a \div SeqMod \in Int /\ a % SeqMod \in 0 .. SeqMod - 1
         /\ a = SeqMod * (a \div SeqMod) + (a % SeqMod)
BY RecordingSessionAssumption

LEMMA Remainder ==
  ASSUME NEW q \in Int, NEW r \in 0 .. SeqMod - 1
  PROVE  (SeqMod * q + r) % SeqMod = r
BY RecordingSessionAssumption

LEMMA HalfSpace == SeqMod \div 2 \in Nat /\ 2 * (SeqMod \div 2) = SeqMod /\ SeqMod > 0
BY RecordingSessionAssumption

LEMMA NumberType == ASSUME NEW a \in Times PROVE Number(a) \in 0 .. SeqMod - 1
BY RecordingSessionAssumption DEF Number, Times

\* Numbers wrap, and still tell how far apart two packets were made.
LEMMA Distances ==
  ASSUME NEW a \in Times, NEW b \in Times
  PROVE  Distance(Number(a), Number(b)) = b - a
<1> DEFINE h == SeqMod \div 2
           x == StartSeq + a
           y == StartSeq + b
           k == (y \div SeqMod) - (x \div SeqMod)
<1>1. a \in Int /\ b \in Int /\ x \in Int /\ y \in Int /\ y - x = b - a
  BY RecordingSessionAssumption DEF Times
<1>2. b - a < h /\ b - a > -h /\ h \in Nat /\ 2 * h = SeqMod
  BY HalfSpace, SourceBounded, RecordingSessionAssumption DEF Times
<1>3. /\ x \div SeqMod \in Int /\ Number(a) \in 0 .. SeqMod - 1
      /\ x = SeqMod * (x \div SeqMod) + Number(a)
  BY <1>1, Division DEF Number
<1>4. /\ y \div SeqMod \in Int /\ Number(b) \in 0 .. SeqMod - 1
      /\ y = SeqMod * (y \div SeqMod) + Number(b)
  BY <1>1, Division DEF Number
<1>5. k \in Int /\ SeqMod \in Nat
  BY <1>3, <1>4, RecordingSessionAssumption
<1>6. SeqMod * k = (b - a) - (Number(b) - Number(a))
  BY <1>1, <1>3, <1>4, RecordingSessionAssumption
<1> HIDE DEF h, k
<1>7. Number(b) - Number(a) + h = SeqMod * (-k) + (b - a + h)
  <2>1. SeqMod * (-k) = -(SeqMod * k) /\ SeqMod * k \in Int
    BY <1>5
  <2> QED BY <1>1, <1>2, <1>3, <1>4, <1>6, <2>1
<1>8. b - a + h \in 0 .. SeqMod - 1
  BY <1>1, <1>2
<1>9. (Number(b) - Number(a) + h) % SeqMod = b - a + h
  BY <1>5, <1>7, <1>8, Remainder
<1> QED BY <1>1, <1>2, <1>9 DEF Distance, h

-----------------------------------------------------------------------------
(* The time of the packet written last. *)
Reached(a) == IF a = <<>> THEN -1 ELSE a[1] + Len(a) - 1

\* Audio of the time t is queued, and nothing as late before it.
Awaited(q, t) ==
  \E j \in 1 .. Len(q) :
    /\ q[j] = [time |-> t, audio |-> TRUE]
    /\ \A i \in 1 .. j - 1 : q[i].time < t

Entries == Times \cup {Silence}

ArchiveInv ==
  /\ archive \in Seq(Entries)
  /\ archive # <<>> => archive[1] \in Times /\ Reached(archive) \in Times

NewestInv ==
  /\ \A t \in heard : t <= newest
  /\ Reached(archive) <= newest
  /\ \A i \in 1 .. Len(queue) : queue[i].time <= newest

PendingInv ==
  writer = "consume" =>
    /\ archive = <<>> <=> previous = Nothing
    /\ archive # <<>> => previous = Number(Reached(archive))
    /\ \A t \in heard : t > Reached(archive) => Awaited(queue, t)

VerdictInv ==
  /\ writer \in {"settle", "manifest"} =>
       verdict \in [state : Terminal, error : Errors \cup {Nothing}]
  /\ writer \in {"consume", "finish", "settle", "manifest"} => saved = Nothing

Writers == {"consume", "finish", "settle", "manifest", "detach", "ended"}

ControlType ==
  /\ state \in Waiting \cup Terminal \cup {"finalizing"}
  /\ stop \in BOOLEAN /\ error \in Errors \cup {Nothing}
  /\ writer \in Writers
  /\ attached \in BOOLEAN
  /\ stopper \in {"idle", "detached", "joining", "returned"}

SourceType ==
  /\ newest \in -1 .. MaxTime /\ heard \subseteq Times
  /\ offering \in Packets \cup {Nothing}
  /\ queue \in Seq(Packets) /\ Len(queue) <= QueueChunks

OutputType ==
  /\ previous \in 0 .. SeqMod - 1 \cup {Nothing}
  /\ Len(archive) <= MaxLength
  /\ verdict \in [state : Terminal, error : Errors \cup {Nothing}] \cup {Nothing}
  /\ saved \in {Nothing, verdict}

SessionInv ==
  /\ ControlType /\ SourceType /\ OutputType
  /\ ArchiveInv /\ NewestInv /\ PendingInv /\ VerdictInv /\ Timeline

LEMMA InitSessionInv == SessionInit => SessionInv
<1> SUFFICES ASSUME SessionInit PROVE SessionInv
  OBVIOUS
<1>1. ControlType /\ SourceType /\ OutputType
  <2>1. ControlType
    BY DEF SessionInit, ControlType, Waiting, Writers
  <2>2. SourceType
    BY RecordingSessionAssumption DEF SessionInit, SourceType
  <2>3. OutputType
    BY RecordingSessionAssumption DEF SessionInit, OutputType
  <2> QED BY <2>1, <2>2, <2>3
<1>2. ArchiveInv /\ NewestInv /\ PendingInv /\ VerdictInv /\ Timeline
  BY DEF SessionInit, ArchiveInv, NewestInv, PendingInv, VerdictInv, Timeline, Reached
<1> QED BY <1>1, <1>2 DEF SessionInv

LEMMA AwaitedAppends ==
  ASSUME NEW q \in Seq(Packets), NEW p \in Packets, NEW t, Awaited(q, t)
  PROVE  Awaited(Append(q, p), t)
<1>1. PICK j \in 1 .. Len(q) :
        q[j] = [time |-> t, audio |-> TRUE] /\ \A i \in 1 .. j - 1 : q[i].time < t
  BY DEF Awaited
<1>2. Len(Append(q, p)) = Len(q) + 1 /\ \A i \in 1 .. Len(q) : Append(q, p)[i] = q[i]
  OBVIOUS
<1>3. j \in 1 .. Len(Append(q, p)) /\ \A i \in 1 .. j - 1 : i \in 1 .. Len(q)
  BY <1>2
<1> QED BY <1>1, <1>2, <1>3 DEF Awaited

LEMMA AwaitedLast ==
  ASSUME NEW q \in Seq(Packets), NEW p \in Packets, p.audio,
         \A i \in 1 .. Len(q) : q[i].time < p.time
  PROVE  Awaited(Append(q, p), p.time)
<1>1. /\ Len(Append(q, p)) = Len(q) + 1 /\ Append(q, p)[Len(q) + 1] = p
      /\ \A i \in 1 .. Len(q) : Append(q, p)[i] = q[i]
  OBVIOUS
<1>2. p = [time |-> p.time, audio |-> TRUE]
  BY DEF Packets
<1>3. Len(q) + 1 \in 1 .. Len(Append(q, p)) /\ \A i \in 1 .. (Len(q) + 1) - 1 : i \in 1 .. Len(q)
  BY <1>1
<1> QED BY <1>1, <1>2, <1>3 DEF Awaited

\* What is awaited comes first or after something earlier.
LEMMA AwaitedNext ==
  ASSUME NEW q \in Seq(Packets), q # <<>>, NEW t, Awaited(q, t)
  PROVE  /\ Head(q) = [time |-> t, audio |-> TRUE] \/ Head(q).time < t
         /\ Head(q) # [time |-> t, audio |-> TRUE] => Awaited(Tail(q), t)
<1>1. PICK j \in 1 .. Len(q) :
        q[j] = [time |-> t, audio |-> TRUE] /\ \A i \in 1 .. j - 1 : q[i].time < t
  BY DEF Awaited
<1>2. /\ Head(q) = q[1] /\ Len(q) \in Nat /\ Len(Tail(q)) = Len(q) - 1
      /\ \A i \in 1 .. Len(q) - 1 : Tail(q)[i] = q[i + 1]
  OBVIOUS
<1>3. CASE j = 1
  BY <1>1, <1>2, <1>3
<1>4. CASE j > 1
  <2>1. 1 \in 1 .. j - 1
    BY <1>4
  <2>2. j - 1 \in 1 .. Len(Tail(q)) /\ Tail(q)[j - 1] = q[j]
    BY <1>2, <1>4
  <2>3. ASSUME NEW i \in 1 .. (j - 1) - 1 PROVE Tail(q)[i].time < t
    <3>1. i \in 1 .. Len(q) - 1 /\ i + 1 \in 1 .. j - 1
      BY <1>2, <1>4
    <3> QED BY <1>1, <1>2, <3>1
  <2>4. Awaited(Tail(q), t)
    BY <1>1, <2>2, <2>3 DEF Awaited
  <2> QED BY <1>1, <1>2, <2>1, <2>4
<1> QED BY <1>3, <1>4

-----------------------------------------------------------------------------
(* The ingest thread. *)

\* Nothing the writer works on changes.
LEMMA OutputKept ==
  ASSUME SessionInv, UNCHANGED <<queue, writer, output, ending, heard, newest>>
  PROVE  OutputType' /\ ArchiveInv' /\ NewestInv' /\ PendingInv' /\ VerdictInv' /\ Timeline'
<1>1. UNCHANGED <<previous, archive, verdict, saved>>
  BY DEF output, ending
<1>2. OutputType' /\ ArchiveInv'
  BY <1>1 DEF SessionInv, OutputType, ArchiveInv, Reached
<1>3. NewestInv' /\ PendingInv'
  BY <1>1 DEF SessionInv, NewestInv, PendingInv, Reached, Awaited
<1>4. VerdictInv' /\ Timeline'
  BY <1>1 DEF SessionInv, VerdictInv, Timeline
<1> QED BY <1>2, <1>3, <1>4

LEMMA InterruptType ==
  ASSUME ControlType, NEW reason \in Errors, Interrupt(reason)
  PROVE  /\ state' \in Waiting \cup Terminal \cup {"finalizing"}
         /\ stop' \in BOOLEAN /\ error' \in Errors \cup {Nothing}
BY DEF ControlType, Interrupt, control

LEMMA OfferSession == SessionInv /\ Offer => SessionInv'
<1> SUFFICES ASSUME SessionInv, Offer PROVE SessionInv'
  OBVIOUS
<1> DEFINE p == offering
           ahead == p.time > newest
<1>1. /\ p \in Packets /\ p.time \in Times /\ p.audio \in BOOLEAN
      /\ newest \in -1 .. MaxTime /\ queue \in Seq(Packets)
  BY DEF Offer, SessionInv, SourceType, Packets
<1>2. /\ queue' = Append(queue, p) /\ Len(queue) < QueueChunks
      /\ newest' = IF ahead THEN p.time ELSE newest
      /\ heard' = IF ahead /\ p.audio THEN heard \cup {p.time} ELSE heard
      /\ offering' = Nothing
      /\ UNCHANGED <<state, stop, error, writer, previous, archive, verdict, saved, attached, stopper>>
  BY DEF Offer, control, output, ending
<1>3. ControlType' /\ OutputType' /\ ArchiveInv' /\ VerdictInv'
  BY <1>2 DEF SessionInv, ControlType, OutputType, ArchiveInv, VerdictInv, Reached
<1>4. Reached(archive) \in -1 .. MaxTime
  BY RecordingSessionAssumption DEF SessionInv, ArchiveInv, Reached, Times
<1>5. /\ \A t \in heard : t \in Times /\ t <= newest
      /\ Reached(archive) <= newest
      /\ \A i \in 1 .. Len(queue) : queue[i] \in Packets /\ queue[i].time <= newest
  BY <1>1 DEF SessionInv, NewestInv, SourceType
<1> HIDE DEF p
<1>6. /\ Len(queue') = Len(queue) + 1 /\ queue'[Len(queue) + 1] = p
      /\ \A i \in 1 .. Len(queue) : queue'[i] = queue[i]
  BY <1>1, <1>2
<1>7. SourceType'
  <2>1. newest' \in -1 .. MaxTime
    BY <1>1, <1>2, RecordingSessionAssumption DEF Times
  <2>3. heard' \subseteq Times
    BY <1>1, <1>2 DEF SessionInv, SourceType
  <2>2. queue' \in Seq(Packets) /\ Len(queue') <= QueueChunks
    BY <1>1, <1>2, <1>6, RecordingSessionAssumption
  <2> QED BY <1>2, <2>1, <2>2, <2>3 DEF SourceType
<1>8. NewestInv'
  <2>1. \A t \in heard' : t <= newest'
    BY <1>1, <1>2, <1>5 DEF Times
  <2>2. Reached(archive)' <= newest'
    BY <1>1, <1>2, <1>4, <1>5 DEF Reached, Times
  <2>3. \A i \in 1 .. Len(queue') : queue'[i].time <= newest'
    BY <1>1, <1>2, <1>5, <1>6 DEF Times, Packets
  <2> QED BY <2>1, <2>2, <2>3 DEF NewestInv
<1>9. PendingInv'
  <2>1. SUFFICES ASSUME writer = "consume", NEW t \in heard', t > Reached(archive)
                 PROVE  Awaited(queue', t)
    BY <1>2 DEF SessionInv, PendingInv, Reached
  <2>2. CASE t \in heard
    BY <1>1, <1>2, <2>1, <2>2, AwaitedAppends DEF SessionInv, PendingInv
  <2>3. CASE t \notin heard
    <3>1. t = p.time /\ ahead /\ p.audio
      BY <1>2, <2>1, <2>3
    <3>2. \A i \in 1 .. Len(queue) : queue[i].time < p.time
      BY <1>1, <1>5, <3>1 DEF Times, Packets
    <3> QED BY <1>1, <1>2, <3>1, <3>2, AwaitedLast
  <2> QED BY <2>2, <2>3
<1>10. Timeline'
  <2>1. SUFFICES ASSUME NEW i \in 1 .. Len(archive), archive[i] = Silence
                 PROVE  archive[1] + i - 1 \notin heard'
    BY <1>2 DEF SessionInv, Timeline
  <2>2. archive[1] + i - 1 \notin heard
    BY <2>1 DEF SessionInv, Timeline
  <2>3. /\ Len(archive) \in Nat /\ archive # <<>> /\ archive[1] \in Times
        /\ Reached(archive) = archive[1] + Len(archive) - 1
    BY <2>1 DEF SessionInv, ArchiveInv, Reached
  <2>4. archive[1] + i - 1 <= newest
    BY <1>1, <1>5, <2>3 DEF Times
  <2> QED BY <1>1, <1>2, <2>2, <2>3, <2>4 DEF Times
<1> QED BY <1>3, <1>7, <1>8, <1>9, <1>10 DEF SessionInv

LEMMA PutSession == SessionInv /\ ((\E p \in Packets : PublishState(p)) \/ OfferFull) => SessionInv'
<1> SUFFICES ASSUME SessionInv, (\E p \in Packets : PublishState(p)) \/ OfferFull
             PROVE  SessionInv'
  OBVIOUS
<1>1. /\ UNCHANGED <<queue, writer, output, ending, heard, newest, attached, stopper>>
      /\ offering' \in Packets \cup {Nothing}
  BY DEF PublishState, OfferFull
<1>2. SourceType'
  BY <1>1 DEF SessionInv, SourceType
<1>3. ControlType'
  <2>1. CASE OfferFull
    BY <1>1, <2>1, InterruptType DEF OfferFull, SessionInv, ControlType, Errors
  <2>2. CASE \E p \in Packets : PublishState(p)
    BY <1>1, <2>2 DEF PublishState, control, SessionInv, ControlType
  <2> QED BY <2>1, <2>2
<1> QED BY <1>1, <1>2, <1>3, OutputKept DEF SessionInv

-----------------------------------------------------------------------------
(* The writer thread. *)

\* How far the packet taken is from the one written last.
LEMMA StepsAhead ==
  ASSUME SessionInv, writer = "consume", queue # <<>>
  PROVE  /\ Taken \in Packets /\ Taken.time \in Times /\ Taken.audio \in BOOLEAN
         /\ Taken.time <= newest /\ Taken = queue[1]
         /\ previous = Nothing => archive = <<>> /\ Step = 1
         /\ previous # Nothing =>
              archive # <<>> /\ Reached(archive) \in Times /\ Step = Taken.time - Reached(archive)
<1>1. Taken \in Packets /\ Taken = queue[1] /\ 1 \in 1 .. Len(queue)
  BY DEF Taken, SessionInv, SourceType
<1>2. Taken.time \in Times /\ Taken.audio \in BOOLEAN /\ Taken.time <= newest
  BY <1>1 DEF Packets, SessionInv, NewestInv
<1>3. ASSUME previous = Nothing PROVE archive = <<>> /\ Step = 1
  BY <1>3 DEF SessionInv, PendingInv, Step
<1>4. ASSUME previous # Nothing
      PROVE  archive # <<>> /\ Reached(archive) \in Times /\ Step = Taken.time - Reached(archive)
  <2>1. archive # <<>> /\ previous = Number(Reached(archive)) /\ Reached(archive) \in Times
    BY <1>4 DEF SessionInv, PendingInv, ArchiveInv
  <2> QED BY <1>2, <1>4, <2>1, Distances DEF Step
<1> QED BY <1>1, <1>2, <1>3, <1>4

\* What is added is the packet's gap, as silence, and the packet.
LEMMA AddedIs ==
  ASSUME SessionInv, writer = "consume", queue # <<>>, Fills
  PROVE  /\ Step \in Nat \ {0} /\ Added \in Seq(Entries) /\ Len(Added) = Step
         /\ \A i \in 1 .. Step - 1 : Added[i] = Silence
         /\ Added[Step] = Entry(Taken) /\ Entry(Taken) \in Entries
<1>1. Step \in Int /\ Step > 0
  BY StepsAhead DEF Fills, Times
<1>2. Entry(Taken) \in Entries
  BY StepsAhead DEF Entry, Entries
<1> DEFINE gap == [i \in 1 .. Step - 1 |-> Silence]
<1>3. gap \in Seq(Entries) /\ Len(gap) = Step - 1
  BY <1>1 DEF Entries
<1>4. Added = gap \o <<Entry(Taken)>>
  BY DEF Added, Gap
<1>5. \A i \in 1 .. Step - 1 : gap[i] = Silence
  OBVIOUS
<1> HIDE DEF gap
<1>6. /\ Added \in Seq(Entries) /\ Len(Added) = Step
      /\ \A i \in 1 .. Step - 1 : Added[i] = gap[i]
      /\ Added[Step] = Entry(Taken)
  BY <1>1, <1>2, <1>3, <1>4
<1> QED BY <1>1, <1>2, <1>5, <1>6

\* An archive that n packets were added to, all in their places.
Placed(longer, n) ==
  /\ longer \in Seq(Entries) /\ Len(longer) = Len(archive) + n
  /\ longer # <<>> => longer[1] \in Times /\ Reached(longer) \in Times
  /\ Reached(longer) <= newest
  /\ n = Step => Reached(longer) = Taken.time /\ longer # <<>>
  /\ \A i \in 1 .. Len(longer) :
       IF longer[i] = Silence THEN longer[1] + i - 1 \notin heard
       ELSE longer[i] = longer[1] + i - 1

LEMMA Concatenated ==
  ASSUME NEW S, NEW a \in Seq(S), NEW b \in Seq(S)
  PROVE  /\ a \o b \in Seq(S) /\ Len(a \o b) = Len(a) + Len(b)
         /\ \A i \in 1 .. Len(a) : (a \o b)[i] = a[i]
         /\ \A i \in 1 .. Len(b) : (a \o b)[Len(a) + i] = b[i]
OBVIOUS

\* However much of it is written is in its place.
LEMMA AddsInPlace ==
  ASSUME SessionInv, writer = "consume", queue # <<>>, Fills, NEW n \in 0 .. Len(Added)
  PROVE  Placed(archive \o SubSeq(Added, 1, n), n)
<1> DEFINE longer == archive \o SubSeq(Added, 1, n)
<1>1. /\ Step \in Nat \ {0} /\ n \in 0 .. Step
      /\ Added \in Seq(Entries) /\ Len(Added) = Step
      /\ archive \in Seq(Entries) /\ Len(archive) \in Nat
  BY AddedIs DEF SessionInv, ArchiveInv
<1> DEFINE more == SubSeq(Added, 1, n)
<1>2. more \in Seq(Entries) /\ Len(more) = n /\ \A i \in 1 .. n : more[i] = Added[i]
  BY <1>1
<1>7. longer = archive \o more
  OBVIOUS
<1> HIDE DEF more, longer
<1>3. /\ longer \in Seq(Entries) /\ Len(longer) = Len(archive) + n
      /\ \A i \in 1 .. Len(archive) : longer[i] = archive[i]
      /\ \A i \in 1 .. n : longer[Len(archive) + i] = Added[i]
  <2>1. /\ longer \in Seq(Entries) /\ Len(longer) = Len(archive) + Len(more)
        /\ \A i \in 1 .. Len(archive) : longer[i] = archive[i]
        /\ \A i \in 1 .. Len(more) : longer[Len(archive) + i] = more[i]
    <3>0. archive \in Seq(Entries) /\ more \in Seq(Entries)
      BY <1>1, <1>2
    <3>1. /\ archive \o more \in Seq(Entries)
          /\ Len(archive \o more) = Len(archive) + Len(more)
          /\ \A i \in 1 .. Len(archive) : (archive \o more)[i] = archive[i]
          /\ \A i \in 1 .. Len(more) : (archive \o more)[Len(archive) + i] = more[i]
      BY <3>0, Concatenated
    <3> QED BY <1>7, <3>1, Zenon
  <2> QED BY <1>2, <2>1
<1>4. newest \in -1 .. MaxTime /\ Reached(archive) <= newest
  BY DEF SessionInv, SourceType, NewestInv
<1>5. ASSUME previous = Nothing PROVE Placed(longer, n)
  <2>1. archive = <<>> /\ Step = 1 /\ Taken.audio /\ Added[1] = Taken.time /\ Taken.time \in Times
    BY <1>5, StepsAhead, AddedIs DEF Fills, Entry
  <2>2. CASE n = 0
    <3>1. longer = <<>>
      BY <1>3, <2>1, <2>2
    <3> QED BY <1>3, <1>4, <2>1, <2>2, <3>1 DEF Reached, Placed
  <2>3. CASE n = 1
    <3>0. Len(archive) = 0 /\ Len(archive) + 1 = 1 /\ 1 \in 1 .. n
      BY <2>1, <2>3
    <3>1. Len(longer) = 1 /\ longer[1] = Taken.time /\ longer # <<>>
      <4>1. Len(longer) = 1
        BY <1>3, <2>3, <3>0
      <4>2. longer[1] = Added[1]
        BY <1>3, <3>0
      <4>3. longer # <<>>
        BY <4>1
      <4> QED BY <2>1, <4>1, <4>2, <4>3
    <3>2. longer[1] # Silence
      BY <2>1, <3>1, RecordingSessionAssumption DEF Times
    <3>3. Reached(longer) = Taken.time
      BY <2>1, <3>1 DEF Reached, Times
    <3>4. \A i \in 1 .. Len(longer) : longer[i] # Silence /\ longer[i] = longer[1] + i - 1
      BY <2>1, <3>1, <3>2 DEF Times
    <3>5. Taken.time <= newest
      BY StepsAhead
    <3> QED BY <1>3, <2>1, <2>3, <3>1, <3>3, <3>4, <3>5 DEF Placed
  <2> QED BY <1>1, <2>1, <2>2, <2>3
<1>6. ASSUME previous # Nothing PROVE Placed(longer, n)
  <2>1. /\ archive # <<>> /\ Step = Taken.time - Reached(archive) /\ Taken.time <= newest
        /\ Taken.time \in Times /\ archive[1] \in Times /\ Reached(archive) \in Times
        /\ Reached(archive) = archive[1] + Len(archive) - 1
    BY <1>6, StepsAhead DEF SessionInv, ArchiveInv, Reached
  <2>2. longer[1] = archive[1] /\ longer # <<>> /\ Reached(longer) = Reached(archive) + n
    BY <1>1, <1>3, <2>1 DEF Reached, Times
  <2>3. Reached(longer) <= Taken.time /\ Reached(longer) \in Times
    BY <1>1, <2>1, <2>2, RecordingSessionAssumption, SMTT(30) DEF Times
  <2>4. ASSUME NEW i \in 1 .. Len(longer)
        PROVE  IF longer[i] = Silence THEN longer[1] + i - 1 \notin heard
               ELSE longer[i] = longer[1] + i - 1
    <3>1. CASE i <= Len(archive)
      <4>1. i \in 1 .. Len(archive) /\ longer[i] = archive[i]
        BY <1>1, <1>3, <3>1
      <4> QED BY <2>2, <4>1 DEF SessionInv, Timeline
    <3>2. CASE i > Len(archive)
      <4> DEFINE k == i - Len(archive)
                 t == longer[1] + i - 1
      <4>0. i \in Nat /\ i <= Len(archive) + n /\ longer[1] = archive[1] /\ archive[1] \in Nat
        BY <1>1, <1>3, <2>1, <2>2 DEF Times
      <4>1. k \in 1 .. n /\ k \in 1 .. Step /\ i = Len(archive) + k
        BY <1>1, <3>2, <4>0
      <4>10. longer[i] = Added[k]
        BY <1>3, <4>1
      <4>11. /\ t \in Int /\ t = Reached(archive) + k
            /\ Reached(archive) \in Int /\ Taken.time \in Int
        <5> HIDE DEF k
        <5>1. t = archive[1] + (Len(archive) + k) - 1
          BY <4>0, <4>1
        <5>2. Reached(archive) = archive[1] + Len(archive) - 1 /\ Taken.time \in Int
          BY <2>1 DEF Times
        <5>3. k \in Int /\ Len(archive) \in Int /\ archive[1] \in Int
          BY <1>1, <4>0, <4>1
        <5> HIDE DEF t
        <5> QED BY <5>1, <5>2, <5>3
      <4>2. t > Reached(archive) /\ t <= Taken.time
        BY <1>1, <2>1, <4>1, <4>11
      <4> HIDE DEF k, t
      <4>3. t \in heard => Taken = [time |-> t, audio |-> TRUE] \/ Taken.time < t
        BY <4>2, <4>11, AwaitedNext DEF SessionInv, PendingInv, SourceType, Taken
      <4>4. t \in heard => Taken.time = t /\ Taken.audio
        BY <4>2, <4>3, <4>11
      <4>5. k = Step => t = Taken.time
        BY <2>1, <4>11
      <4>6. k # Step => longer[i] = Silence /\ t # Taken.time
        BY <1>1, <2>1, <4>1, <4>10, <4>11, AddedIs
      <4>7. k = Step => longer[i] = IF Taken.audio THEN Taken.time ELSE Silence
        BY <4>10, AddedIs DEF Entry
      <4>8. Taken.time # Silence
        BY <2>1, RecordingSessionAssumption DEF Times
      <4>9. IF longer[i] = Silence THEN t \notin heard ELSE longer[i] = t
        BY <4>4, <4>5, <4>6, <4>7, <4>8
      <4> QED BY <4>9 DEF t
    <3> QED BY <1>1, <3>1, <3>2
  <2>5. n = Step => Reached(longer) = Taken.time
    BY <2>1, <2>2 DEF Times
  <2>6. Reached(longer) <= newest
    BY <1>4, <2>1, <2>3 DEF Times
  <2> QED BY <1>3, <2>1, <2>2, <2>3, <2>4, <2>5, <2>6 DEF Placed
<1> QED BY <1>5, <1>6 DEF longer

\* Taking a packet leaves a shorter queue of what was in it.
LEMMA Takes ==
  ASSUME SessionInv, Take, UNCHANGED source
  PROVE  /\ writer = "consume" /\ queue # <<>>
         /\ SourceType'
         /\ UNCHANGED <<newest, heard, offering>>
         /\ \A i \in 1 .. Len(queue') : queue'[i].time <= newest
<1>1. writer = "consume" /\ queue # <<>> /\ queue' = Tail(queue) /\ queue \in Seq(Packets)
  BY DEF Take, SessionInv, SourceType
<1>2. UNCHANGED <<newest, heard, offering>>
  BY DEF source
<1>3. /\ Len(queue) \in Nat /\ queue' \in Seq(Packets) /\ Len(queue') = Len(queue) - 1
      /\ \A i \in 1 .. Len(queue) - 1 : queue'[i] = queue[i + 1]
  BY <1>1
<1>4. Len(queue') <= QueueChunks
  BY <1>3, RecordingSessionAssumption DEF SessionInv, SourceType
<1>5. SourceType'
  BY <1>2, <1>3, <1>4 DEF SessionInv, SourceType
<1>6. ASSUME NEW i \in 1 .. Len(queue') PROVE queue'[i].time <= newest
  <2>1. i \in 1 .. Len(queue) - 1 /\ i + 1 \in 1 .. Len(queue)
    BY <1>3, <1>6
  <2> QED BY <1>3, <2>1 DEF SessionInv, NewestInv
<1> QED BY <1>1, <1>2, <1>5, <1>6

\* The writer is past the queue: it does not matter what is left there.
LEMMA EndsWriting ==
  ASSUME SessionInv, writer \in {"consume", "finish"}, writer' = "finish",
         SourceType', UNCHANGED <<newest, heard, previous, archive, ending>>,
         \A i \in 1 .. Len(queue') : queue'[i].time <= newest
  PROVE  OutputType' /\ ArchiveInv' /\ NewestInv' /\ PendingInv' /\ VerdictInv' /\ Timeline'
<1>1. UNCHANGED <<verdict, saved>>
  BY DEF ending
<1>2. OutputType' /\ ArchiveInv' /\ VerdictInv' /\ Timeline'
  BY <1>1 DEF SessionInv, OutputType, ArchiveInv, VerdictInv, Timeline, Reached
<1>3. NewestInv' /\ PendingInv'
  BY DEF SessionInv, NewestInv, PendingInv, Reached
<1> QED BY <1>2, <1>3

LEMMA SkipSession == SessionInv /\ Skip => SessionInv'
<1> SUFFICES ASSUME SessionInv, Skip PROVE SessionInv'
  OBVIOUS
<1>1. /\ Take /\ UNCHANGED source
      /\ (previous = Nothing /\ ~Taken.audio) \/ Step = 0
      /\ UNCHANGED <<state, stop, error, writer, previous, archive, verdict, saved, attached, stopper>>
  BY DEF Skip, control, output, ending
<1>2. /\ writer = "consume" /\ queue # <<>> /\ queue' = Tail(queue) /\ SourceType'
      /\ UNCHANGED <<newest, heard>>
      /\ \A i \in 1 .. Len(queue') : queue'[i].time <= newest
  BY <1>1, Takes DEF Take
<1>3. ControlType' /\ OutputType' /\ ArchiveInv' /\ VerdictInv' /\ Timeline'
  BY <1>1, <1>2 DEF SessionInv, ControlType, OutputType, ArchiveInv, VerdictInv, Timeline, Reached
<1>4. NewestInv'
  BY <1>1, <1>2 DEF SessionInv, NewestInv, Reached
<1>5. PendingInv'
  <2>1. SUFFICES ASSUME NEW t \in heard, t > Reached(archive) PROVE Awaited(queue', t)
    BY <1>1, <1>2 DEF SessionInv, PendingInv, Reached
  <2>2. Awaited(queue, t) /\ queue \in Seq(Packets)
    BY <1>2, <2>1 DEF SessionInv, PendingInv, SourceType
  <2>3. Taken # [time |-> t, audio |-> TRUE]
    <3>1. CASE previous = Nothing /\ ~Taken.audio
      BY <3>1
    <3>2. CASE Step = 0
      BY <1>2, <2>1, <3>2, StepsAhead DEF Times
    <3> QED BY <1>1, <3>1, <3>2
  <2> QED BY <1>2, <2>2, <2>3, AwaitedNext DEF Taken
<1> QED BY <1>2, <1>3, <1>4, <1>5 DEF SessionInv

LEMMA RejectSession == SessionInv /\ Reject => SessionInv'
<1> SUFFICES ASSUME SessionInv, Reject PROVE SessionInv'
  OBVIOUS
<1>1. PICK reason \in Errors : Take /\ Break(reason)
  BY DEF Reject, Errors
<1>2. /\ Interrupt(reason) /\ writer' = "finish"
      /\ UNCHANGED <<source, previous, archive, ending, attached, stopper>>
  BY <1>1 DEF Break, output
<1>3. /\ writer = "consume" /\ SourceType' /\ UNCHANGED <<newest, heard>>
      /\ \A i \in 1 .. Len(queue') : queue'[i].time <= newest
  BY <1>1, <1>2, Takes
<1>4. ControlType'
  BY <1>2, InterruptType DEF SessionInv, ControlType, Writers
<1> QED BY <1>2, <1>3, <1>4, EndsWriting DEF SessionInv

LEMMA AppendSession == SessionInv /\ AppendPacket => SessionInv'
<1> SUFFICES ASSUME SessionInv, AppendPacket PROVE SessionInv'
  OBVIOUS
<1>1. /\ Take /\ UNCHANGED source /\ Fills /\ ~Over
      /\ archive' = archive \o Added /\ previous' = Number(Taken.time)
      /\ state' = "recording"
      /\ UNCHANGED <<stop, error, writer, verdict, saved, attached, stopper>>
  BY DEF AppendPacket, Write, ending
<1>2. /\ writer = "consume" /\ queue # <<>> /\ queue' = Tail(queue) /\ SourceType'
      /\ UNCHANGED <<newest, heard>>
      /\ \A i \in 1 .. Len(queue') : queue'[i].time <= newest
  BY <1>1, Takes DEF Take
<1>3. Step \in Nat \ {0} /\ Len(Added) = Step /\ Added = SubSeq(Added, 1, Step)
  BY <1>1, <1>2, AddedIs
<1>4. /\ archive' \in Seq(Entries) /\ Len(archive') = Len(archive) + Step
      /\ archive' # <<>> /\ archive'[1] \in Times /\ Reached(archive') = Taken.time
      /\ Reached(archive') \in Times /\ Reached(archive') <= newest
      /\ \A i \in 1 .. Len(archive') :
           IF archive'[i] = Silence THEN archive'[1] + i - 1 \notin heard
           ELSE archive'[i] = archive'[1] + i - 1
  <2>1. archive' = archive \o SubSeq(Added, 1, Step)
    BY <1>1, <1>3, Zenon
  <2>2. Step \in 0 .. Len(Added)
    BY <1>3
  <2>3. Placed(archive', Step)
    BY <1>1, <1>2, <2>1, <2>2, AddsInPlace
  <2> QED BY <2>3 DEF Placed
<1>5. ControlType'
  BY <1>1 DEF SessionInv, ControlType, Waiting
<1>6. OutputType'
  <2>1. Taken.time \in Times
    BY <1>2, StepsAhead
  <2>2. Len(archive) \in Nat
    BY DEF SessionInv, ArchiveInv
  <2>3. Len(archive') <= MaxLength
    BY <1>1, <1>3, <1>4, <2>2, RecordingSessionAssumption DEF Over, Gap
  <2> QED BY <1>1, <2>1, <2>3, NumberType DEF SessionInv, OutputType
<1>7. ArchiveInv' /\ NewestInv' /\ VerdictInv' /\ Timeline'
  BY <1>1, <1>2, <1>4 DEF SessionInv, ArchiveInv, NewestInv, VerdictInv, Timeline, Reached
<1>8. PendingInv'
  <2>1. previous' # Nothing
    BY <1>1, <1>2, StepsAhead, NumberType, RecordingSessionAssumption
  <2>2. ASSUME NEW t \in heard, t > Taken.time PROVE Awaited(queue', t)
    <3>1. t > Reached(archive)
      <4>1. t \in Int /\ Taken.time \in Times /\ Step > 0
        BY <1>2, <1>3, <2>2, StepsAhead DEF SessionInv, SourceType, Times
      <4>2. CASE previous = Nothing
        BY <1>2, <2>2, <4>1, <4>2, StepsAhead DEF Reached, Times
      <4>3. CASE previous # Nothing
        BY <1>2, <2>2, <4>1, <4>3, StepsAhead DEF Times
      <4> QED BY <4>2, <4>3
    <3>2. Awaited(queue, t) /\ queue \in Seq(Packets)
      BY <1>2, <3>1 DEF SessionInv, PendingInv, SourceType
    <3>3. Taken # [time |-> t, audio |-> TRUE]
      BY <1>2, <2>2, StepsAhead DEF Times
    <3> QED BY <1>2, <3>2, <3>3, AwaitedNext DEF Taken
  <2> QED BY <1>1, <1>2, <1>4, <2>1, <2>2 DEF PendingInv, Reached
<1> QED BY <1>2, <1>5, <1>6, <1>7, <1>8 DEF SessionInv

LEMMA WriteFailsSession == SessionInv /\ WriteChunkFails => SessionInv'
<1> SUFFICES ASSUME SessionInv, WriteChunkFails PROVE SessionInv'
  OBVIOUS
<1>1. /\ Take /\ UNCHANGED source /\ Fills /\ ~Over
      /\ error' = "storage" /\ writer' = "finish"
      /\ UNCHANGED <<state, stop, previous, verdict, saved, attached, stopper>>
  BY DEF WriteChunkFails, Write, ending
<1>2. PICK n \in 0 .. Len(Added) : archive' = archive \o SubSeq(Added, 1, n)
  BY DEF WriteChunkFails
<1>3. /\ writer = "consume" /\ queue # <<>> /\ SourceType' /\ UNCHANGED <<newest, heard>>
      /\ \A i \in 1 .. Len(queue') : queue'[i].time <= newest
  BY <1>1, Takes
<1>4. /\ archive' \in Seq(Entries) /\ Len(archive') = Len(archive) + n
      /\ archive' # <<>> => archive'[1] \in Times /\ Reached(archive') \in Times
      /\ Reached(archive') <= newest
      /\ \A i \in 1 .. Len(archive') :
           IF archive'[i] = Silence THEN archive'[1] + i - 1 \notin heard
           ELSE archive'[i] = archive'[1] + i - 1
  <2>1. Placed(archive', n)
    BY <1>1, <1>2, <1>3, AddsInPlace
  <2> QED BY <2>1 DEF Placed
<1>5. ControlType'
  BY <1>1 DEF SessionInv, ControlType, Errors, Writers
<1>6. OutputType'
  <2>1. Len(archive) \in Nat /\ Step \in Nat \ {0} /\ Len(Added) = Step
    BY <1>1, <1>3, AddedIs DEF SessionInv, ArchiveInv
  <2>2. Len(archive') <= MaxLength
    BY <1>1, <1>2, <1>4, <2>1, RecordingSessionAssumption DEF Over, Gap
  <2> QED BY <1>1, <2>2 DEF SessionInv, OutputType
<1>7. ArchiveInv' /\ NewestInv' /\ PendingInv' /\ VerdictInv' /\ Timeline'
  BY <1>1, <1>3, <1>4
  DEF SessionInv, ArchiveInv, NewestInv, PendingInv, VerdictInv, Timeline, Reached
<1> QED BY <1>3, <1>5, <1>6, <1>7 DEF SessionInv

\* The writer's other steps leave the packets and the archive alone.
LEMMA EndingSession ==
  SessionInv /\ (Drained \/ FinishSession \/ Detach \/ Stop \/ Joined) => SessionInv'
<1> SUFFICES ASSUME SessionInv, Drained \/ FinishSession \/ Detach \/ Stop \/ Joined
             PROVE  SessionInv'
  OBVIOUS
<1>1. UNCHANGED <<newest, heard, offering, queue, previous, archive>>
  BY DEF Drained, FinishSession, Decide, Settle, SaveSession, FinishFails, Finished, Detach, Stop,
         Joined, source, output
<1>2. writer' \in Writers /\ (writer' = "consume" => writer = "consume")
  BY DEF Drained, FinishSession, Decide, Settle, SaveSession, FinishFails, Finished, Detach, Stop,
         Joined, SessionInv, ControlType, Writers
<1>3. SourceType' /\ ArchiveInv' /\ Timeline'
  BY <1>1 DEF SessionInv, SourceType, ArchiveInv, Timeline, Reached
<1>4. NewestInv' /\ PendingInv'
  BY <1>1, <1>2 DEF SessionInv, NewestInv, PendingInv, Reached, Awaited
<1>5. /\ verdict' \in [state : Terminal, error : Errors \cup {Nothing}] \cup {Nothing}
      /\ saved' \in {Nothing, verdict'} /\ VerdictInv'
  <2>1. CASE Decide
    <3>1. /\ writer = "finish" /\ writer' = "settle" /\ saved' = saved
          /\ verdict' \in [state : Terminal, error : Errors \cup {Nothing}]
      BY <2>1 DEF Decide, SessionInv, ControlType, Terminal
    <3> QED BY <3>1 DEF SessionInv, VerdictInv
  <2>2. CASE SaveSession
    BY <2>2 DEF SaveSession, SessionInv, OutputType, VerdictInv
  <2>3. CASE Drained \/ Settle \/ FinishFails \/ Finished \/ Detach \/ Stop \/ Joined
    <3>1. UNCHANGED <<verdict, saved>>
      BY <2>3 DEF Drained, Settle, FinishFails, Finished, Detach, Stop, Joined, ending
    <3>2. /\ writer' \in {"settle", "manifest"} => writer \in {"settle", "manifest"}
          /\ writer' \in {"consume", "finish", "settle", "manifest"} =>
               writer \in {"consume", "finish", "settle", "manifest"}
      BY <2>3 DEF Drained, Settle, FinishFails, Finished, Detach, Stop, Joined
    <3> QED BY <3>1, <3>2 DEF SessionInv, OutputType, VerdictInv
  <2> QED BY <2>1, <2>2, <2>3 DEF FinishSession
<1>6. OutputType'
  BY <1>1, <1>5 DEF SessionInv, OutputType
<1>7. ControlType'
  <2>1. CASE Settle
    <3>1. verdict \in [state : Terminal, error : Errors \cup {Nothing}]
      BY <2>1 DEF Settle, SessionInv, OutputType, VerdictInv
    <3> QED BY <1>2, <2>1, <3>1 DEF Settle, SessionInv, ControlType
  <2>2. CASE Drained \/ Decide \/ SaveSession \/ FinishFails \/ Finished
    BY <1>2, <2>2
    DEF Drained, Decide, SaveSession, FinishFails, Finished, control, SessionInv, ControlType,
        Terminal, Errors
  <2>3. CASE Detach \/ Stop \/ Joined
    BY <1>2, <2>3 DEF Detach, Stop, Joined, control, SessionInv, ControlType
  <2> QED BY <2>1, <2>2, <2>3 DEF FinishSession
<1> QED BY <1>3, <1>4, <1>5, <1>6, <1>7 DEF SessionInv

LEMMA SessionInvariance == SessionSpec => []SessionInv
<1>1. SessionInv /\ [SessionNext]_sessionVars => SessionInv'
  <2>1. ASSUME SessionInv, UNCHANGED sessionVars PROVE SessionInv'
    <3>1. /\ UNCHANGED <<queue, writer, output, ending, heard, newest>>
          /\ UNCHANGED <<offering, state, stop, error, attached, stopper>>
      BY <2>1 DEF sessionVars, source, control
    <3> QED BY <2>1, <3>1, OutputKept DEF SessionInv, SourceType, ControlType
  <2> QED
    BY <2>1, OfferSession, PutSession, SkipSession, RejectSession, AppendSession,
       WriteFailsSession, EndingSession
    DEF SessionNext, Ingest, Consume
<1> QED BY <1>1, InitSessionInv, PTL DEF SessionSpec

(***************************************************************************)
(* The archive is the source's timeline, for every size of the queue, the  *)
(* gaps and the recording, wherever the sequence numbers wrap and however  *)
(* the source repeats, reorders and drops its packets.                     *)
(***************************************************************************)
THEOREM SoundSession == SessionSpec => []SessionSound
<1>1. SessionInv => SessionSound
  <2> SUFFICES ASSUME SessionInv PROVE SessionTypeOK
    BY DEF SessionInv, SessionSound
  <2>1. \A i \in 1 .. Len(archive) : archive[i] \in Times \cup {Silence}
    BY DEF SessionInv, ArchiveInv, Entries
  <2> QED
    BY <2>1 DEF SessionInv, ControlType, SourceType, OutputType, Writers, SessionTypeOK
<1> QED BY <1>1, SessionInvariance, PTL
=============================================================================
