------------------------------- MODULE Releases -------------------------------
(***************************************************************************)
(* Which image an update installs (update.rs, update/check.rs) and how it  *)
(* reaches the spare slot (adapters/download.rs, adapters/ota.rs): the     *)
(* published checksum listing, the version comparison, the pinned custom   *)
(* image, the redirects and reads of a download, its digest, and the note  *)
(* that explains the install after a reboot.  FirmwareUpdate has the two   *)
(* slots and the boot; here the download is taken apart, and the device    *)
(* may stop at any point of it.                                            *)
(*                                                                         *)
(* Text is abstract: a digest is a string for its content, a name is a     *)
(* record of the parts the code tells apart, a version a triple or "dev".  *)
(***************************************************************************)
EXTENDS Naturals, Sequences

CONSTANTS
  Chunks,        \* reads that make up the published image
  MaxRedirects   \* MAX_REDIRECT_HOPS

ASSUME ReleasesAssumption == Chunks \in Nat \ {0} /\ MaxRedirects \in Nat

NoRelease == [version |-> "none", sha256 |-> "none"]

\* is_sha256_hex, and the lower case it is kept in.
IsDigest(d) == d \in {"hex", "HEX"}
Lower(d) == IF d = "HEX" THEN "hex" ELSE d

\* version_from_filename: "streamline-" before, "-ota.bin" after.
IsOta(name) == name.suffix = "-ota.bin"
NamedByUs(name) == name.prefix = "streamline-"

(***************************************************************************)
(* parse_release: the first line that names an over-the-air image decides; *)
(* lines without a blank are no entries.                                   *)
(***************************************************************************)
OtaLines(sums) == {i \in DOMAIN sums : sums[i].entry /\ IsOta(sums[i].name)}

ParseRelease(sums) ==
  IF OtaLines(sums) = {} THEN NoRelease
  ELSE LET i == CHOOSE j \in OtaLines(sums) : \A k \in OtaLines(sums) : j <= k
       IN IF IsDigest(sums[i].digest) /\ NamedByUs(sums[i].name)
          THEN [version |-> sums[i].name.version, sha256 |-> Lower(sums[i].digest)]
          ELSE NoRelease

\* parse_semver: exactly three numbers, anything else is an unversioned build.
IsSemver(v) == v.numbers = 3

\* Tuples compare from the left.
Higher(a, b) ==
  \E i \in 1 .. 3 : a[i] > b[i] /\ \A j \in 1 .. i - 1 : a[j] = b[j]

IsNewer(current, candidate) ==
  /\ IsSemver(candidate)
  /\ IsSemver(current) => Higher(candidate.at, current.at)

(***************************************************************************)
(* custom_image_from_form: url and sha256 together or not at all.          *)
(***************************************************************************)
UrlAccepted(url) ==
  /\ url.scheme \in {"http", "https"}
  /\ url.host # "" /\ ~url.userinfo /\ ~url.fragment /\ ~url.blank

NeedsTls(url) == url.scheme = "https"

CustomImage(hasUrl, url, digest) ==
  CASE ~hasUrl /\ digest = "" -> "latest"
    [] hasUrl /\ digest # "" /\ UrlAccepted(url) /\ IsDigest(digest) -> Lower(digest)
    [] OTHER -> "refused"

\* The wall clock is needed for certificates only, and awaited 45 seconds at
\* most, as long as SNTP was started.
ClockReady(usable, started, answers) ==
  usable \/ (started /\ \E i \in 1 .. 45 : answers[i] = "set" /\ \A j \in 1 .. i - 1 : answers[j] = "timeout")

-----------------------------------------------------------------------------
VARIABLES
  ota,        \* the worker: its step, the request it makes and the redirects so far
  received,   \* chunks written to the slot, 0 for one that is not the published one
  spare,      \* what the other slot is: as it was, being written, selected
  shown,      \* OtaProgress: phase, bytes written
  noted,      \* the persisted note
  noteKept    \* whether the last note could be saved

otaVars == <<ota, received, spare, shown, noted, noteKept>>

OtaIdle == [step |-> "idle", of |-> "none", hops |-> 0, tries |-> 0, sized |-> FALSE]

OtaInit ==
  /\ ota = OtaIdle
  /\ received = <<>> /\ spare = "as it was"
  /\ shown = [phase |-> "idle", written |-> 0]
  /\ noted = "none" /\ noteKept = TRUE

Published == [i \in 1 .. Chunks |-> i]

\* note_outcome, which never fails an update.
Note(text) ==
  \/ noted' = text /\ noteKept' = TRUE
  \/ noted' = noted /\ noteKept' = FALSE

NoNote == UNCHANGED <<noted, noteKept>>

Show(phase) == shown' = [shown EXCEPT !.phase = phase]

\* An accepted update: the listing first, or a pinned image.
StartUpdate ==
  /\ ota.step = "idle" /\ spare # "selected"
  /\ \E of \in {"listing", "image"} : ota' = [OtaIdle EXCEPT !.step = "pausing", !.of = of]
  /\ shown' = [phase |-> "checking", written |-> 0]
  /\ received' = <<>>
  /\ UNCHANGED spare /\ NoNote

\* The stream pauses first; an install that cannot have that leaves a note.
\* A certificate needs the clock, a pinned image at a plain address does not.
PauseStream ==
  /\ ota.step = "pausing"
  /\ \/ /\ \E url \in [scheme : {"http", "https"}] :
             ota' = [ota EXCEPT !.step = IF ota.of = "listing" \/ NeedsTls(url)
                                         THEN "syncing" ELSE "noting"]
        /\ UNCHANGED shown /\ NoNote
     \/ /\ ota' = OtaIdle /\ Show("failed")
        /\ Note("failed") \/ (ota.of = "listing" /\ NoNote)
  /\ UNCHANGED <<received, spare>>

\* sync_clock; a clock that stays unset ends the update before any note.
SyncClock ==
  /\ ota.step = "syncing"
  /\ \/ /\ ota' = [ota EXCEPT !.step = IF ota.of = "listing" THEN "opening" ELSE "noting"]
        /\ UNCHANGED shown
     \/ ota' = OtaIdle /\ Show("failed")
  /\ UNCHANGED <<received, spare>> /\ NoNote

\* The first thing an install does is to say that it did not finish.
NoteFirst ==
  /\ ota.step = "noting"
  /\ ota' = [ota EXCEPT !.step = "opening"]
  /\ Show("downloading") /\ Note("unfinished")
  /\ UNCHANGED <<received, spare>>

NoteLater ==
  /\ ota.step = "noting"
  /\ ota' = [ota EXCEPT !.step = "opening"]
  /\ Show("downloading") /\ NoNote
  /\ UNCHANGED <<received, spare>>

NoteStart == NoteFirst

\* Failing: an install leaves a note, a release check only shows it, and is
\* tried once more when it was the fetch that failed.
FailFetch ==
  IF ota.tries = 0
  THEN /\ ota' = [ota EXCEPT !.step = "opening", !.hops = 0, !.tries = 1]
       /\ UNCHANGED shown /\ NoNote
  ELSE ota' = OtaIdle /\ Show("failed") /\ NoNote

FailInstall == ota' = OtaIdle /\ Show("failed") /\ Note("failed")

Fail == IF ota.of = "listing" THEN FailFetch ELSE FailInstall

\* open_following_redirects: 300 to 399 but 304, at most MaxRedirects of them.
IsRedirect(status) == status \in 300 .. 399 /\ status # 304

Open ==
  /\ ota.step = "opening"
  /\ \/ \E status \in {200, 302, 304, 404} :
          IF IsRedirect(status)
          THEN IF ota.hops < MaxRedirects
               THEN ota' = [ota EXCEPT !.hops = @ + 1] /\ UNCHANGED shown /\ NoNote
               ELSE Fail
          ELSE IF status = 200
          THEN /\ \E sized \in BOOLEAN :
                    ota' = [ota EXCEPT !.step = IF ota.of = "listing" THEN "listing" ELSE "erasing",
                                       !.sized = sized]
               /\ UNCHANGED shown /\ NoNote
          ELSE Fail
     \/ Fail
  /\ UNCHANGED <<received, spare>>

\* The listing, 8192 bytes of it at most, then its verdict: the image to install,
\* or nothing to do.
Listing ==
  /\ ota.step = "listing"
  /\ \/ Fail
     \/ /\ ota' = OtaIdle
        /\ \E phase \in {"failed", "up-to-date", "update-available"} : Show(phase)
        /\ NoNote
     \/ /\ ota' = [OtaIdle EXCEPT !.step = "noting", !.of = "image"]
        /\ UNCHANGED shown /\ NoNote
  /\ UNCHANGED <<received, spare>>

\* initiate_update erases the other slot.
EraseSlot ==
  /\ ota.step = "erasing"
  /\ \/ /\ spare' = "written" /\ ota' = [ota EXCEPT !.step = "reading"]
        /\ UNCHANGED shown /\ NoNote
     \/ Fail /\ UNCHANGED spare
  /\ UNCHANGED received

\* One read and the write of what it gave; a body that is cut short is an error
\* when its length was declared.
ReadImage ==
  /\ ota.step = "reading"
  /\ \/ /\ Len(received) <= Chunks
        /\ \E chunk \in {0, Len(received) + 1} : received' = Append(received, chunk)
        /\ shown' = [shown EXCEPT !.written = @ + 1]
        /\ UNCHANGED ota /\ NoNote
     \/ /\ ota.sized => Len(received) >= Chunks
        /\ ota' = [ota EXCEPT !.step = "verifying"]
        /\ Show("verifying") /\ NoNote /\ UNCHANGED received
     \/ Fail /\ UNCHANGED received
  /\ UNCHANGED spare

\* The digest over all of it, then the slot is finalized and selected.
VerifyDigest ==
  /\ ota.step = "verifying"
  /\ \/ /\ received = Published
        /\ spare' = "selected" /\ ota' = [ota EXCEPT !.step = "noting installed"]
        /\ UNCHANGED shown /\ NoNote
     \/ Fail /\ UNCHANGED spare
  /\ UNCHANGED received

NoteInstalled ==
  /\ ota.step = "noting installed"
  /\ ota' = [ota EXCEPT !.step = "rebooting"]
  /\ Show("installed") /\ Note("installed")
  /\ UNCHANGED <<received, spare>>

\* The reboot, or power loss at any step.
Stop ==
  /\ ota' = OtaIdle
  /\ shown' = [phase |-> "idle", written |-> 0]
  /\ received' = <<>>
  /\ spare' = IF spare = "selected" THEN "as it was" ELSE spare
  /\ NoNote

OtaNext ==
  \/ StartUpdate \/ PauseStream \/ SyncClock \/ NoteStart \/ Open \/ Listing \/ EraseSlot \/ ReadImage
  \/ VerifyDigest \/ NoteInstalled \/ Stop

(***************************************************************************)
(* The note is evidence (adapters/ota.rs:316-317, 340-343): as long as     *)
(* notes can be saved, a slot that was given up for an install has one     *)
(* that speaks of that install, whatever stopped it, and an install that   *)
(* ended by itself is never reported as one that did not finish; only the  *)
(* complete published image is ever selected.                              *)
(***************************************************************************)
NoteIsEvidence ==
  /\ noteKept /\ spare = "written" =>
       noted \in {"unfinished", "failed"}
  /\ noteKept /\ ota.step = "idle" /\ shown.phase = "failed" /\ shown.written > 0 =>
       noted = "failed"
  /\ spare = "selected" => received = Published
  /\ noted = "installed" /\ noteKept => spare # "written"
=============================================================================
