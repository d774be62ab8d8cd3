----------------------------- MODULE StateStore -----------------------------
(***************************************************************************)
(* Two-slot persistence of the firmware's configuration, state.rs: a save  *)
(* writes the slot that is not in use and then replaces one marker, which  *)
(* names the active snapshot and the one to fall back on by slot and       *)
(* checksum.  Every write of a key is durable and atomic; power may fail   *)
(* between two writes, a write may report an error whether or not it took  *)
(* place, and flash may corrupt a slot or the marker.                      *)
(***************************************************************************)
EXTENDS Integers

CONSTANTS
  MaxVersion,           \* bound of the model: saves attempted
  Unset, Corrupt        \* a key never written, one that reads as garbage

ASSUME StateStoreAssumption ==
  /\ MaxVersion \in Nat
  /\ Unset # Corrupt

\* Saves are told apart by a number, and by whether they hold a configuration.
States == [version : 1 .. MaxVersion, configured : BOOLEAN]

StateSlots == {"A", "B"}
OtherSlot(s) == IF s = "A" THEN "B" ELSE "A"

VARIABLES
  slot,         \* what each slot's key holds
  marker,       \* what the commit key holds
  saving,       \* the marker a save under way has yet to write, or Unset
  next,         \* the number of the next save
  resetAt       \* the number of the last committed reset

storeVars == <<slot, marker, saving, next, resetAt>>

\* A checksum stands for the value it was taken of.
Snapshots == [slot : StateSlots, sum : States]
Commits == [active : Snapshots, previous : Snapshots \cup {Unset}]

ASSUME KeysAssumption ==
  \A k \in {Unset, Corrupt} : k \notin States \cup Snapshots \cup Commits

StoreInit ==
  /\ slot = [s \in StateSlots |-> Unset]
  /\ marker = Unset
  /\ saving = Unset
  /\ next = 1
  /\ resetAt = 0

-----------------------------------------------------------------------------
(***************************************************************************)
(* Reading: the active snapshot if its slot still holds it, else the       *)
(* previous one under the same condition.                                  *)
(***************************************************************************)
AnyChecksum(snap) == slot[snap.slot] \in States
Holds(snap) == slot[snap.slot] = snap.sum

Candidates ==
  IF marker \notin Commits THEN {}
  ELSE {snap \in {marker.active, marker.previous} : snap # Unset /\ Holds(snap)}

\* Unset when nothing readable is committed.
CommittedSnapshot ==
  IF Candidates = {} THEN Unset
  ELSE IF marker.active \in Candidates THEN marker.active ELSE marker.previous

Load == IF CommittedSnapshot = Unset THEN Unset ELSE slot[CommittedSnapshot.slot]

\* What would be read should the snapshot in use be corrupted.
Spare ==
  IF CommittedSnapshot # Unset /\ CommittedSnapshot = marker.active
       /\ marker.previous \in Candidates \ {marker.active}
  THEN slot[marker.previous.slot] ELSE Unset

-----------------------------------------------------------------------------
(***************************************************************************)
(* Saving.  The inactive slot first, then the marker.                      *)
(***************************************************************************)
Target(current) == IF current = Unset THEN "A" ELSE OtherSlot(current.slot)

Previous(current, state) ==
  IF current # Unset /\ state.configured /\ current.sum.configured
  THEN current ELSE Unset

SaveSlot(configured) ==
  LET state == [version |-> next, configured |-> configured]
      target == Target(CommittedSnapshot)
  IN /\ saving = Unset
     /\ next <= MaxVersion
     /\ next' = next + 1
     /\ slot' = [slot EXCEPT ![target] = state]
     /\ saving' = [active |-> [slot |-> target, sum |-> state],
                   previous |-> Previous(CommittedSnapshot, state)]
     /\ UNCHANGED <<marker, resetAt>>

SaveMarker ==
  /\ saving # Unset
  /\ marker' = saving
  /\ saving' = Unset
  /\ resetAt' = IF saving.active.sum.configured THEN resetAt
                ELSE saving.active.sum.version
  /\ UNCHANGED <<slot, next>>

\* Power fails, or the write of the marker reports an error.
Abandon ==
  /\ saving # Unset
  /\ saving' = Unset
  /\ UNCHANGED <<slot, marker, next, resetAt>>

CorruptSlot(s) ==
  /\ slot[s] # Unset
  /\ slot' = [slot EXCEPT ![s] = Corrupt]
  /\ UNCHANGED <<marker, saving, next, resetAt>>

\* At rest: a save under way replaces the marker whatever it holds.
CorruptMarker ==
  /\ marker # Unset /\ saving = Unset
  /\ marker' = Corrupt
  /\ UNCHANGED <<slot, saving, next, resetAt>>

StoreNext ==
  \/ \E configured \in BOOLEAN : SaveSlot(configured)
  \/ SaveMarker
  \/ Abandon
  \/ \E s \in StateSlots : CorruptSlot(s)
  \/ CorruptMarker

StoreSpec == StoreInit /\ [][StoreNext]_storeVars

-----------------------------------------------------------------------------
(* Every key keeps its type, and a marker never names one slot twice. *)
TwoSlots == {c \in Commits : c.previous # Unset => c.previous.slot # c.active.slot}

StoreTypeOK ==
  /\ slot \in [StateSlots -> States \cup {Unset, Corrupt}]
  /\ marker \in TwoSlots \cup {Unset, Corrupt}
  /\ saving \in TwoSlots \cup {Unset}
  /\ next \in 1 .. MaxVersion + 1
  /\ resetAt \in 0 .. MaxVersion

(***************************************************************************)
(* state.rs:132: a reset never restores the configuration it removed,      *)
(* whatever is corrupted or interrupted after it.                          *)
(***************************************************************************)
ResetForgets ==
  Load # Unset /\ Load.configured => Load.version > resetAt

(***************************************************************************)
(* The snapshot in use is never the one being overwritten, so power loss   *)
(* before the marker leaves the prior generation active.                   *)
(***************************************************************************)
SaveKeepsCurrent ==
  [][saving = Unset /\ saving' # Unset => Load' = Load]_storeVars

(***************************************************************************)
(* The two slots and the marker together behave as one value that changes  *)
(* in a step, with a backup that only ever is the value it replaced.       *)
(***************************************************************************)
IsConfigured(s) == s.configured

Durable ==
  INSTANCE DurableState
    WITH States <- States, Configured <- IsConfigured,
         None <- Unset, value <- Load, backup <- Spare

ImplementsDurable == Durable!Spec
=============================================================================
