---------------------------- MODULE DurableState ----------------------------
(***************************************************************************)
(* What the firmware's state store promises: a value that changes in one   *)
(* step and, should flash corrupt it, the one it replaced instead.  A      *)
(* value without a configuration is a reset: it never has a value to fall  *)
(* back on and never becomes one.                                          *)
(***************************************************************************)
CONSTANTS
  States,               \* the values ever saved
  Configured(_),        \* the value holds a configuration
  None

VARIABLES
  value,        \* what load returns
  backup        \* what it returns should the value be corrupted

vars == <<value, backup>>

Init == value = None /\ backup = None

Kept(old, new) ==
  IF old # None /\ Configured(old) /\ Configured(new) THEN old ELSE None

Commit(new) ==
  /\ value' = new
  /\ backup' = Kept(value, new)

\* An unfinished save used up the space of the backup.
LoseBackup == value' = value /\ backup' = None

LoseValue == value' = backup /\ backup' = None

LoseAll == value' = None /\ backup' = None

Next == (\E new \in States : Commit(new)) \/ LoseBackup \/ LoseValue \/ LoseAll

Spec == Init /\ [][Next]_vars
=============================================================================
