---------------------------- MODULE TransportKeys ----------------------------
(***************************************************************************)
(* The device's transport settings (firmware transport.rs and the handlers *)
(* of adapters/http/handlers/transport.rs, settings.rs): two key slots and *)
(* what is active, pending and verified, the configuration in memory and   *)
(* the committed one, and what the running stream was started with.        *)
(*                                                                         *)
(* Every handler runs under the control lock from its authorization to its *)
(* response (adapters/http/mod.rs), verification included, so an operation *)
(* is one step; the device may lose power between any two and a write may  *)
(* report an error whether or not it reached the flash.                    *)
(***************************************************************************)
EXTENDS Naturals

CONSTANTS
  Keys,             \* keys the device may generate
  Targets,          \* bridge endpoints
  None

ASSUME TransportAssumption == None \notin Keys \cup Targets \cup {"A", "B"}

Slots == {"A", "B"}
Other(s) == IF s = "A" THEN "B" ELSE "A"

Configs ==
  [commissioned : BOOLEAN, target : Targets \cup {None}, mode : {"cleartext", "tls-psk"},
   slots : [Slots -> Keys \cup {None}], active : Slots \cup {None},
   pending : Slots \cup {None}, verified : BOOLEAN]

\* recovery.rs, setup_baseline: an uncommissioned device.
Blank ==
  [commissioned |-> FALSE, target |-> None, mode |-> "cleartext",
   slots |-> [s \in Slots |-> None], active |-> None, pending |-> None, verified |-> FALSE]

VARIABLES
  memory,       \* the configuration handlers read
  durable,      \* the committed generation
  booted,       \* whether the device started commissioned
  streaming,    \* the key the stream was started with, None if cleartext
  restarting,   \* a restart is pending
  accepted      \* history: the <<key, target>> pairs a bridge accepted

vars == <<memory, durable, booted, streaming, restarting, accepted>>

Held(c) == {c.slots[s] : s \in Slots} \ {None}
Active(c) == IF c.active = None THEN None ELSE c.slots[c.active]
Pending(c) == IF c.pending = None THEN None ELSE c.slots[c.pending]
Rollback(c) ==
  IF c.active = None \/ c.pending # None THEN None ELSE c.slots[Other(c.active)]

KeyInUse(c) == IF c.mode = "tls-psk" THEN Active(c) ELSE None

\* TransportSettings::validate.
Valid(c) ==
  /\ c.active # None => Active(c) # None
  /\ c.pending # None => Pending(c) # None /\ c.pending # c.active
  /\ c.verified => c.pending # None
  /\ c.slots["A"] # None => c.slots["A"] # c.slots["B"]
  /\ c.mode = "tls-psk" => Active(c) # None

Init ==
  /\ memory = Blank /\ durable = Blank
  /\ booted = FALSE /\ streaming = None /\ restarting = FALSE
  /\ accepted = {}

-----------------------------------------------------------------------------
(***************************************************************************)
(* The key lifecycle, as values.                                           *)
(***************************************************************************)
FreeSlot(c) == IF c.active = None THEN "A" ELSE Other(c.active)

Staged(c, k) ==
  [c EXCEPT !.slots[FreeSlot(c)] = k, !.pending = FreeSlot(c), !.verified = FALSE]

Cleared(c) ==
  [c EXCEPT !.slots = [s \in Slots |-> IF s = c.active THEN c.slots[s] ELSE None],
            !.pending = None, !.verified = FALSE]

DiscardedOnly(c) == [c EXCEPT !.slots[c.pending] = None, !.verified = FALSE]
Discarded(c) == [c EXCEPT !.slots[c.pending] = None, !.pending = None, !.verified = FALSE]

Activated(c) == [c EXCEPT !.active = c.pending, !.pending = None, !.verified = FALSE]

Switched(c) == [c EXCEPT !.active = Other(c.active)]
Retired(c) == [c EXCEPT !.slots[Other(c.active)] = None]

Retargeted(c, t) ==
  [c EXCEPT !.target = t, !.verified = IF t = c.target THEN c.verified ELSE FALSE]

-----------------------------------------------------------------------------
(***************************************************************************)
(* Writes: a changed copy is exposed in memory once it is durable.  An     *)
(* error leaves memory alone, whatever reached the flash.  An              *)
(* uncommissioned device keeps the change in memory only.                  *)
(*                                                                         *)
(* The validation before every write refuses none of the operations below: *)
(* ConfigValid.                                                            *)
(***************************************************************************)
AcceptingAlways == TRUE
Accepting == ~restarting

Committed(c, reboots) ==
  /\ durable' = c /\ memory' = c /\ restarting' = reboots

WriteFails(c) ==
  /\ durable' \in {durable, c}
  /\ UNCHANGED <<memory, restarting>>

Persist(c, reboots) ==
  /\ Accepting
  /\ Committed(c, reboots) \/ WriteFails(c)
  /\ UNCHANGED <<booted, streaming>>

Stage(c, reboots) ==
  /\ Accepting
  /\ memory' = c /\ restarting' = reboots
  /\ UNCHANGED <<durable, booted, streaming>>

Update(c, reboots) == IF booted THEN Persist(c, reboots) ELSE Stage(c, reboots)

\* mutate_keys: the lifecycle needs a commissioned device.
Mutate(c, reboots) == booted /\ Persist(c, reboots)

-----------------------------------------------------------------------------
(***************************************************************************)
(* The handlers.  A generated key is random, hence new.                    *)
(***************************************************************************)
Fresh == Keys \ (Held(memory) \cup Held(durable) \cup {streaming})

\* Nothing has accepted a key that was just generated.
Generated(k) == accepted' = {p \in accepted : p[1] # k}

StageKey ==
  /\ memory.pending = None /\ Rollback(memory) = None
  /\ \E k \in Fresh : Mutate(Staged(memory, k), FALSE) /\ Generated(k)

Recovered(c, k) == [Staged(Cleared(c), k) EXCEPT !.mode = "cleartext"]

Recover ==
  \E k \in Fresh : Mutate(Recovered(memory, k), FALSE) /\ Generated(k)

Verifiable(c) == c.target # None /\ c.pending # None

Verify ==
  /\ Verifiable(memory)
  /\ Mutate([memory EXCEPT !.verified = TRUE], FALSE)
  /\ accepted' = accepted \cup {<<Pending(memory), memory.target>>}

ActivatesPending(c) == c.pending # None
Activates(c) == c.pending # None /\ c.verified

Activate ==
  /\ Activates(memory)
  /\ Mutate([Activated(memory) EXCEPT !.mode = "tls-psk"], TRUE)
  /\ UNCHANGED accepted

Discard ==
  /\ memory.pending # None
  /\ Mutate(Discarded(memory), FALSE)
  /\ UNCHANGED accepted

RollBack ==
  /\ Rollback(memory) # None
  /\ Mutate(Switched(memory), TRUE)
  /\ UNCHANGED accepted

Retire ==
  /\ Rollback(memory) # None
  /\ Mutate(Retired(memory), FALSE)
  /\ UNCHANGED accepted

SetTransport ==
  \E mode \in {"cleartext", "tls-psk"} :
    LET c == [memory EXCEPT !.mode = mode] IN
    /\ Valid(c)
    /\ Update(c, mode # memory.mode)
    /\ UNCHANGED accepted

SetTarget ==
  \E t \in Targets \cup {None} :
    Update(Retargeted(memory, t), TRUE) /\ UNCHANGED accepted

\* Wi-Fi credentials, with a target or without; the one write that persists
\* on an uncommissioned device.
SetWifi ==
  \E t \in Targets \cup {None} :
    /\ Persist([Retargeted(memory, t) EXCEPT !.commissioned = TRUE], TRUE)
    /\ UNCHANGED accepted

\* The committed state is erased; memory waits for the restart.
FactoryReset ==
  /\ Accepting
  /\ \/ durable' = Blank /\ restarting' = TRUE
     \/ durable' \in {durable, Blank} /\ UNCHANGED restarting
  /\ UNCHANGED <<memory, booted, streaming, accepted>>

\* A plain restart, or one for a setting kept elsewhere.
Restart ==
  /\ Accepting
  /\ restarting' = TRUE
  /\ UNCHANGED <<memory, durable, booted, streaming, accepted>>

\* The pending restart, any other, or a power loss.
Boot ==
  /\ memory' = durable /\ booted' = durable.commissioned
  /\ streaming' = KeyInUse(durable)
  /\ restarting' = FALSE
  /\ UNCHANGED <<durable, accepted>>

Lifecycle ==
  StageKey \/ Recover \/ Verify \/ Activate \/ Discard \/ RollBack \/ Retire

Settings == SetTransport \/ SetTarget \/ SetWifi \/ FactoryReset \/ Restart

Next == Lifecycle \/ Settings \/ Boot

Spec == Init /\ [][Next]_vars

-----------------------------------------------------------------------------
(* Both configurations keep their type. *)
TypeOK ==
  /\ memory \in Configs /\ durable \in Configs
  /\ booted \in BOOLEAN /\ restarting \in BOOLEAN
  /\ streaming \in Keys \cup {None}
  /\ accepted \subseteq Keys \X Targets

(***************************************************************************)
(* A committed configuration is one the next boot accepts: load() answers  *)
(* an invalid one by opening the unprotected setup network instead.        *)
(***************************************************************************)
ConfigValid == Valid(memory) /\ Valid(durable)

(***************************************************************************)
(* docs/tcp-transport.md:121: a key marked verified was accepted by the    *)
(* bridge the device is configured for, also after a target was changed,   *)
(* a write failed or the device restarted.                                 *)
(***************************************************************************)
ProvedHere(c, a) == c.verified => <<Pending(c), c.target>> \in a

VerifiedProved == ProvedHere(memory, accepted) /\ ProvedHere(durable, accepted)

(***************************************************************************)
(* A key that is active, or that a rollback would make active, is one that *)
(* some bridge has accepted.                                               *)
(***************************************************************************)
Proved(k, a) == \E t \in Targets : <<k, t>> \in a

SettledProved(c, a) ==
  \A s \in Slots : c.slots[s] # None /\ s # c.pending => Proved(c.slots[s], a)

OnlyProvedKeys == SettledProved(memory, accepted) /\ SettledProved(durable, accepted)

(***************************************************************************)
(* No key is trusted unproved: verified, active or kept to roll back to,   *)
(* it was accepted by a bridge.                                            *)
(***************************************************************************)
KeysProved == VerifiedProved /\ OnlyProvedKeys

(***************************************************************************)
(* The key the stream runs with is not lost to a mistake: whatever the     *)
(* operator does and whichever write fails, the device still holds it, in  *)
(* memory and for the next boot, until a factory reset.                    *)
(***************************************************************************)
Keeps(c, k) == k = None \/ k \in Held(c)

RunningKeyKept ==
  Keeps(memory, streaming) /\ (durable.commissioned => Keeps(durable, streaming))
=============================================================================
