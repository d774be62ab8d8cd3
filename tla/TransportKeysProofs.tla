------------------------- MODULE TransportKeysProofs -------------------------
(***************************************************************************)
(* What the device's transport settings keep, for every set of keys and of *)
(* bridge endpoints.                                                       *)
(*                                                                         *)
(* The invariant speaks of one configuration at a time, so that every      *)
(* operation is dealt with once, as a value, and every write once, for all *)
(* operations.  What it adds to the checked properties is Linked: until a  *)
(* restart is pending the active key is the one the stream runs with,      *)
(* which is why refusing operations during a restart keeps that key.       *)
(***************************************************************************)
EXTENDS TransportKeys, TLAPS

Sound(c, a) ==
  /\ c \in Configs
  /\ Valid(c)
  /\ ProvedHere(c, a)
  /\ SettledProved(c, a)

Linked(c, k) == k = None \/ k = Active(c)

IInv ==
  /\ booted \in BOOLEAN /\ restarting \in BOOLEAN
  /\ streaming \in Keys \cup {None}
  /\ accepted \subseteq Keys \X Targets
  /\ Sound(memory, accepted) /\ Sound(durable, accepted)
  /\ RunningKeyKept
  /\ ~restarting => Linked(memory, streaming)

-----------------------------------------------------------------------------
(* The operations on one sound configuration. *)

LEMMA FreeSlotType ==
  ASSUME NEW c \in Configs
  PROVE  FreeSlot(c) \in Slots /\ FreeSlot(c) # c.active
BY TransportAssumption DEF Configs, FreeSlot, Other, Slots

LEMMA StagedShape ==
  ASSUME NEW c \in Configs, NEW k \in Keys
  PROVE  LET d == Staged(c, k)
         IN  /\ d \in Configs /\ d.pending = FreeSlot(c) /\ d.active = c.active
             /\ d.verified = FALSE /\ d.mode = c.mode
             /\ \A s \in Slots : d.slots[s] = IF s = FreeSlot(c) THEN k ELSE c.slots[s]
<1>1. FreeSlot(c) \in Slots
  BY FreeSlotType
<1> QED BY <1>1 DEF Staged, Configs

\* A settled key stays proved when more is accepted.
LEMMA Grows ==
  ASSUME NEW c, NEW a, NEW b, a \subseteq b, Sound(c, a)
  PROVE  Sound(c, b)
BY DEF Sound, ProvedHere, SettledProved, Proved

\* Forgetting a key no slot holds.
LEMMA Forgets ==
  ASSUME NEW c, NEW a, NEW k \in Keys, k \notin Held(c), Sound(c, a)
  PROVE  Sound(c, {p \in a : p[1] # k})
<1> DEFINE b == {p \in a : p[1] # k}
<1>1. ASSUME NEW j, NEW t, j # k, <<j, t>> \in a PROVE <<j, t>> \in b
  BY <1>1
<1>2. ProvedHere(c, b)
  <2>1. SUFFICES ASSUME c.verified PROVE <<Pending(c), c.target>> \in b
    BY DEF ProvedHere
  <2>2. Pending(c) \in Held(c)
    BY <2>1, TransportAssumption DEF Sound, Valid, Pending, Held, Configs
  <2> QED BY <1>1, <2>1, <2>2 DEF Sound, ProvedHere
<1>3. SettledProved(c, b)
  <2>1. SUFFICES ASSUME NEW s \in Slots, c.slots[s] # None, s # c.pending
                 PROVE  Proved(c.slots[s], b)
    BY DEF SettledProved
  <2>2. c.slots[s] # k
    BY <2>1 DEF Held
  <2>3. PICK t \in Targets : <<c.slots[s], t>> \in a
    BY <2>1 DEF Sound, SettledProved, Proved
  <2> QED BY <1>1, <2>2, <2>3 DEF Proved
<1> QED BY <1>2, <1>3 DEF Sound

LEMMA ClearedSound ==
  ASSUME NEW c, NEW a, Sound(c, a)
  PROVE  /\ Sound(Cleared(c), a)
         /\ Cleared(c).pending = None /\ Cleared(c).active = c.active
         /\ Active(Cleared(c)) = Active(c)
         /\ Held(Cleared(c)) \subseteq Held(c)
<1> DEFINE d == Cleared(c)
<1>1. d \in Configs
  BY DEF Sound, Cleared, Configs
<1>2. /\ d.pending = None /\ d.active = c.active /\ d.verified = FALSE
      /\ d.mode = c.mode
      /\ \A s \in Slots : d.slots[s] = IF s = c.active THEN c.slots[s] ELSE None
  BY DEF Sound, Cleared, Configs
<1>3. Active(d) = Active(c)
  BY <1>2 DEF Active, Sound, Configs
<1>4. Valid(d)
  BY <1>2, <1>3, TransportAssumption DEF Valid, Sound, Slots
<1>5. ProvedHere(d, a)
  BY <1>2 DEF ProvedHere
<1>6. SettledProved(d, a)
  BY <1>2 DEF SettledProved, Sound, Valid
<1>7. Held(d) \subseteq Held(c)
  BY <1>2 DEF Held
<1> QED BY <1>1, <1>2, <1>3, <1>4, <1>5, <1>6, <1>7 DEF Sound

LEMMA StagedSound ==
  ASSUME NEW c, NEW a, Sound(c, a), c.pending = None, Rollback(c) = None,
         NEW k \in Keys, k \notin Held(c)
  PROVE  Sound(Staged(c, k), a) /\ Active(Staged(c, k)) = Active(c)
<1> DEFINE d == Staged(c, k)
<1>0. FreeSlot(c) \in Slots /\ FreeSlot(c) # c.active
  BY FreeSlotType DEF Sound
<1>1. d \in Configs
  BY StagedShape DEF Sound
<1>2. /\ d.pending = FreeSlot(c) /\ d.active = c.active /\ d.verified = FALSE
      /\ d.mode = c.mode
      /\ \A s \in Slots : d.slots[s] = IF s = FreeSlot(c) THEN k ELSE c.slots[s]
  BY StagedShape DEF Sound
<1>3. Active(d) = Active(c)
  BY <1>0, <1>2 DEF Active, Sound, Configs
<1>4. Pending(d) = k /\ k # None
  BY <1>0, <1>2, TransportAssumption DEF Pending, Slots
<1>5. d.slots["A"] # None => d.slots["A"] # d.slots["B"]
  BY <1>2, <1>4 DEF Sound, Valid, Held, Slots
<1>6. Valid(d)
  BY <1>0, <1>2, <1>3, <1>4, <1>5 DEF Valid, Sound
<1>7. ProvedHere(d, a)
  BY <1>2 DEF ProvedHere
<1>8. SettledProved(d, a)
  BY <1>0, <1>2, TransportAssumption DEF SettledProved, Sound, Valid, Slots
<1> QED BY <1>1, <1>3, <1>6, <1>7, <1>8 DEF Sound

LEMMA RecoveredSound ==
  ASSUME NEW c, NEW a, Sound(c, a), NEW k \in Keys, k \notin Held(c)
  PROVE  Sound(Recovered(c, k), a) /\ Active(Recovered(c, k)) = Active(c)
<1> DEFINE d == Cleared(c)
           e == Staged(d, k)
           f == Recovered(c, k)
<1>1. /\ Sound(d, a) /\ d.pending = None /\ d.active = c.active
      /\ Active(d) = Active(c) /\ Held(d) \subseteq Held(c)
  BY ClearedSound
<1>2. Rollback(d) = None
  <2>1. CASE c.active = None
    BY <1>1, <2>1 DEF Rollback
  <2>2. CASE c.active # None
    <3>1. c.active \in Slots /\ Other(c.active) \in Slots /\ Other(c.active) # c.active
      BY <2>2 DEF Sound, Configs, Other, Slots
    <3>2. d.slots[Other(c.active)] = None
      BY <3>1 DEF Cleared, Sound, Configs
    <3> QED BY <1>1, <3>2 DEF Rollback
  <2> QED BY <2>1, <2>2
<1>3. Sound(e, a) /\ Active(e) = Active(d)
  <2>1. k \notin Held(d)
    BY <1>1
  <2> HIDE DEF d
  <2> QED BY <1>1, <1>2, <2>1, StagedSound
<1>4. f = [e EXCEPT !.mode = "cleartext"]
  BY DEF Recovered
<1> HIDE DEF e, f
<1>5. /\ f \in Configs /\ f.slots = e.slots /\ f.active = e.active
      /\ f.pending = e.pending /\ f.verified = e.verified /\ f.target = e.target
      /\ f.mode = "cleartext"
  BY <1>3, <1>4 DEF Sound, Configs
<1>6. Active(f) = Active(e) /\ Pending(f) = Pending(e)
  BY <1>5 DEF Active, Pending
<1>7. Sound(f, a)
  BY <1>3, <1>5, <1>6 DEF Sound, Valid, ProvedHere, SettledProved
<1> QED BY <1>1, <1>3, <1>6, <1>7 DEF f

LEMMA DiscardedSound ==
  ASSUME NEW c, NEW a, Sound(c, a), c.pending # None
  PROVE  Sound(Discarded(c), a) /\ Active(Discarded(c)) = Active(c)
<1> DEFINE d == Discarded(c)
<1>0. c.pending \in Slots /\ c.pending # c.active
  BY DEF Sound, Valid, Configs
<1>1. d \in Configs
  BY <1>0 DEF Sound, Discarded, Configs
<1>2. /\ d.pending = None /\ d.active = c.active /\ d.verified = FALSE
      /\ d.mode = c.mode
      /\ \A s \in Slots : d.slots[s] = IF s = c.pending THEN None ELSE c.slots[s]
  BY <1>0 DEF Sound, Discarded, Configs
<1>3. Active(d) = Active(c)
  BY <1>0, <1>2 DEF Active, Sound, Configs
<1>4. Valid(d)
  BY <1>2, <1>3 DEF Valid, Sound, Slots
<1>5. ProvedHere(d, a)
  BY <1>2 DEF ProvedHere
<1>6. SettledProved(d, a)
  BY <1>2 DEF SettledProved, Sound
<1> QED BY <1>1, <1>3, <1>4, <1>5, <1>6 DEF Sound

LEMMA RetiredSound ==
  ASSUME NEW c, NEW a, Sound(c, a), Rollback(c) # None
  PROVE  Sound(Retired(c), a) /\ Active(Retired(c)) = Active(c)
<1> DEFINE d == Retired(c)
<1>0. /\ c.active \in Slots /\ c.pending = None
      /\ Other(c.active) \in Slots /\ Other(c.active) # c.active
  BY DEF Rollback, Sound, Configs, Other, Slots
<1>1. d \in Configs
  BY <1>0 DEF Sound, Retired, Configs
<1>2. /\ d.pending = None /\ d.active = c.active /\ d.verified = c.verified
      /\ d.mode = c.mode
      /\ \A s \in Slots : d.slots[s] = IF s = Other(c.active) THEN None ELSE c.slots[s]
  BY <1>0 DEF Sound, Retired, Configs
<1>3. Active(d) = Active(c)
  BY <1>0, <1>2 DEF Active, Sound, Configs
<1>4. Valid(d)
  BY <1>0, <1>2, <1>3 DEF Valid, Sound, Slots
<1>5. ProvedHere(d, a)
  BY <1>0, <1>2 DEF ProvedHere, Sound, Valid
<1>6. SettledProved(d, a)
  BY <1>0, <1>2, TransportAssumption DEF SettledProved, Sound, Slots
<1> QED BY <1>1, <1>3, <1>4, <1>5, <1>6 DEF Sound

LEMMA SwitchedSound ==
  ASSUME NEW c, NEW a, Sound(c, a), Rollback(c) # None
  PROVE  Sound(Switched(c), a) /\ Held(Switched(c)) = Held(c)
<1> DEFINE d == Switched(c)
<1>0. /\ c.active \in Slots /\ c.pending = None
      /\ Other(c.active) \in Slots /\ c.slots[Other(c.active)] # None
  BY DEF Rollback, Sound, Configs, Other, Slots
<1>1. /\ d \in Configs /\ d.active = Other(c.active) /\ d.slots = c.slots
      /\ d.pending = None /\ d.verified = c.verified
  BY <1>0 DEF Sound, Switched, Configs
<1>2. Active(d) # None
  BY <1>0, <1>1, TransportAssumption DEF Active, Slots
<1>3. Valid(d)
  BY <1>0, <1>1, <1>2 DEF Valid, Sound
<1>4. ProvedHere(d, a)
  BY <1>0, <1>1 DEF ProvedHere, Sound, Valid
<1>5. SettledProved(d, a)
  BY <1>0, <1>1 DEF SettledProved, Sound
<1>6. Held(d) = Held(c)
  BY <1>1 DEF Held
<1> QED BY <1>1, <1>3, <1>4, <1>5, <1>6 DEF Sound

\* The key becomes settled, and a bridge has accepted it.
LEMMA ActivatedSound ==
  ASSUME NEW c, NEW a, Sound(c, a), Activates(c), a \subseteq Keys \X Targets
  PROVE  LET d == [Activated(c) EXCEPT !.mode = "tls-psk"]
         IN  Sound(d, a) /\ Held(d) = Held(c)
<1> DEFINE d == [Activated(c) EXCEPT !.mode = "tls-psk"]
<1>0. c.pending \in Slots /\ c.pending # None /\ c.slots[c.pending] # None /\ c.verified
  BY DEF Activates, Sound, Valid, Configs, Pending
<1>1. /\ d \in Configs /\ d.active = c.pending /\ d.slots = c.slots
      /\ d.pending = None /\ d.verified = FALSE
  BY <1>0 DEF Sound, Activated, Configs
<1>2. Active(d) # None
  BY <1>0, <1>1 DEF Active
<1>3. Valid(d)
  BY <1>1, <1>2 DEF Valid, Sound
<1>4. ProvedHere(d, a)
  BY <1>1 DEF ProvedHere
<1>5. Proved(c.slots[c.pending], a)
  <2>1. <<c.slots[c.pending], c.target>> \in a
    BY <1>0 DEF Sound, ProvedHere, Pending
  <2> QED BY <2>1 DEF Proved
<1>6. SettledProved(d, a)
  BY <1>1, <1>5 DEF SettledProved, Sound
<1>7. Held(d) = Held(c)
  BY <1>1 DEF Held
<1> QED BY <1>1, <1>3, <1>4, <1>6, <1>7 DEF Sound

LEMMA VerifiedSound ==
  ASSUME NEW c, NEW a, Sound(c, a), Verifiable(c), <<Pending(c), c.target>> \in a
  PROVE  LET d == [c EXCEPT !.verified = TRUE]
         IN  Sound(d, a) /\ Active(d) = Active(c)
<1> DEFINE d == [c EXCEPT !.verified = TRUE]
<1>1. /\ d \in Configs /\ d.active = c.active /\ d.slots = c.slots
      /\ d.pending = c.pending /\ d.target = c.target /\ d.mode = c.mode
  BY DEF Sound, Configs
<1>2. Active(d) = Active(c) /\ Pending(d) = Pending(c)
  BY <1>1 DEF Active, Pending
<1>3. Valid(d)
  BY <1>1, <1>2 DEF Valid, Sound, Verifiable
<1>4. ProvedHere(d, a) /\ SettledProved(d, a)
  BY <1>1, <1>2 DEF ProvedHere, SettledProved, Sound
<1> QED BY <1>1, <1>2, <1>3, <1>4 DEF Sound

LEMMA RetargetedSound ==
  ASSUME NEW c, NEW a, Sound(c, a), NEW t \in Targets \cup {None}
  PROVE  /\ Sound(Retargeted(c, t), a) /\ Active(Retargeted(c, t)) = Active(c)
         /\ Sound([Retargeted(c, t) EXCEPT !.commissioned = TRUE], a)
         /\ Held([Retargeted(c, t) EXCEPT !.commissioned = TRUE]) = Held(c)
<1> DEFINE d == Retargeted(c, t)
           e == [d EXCEPT !.commissioned = TRUE]
<1>1. /\ d \in Configs /\ d.active = c.active /\ d.slots = c.slots
      /\ d.pending = c.pending /\ d.mode = c.mode /\ d.target = t
      /\ d.verified = IF t = c.target THEN c.verified ELSE FALSE
  BY DEF Sound, Retargeted, Configs
<1>2. Active(d) = Active(c) /\ Pending(d) = Pending(c)
  BY <1>1 DEF Active, Pending
<1>3. Valid(d) /\ ProvedHere(d, a) /\ SettledProved(d, a)
  BY <1>1, <1>2 DEF Valid, ProvedHere, SettledProved, Sound
<1> HIDE DEF d
<1>4. /\ e \in Configs /\ e.active = d.active /\ e.slots = d.slots
      /\ e.pending = d.pending /\ e.mode = d.mode /\ e.target = d.target
      /\ e.verified = d.verified
  BY <1>1 DEF Configs
<1>5. Active(e) = Active(d) /\ Pending(e) = Pending(d) /\ Held(e) = Held(c)
  BY <1>1, <1>4 DEF Active, Pending, Held
<1>6. Valid(e) /\ ProvedHere(e, a) /\ SettledProved(e, a)
  BY <1>3, <1>4, <1>5 DEF Valid, ProvedHere, SettledProved
<1> QED BY <1>1, <1>2, <1>3, <1>4, <1>5, <1>6 DEF Sound, d

LEMMA ModeSound ==
  ASSUME NEW c, NEW a, Sound(c, a), NEW mode \in {"cleartext", "tls-psk"},
         Valid([c EXCEPT !.mode = mode])
  PROVE  LET d == [c EXCEPT !.mode = mode]
         IN  Sound(d, a) /\ Active(d) = Active(c)
<1> DEFINE d == [c EXCEPT !.mode = mode]
<1>1. /\ d \in Configs /\ d.active = c.active /\ d.slots = c.slots
      /\ d.pending = c.pending /\ d.target = c.target /\ d.verified = c.verified
  BY DEF Sound, Configs
<1>2. Active(d) = Active(c) /\ Pending(d) = Pending(c)
  BY <1>1 DEF Active, Pending
<1> QED BY <1>1, <1>2 DEF Sound, ProvedHere, SettledProved

LEMMA BlankSound ==
  ASSUME NEW a
  PROVE  Sound(Blank, a) /\ ~Blank.commissioned
<1>1. Blank \in Configs
  BY DEF Blank, Configs, Slots
<1>2. Active(Blank) = None
  BY DEF Blank, Active
<1> QED
  BY <1>1, <1>2 DEF Sound, Valid, ProvedHere, SettledProved, Blank, Slots

-----------------------------------------------------------------------------
(* The writes, for every operation. *)

\* An operation that leaves the active key alone keeps what the stream uses.
LEMMA SameActiveKeeps ==
  ASSUME NEW c, NEW a, Sound(c, a), NEW k, Linked(c, k)
  PROVE  Keeps(c, k)
<1>1. CASE k = None
  BY <1>1 DEF Keeps
<1>2. CASE k # None
  <2>1. k = Active(c) /\ c.active # None
    BY <1>2 DEF Linked, Active
  <2>2. c.active \in Slots
    BY <2>1 DEF Sound, Configs
  <2> QED BY <1>2, <2>1, <2>2 DEF Keeps, Active, Held
<1> QED BY <1>1, <1>2

LEMMA WriteKeeps ==
  ASSUME IInv, NEW c, NEW reboots \in BOOLEAN,
         accepted' \subseteq Keys \X Targets,
         Sound(c, accepted'), Sound(memory, accepted'), Sound(durable, accepted'),
         Keeps(c, streaming), ~reboots => Linked(c, streaming),
         Persist(c, reboots) \/ Update(c, reboots)
  PROVE  IInv'
<1>1. ~restarting /\ UNCHANGED <<booted, streaming>>
  BY DEF Persist, Update, Stage, Accepting
<1>2. Linked(memory, streaming)
  BY <1>1 DEF IInv
<1>3. CASE Committed(c, reboots)
  <2>1. durable' = c /\ memory' = c /\ restarting' = reboots
    BY <1>3 DEF Committed
  <2> QED BY <1>1, <2>1 DEF IInv, RunningKeyKept
<1>4. CASE WriteFails(c)
  <2>1. memory' = memory /\ restarting' = restarting /\ durable' \in {durable, c}
    BY <1>4 DEF WriteFails
  <2>2. durable'.commissioned => Keeps(durable', streaming)
    BY <2>1 DEF IInv, RunningKeyKept
  <2> QED BY <1>1, <1>2, <2>1, <2>2 DEF IInv, RunningKeyKept
<1>5. CASE Stage(c, reboots)
  <2>1. memory' = c /\ restarting' = reboots /\ durable' = durable
    BY <1>5 DEF Stage
  <2> QED BY <1>1, <2>1 DEF IInv, RunningKeyKept
<1> QED BY <1>3, <1>4, <1>5 DEF Persist, Update

\* ... when nothing new is accepted, and the active key stays.
LEMMA SameActiveWrite ==
  ASSUME IInv, NEW c, NEW reboots \in BOOLEAN, UNCHANGED accepted,
         Sound(c, accepted), Active(c) = Active(memory),
         Persist(c, reboots) \/ Update(c, reboots)
  PROVE  IInv'
<1>1. ~restarting /\ Linked(memory, streaming)
  BY DEF IInv, Persist, Update, Stage, Accepting
<1>2. Linked(c, streaming)
  BY <1>1 DEF Linked
<1>3. Keeps(c, streaming)
  BY <1>2, SameActiveKeeps
<1> QED BY <1>2, <1>3, WriteKeeps DEF IInv

\* ... when the held keys stay and the device restarts.
LEMMA SameKeysWrite ==
  ASSUME IInv, NEW c, UNCHANGED accepted,
         Sound(c, accepted), Held(c) = Held(memory),
         Persist(c, TRUE) \/ Update(c, TRUE)
  PROVE  IInv'
<1>1. Keeps(c, streaming)
  BY DEF IInv, RunningKeyKept, Keeps
<1> QED BY <1>1, WriteKeeps DEF IInv

\* ... when a new key is generated.
LEMMA GeneratedWrite ==
  ASSUME IInv, NEW c, NEW k \in Fresh, Generated(k),
         Sound(c, accepted), Active(c) = Active(memory), c.verified = FALSE,
         c.pending # None, c.slots[c.pending] = k, \A s \in Slots : s # c.pending => c.slots[s] # k,
         Persist(c, FALSE)
  PROVE  IInv'
<1>1. k \in Keys /\ k \notin Held(memory) /\ k \notin Held(durable)
  BY DEF Fresh
<1>2. accepted' = {p \in accepted : p[1] # k} /\ accepted' \subseteq Keys \X Targets
  BY DEF Generated, IInv
<1>3. Sound(memory, accepted') /\ Sound(durable, accepted')
  BY <1>1, <1>2, Forgets DEF IInv
<1>4. SettledProved(c, accepted')
  <2>1. SUFFICES ASSUME NEW s \in Slots, c.slots[s] # None, s # c.pending
                 PROVE  Proved(c.slots[s], accepted')
    BY DEF SettledProved
  <2>2. PICK t \in Targets : <<c.slots[s], t>> \in accepted
    BY <2>1 DEF Sound, SettledProved, Proved
  <2>3. <<c.slots[s], t>> \in accepted'
    BY <1>2, <2>1, <2>2
  <2> QED BY <2>3 DEF Proved
<1>5. Sound(c, accepted')
  BY <1>4 DEF Sound, ProvedHere
<1>6. ~restarting /\ Linked(memory, streaming)
  BY DEF IInv, Persist, Accepting
<1>7. Linked(c, streaming)
  BY <1>6 DEF Linked
<1>8. Keeps(c, streaming)
  BY <1>5, <1>7, SameActiveKeeps
<1> QED BY <1>2, <1>3, <1>5, <1>7, <1>8, WriteKeeps

-----------------------------------------------------------------------------
(* The handlers. *)

LEMMA InitIInv == Init => IInv
<1> SUFFICES ASSUME Init PROVE IInv
  OBVIOUS
<1>1. Sound(Blank, accepted)
  BY BlankSound
<1> QED BY <1>1, SameActiveKeeps DEF Init, IInv, RunningKeyKept, Linked, Keeps

LEMMA StageStep == IInv /\ StageKey => IInv'
<1> SUFFICES ASSUME IInv, StageKey PROVE IInv'
  OBVIOUS
<1>1. PICK k \in Fresh : Persist(Staged(memory, k), FALSE) /\ Generated(k)
  BY DEF StageKey, Mutate
<1>2. k \in Keys /\ k \notin Held(memory)
  BY DEF Fresh
<1>3. /\ Sound(memory, accepted) /\ memory.pending = None /\ Rollback(memory) = None
      /\ memory \in Configs
  BY DEF IInv, Sound, StageKey
<1>4. Sound(Staged(memory, k), accepted) /\ Active(Staged(memory, k)) = Active(memory)
  BY <1>2, <1>3, StagedSound
<1>5. FreeSlot(memory) \in Slots
  BY <1>3, FreeSlotType
<1>6. /\ Staged(memory, k).pending = FreeSlot(memory)
      /\ Staged(memory, k).verified = FALSE
      /\ Staged(memory, k).slots[FreeSlot(memory)] = k
      /\ \A s \in Slots : s # FreeSlot(memory) => Staged(memory, k).slots[s] = memory.slots[s]
  BY <1>2, <1>3, <1>5, StagedShape
<1>7. \A s \in Slots : memory.slots[s] # k
  BY <1>2, TransportAssumption DEF Held
<1> DEFINE c == Staged(memory, k)
<1>8. /\ c.verified = FALSE /\ c.pending # None /\ c.slots[c.pending] = k
      /\ \A s \in Slots : s # c.pending => c.slots[s] # k
  BY <1>5, <1>6, <1>7, TransportAssumption DEF Slots
<1> HIDE DEF c
<1> QED BY <1>1, <1>4, <1>8, GeneratedWrite DEF c

LEMMA RecoverStep == IInv /\ Recover => IInv'
<1> SUFFICES ASSUME IInv, Recover PROVE IInv'
  OBVIOUS
<1>1. PICK k \in Fresh : Persist(Recovered(memory, k), FALSE) /\ Generated(k)
  BY DEF Recover, Mutate
<1>2. k \in Keys /\ k \notin Held(memory)
  BY DEF Fresh
<1> DEFINE d == Cleared(memory)
           e == Staged(d, k)
           c == Recovered(memory, k)
<1>3. Sound(memory, accepted)
  BY DEF IInv
<1>4. Sound(c, accepted) /\ Active(c) = Active(memory)
  BY <1>2, <1>3, RecoveredSound
<1>5. d \in Configs /\ Held(d) \subseteq Held(memory)
  BY <1>3, ClearedSound DEF Sound
<1>6. c = [e EXCEPT !.mode = "cleartext"]
  BY DEF Recovered
<1> HIDE DEF d
<1>7. FreeSlot(d) \in Slots
  BY <1>5, FreeSlotType
<1>8. e \in Configs /\ e.pending = FreeSlot(d) /\ e.verified = FALSE
  BY <1>2, <1>5, StagedShape
<1>9. \A s \in Slots : e.slots[s] = IF s = FreeSlot(d) THEN k ELSE d.slots[s]
  BY <1>2, <1>5, StagedShape
<1> HIDE DEF e
<1>10. c.pending = e.pending /\ c.verified = e.verified /\ c.slots = e.slots
  BY <1>6, <1>8 DEF Configs
<1>11. \A s \in Slots : d.slots[s] # k
  BY <1>2, <1>5, TransportAssumption DEF Held
<1> HIDE DEF c
<1>12. /\ c.verified = FALSE /\ c.pending # None /\ c.slots[c.pending] = k
       /\ \A s \in Slots : s # c.pending => c.slots[s] # k
  BY <1>7, <1>8, <1>9, <1>10, <1>11, TransportAssumption DEF Slots
<1>13. Persist(c, FALSE)
  BY <1>1 DEF c
<1> QED BY <1>1, <1>4, <1>12, <1>13, GeneratedWrite

LEMMA VerifyStep == IInv /\ Verify => IInv'
<1> SUFFICES ASSUME IInv, Verify PROVE IInv'
  OBVIOUS
<1> DEFINE c == [memory EXCEPT !.verified = TRUE]
<1>1. /\ Verifiable(memory) /\ Persist(c, FALSE)
      /\ accepted' = accepted \cup {<<Pending(memory), memory.target>>}
  BY DEF Verify, Mutate
<1>2. Pending(memory) \in Keys /\ memory.target \in Targets
  BY <1>1, TransportAssumption DEF IInv, Sound, Valid, Configs, Pending, Verifiable
<1>3. accepted' \subseteq Keys \X Targets /\ accepted \subseteq accepted'
  BY <1>1, <1>2 DEF IInv
<1>4. Sound(memory, accepted') /\ Sound(durable, accepted')
  BY <1>3, Grows DEF IInv
<1>5. Sound(c, accepted') /\ Active(c) = Active(memory)
  BY <1>1, <1>4, VerifiedSound
<1>6. ~restarting /\ Linked(memory, streaming)
  BY <1>1 DEF IInv, Persist, Accepting
<1> HIDE DEF c
<1>7. Linked(c, streaming) /\ Keeps(c, streaming)
  BY <1>5, <1>6, SameActiveKeeps DEF Linked
<1> QED BY <1>1, <1>3, <1>4, <1>5, <1>7, WriteKeeps

LEMMA KeyStep == IInv /\ (Activate \/ Discard \/ RollBack \/ Retire) => IInv'
<1> SUFFICES ASSUME IInv, Activate \/ Discard \/ RollBack \/ Retire PROVE IInv'
  OBVIOUS
<1>0. Sound(memory, accepted) /\ accepted \subseteq Keys \X Targets
  BY DEF IInv
<1>1. CASE Activate
  <2> DEFINE c == [Activated(memory) EXCEPT !.mode = "tls-psk"]
  <2>1. Activates(memory) /\ Persist(c, TRUE) /\ UNCHANGED accepted
    BY <1>1 DEF Activate, Mutate
  <2>2. Sound(c, accepted) /\ Held(c) = Held(memory)
    BY <1>0, <2>1, ActivatedSound
  <2> HIDE DEF c
  <2> QED BY <2>1, <2>2, SameKeysWrite
<1>2. CASE Discard
  <2> DEFINE c == Discarded(memory)
  <2>1. memory.pending # None /\ Persist(c, FALSE) /\ UNCHANGED accepted
    BY <1>2 DEF Discard, Mutate
  <2>2. Sound(c, accepted) /\ Active(c) = Active(memory)
    BY <1>0, <2>1, DiscardedSound
  <2> HIDE DEF c
  <2> QED BY <2>1, <2>2, SameActiveWrite
<1>3. CASE RollBack
  <2> DEFINE c == Switched(memory)
  <2>1. Rollback(memory) # None /\ Persist(c, TRUE) /\ UNCHANGED accepted
    BY <1>3 DEF RollBack, Mutate
  <2>2. Sound(c, accepted) /\ Held(c) = Held(memory)
    BY <1>0, <2>1, SwitchedSound
  <2> HIDE DEF c
  <2> QED BY <2>1, <2>2, SameKeysWrite
<1>4. CASE Retire
  <2> DEFINE c == Retired(memory)
  <2>1. Rollback(memory) # None /\ Persist(c, FALSE) /\ UNCHANGED accepted
    BY <1>4 DEF Retire, Mutate
  <2>2. Sound(c, accepted) /\ Active(c) = Active(memory)
    BY <1>0, <2>1, RetiredSound
  <2> HIDE DEF c
  <2> QED BY <2>1, <2>2, SameActiveWrite
<1> QED BY <1>1, <1>2, <1>3, <1>4

LEMMA SettingsStep == IInv /\ Settings => IInv'
<1> SUFFICES ASSUME IInv, Settings PROVE IInv'
  OBVIOUS
<1>0. Sound(memory, accepted)
  BY DEF IInv
<1>1. CASE SetTransport
  <2>1. PICK mode \in {"cleartext", "tls-psk"} :
          /\ Valid([memory EXCEPT !.mode = mode])
          /\ Update([memory EXCEPT !.mode = mode], mode # memory.mode)
          /\ UNCHANGED accepted
    BY <1>1 DEF SetTransport
  <2> DEFINE c == [memory EXCEPT !.mode = mode]
  <2>2. Sound(c, accepted) /\ Active(c) = Active(memory)
    BY <1>0, <2>1, ModeSound
  <2> HIDE DEF c
  <2>3. Update(c, mode # memory.mode)
    BY <2>1 DEF c
  <2> QED BY <2>1, <2>2, <2>3, SameActiveWrite
<1>2. CASE SetTarget
  <2>1. PICK t \in Targets \cup {None} :
          Update(Retargeted(memory, t), TRUE) /\ UNCHANGED accepted
    BY <1>2 DEF SetTarget
  <2>2. /\ Sound(Retargeted(memory, t), accepted)
        /\ Active(Retargeted(memory, t)) = Active(memory)
    BY <1>0, RetargetedSound
  <2> QED BY <2>1, <2>2, SameActiveWrite
<1>3. CASE SetWifi
  <2>1. PICK t \in Targets \cup {None} :
          /\ Persist([Retargeted(memory, t) EXCEPT !.commissioned = TRUE], TRUE)
          /\ UNCHANGED accepted
    BY <1>3 DEF SetWifi
  <2> DEFINE c == [Retargeted(memory, t) EXCEPT !.commissioned = TRUE]
  <2>2. Sound(c, accepted) /\ Held(c) = Held(memory)
    BY <1>0, RetargetedSound
  <2> HIDE DEF c
  <2>3. Persist(c, TRUE)
    BY <2>1 DEF c
  <2> QED BY <2>1, <2>2, <2>3, SameKeysWrite
<1>4. CASE FactoryReset
  <2>1. UNCHANGED <<memory, booted, streaming, accepted>> /\ durable' \in {durable, Blank}
        /\ restarting' \in BOOLEAN /\ (restarting => restarting')
    BY <1>4 DEF FactoryReset, IInv, Accepting
  <2>2. Sound(durable', accepted)
    BY <2>1, BlankSound DEF IInv
  <2>3. durable'.commissioned => Keeps(durable', streaming)
    BY <2>1, BlankSound DEF IInv, RunningKeyKept
  <2> QED BY <2>1, <2>2, <2>3 DEF IInv, RunningKeyKept
<1>5. CASE Restart
  BY <1>5 DEF Restart, IInv, RunningKeyKept
<1> QED BY <1>1, <1>2, <1>3, <1>4, <1>5 DEF Settings

\* What the device starts with is what it loads.
LEMMA BootStep == IInv /\ Boot => IInv'
<1> SUFFICES ASSUME IInv, Boot PROVE IInv'
  OBVIOUS
<1>1. /\ memory' = durable /\ durable' = durable /\ accepted' = accepted
      /\ booted' = durable.commissioned /\ restarting' = FALSE
      /\ streaming' = KeyInUse(durable)
  BY DEF Boot
<1>2. Sound(durable, accepted) /\ durable \in Configs /\ durable.commissioned \in BOOLEAN
  BY DEF IInv, Sound, Configs
<1>3. KeyInUse(durable) \in Keys \cup {None} /\ Linked(durable, KeyInUse(durable))
  BY <1>2 DEF KeyInUse, Active, Linked, Configs
<1>4. Keeps(durable, KeyInUse(durable))
  BY <1>2, <1>3, SameActiveKeeps
<1> QED BY <1>1, <1>2, <1>3, <1>4 DEF IInv, RunningKeyKept

LEMMA StutterStep == IInv /\ UNCHANGED vars => IInv'
BY DEF IInv, vars, RunningKeyKept

LEMMA Invariance == Spec => []IInv
<1>1. IInv /\ [Next]_vars => IInv'
  BY StageStep, RecoverStep, VerifyStep, KeyStep, SettingsStep, BootStep, StutterStep
     DEF Next, Lifecycle
<1> QED BY <1>1, InitIInv, PTL DEF Spec

-----------------------------------------------------------------------------
(***************************************************************************)
(* Both configurations keep their type, whatever fails.                    *)
(***************************************************************************)
THEOREM TypeCorrect == Spec => []TypeOK
<1>1. IInv => TypeOK
  BY DEF IInv, Sound, TypeOK
<1> QED BY <1>1, Invariance, PTL

(***************************************************************************)
(* Every operation leaves a configuration that the next boot accepts.      *)
(***************************************************************************)
THEOREM AlwaysLoads == Spec => []ConfigValid
<1>1. IInv => ConfigValid
  BY DEF IInv, Sound, ConfigValid
<1> QED BY <1>1, Invariance, PTL

(***************************************************************************)
(* Verified means verified against the configured bridge, and the device   *)
(* runs with, and can go back to, only keys that a bridge has accepted.    *)
(***************************************************************************)
THEOREM ActivationProved == Spec => []KeysProved
<1>1. IInv => KeysProved
  BY DEF IInv, Sound, KeysProved, VerifiedProved, OnlyProvedKeys
<1> QED BY <1>1, Invariance, PTL

(***************************************************************************)
(* No operation, failed write or power loss makes the device lose the key  *)
(* its stream runs with.                                                   *)
(***************************************************************************)
THEOREM KeepsRunningKey == Spec => []RunningKeyKept
<1>1. IInv => RunningKeyKept
  BY DEF IInv
<1> QED BY <1>1, Invariance, PTL
=============================================================================
