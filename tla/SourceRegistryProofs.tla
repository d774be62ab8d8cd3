------------------------- MODULE SourceRegistryProofs -------------------------
(***************************************************************************)
(* Every lease of a source is accounted for, a source in use runs, and a   *)
(* pinned identity stays: for any number of sources, connections and       *)
(* leases.                                                                 *)
(***************************************************************************)
EXTENDS SourceRegistry, FiniteSetTheorems, TLAPS

Objects ==
  [key : Keys, permanent : BOOLEAN, peer : Peers \cup {None}, connected : BOOLEAN,
   http : Nat, pinned : Nat, rec : Nat, expired : BOOLEAN, conn : Conns \cup {None},
   holder : Conns \cup {None}, heard : SUBSET (Conns \cup {None}), running : BOOLEAN]

Kinds == {"http", "recording"}

LeaseRecords ==
  [open : BOOLEAN, again : BOOLEAN, src : Sources \cup {None},
   kind : {"http", "recording"}, want : Identities \cup {None}]

Registers == [Keys -> Sources \cup {None}]

PinnedLeases(s) == {l \in Leases(s, "http") : consumer[l].want # None}

\* Until shutdown, what is registered runs and nothing is closing it.
RegisteredRuns ==
  ~shut => \A s \in Registered(registry) : s \notin closing /\ source[s].running

\* A source knows the identity it is registered under, so that it has one.
KeysMatch == \A k \in Keys : registry[k] # None => source[registry[k]].key = k

\* A lease that named an identity is a lease of the source that has it.
PinsHold ==
  \A l \in Listeners :
    consumer[l].open /\ consumer[l].want # None => source[consumer[l].src].key = consumer[l].want

\* An open lease is the lease of a source.
OpenLeases == \A l \in Listeners : consumer[l].open => consumer[l].src \in Sources

IInv ==
  /\ LeasesAccounted /\ UsedSourceRuns
  /\ RegisteredRuns /\ KeysMatch /\ PinsHold /\ OpenLeases

-----------------------------------------------------------------------------
LEMMA NoneIsNothing == None \notin Sources /\ None \notin Conns /\ Pending \notin Identities
                       /\ IsFiniteSet(Listeners)
BY RegistryAssumption

LEMMA TypedObjects ==
  ASSUME TypeOK
  PROVE  /\ source \in [Sources -> Objects] /\ registry \in Registers
         /\ producer \in [Conns -> Sources \cup {None}]
BY DEF TypeOK, Objects, Registers

LEMMA FreshTyped ==
  ASSUME NEW k \in Keys, NEW permanent \in BOOLEAN, NEW p \in Peers \cup {None}
  PROVE  Fresh(k, permanent, p) \in Objects
BY DEF Fresh, Objects

LEMMA GoneTyped == Gone \in Objects
BY DEF Gone, Fresh, Objects, Keys

\* The leases of a source are finitely many.
LEMMA LeasesFinite ==
  ASSUME NEW s, NEW kind
  PROVE  /\ IsFiniteSet(Leases(s, kind)) /\ IsFiniteSet(PinnedLeases(s))
         /\ Cardinality(Leases(s, kind)) \in Nat /\ Cardinality(PinnedLeases(s)) \in Nat
<1>1. Leases(s, kind) \subseteq Listeners /\ PinnedLeases(s) \subseteq Listeners
  BY DEF Leases, PinnedLeases
<1> QED
  BY <1>1, NoneIsNothing, FS_Subset, FS_CardinalityType

\* What no count accounts for nobody leases.
LEMMA UncountedUnleased ==
  ASSUME CountsMatch, NEW s \in Sources
  PROVE  /\ source[s].http = 0 => Leases(s, "http") = {} /\ source[s].pinned = 0
         /\ source[s].rec = 0 => Leases(s, "recording") = {}
         /\ Leases(s, "http") = {} => source[s].http = 0 /\ source[s].pinned = 0
         /\ Leases(s, "recording") = {} => source[s].rec = 0
<1>1. /\ source[s].http = Cardinality(Leases(s, "http"))
      /\ source[s].pinned = Cardinality(PinnedLeases(s))
      /\ source[s].rec = Cardinality(Leases(s, "recording"))
  BY DEF CountsMatch, PinnedLeases
<1>2. PinnedLeases(s) \subseteq Leases(s, "http")
  BY DEF PinnedLeases
<1> QED
  BY <1>1, <1>2, LeasesFinite, FS_EmptySet

\* No two sources share a key.
LEMMA OneKeyEach ==
  ASSUME KeysMatch, NEW j \in Keys, NEW k \in Keys, registry[j] = registry[k],
         registry[j] # None
  PROVE  j = k
BY DEF KeysMatch

-----------------------------------------------------------------------------
(***************************************************************************)
(* What a sweep leaves of the registry and of its sources.                 *)
(***************************************************************************)
LEMMA SweptRegistry ==
  ASSUME TypeOK
  PROVE  /\ After(registry) \in Registers
         /\ Registered(After(registry)) = Registered(registry) \ Evicted(registry)
         /\ Evicted(registry) \subseteq Registered(registry)
         /\ Registered(registry) \subseteq Sources
         /\ \A k \in Keys : After(registry)[k] # None => After(registry)[k] = registry[k]
<1>1. registry \in Registers
  BY TypedObjects
<1>2. \A k \in Keys : After(registry)[k] = IF registry[k] \in Evicted(registry) THEN None ELSE registry[k]
  BY DEF After
<1>3. After(registry) \in Registers
  BY <1>1 DEF After, Registers
<1>4. Evicted(registry) \subseteq Registered(registry)
  BY DEF Evicted
<1>5. Registered(registry) \subseteq Sources /\ None \notin Registered(registry)
  BY <1>1 DEF Registered, Registers
<1>6. Registered(After(registry)) = Registered(registry) \ Evicted(registry)
  BY <1>2, <1>4, <1>5 DEF Registered
<1> QED
  BY <1>2, <1>3, <1>4, <1>5, <1>6

\* An evicted source had no user to lose.
LEMMA SweptSources ==
  ASSUME IInv, NEW s \in Sources
  PROVE  /\ Swept[s] \in Objects
         /\ s \notin Evicted(registry) => Swept[s] = source[s]
         /\ Swept[s].http = source[s].http /\ Swept[s].pinned = source[s].pinned
         /\ Swept[s].rec = source[s].rec
         /\ Swept[s].connected = source[s].connected /\ Swept[s].holder = source[s].holder
         /\ Swept[s].connected => Swept[s].conn = source[s].conn
         /\ Swept[s].heard \subseteq source[s].heard
         /\ source[s].running => Swept[s].running
         /\ s \in Evicted(registry) =>
              /\ ~source[s].connected
              /\ Leases(s, "http") = {} /\ Leases(s, "recording") = {}
<1>1. TypeOK /\ source[s] \in Objects
  BY TypedObjects DEF IInv, LeasesAccounted
<1>2. CASE s \notin Evicted(registry)
  BY <1>1, <1>2 DEF Swept
<1>3. CASE s \in Evicted(registry)
  <2>1. Swept[s] = Gone
    BY <1>3 DEF Swept
  <2>2. ~source[s].connected /\ source[s].http = 0 /\ source[s].rec = 0
    BY <1>1, <1>3 DEF Evicted, Evictable, InUse, Objects
  <2>3. /\ source[s].pinned = 0
        /\ Leases(s, "http") = {} /\ Leases(s, "recording") = {}
    BY <2>2, UncountedUnleased DEF IInv, LeasesAccounted
  <2>4. source[s].holder = None
    BY <2>2 DEF IInv, LeasesAccounted, ConnectedIsLeased
  <2>5. /\ Gone.http = 0 /\ Gone.pinned = 0 /\ Gone.rec = 0 /\ Gone.connected = FALSE
        /\ Gone.holder = None /\ Gone.heard = {} /\ Gone.running = TRUE
    BY DEF Gone, Fresh
  <2>6. source[s].connected = FALSE
    BY <1>1, <2>2 DEF Objects
  <2> QED
    BY <1>3, <2>1, <2>2, <2>3, <2>4, <2>5, <2>6, GoneTyped
<1> QED
  BY <1>2, <1>3

LEMMA SweptFunction ==
  ASSUME IInv
  PROVE  Swept \in [Sources -> Objects]
BY SweptSources DEF Swept

\* Nobody uses an unused source, and no count says otherwise.
LEMMA UnusedUncounted ==
  ASSUME IInv, NEW s \in Unused
  PROVE  /\ s \in Sources /\ s \notin Registered(registry) /\ s \notin closing
         /\ s \notin Evicted(registry)
         /\ source[s].http = 0 /\ source[s].pinned = 0 /\ source[s].rec = 0
         /\ \A l \in Listeners : consumer[l].src # s
<1>1. /\ s \in Sources /\ s \notin Registered(registry) /\ s \notin closing
      /\ \A l \in Listeners : consumer[l].src # s
  BY DEF Unused
<1>2. Leases(s, "http") = {} /\ Leases(s, "recording") = {}
  BY <1>1 DEF Leases
<1>3. s \notin Evicted(registry)
  BY <1>1, SweptRegistry DEF IInv, LeasesAccounted
<1> QED
  BY <1>1, <1>2, <1>3, UncountedUnleased DEF IInv, LeasesAccounted

-----------------------------------------------------------------------------
(***************************************************************************)
(* A call that sweeps, enters source s as `state` and leases it.           *)
(***************************************************************************)
\* r is what the sweep left, with s in it under the key of `state`.
Enters(s, state, r) ==
  /\ s \in Sources \ (closing \cup Evicted(registry))
  /\ state \in Objects /\ state.running /\ r \in Registers
  /\ state.http = source[s].http /\ state.pinned = source[s].pinned /\ state.rec = source[s].rec
  /\ Registered(r) = Registered(After(registry)) \cup {s}
  /\ \A k \in Keys : r[k] # None =>
       IF r[k] = s THEN state.key = k ELSE r[k] = After(registry)[k]
  /\ \A l \in Listeners : consumer[l].open /\ consumer[l].want # None /\ consumer[l].src = s =>
       state.key = consumer[l].want

\* The sources a call entered run, and know their identities.
LEMMA EnteringKeeps ==
  ASSUME IInv, ~shut, NEW s, NEW state, NEW r, NEW new, Enters(s, state, r),
         registry' = r, source' = [Swept EXCEPT ![s] = new],
         closing' = closing \cup Evicted(registry),
         new.running = state.running, new.key = state.key
  PROVE  /\ RegisteredRuns' /\ KeysMatch'
         /\ registry' \in Registers /\ closing' \in SUBSET Sources
<1>1. /\ s \in Sources /\ s \notin closing /\ s \notin Evicted(registry) /\ state.running
      /\ r \in Registers /\ registry' = r
  BY DEF Enters
<1>2. Swept \in [Sources -> Objects]
  BY SweptFunction
<1>3. /\ source'[s].running /\ source'[s].key = state.key
      /\ \A t \in Sources \ {s} : source'[t] = Swept[t]
  BY <1>1, <1>2
<1>4. /\ Registered(r) = (Registered(registry) \ Evicted(registry)) \cup {s}
      /\ Registered(registry) \subseteq Sources
      /\ Evicted(registry) \subseteq Registered(registry)
  BY SweptRegistry DEF Enters, IInv, LeasesAccounted
<1>5. RegisteredRuns'
  <2> SUFFICES ASSUME NEW t \in Registered(r)
               PROVE  t \notin closing' /\ source'[t].running
    BY <1>1 DEF RegisteredRuns, Registered
  <2>1. CASE t = s
    BY <2>1, <1>1, <1>3
  <2>2. CASE t # s
    <3>1. t \in Registered(registry) /\ t \notin Evicted(registry) /\ t \in Sources
      BY <2>2, <1>4
    <3>2. t \notin closing /\ source[t].running
      BY <3>1 DEF IInv, RegisteredRuns
    <3> QED
      BY <2>2, <3>1, <3>2, <1>3, SweptSources
  <2> QED
    BY <2>1, <2>2
<1>6. KeysMatch'
  <2> SUFFICES ASSUME NEW k \in Keys, r[k] # None
               PROVE  source'[r[k]].key = k
    BY <1>1 DEF KeysMatch
  <2>1. CASE r[k] = s
    BY <2>1, <1>3 DEF Enters
  <2>2. CASE r[k] # s
    <3>1. r[k] = After(registry)[k] /\ r[k] \in Sources
      BY <2>2, <1>1 DEF Enters, Registers
    <3>2. registry[k] = r[k] /\ r[k] \notin Evicted(registry)
      BY <3>1 DEF After
    <3>3. source[r[k]].key = k
      BY <3>2 DEF IInv, KeysMatch
    <3> QED
      BY <2>2, <3>1, <3>2, <3>3, <1>3, SweptSources
  <2> QED
    BY <2>1, <2>2
<1>7. closing' \in SUBSET Sources
  BY <1>4 DEF IInv, LeasesAccounted, TypeOK
<1> QED
  BY <1>1, <1>5, <1>6, <1>7

\* The leases of the consumers are untouched by what the producers do.
LEMMA SameLeases ==
  ASSUME UNCHANGED consumer
  PROVE  \A s, kind : Leases(s, kind)' = Leases(s, kind) /\ PinnedLeases(s)' = PinnedLeases(s)
BY DEF Leases, PinnedLeases

LEMMA ConnectKeeps ==
  ASSUME IInv, ~shut, NEW c \in Conns, NEW s, NEW state, NEW r,
         producer[c] = None, Enters(s, state, r), Connect(c, s, state, r)
  PROVE  IInv'
<1> DEFINE new == Takes(state, c)
<1>0. /\ TypeOK /\ CountsMatch /\ ConnectedIsLeased /\ OneSession
      /\ s \in Sources /\ state \in Objects /\ state.running
      /\ Swept \in [Sources -> Objects] /\ producer \in [Conns -> Sources \cup {None}]
  BY SweptFunction, TypedObjects DEF IInv, LeasesAccounted, Enters
<1>1. /\ new \in Objects /\ new.running = state.running /\ new.key = state.key
      /\ new.http = state.http /\ new.pinned = state.pinned /\ new.rec = state.rec
      /\ new.connected /\ new.conn = c /\ new.holder = c /\ new.heard = {}
  BY <1>0 DEF Takes, Objects
<1> HIDE DEF new
<1>2. /\ registry' = r /\ source' = [Swept EXCEPT ![s] = new]
      /\ producer' = [producer EXCEPT ![c] = s]
      /\ closing' = closing \cup Evicted(registry) /\ UNCHANGED <<consumer, shut>>
  BY DEF Connect, new
<1>3. /\ source'[s] = new /\ \A t \in Sources \ {s} : source'[t] = Swept[t]
      /\ source' \in [Sources -> Objects]
      /\ producer' \in [Conns -> Sources \cup {None}]
      /\ producer'[c] = s /\ \A d \in Conns \ {c} : producer'[d] = producer[d]
  BY <1>0, <1>1, <1>2
<1>4. /\ RegisteredRuns' /\ KeysMatch'
      /\ registry' \in Registers /\ closing' \in SUBSET Sources
  BY <1>1, <1>2, EnteringKeeps
<1>5. TypeOK'
  BY <1>0, <1>2, <1>3, <1>4 DEF TypeOK, Objects, Registers
<1>6. CountsMatch'
  <2> SUFFICES ASSUME NEW t \in Sources
               PROVE  /\ source'[t].http = Cardinality(Leases(t, "http")')
                      /\ source'[t].pinned = Cardinality(PinnedLeases(t)')
                      /\ source'[t].rec = Cardinality(Leases(t, "recording")')
    BY DEF CountsMatch, PinnedLeases
  <2>1. /\ source'[t].http = source[t].http /\ source'[t].pinned = source[t].pinned
        /\ source'[t].rec = source[t].rec
    BY <1>1, <1>3, SweptSources DEF Enters
  <2>2. /\ Leases(t, "http")' = Leases(t, "http")
        /\ PinnedLeases(t)' = PinnedLeases(t)
        /\ Leases(t, "recording")' = Leases(t, "recording")
    BY <1>2, SameLeases
  <2> QED
    BY <1>0, <2>1, <2>2 DEF CountsMatch, PinnedLeases
<1>7. ConnectedIsLeased'
  <2> SUFFICES ASSUME NEW t \in Sources
               PROVE  /\ source'[t].connected <=> source'[t].holder # None
                      /\ source'[t].connected =>
                           /\ source'[t].conn = source'[t].holder
                           /\ producer'[source'[t].holder] = t
    BY DEF ConnectedIsLeased
  <2>1. CASE t = s
    BY <2>1, <1>1, <1>3, NoneIsNothing
  <2>2. CASE t # s
    <3>1. /\ source'[t].connected = source[t].connected
          /\ source'[t].holder = source[t].holder
          /\ source'[t].connected => source'[t].conn = source[t].conn
      BY <2>2, <1>3, SweptSources
    <3>2. source[t].connected => producer[source[t].holder] = t /\ source[t].holder # c
      BY <1>0, NoneIsNothing DEF ConnectedIsLeased
    <3>3. source[t].connected => source[t].holder \in Conns
      BY <1>0, TypedObjects DEF ConnectedIsLeased, Objects
    <3> QED
      BY <1>0, <1>3, <3>1, <3>2, <3>3 DEF ConnectedIsLeased
  <2> QED
    BY <2>1, <2>2
<1>8. OneSession'
  <2> SUFFICES ASSUME NEW t \in Sources
               PROVE  source'[t].heard \subseteq {source'[t].holder}
    BY DEF OneSession
  <2>1. CASE t = s
    BY <2>1, <1>1, <1>3
  <2>2. CASE t # s
    BY <2>2, <1>0, <1>3, SweptSources DEF OneSession
  <2> QED
    BY <2>1, <2>2
<1>9. UsedSourceRuns'
  <2> SUFFICES ASSUME NEW t \in Sources,
                      source'[t].connected \/ Leases(t, "http")' # {}
                        \/ Leases(t, "recording")' # {}
               PROVE  t \in Registered(r)
    BY <1>2, <1>4 DEF UsedSourceRuns, RegisteredRuns, Registered
  <2>1. Registered(r) = (Registered(registry) \ Evicted(registry)) \cup {s}
    BY <1>0, SweptRegistry DEF Enters
  <2>2. CASE t # s
    <3>1. /\ source[t].connected \/ Leases(t, "http") # {} \/ Leases(t, "recording") # {}
          /\ t \notin Evicted(registry)
      BY <2>2, <1>2, <1>3, SweptSources, SameLeases
    <3> QED
      BY <2>1, <3>1 DEF IInv, UsedSourceRuns
  <2> QED
    BY <2>1, <2>2
<1>10. OpenLeases' 
  BY <1>2 DEF IInv, OpenLeases
<1>11. PinsHold'
  <2> SUFFICES ASSUME NEW l \in Listeners, consumer[l].open, consumer[l].want # None
               PROVE  source'[consumer[l].src].key = consumer[l].want
    BY <1>2 DEF PinsHold
  <2>1. CASE consumer[l].src = s
    BY <2>1, <1>1, <1>3 DEF Enters
  <2>2. CASE consumer[l].src # s
    <3> DEFINE t == consumer[l].src
    <3>1. t \in Sources /\ l \in Leases(t, "http") \cup Leases(t, "recording")
      BY <1>0 DEF IInv, OpenLeases, Leases, TypeOK
    <3>2. t \notin Evicted(registry)
      BY <3>1, SweptSources
    <3>3. source[t].key = consumer[l].want
      BY DEF IInv, PinsHold
    <3> QED
      BY <2>2, <3>1, <3>2, <3>3, <1>3, SweptSources
  <2> QED
    BY <2>1, <2>2
<1> QED
  BY <1>4, <1>5, <1>6, <1>7, <1>8, <1>9, <1>10, <1>11 DEF IInv, LeasesAccounted

\* What the sweep left of the registry, entry by entry.
LEMMA LeftByTheSweep ==
  ASSUME IInv, NEW k \in Keys, After(registry)[k] # None
  PROVE  /\ After(registry)[k] \in Sources
         /\ After(registry)[k] \in Registered(After(registry))
         /\ After(registry)[k] \notin Evicted(registry)
         /\ source[After(registry)[k]] \in Objects
         /\ source[After(registry)[k]].key = k
         /\ ~shut => /\ After(registry)[k] \notin closing
                     /\ source[After(registry)[k]].running
<1>1. TypeOK /\ After(registry) \in Registers
  BY SweptRegistry DEF IInv, LeasesAccounted
<1>2. After(registry)[k] = registry[k] /\ registry[k] \notin Evicted(registry)
  BY <1>1 DEF After
<1>3. registry[k] \in Registered(registry)
  BY <1>2 DEF Registered
<1>4. source[registry[k]].key = k
  BY <1>2 DEF IInv, KeysMatch
<1> QED
  BY <1>1, <1>2, <1>3, <1>4, TypedObjects DEF IInv, RegisteredRuns, Registered, Registers

LEMMA PinnedCount ==
  ASSUME IInv, NEW l \in Listeners, consumer[l].open
  PROVE  LET s == source[consumer[l].src] IN
         /\ consumer[l].src \in Sources
         /\ s.http > 0 \/ s.rec > 0
         /\ consumer[l].kind = "recording" => s.rec > 0
         /\ consumer[l].kind # "recording" /\ consumer[l].want # None => s.pinned > 0
<1> DEFINE t == consumer[l].src
<1>1. t \in Sources /\ TypeOK /\ CountsMatch
  BY DEF IInv, OpenLeases, LeasesAccounted
<1>2. consumer[l].kind \in {"http", "recording"} /\ l \in Leases(t, consumer[l].kind)
  BY <1>1 DEF TypeOK, Leases
<1>3. consumer[l].kind # "recording" /\ consumer[l].want # None => l \in PinnedLeases(t)
  BY <1>2 DEF PinnedLeases
<1>4. /\ source[t].http = Cardinality(Leases(t, "http"))
      /\ source[t].pinned = Cardinality(PinnedLeases(t))
      /\ source[t].rec = Cardinality(Leases(t, "recording"))
  BY <1>1 DEF CountsMatch, PinnedLeases
<1>5. \A L \in {Leases(t, "http"), Leases(t, "recording"), PinnedLeases(t)} :
         l \in L => Cardinality(L) > 0
  BY LeasesFinite, FS_EmptySet
<1> QED
  BY <1>1, <1>2, <1>3, <1>4, <1>5

\* A source that may be adopted is pinned by nobody.
LEMMA AdoptableUnpinned ==
  ASSUME IInv, NEW p \in Peers, NEW old \in Adoptable(After(registry), p),
         NEW l \in Listeners, consumer[l].open, consumer[l].src = After(registry)[old],
         consumer[l].want # None \/ consumer[l].kind = "recording"
  PROVE  FALSE
<1> DEFINE r == After(registry)
           s == source[r[old]]
<1>1. p \in Keys /\ Pending \in Keys
  BY DEF Keys, Identities
<1>2. old \in Keys /\ r[old] # None
  BY <1>1 DEF Adoptable, PeerAdoptable, PendingAdoptable, OtherAdoptable
<1>3. s \in Objects /\ s.key = old
  BY <1>2, LeftByTheSweep
<1>4. s.rec = 0
  BY <1>2 DEF Adoptable, PeerAdoptable, PendingAdoptable, OtherAdoptable, MayAdopt
<1>5. /\ s.http > 0 \/ s.rec > 0
      /\ consumer[l].kind = "recording" => s.rec > 0
      /\ consumer[l].kind # "recording" /\ consumer[l].want # None => s.pinned > 0
  BY PinnedCount
<1>6. s.http > 0 /\ s.pinned > 0 /\ consumer[l].want # None
  BY <1>3, <1>4, <1>5 DEF Objects
<1>7. old = Pending
  BY <1>3, <1>6 DEF Adoptable, PeerAdoptable, OtherAdoptable, Objects
<1>8. consumer[l].want = Pending
  BY <1>3, <1>6, <1>7 DEF IInv, PinsHold
<1>9. consumer[l].want \in Identities
  BY <1>6 DEF IInv, LeasesAccounted, TypeOK
<1> QED
  BY <1>8, <1>9, NoneIsNothing

LEMMA LeaseProducerKeeps ==
  ASSUME IInv, NEW c \in Conns, NEW key \in Identities, NEW p \in Peers,
         ~shut, producer[c] = None, key = p \/ key \in TlsKeys
  PROVE  LET r == After(registry) IN
         (Reconnect(c, key, p, r) \/ Adopt(c, key, p, r) \/ Create(c, key, p, r)) => IInv'
<1> DEFINE r == After(registry)
<1>0. key \in Keys /\ TypeOK /\ r \in Registers /\ p \in Peers \cup {None}
  BY SweptRegistry, NoneIsNothing DEF Keys, IInv, LeasesAccounted
<1>1. ASSUME Reconnect(c, key, p, r)
      PROVE  IInv'
  <2> DEFINE state == [source[r[key]] EXCEPT !.peer = p]
  <2>1. r[key] # None /\ Connect(c, r[key], state, r)
    BY <1>1 DEF Reconnect
  <2>2. /\ r[key] \in Sources /\ r[key] \in Registered(r) /\ r[key] \notin Evicted(registry)
        /\ r[key] \notin closing
        /\ source[r[key]] \in Objects /\ source[r[key]].key = key /\ source[r[key]].running
        /\ \A k \in Keys : r[k] = r[key] => k = key
    BY <1>0, <2>1, LeftByTheSweep
  <2>3. /\ state \in Objects /\ state.running /\ state.key = key
        /\ state.http = source[r[key]].http /\ state.pinned = source[r[key]].pinned
        /\ state.rec = source[r[key]].rec
    BY <1>0, <2>2 DEF Objects
  <2> HIDE DEF state
  <2>4. Enters(r[key], state, r)
    BY <1>0, <2>2, <2>3 DEF Enters, IInv, PinsHold
  <2> QED
    BY <2>1, <2>4, ConnectKeeps
<1>2. ASSUME Adopt(c, key, p, r)
      PROVE  IInv'
  <2>1. PICK old \in Adoptable(r, p) :
          Connect(c, r[old], [source[r[old]] EXCEPT !.key = key, !.peer = p,
                                                    !.permanent = Permanent(key, p)],
                  Rekeyed(r, old, key))
    BY <1>2 DEF Adopt
  <2> DEFINE state == [source[r[old]] EXCEPT !.key = key, !.peer = p, !.permanent = Permanent(key, p)]
             new == Rekeyed(r, old, key)
  <2>2. old \in Keys /\ r[old] # None /\ r[key] = None
    BY <1>2 DEF Adopt, Adoptable, PeerAdoptable, PendingAdoptable, OtherAdoptable, Keys, Identities
  <2>3. /\ r[old] \in Sources /\ r[old] \in Registered(r) /\ r[old] \notin Evicted(registry)
        /\ r[old] \notin closing
        /\ source[r[old]] \in Objects /\ source[r[old]].running
        /\ \A k \in Keys : r[k] = r[old] => k = old
    BY <2>2, LeftByTheSweep
  <2>4. /\ state \in Objects /\ state.running /\ state.key = key
        /\ state.http = source[r[old]].http /\ state.pinned = source[r[old]].pinned
        /\ state.rec = source[r[old]].rec
    BY <1>0, <2>3 DEF Objects, Permanent
  <2>5. /\ new \in Registers /\ new[key] = r[old]
        /\ \A k \in Keys \ {key} : new[k] = IF k = old THEN None ELSE r[k]
    BY <1>0, <2>2, <2>3 DEF Rekeyed, Registers
  <2>6. Registered(new) = Registered(r) \cup {r[old]}
    <3>1. \A x : x \in Registered(new) <=> \E k \in Keys : new[k] # None /\ x = new[k]
      BY DEF Registered
    <3>2. \A x : x \in Registered(r) <=> \E k \in Keys : r[k] # None /\ x = r[k]
      BY DEF Registered
    <3> HIDE DEF new, r
    <3> QED
      BY <3>1, <3>2, <2>2, <2>3, <2>5, <1>0
  <2>7. \A l \in Listeners : consumer[l].open /\ consumer[l].want # None => consumer[l].src # r[old]
    BY AdoptableUnpinned
  <2>8. Connect(c, r[old], state, new)
    BY <2>1
  <2> HIDE DEF state, new
  <2>9. Enters(r[old], state, new)
    BY <1>0, <2>2, <2>3, <2>4, <2>5, <2>6, <2>7 DEF Enters
  <2> QED
    BY <2>8, <2>9, ConnectKeeps
<1>3. ASSUME Create(c, key, p, r)
      PROVE  IInv'
  <2>1. PICK s \in Unused : Connect(c, s, Fresh(key, Permanent(key, p), p), [r EXCEPT ![key] = s])
    BY <1>3 DEF Create
  <2> DEFINE state == Fresh(key, Permanent(key, p), p)
             new == [r EXCEPT ![key] = s]
  <2>2. /\ s \in Sources /\ s \notin Registered(registry) /\ s \notin closing
        /\ s \notin Evicted(registry)
        /\ source[s].http = 0 /\ source[s].pinned = 0 /\ source[s].rec = 0
        /\ \A l \in Listeners : consumer[l].src # s
    BY UnusedUncounted
  <2>3. /\ state \in Objects /\ state.running /\ state.key = key
        /\ state.http = 0 /\ state.pinned = 0 /\ state.rec = 0
    BY <1>0, FreshTyped DEF Fresh, Permanent
  <2>4. r[key] = None /\ Registered(r) \subseteq Registered(registry)
    BY <1>0, <1>3, SweptRegistry DEF Create
  <2>5. /\ new \in Registers /\ new[key] = s /\ \A k \in Keys \ {key} : new[k] = r[k]
        /\ \A k \in Keys : r[k] # s
    BY <1>0, <2>2, <2>4, NoneIsNothing DEF Registers, Registered
  <2>6. Registered(new) = Registered(r) \cup {s}
    <3>1. \A x : x \in Registered(new) <=> \E k \in Keys : new[k] # None /\ x = new[k]
      BY DEF Registered
    <3>2. \A x : x \in Registered(r) <=> \E k \in Keys : r[k] # None /\ x = r[k]
      BY DEF Registered
    <3> HIDE DEF new, r
    <3> QED
      BY <3>1, <3>2, <2>2, <2>4, <2>5, <1>0, NoneIsNothing
  <2>8. Connect(c, s, state, new)
    BY <2>1
  <2> HIDE DEF state, new
  <2>9. Enters(s, state, new)
    BY <1>0, <2>2, <2>3, <2>5, <2>6 DEF Enters
  <2> QED
    BY <2>8, <2>9, ConnectKeeps
<1> QED
  BY <1>1, <1>2, <1>3

-----------------------------------------------------------------------------
(***************************************************************************)
(* A call that only sweeps; whether it closes what it evicted or not.      *)
(***************************************************************************)
LEMMA SweepKeeps ==
  ASSUME IInv, ~shut, registry' = After(registry), source' = Swept,
         UNCHANGED <<producer, consumer, shut>>,
         closing' \in {closing, closing \cup Evicted(registry)}
  PROVE  IInv'
<1>0. /\ TypeOK /\ CountsMatch /\ ConnectedIsLeased /\ OneSession
      /\ Swept \in [Sources -> Objects] /\ After(registry) \in Registers
      /\ Registered(After(registry)) = Registered(registry) \ Evicted(registry)
      /\ Evicted(registry) \subseteq Registered(registry) /\ Registered(registry) \subseteq Sources
  BY SweptFunction, SweptRegistry DEF IInv, LeasesAccounted
<1>1. Registered(registry)' = Registered(registry) \ Evicted(registry)
  BY <1>0 DEF Registered
<1>2. TypeOK'
  BY <1>0 DEF TypeOK, Objects, Registers
<1>3. CountsMatch'
  <2> SUFFICES ASSUME NEW t \in Sources
               PROVE  /\ Swept[t].http = Cardinality(Leases(t, "http")')
                      /\ Swept[t].pinned = Cardinality(PinnedLeases(t)')
                      /\ Swept[t].rec = Cardinality(Leases(t, "recording")')
    BY DEF CountsMatch, PinnedLeases
  <2> QED
    BY <1>0, SweptSources, SameLeases DEF CountsMatch, PinnedLeases
<1>4. ConnectedIsLeased'
  BY <1>0, SweptSources DEF ConnectedIsLeased
<1>5. OneSession'
  BY <1>0, SweptSources DEF OneSession
<1>6. RegisteredRuns'
  BY <1>0, <1>1, SweptSources DEF RegisteredRuns, IInv
<1>7. UsedSourceRuns'
  <2> SUFFICES ASSUME NEW t \in Sources,
                      Swept[t].connected \/ Leases(t, "http")' # {}
                        \/ Leases(t, "recording")' # {}
               PROVE  t \in Registered(registry)'
    BY <1>6 DEF UsedSourceRuns, RegisteredRuns
  <2>1. /\ source[t].connected \/ Leases(t, "http") # {} \/ Leases(t, "recording") # {}
        /\ t \notin Evicted(registry)
    BY SweptSources, SameLeases
  <2> QED
    BY <1>1, <2>1 DEF IInv, UsedSourceRuns
<1>8. KeysMatch'
  BY LeftByTheSweep, SweptSources DEF KeysMatch
<1>9. PinsHold' /\ OpenLeases'
  <2>1. OpenLeases'
    BY DEF IInv, OpenLeases
  <2>2. ASSUME NEW l \in Listeners, consumer[l].open, consumer[l].want # None
        PROVE  Swept[consumer[l].src].key = consumer[l].want
    <3> DEFINE t == consumer[l].src
    <3>1. t \in Sources /\ l \in Leases(t, "http") \cup Leases(t, "recording")
      BY <1>0, <2>2 DEF IInv, OpenLeases, Leases, TypeOK
    <3>2. t \notin Evicted(registry)
      BY <3>1, SweptSources
    <3> QED
      BY <2>2, <3>1, <3>2, SweptSources DEF IInv, PinsHold
  <2> QED
    BY <2>1, <2>2 DEF PinsHold
<1> QED
  BY <1>2, <1>3, <1>4, <1>5, <1>6, <1>7, <1>8, <1>9 DEF IInv, LeasesAccounted

-----------------------------------------------------------------------------
(***************************************************************************)
(* A consumer's lease counts once.                                         *)
(***************************************************************************)
\* A lease is in the leases of one source, of one kind.
LEMMA LeaseAdded ==
  ASSUME NEW l \in Listeners, NEW s, NEW kind \in Kinds, NEW want, NEW t, NEW k,
         consumer \in [Listeners -> LeaseRecords], ~consumer[l].open,
         consumer' = [consumer EXCEPT ![l] = [open |-> TRUE, again |-> FALSE, src |-> s,
                                              kind |-> kind, want |-> want]]
  PROVE  /\ Leases(t, k)' =
              IF t = s /\ k = kind THEN Leases(t, k) \cup {l} ELSE Leases(t, k)
         /\ PinnedLeases(t)' =
              IF t = s /\ kind = "http" /\ want # None THEN PinnedLeases(t) \cup {l}
              ELSE PinnedLeases(t)
         /\ l \notin Leases(t, k) /\ l \notin PinnedLeases(t)
<1>1. /\ consumer'[l].open /\ consumer'[l].src = s /\ consumer'[l].kind = kind
      /\ consumer'[l].want = want
      /\ \A m \in Listeners \ {l} : consumer'[m] = consumer[m]
  OBVIOUS
<1>2. l \notin Leases(t, k) /\ l \notin PinnedLeases(t) /\ l \notin Leases(t, "http")
  BY DEF Leases, PinnedLeases
<1>3. ASSUME NEW j
      PROVE  Leases(t, j)' = IF t = s /\ j = kind THEN Leases(t, j) \cup {l} ELSE Leases(t, j)
  BY <1>1 DEF Leases
<1>4. PinnedLeases(t)' =
        IF t = s /\ kind = "http" /\ want # None THEN PinnedLeases(t) \cup {l}
        ELSE PinnedLeases(t)
  BY <1>1 DEF PinnedLeases, Leases
<1> QED
  BY <1>2, <1>3, <1>4

\* What counting one lease makes of a source.
OneMore(state, kind, want, new) ==
  /\ new \in Objects /\ new.running = state.running /\ new.key = state.key
  /\ new.connected = state.connected /\ new.holder = state.holder
  /\ new.conn = state.conn /\ new.heard = state.heard
  /\ kind = "http" => new.http = state.http + 1 /\ new.rec = state.rec
  /\ kind = "http" /\ want = None => new.pinned = state.pinned
  /\ kind = "http" /\ want # None => new.pinned = state.pinned + 1
  /\ kind = "recording" =>
       new.rec = state.rec + 1 /\ new.http = state.http /\ new.pinned = state.pinned

LEMMA CountedUp ==
  ASSUME NEW state \in Objects, NEW kind \in Kinds, NEW want, NEW new,
         new = Counted(state, kind, want, 1)
  PROVE  OneMore(state, kind, want, new)
<1>1. CASE kind = "http" /\ want = None
  <2> DEFINE h == state.http + 1
             p == state.pinned
             upd == [state EXCEPT !.http = h, !.pinned = p]
  <2>1. Counted(state, kind, want, 1) = upd
    BY <1>1 DEF Counted
  <2>2. h \in Nat /\ p \in Nat
    BY DEF Objects
  <2> HIDE DEF h, p, OneMore
  <2>3. /\ upd \in Objects /\ upd.running = state.running /\ upd.key = state.key
        /\ upd.connected = state.connected /\ upd.holder = state.holder
        /\ upd.conn = state.conn /\ upd.heard = state.heard
        /\ upd.http = h /\ upd.pinned = p /\ upd.rec = state.rec
    BY <2>2 DEF Objects
  <2> HIDE DEF upd
  <2> QED
    BY <1>1, <2>1, <2>3 DEF h, p, OneMore
<1>2. CASE kind = "http" /\ want # None
  <2> DEFINE h == state.http + 1
             p == state.pinned + 1
             upd == [state EXCEPT !.http = h, !.pinned = p]
  <2>1. Counted(state, kind, want, 1) = upd
    BY <1>2 DEF Counted
  <2>2. h \in Nat /\ p \in Nat
    BY DEF Objects
  <2> HIDE DEF h, p, OneMore
  <2>3. /\ upd \in Objects /\ upd.running = state.running /\ upd.key = state.key
        /\ upd.connected = state.connected /\ upd.holder = state.holder
        /\ upd.conn = state.conn /\ upd.heard = state.heard
        /\ upd.http = h /\ upd.pinned = p /\ upd.rec = state.rec
    BY <2>2 DEF Objects
  <2> HIDE DEF upd
  <2> QED
    BY <1>2, <2>1, <2>3 DEF h, p, OneMore
<1>3. CASE kind = "recording"
  <2>1. Counted(state, kind, want, 1) = [state EXCEPT !.rec = @ + 1]
    BY <1>3 DEF Counted
  <2> QED
    BY <1>3, <2>1 DEF Objects, OneMore
<1> QED
  BY <1>1, <1>2, <1>3 DEF Kinds

LEMMA AttachKeeps ==
  ASSUME IInv, ~shut, NEW l \in Listeners, NEW kind \in Kinds,
         NEW want \in Identities \cup {None}, NEW s, NEW state, NEW r,
         ~consumer[l].open, Enters(s, state, r), want # None => state.key = want,
         state.connected = source[s].connected, state.holder = source[s].holder,
         state.connected => state.conn = source[s].conn, state.heard \subseteq source[s].heard,
         Attach(l, kind, want, s, state, r)
  PROVE  IInv'
<1> DEFINE new == Counted(state, kind, want, 1)
<1>0. /\ TypeOK /\ CountsMatch /\ ConnectedIsLeased /\ OneSession
      /\ s \in Sources /\ state \in Objects /\ state.running
      /\ Swept \in [Sources -> Objects]
  BY SweptFunction, TypedObjects DEF IInv, LeasesAccounted, Enters
<1>1. /\ new \in Objects /\ new.running = state.running /\ new.key = state.key
      /\ kind = "http" => new.http = state.http + 1 /\ new.rec = state.rec
      /\ kind = "http" /\ want = None => new.pinned = state.pinned
      /\ kind = "http" /\ want # None => new.pinned = state.pinned + 1
      /\ kind = "recording" =>
           new.rec = state.rec + 1 /\ new.http = state.http /\ new.pinned = state.pinned
      /\ new.connected = source[s].connected /\ new.holder = source[s].holder
      /\ new.connected => new.conn = source[s].conn
      /\ new.heard \subseteq source[s].heard
  <2>0. new = Counted(state, kind, want, 1)
    OBVIOUS
  <2> HIDE DEF new
  <2>1. OneMore(state, kind, want, new)
    BY <1>0, <2>0, CountedUp
  <2> QED
    BY <2>1 DEF OneMore
<1> HIDE DEF new
<1>2. /\ registry' = r /\ source' = [Swept EXCEPT ![s] = new]
      /\ consumer' = [consumer EXCEPT ![l] = [open |-> TRUE, again |-> FALSE, src |-> s,
                                              kind |-> kind, want |-> want]]
      /\ closing' = closing \cup Evicted(registry) /\ UNCHANGED <<producer, shut>>
  BY DEF Attach, new
<1>3. /\ source'[s] = new /\ \A t \in Sources \ {s} : source'[t] = Swept[t]
      /\ source' \in [Sources -> Objects]
  BY <1>0, <1>1, <1>2
<1>4. /\ RegisteredRuns' /\ KeysMatch'
      /\ registry' \in Registers /\ closing' \in SUBSET Sources
  BY <1>1, <1>2, EnteringKeeps
<1>5. /\ consumer'[l].open /\ consumer'[l].src = s /\ consumer'[l].want = want
      /\ \A m \in Listeners \ {l} : consumer'[m] = consumer[m]
      /\ consumer' \in [Listeners -> LeaseRecords]
  BY <1>0, <1>2 DEF TypeOK, LeaseRecords, Kinds
<1>6. TypeOK'
  BY <1>0, <1>2, <1>3, <1>4, <1>5 DEF TypeOK, Objects, Registers, LeaseRecords, Kinds
<1>7. ASSUME NEW t, NEW k
      PROVE  /\ Leases(t, k)' =
                  IF t = s /\ k = kind THEN Leases(t, k) \cup {l} ELSE Leases(t, k)
             /\ PinnedLeases(t)' =
                  IF t = s /\ kind = "http" /\ want # None THEN PinnedLeases(t) \cup {l}
                  ELSE PinnedLeases(t)
             /\ l \notin Leases(t, k) /\ l \notin PinnedLeases(t)
  <2>1. consumer \in [Listeners -> LeaseRecords]
    BY <1>0 DEF TypeOK, LeaseRecords
  <2> QED
    BY <1>2, <2>1, LeaseAdded
<1>8. CountsMatch'
  <2> SUFFICES ASSUME NEW t \in Sources
               PROVE  /\ source'[t].http = Cardinality(Leases(t, "http")')
                      /\ source'[t].pinned = Cardinality(PinnedLeases(t)')
                      /\ source'[t].rec = Cardinality(Leases(t, "recording")')
    BY DEF CountsMatch, PinnedLeases
  <2>0. /\ source[t].http = Cardinality(Leases(t, "http"))
        /\ source[t].pinned = Cardinality(PinnedLeases(t))
        /\ source[t].rec = Cardinality(Leases(t, "recording"))
    BY <1>0 DEF CountsMatch, PinnedLeases
  <2>1. CASE t # s
    BY <2>0, <2>1, <1>3, <1>7, SweptSources
  <2>2. CASE t = s
    <3>1. /\ state.http = source[s].http /\ state.pinned = source[s].pinned
          /\ state.rec = source[s].rec
      BY DEF Enters
    <3>2. /\ Cardinality(Leases(s, kind) \cup {l}) = Cardinality(Leases(s, kind)) + 1
          /\ Cardinality(PinnedLeases(s) \cup {l}) = Cardinality(PinnedLeases(s)) + 1
      BY <1>7, LeasesFinite, FS_AddElement
    <3> QED
      BY <2>0, <2>2, <3>1, <3>2, <1>1, <1>3, <1>7, LeasesFinite DEF Kinds
  <2> QED
    BY <2>1, <2>2
<1>9. ConnectedIsLeased'
  <2> SUFFICES ASSUME NEW t \in Sources
               PROVE  /\ source'[t].connected <=> source'[t].holder # None
                      /\ source'[t].connected =>
                           /\ source'[t].conn = source'[t].holder
                           /\ producer'[source'[t].holder] = t
    BY DEF ConnectedIsLeased
  <2>1. /\ source'[t].connected = source[t].connected
        /\ source'[t].holder = source[t].holder
        /\ source'[t].connected => source'[t].conn = source[t].conn
    BY <1>1, <1>3, SweptSources
  <2> QED
    BY <1>0, <1>2, <2>1 DEF ConnectedIsLeased
<1>10. OneSession'
  <2> SUFFICES ASSUME NEW t \in Sources
               PROVE  source'[t].heard \subseteq {source'[t].holder}
    BY DEF OneSession
  <2> QED
    BY <1>0, <1>1, <1>3, SweptSources DEF OneSession
<1>11. UsedSourceRuns'
  <2> SUFFICES ASSUME NEW t \in Sources,
                      source'[t].connected \/ Leases(t, "http")' # {}
                        \/ Leases(t, "recording")' # {}
               PROVE  t \in Registered(r)
    BY <1>2, <1>4 DEF UsedSourceRuns, RegisteredRuns, Registered
  <2>1. Registered(r) = (Registered(registry) \ Evicted(registry)) \cup {s}
    BY <1>0, SweptRegistry DEF Enters
  <2>2. CASE t # s
    <3>1. /\ source[t].connected \/ Leases(t, "http") # {} \/ Leases(t, "recording") # {}
          /\ t \notin Evicted(registry)
      BY <2>2, <1>3, <1>7, SweptSources
    <3> QED
      BY <2>1, <3>1 DEF IInv, UsedSourceRuns
  <2> QED
    BY <2>1, <2>2
<1>12. OpenLeases'
  BY <1>0, <1>5 DEF IInv, OpenLeases
<1>13. PinsHold'
  <2> SUFFICES ASSUME NEW m \in Listeners, consumer'[m].open, consumer'[m].want # None
               PROVE  source'[consumer'[m].src].key = consumer'[m].want
    BY DEF PinsHold
  <2>1. CASE m = l
    BY <2>1, <1>1, <1>3, <1>5
  <2>2. CASE m # l /\ consumer[m].src = s
    BY <2>2, <1>1, <1>3, <1>5 DEF Enters
  <2>3. CASE m # l /\ consumer[m].src # s
    <3> DEFINE t == consumer[m].src
    <3>1. /\ t \in Sources /\ m \in Leases(t, "http") \cup Leases(t, "recording")
          /\ consumer[m].open /\ consumer[m].want # None /\ consumer'[m] = consumer[m]
      BY <2>3, <1>0, <1>5 DEF IInv, OpenLeases, Leases, TypeOK
    <3>2. t \notin Evicted(registry)
      BY <3>1, SweptSources
    <3> QED
      BY <2>3, <3>1, <3>2, <1>3, SweptSources DEF IInv, PinsHold
  <2> QED
    BY <2>1, <2>2, <2>3
<1> QED
  BY <1>4, <1>6, <1>8, <1>9, <1>10, <1>11, <1>12, <1>13 DEF IInv, LeasesAccounted

\* What a selection enters: a source as the sweep left it.
LEMMA LeftEnters ==
  ASSUME IInv, ~shut, NEW k \in Keys, After(registry)[k] # None
  PROVE  Enters(After(registry)[k], source[After(registry)[k]], After(registry))
<1>1. \A j \in Keys : After(registry)[j] # None =>
        /\ After(registry)[j] \in Sources /\ After(registry)[j] \in Registered(After(registry))
        /\ After(registry)[j] \notin Evicted(registry) /\ After(registry)[j] \notin closing
        /\ source[After(registry)[j]] \in Objects /\ source[After(registry)[j]].running
        /\ source[After(registry)[j]].key = j
  BY LeftByTheSweep
<1>2. After(registry) \in Registers
  BY SweptRegistry DEF IInv, LeasesAccounted
<1> QED
  BY <1>1, <1>2 DEF Enters, IInv, PinsHold

LEMMA LeaseConsumerKeeps ==
  ASSUME IInv, NEW l \in Listeners, NEW kind \in Kinds,
         NEW want \in Identities \cup {None}, LeaseConsumer(l, kind, want)
  PROVE  IInv'
<1> DEFINE r == After(registry)
<1>0. ~shut /\ ~consumer[l].open
  BY DEF LeaseConsumer, Idle
<1>1. CASE SelectNamed(l, kind, want, r)
  <2>1. /\ want \in Keys /\ r[want] # None
        /\ Attach(l, kind, want, r[want], source[r[want]], r)
    BY <1>1 DEF SelectNamed, Keys
  <2>2. Enters(r[want], source[r[want]], r) /\ source[r[want]].key = want
    BY <1>0, <2>1, LeftEnters, LeftByTheSweep
  <2> HIDE DEF r
  <2> QED
    BY <1>0, <2>1, <2>2, AttachKeeps
<1>2. CASE want = None /\ SelectSole(l, kind, r)
  <2>1. PICK s \in Registered(r) : Attach(l, kind, None, s, source[s], r)
    BY <1>2 DEF SelectSole
  <2>2. PICK k \in Keys : r[k] # None /\ s = r[k]
    BY <2>1 DEF Registered
  <2>3. Enters(s, source[s], r)
    BY <1>0, <2>2, LeftEnters
  <2> HIDE DEF r
  <2> QED
    BY <1>0, <1>2, <2>1, <2>3, AttachKeeps
<1>3. CASE want = None /\ SelectPending(l, kind, r)
  <2> DEFINE state == Fresh(Pending, FALSE, None)
  <2>1. PICK s \in Unused : Attach(l, kind, None, s, state, [r EXCEPT ![Pending] = s])
    BY <1>3 DEF SelectPending
  <2> DEFINE new == [r EXCEPT ![Pending] = s]
  <2>2. /\ s \in Sources /\ s \notin Registered(registry) /\ s \notin closing
        /\ s \notin Evicted(registry)
        /\ source[s].http = 0 /\ source[s].pinned = 0 /\ source[s].rec = 0
        /\ \A m \in Listeners : consumer[m].src # s
    BY UnusedUncounted
  <2>3. /\ state \in Objects /\ state.running /\ state.key = Pending
        /\ state.http = 0 /\ state.pinned = 0 /\ state.rec = 0
        /\ state.connected = FALSE /\ state.holder = None /\ state.heard = {}
    BY FreshTyped DEF Fresh, Keys
  <2>4. /\ r \in Registers /\ Pending \in Keys /\ Registered(r) = {}
    BY <1>3, SweptRegistry DEF SelectPending, IInv, LeasesAccounted, Keys
  <2>5. \A k \in Keys : r[k] = None
    BY <2>4 DEF Registered
  <2>6. /\ new \in Registers /\ new[Pending] = s /\ \A k \in Keys \ {Pending} : new[k] = None
    BY <2>2, <2>4, <2>5 DEF Registers
  <2>7. Registered(new) = Registered(r) \cup {s}
    BY <2>2, <2>4, <2>6, NoneIsNothing DEF Registered
  <2>8. source[s].connected = FALSE /\ source[s].holder = None
    <3>1. source[s] \in Objects /\ ~(source[s].connected)
      BY <2>2, <1>0, TypedObjects DEF IInv, LeasesAccounted, UsedSourceRuns
    <3> QED
      BY <2>2, <3>1 DEF IInv, LeasesAccounted, ConnectedIsLeased, Objects
  <2>9. Attach(l, kind, None, s, state, new)
    BY <2>1
  <2> HIDE DEF state, new
  <2>10. Enters(s, state, new)
    BY <2>2, <2>3, <2>4, <2>6, <2>7, NoneIsNothing DEF Enters
  <2> QED
    BY <1>0, <1>3, <2>3, <2>8, <2>9, <2>10, AttachKeeps
<1>4. CASE RefuseConsumer(want)
  BY <1>4, <1>0, SweepKeeps DEF RefuseConsumer
<1> QED
  BY <1>1, <1>2, <1>3, <1>4 DEF LeaseConsumer

-----------------------------------------------------------------------------
(***************************************************************************)
(* Calls that change one source and leave the registry alone.              *)
(***************************************************************************)
SameUse(s, new) ==
  /\ new \in Objects /\ new.key = source[s].key /\ new.running = source[s].running
  /\ new.http = source[s].http /\ new.pinned = source[s].pinned /\ new.rec = source[s].rec
  /\ new.connected => source[s].connected

LEMMA SourceKeeps ==
  ASSUME IInv, NEW s \in Sources, NEW new, SameUse(s, new),
         source' = [source EXCEPT ![s] = new], UNCHANGED <<registry, consumer, closing, shut>>,
         producer' \in [Conns -> Sources \cup {None}],
         ConnectedIsLeased', new.heard \subseteq {new.holder}
  PROVE  IInv'
<1>0. TypeOK /\ CountsMatch /\ OneSession /\ source \in [Sources -> Objects]
  BY TypedObjects DEF IInv, LeasesAccounted
<1>1. /\ source'[s] = new /\ \A t \in Sources \ {s} : source'[t] = source[t]
      /\ source' \in [Sources -> Objects]
  BY <1>0 DEF SameUse
<1>2. \A t \in Sources :
        /\ source'[t].key = source[t].key /\ source'[t].running = source[t].running
        /\ source'[t].http = source[t].http /\ source'[t].pinned = source[t].pinned
        /\ source'[t].rec = source[t].rec
        /\ source'[t].connected => source[t].connected
  BY <1>1 DEF SameUse
<1>3. TypeOK'
  BY <1>0, <1>1 DEF TypeOK, Objects
<1>4. CountsMatch'
  <2> SUFFICES ASSUME NEW t \in Sources
               PROVE  /\ source'[t].http = Cardinality(Leases(t, "http")')
                      /\ source'[t].pinned = Cardinality(PinnedLeases(t)')
                      /\ source'[t].rec = Cardinality(Leases(t, "recording")')
    BY DEF CountsMatch, PinnedLeases
  <2>1. /\ Leases(t, "http")' = Leases(t, "http")
        /\ PinnedLeases(t)' = PinnedLeases(t)
        /\ Leases(t, "recording")' = Leases(t, "recording")
    BY SameLeases
  <2>2. /\ source[t].http = Cardinality(Leases(t, "http"))
        /\ source[t].pinned = Cardinality(PinnedLeases(t))
        /\ source[t].rec = Cardinality(Leases(t, "recording"))
    BY <1>0 DEF CountsMatch, PinnedLeases
  <2>3. /\ source'[t].http = source[t].http /\ source'[t].pinned = source[t].pinned
        /\ source'[t].rec = source[t].rec
    BY <1>2
  <2> QED
    BY <2>1, <2>2, <2>3, Zenon
<1>5. OneSession'
  BY <1>0, <1>1 DEF OneSession
<1>6. Registered(registry)' = Registered(registry) /\ Registered(registry) \subseteq Sources
  BY <1>0, SweptRegistry DEF Registered
<1>7. RegisteredRuns'
  BY <1>2, <1>6 DEF IInv, RegisteredRuns
<1>8. UsedSourceRuns'
  BY <1>2, <1>6, SameLeases DEF IInv, UsedSourceRuns
<1>9. KeysMatch'
  BY <1>0, <1>2 DEF IInv, KeysMatch, TypeOK
<1>10. PinsHold' /\ OpenLeases'
  BY <1>2 DEF IInv, PinsHold, OpenLeases
<1> QED
  BY <1>3, <1>4, <1>5, <1>7, <1>8, <1>9, <1>10 DEF IInv, LeasesAccounted

LEMMA ExpireKeeps ==
  ASSUME IInv, NEW s \in Sources, Expire(s)
  PROVE  IInv'
<1> DEFINE new == [source[s] EXCEPT !.expired = TRUE]
<1>0. source \in [Sources -> Objects] /\ ConnectedIsLeased /\ OneSession
      /\ producer \in [Conns -> Sources \cup {None}]
  BY TypedObjects DEF IInv, LeasesAccounted
<1>1. /\ SameUse(s, new) /\ new.heard = source[s].heard /\ new.holder = source[s].holder
      /\ new.connected = source[s].connected /\ new.conn = source[s].conn
  BY <1>0 DEF SameUse, Objects
<1>2. source' = [source EXCEPT ![s] = new] /\ UNCHANGED <<registry, producer, consumer, closing, shut>>
  BY DEF Expire
<1> HIDE DEF new
<1>3. ConnectedIsLeased'
  BY <1>0, <1>1, <1>2 DEF ConnectedIsLeased
<1> QED
  BY <1>0, <1>1, <1>2, <1>3, SourceKeeps DEF OneSession

LEMMA IngestKeeps ==
  ASSUME IInv, NEW c \in Conns, Ingest(c)
  PROVE  IInv'
<1> DEFINE s == producer[c]
           new == [source[s] EXCEPT !.heard = @ \cup {c}]
<1>0. /\ source \in [Sources -> Objects] /\ ConnectedIsLeased /\ OneSession
      /\ s \in Sources /\ producer \in [Conns -> Sources \cup {None}]
  BY TypedObjects DEF IInv, LeasesAccounted, Ingest
<1>1. /\ SameUse(s, new) /\ new.heard = source[s].heard \cup {c} /\ new.holder = source[s].holder
      /\ new.connected = source[s].connected /\ new.conn = source[s].conn
  BY <1>0 DEF SameUse, Objects
<1>2. /\ source' = [source EXCEPT ![s] = new] /\ source[s].holder = c
      /\ UNCHANGED <<registry, producer, consumer, closing, shut>>
  BY DEF Ingest, Current, SameGeneration
<1> HIDE DEF new, s
<1>3. ConnectedIsLeased'
  BY <1>0, <1>1, <1>2 DEF ConnectedIsLeased
<1> QED
  BY <1>0, <1>1, <1>2, <1>3, SourceKeeps DEF OneSession

\* The gate lets go of the connection that has it, and of no other.
LEMMA ReleaseProducerKeeps ==
  ASSUME IInv, NEW c \in Conns, ReleaseProducer(c)
  PROVE  IInv'
<1> DEFINE s == producer[c]
           old == source[s]
           new == ReleaseGate(old, c)
<1>0. /\ source \in [Sources -> Objects] /\ ConnectedIsLeased /\ OneSession
      /\ s \in Sources /\ producer \in [Conns -> Sources \cup {None}]
      /\ old \in Objects
  BY TypedObjects DEF IInv, LeasesAccounted, ReleaseProducer
<1>1. /\ old.connected <=> old.holder # None
      /\ old.connected => old.conn = old.holder /\ producer[old.holder] = s
      /\ old.heard \subseteq {old.holder}
  BY <1>0 DEF ConnectedIsLeased, OneSession
<1>2. CASE old.holder = c
  <2>1. new = Disconnected(old, c)
    BY <1>1, <1>2, NoneIsNothing DEF ReleaseGate
  <2> DEFINE heard == Ended(old.heard, c)
  <2>2. heard \subseteq {None} /\ heard \in SUBSET (Conns \cup {None})
    BY <1>1, <1>2 DEF Ended
  <2> HIDE DEF heard
  <2>3. [old EXCEPT !.conn = None, !.holder = None, !.connected = FALSE, !.expired = FALSE,
                   !.heard = heard] = new
    BY <2>1 DEF Disconnected, heard
  <2>4. SameUse(s, new) /\ new.heard = heard /\ new.holder = None /\ new.connected = FALSE
    BY <1>0, <2>2, <2>3 DEF SameUse, Objects
  <2>5. /\ source' = [source EXCEPT ![s] = new] /\ producer' = [producer EXCEPT ![c] = None]
        /\ UNCHANGED <<registry, consumer, closing, shut>>
    BY DEF ReleaseProducer
  <2> HIDE DEF new
  <2>6. ConnectedIsLeased'
    BY <1>0, <2>4, <2>5, <1>2, NoneIsNothing DEF ConnectedIsLeased
  <2> QED
    BY <1>0, <2>2, <2>4, <2>5, <2>6, SourceKeeps
<1>3. CASE old.holder # c
  <2>1. Ended(old.heard, c) = old.heard
    BY <1>1, <1>3 DEF Ended
  <2>2. [old EXCEPT !.heard = old.heard] = old
    BY <1>0 DEF Objects
  <2>3. new = Rested(old)
    BY <1>3, <2>1, <2>2 DEF ReleaseGate
  <2>4. /\ SameUse(s, new) /\ new.heard = old.heard /\ new.holder = old.holder
        /\ new.connected = old.connected /\ new.conn = old.conn
    BY <1>0, <2>3 DEF Rested, SameUse, Objects
  <2>5. /\ source' = [source EXCEPT ![s] = new] /\ producer' = [producer EXCEPT ![c] = None]
        /\ UNCHANGED <<registry, consumer, closing, shut>>
    BY DEF ReleaseProducer
  <2> HIDE DEF new
  <2>6. ConnectedIsLeased'
    <3> SUFFICES ASSUME NEW t \in Sources
                 PROVE  /\ source'[t].connected <=> source'[t].holder # None
                        /\ source'[t].connected =>
                             /\ source'[t].conn = source'[t].holder
                             /\ producer'[source'[t].holder] = t
      BY DEF ConnectedIsLeased
    <3>1. /\ source'[t].connected = source[t].connected /\ source'[t].holder = source[t].holder
          /\ source'[t].conn = source[t].conn
      BY <1>0, <2>4, <2>5
    <3>2. source[t].connected => source[t].holder \in Conns \ {c}
      BY <1>0, <1>3 DEF ConnectedIsLeased, Objects
    <3> QED
      BY <1>0, <2>5, <3>1, <3>2 DEF ConnectedIsLeased
  <2> QED
    BY <1>0, <1>1, <2>4, <2>5, <2>6, SourceKeeps
<1> QED
  BY <1>2, <1>3

\* What dropping one lease leaves of a source.
OneLess(old, kind, want, new) ==
  /\ new \in Objects /\ new.running = old.running /\ new.key = old.key
  /\ new.connected = old.connected /\ new.holder = old.holder
  /\ new.conn = old.conn /\ new.heard = old.heard
  /\ kind = "http" => new.http = old.http - 1 /\ new.rec = old.rec
  /\ kind = "http" /\ want = None => new.pinned = old.pinned
  /\ kind = "http" /\ want # None => new.pinned = old.pinned - 1
  /\ kind = "recording" =>
       new.rec = old.rec - 1 /\ new.http = old.http /\ new.pinned = old.pinned

LEMMA RestedSame ==
  ASSUME NEW s \in Objects
  PROVE  /\ Rested(s) \in Objects /\ Rested(s).running = s.running /\ Rested(s).key = s.key
         /\ Rested(s).connected = s.connected /\ Rested(s).holder = s.holder
         /\ Rested(s).conn = s.conn /\ Rested(s).heard = s.heard
         /\ Rested(s).http = s.http /\ Rested(s).pinned = s.pinned /\ Rested(s).rec = s.rec
BY DEF Rested, Objects

LEMMA CountedDown ==
  ASSUME NEW old \in Objects, NEW kind \in Kinds, NEW want, NEW new,
         kind = "http" => old.http > 0,
         kind = "http" /\ want # None => old.pinned > 0,
         kind = "recording" => old.rec > 0,
         new = Counted(old, kind, want, -1)
  PROVE  OneLess(old, kind, want, new)
<1>1. CASE kind = "http" /\ want = None
  <2> DEFINE h == old.http - 1
             p == old.pinned
             upd == [old EXCEPT !.http = h, !.pinned = p]
  <2>1. Counted(old, kind, want, -1) = upd
    BY <1>1 DEF Counted, Objects
  <2>2. h \in Nat /\ p \in Nat
    BY <1>1 DEF Objects
  <2> HIDE DEF h, p
  <2>3. /\ upd \in Objects /\ upd.running = old.running /\ upd.key = old.key
        /\ upd.connected = old.connected /\ upd.holder = old.holder
        /\ upd.conn = old.conn /\ upd.heard = old.heard
        /\ upd.http = h /\ upd.pinned = p /\ upd.rec = old.rec
    BY <2>2 DEF Objects
  <2> HIDE DEF upd
  <2> QED
    BY <1>1, <2>1, <2>3 DEF h, p, OneLess
<1>2. CASE kind = "http" /\ want # None
  <2> DEFINE h == old.http - 1
             p == old.pinned - 1
             upd == [old EXCEPT !.http = h, !.pinned = p]
  <2>1. Counted(old, kind, want, -1) = upd
    BY <1>2 DEF Counted, Objects
  <2>2. h \in Nat /\ p \in Nat
    BY <1>2 DEF Objects
  <2> HIDE DEF h, p
  <2>3. /\ upd \in Objects /\ upd.running = old.running /\ upd.key = old.key
        /\ upd.connected = old.connected /\ upd.holder = old.holder
        /\ upd.conn = old.conn /\ upd.heard = old.heard
        /\ upd.http = h /\ upd.pinned = p /\ upd.rec = old.rec
    BY <2>2 DEF Objects
  <2> HIDE DEF upd
  <2> QED
    BY <1>2, <2>1, <2>3 DEF h, p, OneLess
<1>3. CASE kind = "recording"
  <2> DEFINE n == old.rec - 1
             upd == [old EXCEPT !.rec = n]
  <2>1. Counted(old, kind, want, -1) = upd
    BY <1>3 DEF Counted, Objects
  <2>2. n \in Nat
    BY <1>3 DEF Objects
  <2> HIDE DEF n
  <2>3. /\ upd \in Objects /\ upd.running = old.running /\ upd.key = old.key
        /\ upd.connected = old.connected /\ upd.holder = old.holder
        /\ upd.conn = old.conn /\ upd.heard = old.heard
        /\ upd.http = old.http /\ upd.pinned = old.pinned /\ upd.rec = n
    BY <2>2 DEF Objects
  <2> HIDE DEF upd
  <2> QED
    BY <1>3, <2>1, <2>3 DEF n, OneLess
<1> QED
  BY <1>1, <1>2, <1>3 DEF Kinds

LEMMA OneFewer ==
  ASSUME NEW L, IsFiniteSet(L), NEW l \in L
  PROVE  Cardinality(L) \in Nat /\ Cardinality(L) > 0 /\ Cardinality(L \ {l}) = Cardinality(L) - 1
<1>1. Cardinality(L) \in Nat /\ Cardinality(L) # 0
  BY FS_CardinalityType, FS_EmptySet
<1>2. Cardinality(L \ {l}) = Cardinality(L) - 1
  BY FS_RemoveElement
<1> QED
  BY <1>1, <1>2

LEMMA ReleaseOpenKeeps ==
  ASSUME IInv, NEW l \in Listeners, ReleaseConsumer(l), consumer[l].open,
         NEW s, NEW kind, NEW want,
         s = consumer[l].src, kind = consumer[l].kind, want = consumer[l].want
  PROVE  IInv'
<1> DEFINE after == [consumer[l] EXCEPT !.open = FALSE, !.again = TRUE]
           less == Counted(source[s], kind, want, -1)
           new == Rested(less)
<1>0. /\ TypeOK /\ CountsMatch /\ ConnectedIsLeased /\ OneSession
      /\ source \in [Sources -> Objects] /\ consumer \in [Listeners -> LeaseRecords]
  BY TypedObjects DEF IInv, LeasesAccounted, TypeOK, LeaseRecords
<1>1. /\ consumer' = [consumer EXCEPT ![l] = after] /\ source' = [source EXCEPT ![s] = new]
      /\ UNCHANGED <<registry, producer, closing, shut>>
  BY DEF ReleaseConsumer, CountsOnce
<1>2. /\ s \in Sources /\ source[s] \in Objects /\ kind \in Kinds
      /\ consumer[l] \in LeaseRecords
  BY <1>0 DEF IInv, OpenLeases, LeaseRecords, Kinds
<1>3. /\ ~after.open /\ after \in LeaseRecords
      /\ \A m \in Listeners \ {l} : consumer'[m] = consumer[m]
      /\ ~consumer'[l].open /\ consumer' \in [Listeners -> LeaseRecords]
  BY <1>0, <1>1, <1>2 DEF LeaseRecords
<1>4. ASSUME NEW t, NEW k
      PROVE  /\ Leases(t, k)' = IF t = s /\ k = kind THEN Leases(t, k) \ {l} ELSE Leases(t, k)
             /\ PinnedLeases(t)' =
                  IF t = s /\ kind = "http" /\ want # None THEN PinnedLeases(t) \ {l}
                  ELSE PinnedLeases(t)
             /\ t = s /\ k = kind => l \in Leases(t, k)
             /\ t = s /\ kind = "http" /\ want # None => l \in PinnedLeases(t)
  <2>1. ASSUME NEW j
        PROVE  Leases(t, j)' = IF t = s /\ j = kind THEN Leases(t, j) \ {l} ELSE Leases(t, j)
    BY <1>3 DEF Leases
  <2>2. PinnedLeases(t)' =
          IF t = s /\ kind = "http" /\ want # None THEN PinnedLeases(t) \ {l}
          ELSE PinnedLeases(t)
    BY <1>3 DEF PinnedLeases, Leases
  <2>3. /\ t = s /\ k = kind => l \in Leases(t, k)
        /\ t = s /\ kind = "http" /\ want # None => l \in PinnedLeases(t)
    BY DEF PinnedLeases, Leases
  <2> QED
    BY <2>1, <2>2, <2>3
<1>5. \A t \in Sources :
        /\ source[t].http = Cardinality(Leases(t, "http"))
        /\ source[t].pinned = Cardinality(PinnedLeases(t))
        /\ source[t].rec = Cardinality(Leases(t, "recording"))
  BY <1>0 DEF CountsMatch, PinnedLeases
<1>6. /\ l \in Leases(s, kind) => Cardinality(Leases(s, kind)) > 0
      /\ l \in Leases(s, kind) => Cardinality(Leases(s, kind) \ {l}) = Cardinality(Leases(s, kind)) - 1
      /\ l \in PinnedLeases(s) => Cardinality(PinnedLeases(s)) > 0
      /\ l \in PinnedLeases(s) => Cardinality(PinnedLeases(s) \ {l}) = Cardinality(PinnedLeases(s)) - 1
  BY LeasesFinite, OneFewer
<1>7. /\ kind = "http" => source[s].http > 0
      /\ kind = "http" /\ want # None => source[s].pinned > 0
      /\ kind = "recording" => source[s].rec > 0
  BY <1>2, <1>4, <1>5, <1>6
<1>8. OneLess(source[s], kind, want, less)
  BY <1>2, <1>7, CountedDown
<1> HIDE DEF less
<1>9. OneLess(source[s], kind, want, new)
  BY <1>8, RestedSame DEF OneLess
<1> HIDE DEF new, after
<1>10. /\ source'[s] = new /\ \A t \in Sources \ {s} : source'[t] = source[t]
       /\ source' \in [Sources -> Objects]
  BY <1>0, <1>1, <1>2, <1>9 DEF OneLess
<1>11. \A t \in Sources :
         /\ source'[t].key = source[t].key /\ source'[t].running = source[t].running
         /\ source'[t].connected = source[t].connected /\ source'[t].holder = source[t].holder
         /\ source'[t].conn = source[t].conn /\ source'[t].heard = source[t].heard
  BY <1>9, <1>10 DEF OneLess
<1>12. CountsMatch'
  <2> SUFFICES ASSUME NEW t \in Sources
               PROVE  /\ source'[t].http = Cardinality(Leases(t, "http")')
                      /\ source'[t].pinned = Cardinality(PinnedLeases(t)')
                      /\ source'[t].rec = Cardinality(Leases(t, "recording")')
    BY DEF CountsMatch, PinnedLeases
  <2>1. CASE t # s
    BY <2>1, <1>4, <1>5, <1>10
  <2>2. CASE t = s /\ kind = "http"
    <3>1. /\ Leases(s, "http")' = Leases(s, "http") \ {l}
          /\ Leases(s, "recording")' = Leases(s, "recording")
          /\ Cardinality(Leases(s, "http") \ {l}) = Cardinality(Leases(s, "http")) - 1
      BY <2>2, <1>4, <1>6
    <3>2. Cardinality(PinnedLeases(s)') =
            IF want # None THEN Cardinality(PinnedLeases(s)) - 1 ELSE Cardinality(PinnedLeases(s))
      BY <2>2, <1>4, <1>6
    <3>3. /\ new.http = source[s].http - 1 /\ new.rec = source[s].rec
          /\ new.pinned = IF want # None THEN source[s].pinned - 1 ELSE source[s].pinned
      BY <2>2, <1>9 DEF OneLess
    <3>4. source'[s] = new
      BY <1>10
    <3> QED
      BY <2>2, <3>1, <3>2, <3>3, <3>4, <1>5
  <2>3. CASE t = s /\ kind = "recording"
    <3>1. /\ Leases(s, "recording")' = Leases(s, "recording") \ {l}
          /\ Leases(s, "http")' = Leases(s, "http")
          /\ PinnedLeases(s)' = PinnedLeases(s)
          /\ Cardinality(Leases(s, "recording") \ {l}) = Cardinality(Leases(s, "recording")) - 1
      BY <2>3, <1>4, <1>6
    <3>2. /\ new.rec = source[s].rec - 1 /\ new.http = source[s].http
          /\ new.pinned = source[s].pinned
      BY <2>3, <1>9 DEF OneLess
    <3>3. source'[s] = new
      BY <1>10
    <3> QED
      BY <2>3, <3>1, <3>2, <3>3, <1>5
  <2> QED
    BY <2>1, <2>2, <2>3, <1>2 DEF Kinds
<1>13. TypeOK'
  BY <1>0, <1>1, <1>3, <1>10 DEF TypeOK, Objects, LeaseRecords
<1>14. ConnectedIsLeased' /\ OneSession'
  BY <1>0, <1>1, <1>11 DEF ConnectedIsLeased, OneSession
<1>15. Registered(registry)' = Registered(registry) /\ Registered(registry) \subseteq Sources
  BY <1>0, <1>1, SweptRegistry DEF Registered
<1>16. RegisteredRuns'
  BY <1>1, <1>11, <1>15 DEF IInv, RegisteredRuns
<1>17. UsedSourceRuns'
  <2> SUFFICES ASSUME NEW t \in Sources, ~shut,
                      source'[t].connected \/ Leases(t, "http")' # {}
                        \/ Leases(t, "recording")' # {}
               PROVE  t \in Registered(registry)
    BY <1>1, <1>15, <1>16 DEF UsedSourceRuns, RegisteredRuns
  <2>1. source[t].connected \/ Leases(t, "http") # {} \/ Leases(t, "recording") # {}
    BY <1>4, <1>11
  <2> QED
    BY <2>1 DEF IInv, UsedSourceRuns
<1>18. KeysMatch'
  BY <1>0, <1>1, <1>11 DEF IInv, KeysMatch, TypeOK
<1>19. PinsHold' /\ OpenLeases'
  BY <1>3, <1>11 DEF IInv, PinsHold, OpenLeases
<1> QED
  BY <1>12, <1>13, <1>14, <1>16, <1>17, <1>18, <1>19 DEF IInv, LeasesAccounted

LEMMA ReleaseConsumerKeeps ==
  ASSUME IInv, NEW l \in Listeners, ReleaseConsumer(l)
  PROVE  IInv'
<1>0. /\ TypeOK /\ CountsMatch /\ ConnectedIsLeased /\ OneSession
      /\ source \in [Sources -> Objects] /\ consumer \in [Listeners -> LeaseRecords]
  BY TypedObjects DEF IInv, LeasesAccounted, TypeOK, LeaseRecords
<1>1. CASE ~consumer[l].open
  <2>1. consumer' = [consumer EXCEPT ![l] = Idle] /\ UNCHANGED <<source, registry, producer, closing, shut>>
    BY <1>1 DEF ReleaseConsumer, CountsOnce
  <2>2. /\ ~consumer'[l].open /\ \A m \in Listeners \ {l} : consumer'[m] = consumer[m]
        /\ consumer' \in [Listeners -> LeaseRecords]
    BY <1>0, <2>1 DEF Idle, LeaseRecords
  <2>3. ASSUME NEW t, NEW k
        PROVE  Leases(t, k)' = Leases(t, k) /\ PinnedLeases(t)' = PinnedLeases(t)
    BY <1>1, <2>2 DEF Leases, PinnedLeases
  <2>4. CountsMatch'
    <3> SUFFICES ASSUME NEW t \in Sources
                 PROVE  /\ source[t].http = Cardinality(Leases(t, "http")')
                        /\ source[t].pinned = Cardinality(PinnedLeases(t)')
                        /\ source[t].rec = Cardinality(Leases(t, "recording")')
      BY <2>1 DEF CountsMatch, PinnedLeases
    <3> QED
      BY <1>0, <2>3 DEF CountsMatch, PinnedLeases
  <2>5. TypeOK'
    BY <1>0, <2>1, <2>2 DEF TypeOK, LeaseRecords
  <2>6. ConnectedIsLeased' /\ OneSession' /\ KeysMatch' /\ RegisteredRuns'
    BY <1>0, <2>1 DEF IInv, ConnectedIsLeased, OneSession, KeysMatch, RegisteredRuns, Registered
  <2>7. UsedSourceRuns'
    BY <2>1, <2>3 DEF IInv, UsedSourceRuns, Registered
  <2>8. PinsHold' /\ OpenLeases'
    BY <2>1, <2>2 DEF IInv, PinsHold, OpenLeases
  <2> QED
    BY <2>4, <2>5, <2>6, <2>7, <2>8 DEF IInv, LeasesAccounted
<1>2. CASE consumer[l].open
  BY <1>2, ReleaseOpenKeeps
<1> QED
  BY <1>1, <1>2

LEMMA CloseHubKeeps ==
  ASSUME IInv, NEW s \in Sources, CloseHub(s)
  PROVE  IInv'
<1> DEFINE new == [source[s] EXCEPT !.running = FALSE]
<1>0. /\ TypeOK /\ CountsMatch /\ ConnectedIsLeased /\ OneSession
      /\ source \in [Sources -> Objects] /\ Registered(registry) \subseteq Sources
  BY TypedObjects, SweptRegistry DEF IInv, LeasesAccounted
<1>1. /\ new \in Objects /\ new.key = source[s].key
      /\ new.http = source[s].http /\ new.pinned = source[s].pinned /\ new.rec = source[s].rec
      /\ new.connected = source[s].connected /\ new.holder = source[s].holder
      /\ new.conn = source[s].conn /\ new.heard = source[s].heard
  BY <1>0 DEF Objects
<1>2. /\ source' = [source EXCEPT ![s] = new] /\ s \in closing /\ closing' = closing \ {s}
      /\ UNCHANGED <<registry, producer, consumer, shut>>
  BY DEF CloseHub
<1> HIDE DEF new
<1>3. /\ \A t \in Sources \ {s} : source'[t] = source[t]
      /\ source' \in [Sources -> Objects]
      /\ \A t \in Sources :
           /\ source'[t].key = source[t].key
           /\ source'[t].http = source[t].http /\ source'[t].pinned = source[t].pinned
           /\ source'[t].rec = source[t].rec
           /\ source'[t].connected = source[t].connected /\ source'[t].holder = source[t].holder
           /\ source'[t].conn = source[t].conn /\ source'[t].heard = source[t].heard
  BY <1>0, <1>1, <1>2
<1>4. TypeOK'
  BY <1>0, <1>2, <1>3 DEF TypeOK, Objects
<1>5. CountsMatch'
  <2> SUFFICES ASSUME NEW t \in Sources
               PROVE  /\ source'[t].http = Cardinality(Leases(t, "http")')
                      /\ source'[t].pinned = Cardinality(PinnedLeases(t)')
                      /\ source'[t].rec = Cardinality(Leases(t, "recording")')
    BY DEF CountsMatch, PinnedLeases
  <2>1. /\ Leases(t, "http")' = Leases(t, "http")
        /\ PinnedLeases(t)' = PinnedLeases(t)
        /\ Leases(t, "recording")' = Leases(t, "recording")
    BY <1>2, SameLeases
  <2>2. /\ source[t].http = Cardinality(Leases(t, "http"))
        /\ source[t].pinned = Cardinality(PinnedLeases(t))
        /\ source[t].rec = Cardinality(Leases(t, "recording"))
    BY <1>0 DEF CountsMatch, PinnedLeases
  <2>3. /\ source'[t].http = source[t].http /\ source'[t].pinned = source[t].pinned
        /\ source'[t].rec = source[t].rec
    BY <1>3
  <2> QED
    BY <2>1, <2>2, <2>3, Zenon
<1>6. ConnectedIsLeased' /\ OneSession'
  BY <1>0, <1>2, <1>3 DEF ConnectedIsLeased, OneSession
<1>7. Registered(registry)' = Registered(registry)
  BY <1>2 DEF Registered
<1>8. RegisteredRuns' /\ KeysMatch' /\ PinsHold' /\ OpenLeases'
  <2>1. ~shut => s \notin Registered(registry)
    BY <1>2 DEF IInv, RegisteredRuns
  <2>2. RegisteredRuns'
    BY <1>0, <1>2, <1>3, <1>7, <2>1 DEF IInv, RegisteredRuns
  <2>3. KeysMatch'
    BY <1>0, <1>2, <1>3 DEF IInv, KeysMatch, TypeOK
  <2> QED
    BY <2>2, <2>3, <1>2, <1>3 DEF IInv, PinsHold, OpenLeases
<1>9. UsedSourceRuns'
  <2> SUFFICES ASSUME NEW t \in Sources, ~shut,
                      source'[t].connected \/ Leases(t, "http")' # {}
                        \/ Leases(t, "recording")' # {}
               PROVE  t \in Registered(registry)
    BY <1>2, <1>7, <1>8 DEF UsedSourceRuns, RegisteredRuns
  <2>1. source[t].connected \/ Leases(t, "http") # {} \/ Leases(t, "recording") # {}
    BY <1>2, <1>3, SameLeases
  <2> QED
    BY <2>1 DEF IInv, UsedSourceRuns
<1> QED
  BY <1>4, <1>5, <1>6, <1>8, <1>9 DEF IInv, LeasesAccounted

LEMMA CloseKeeps ==
  ASSUME IInv, Close
  PROVE  IInv'
<1>0. /\ TypeOK /\ CountsMatch /\ ConnectedIsLeased /\ OneSession
      /\ Registered(registry) \subseteq Sources
  BY SweptRegistry DEF IInv, LeasesAccounted
<1>1. /\ shut' = TRUE /\ registry' = [k \in Keys |-> None]
      /\ closing' = closing \cup Registered(registry) /\ UNCHANGED <<source, producer, consumer>>
  BY DEF Close
<1>2. TypeOK'
  BY <1>0, <1>1 DEF TypeOK
<1>3. CountsMatch'
  <2> SUFFICES ASSUME NEW t \in Sources
               PROVE  /\ source[t].http = Cardinality(Leases(t, "http")')
                      /\ source[t].pinned = Cardinality(PinnedLeases(t)')
                      /\ source[t].rec = Cardinality(Leases(t, "recording")')
    BY <1>1 DEF CountsMatch, PinnedLeases
  <2>1. /\ Leases(t, "http")' = Leases(t, "http")
        /\ PinnedLeases(t)' = PinnedLeases(t)
        /\ Leases(t, "recording")' = Leases(t, "recording")
    BY <1>1, SameLeases
  <2> QED
    BY <1>0, <2>1 DEF CountsMatch, PinnedLeases
<1>4. ConnectedIsLeased' /\ OneSession' /\ PinsHold' /\ OpenLeases'
  BY <1>0, <1>1 DEF IInv, ConnectedIsLeased, OneSession, PinsHold, OpenLeases
<1>5. UsedSourceRuns' /\ RegisteredRuns' /\ KeysMatch'
  BY <1>1 DEF UsedSourceRuns, RegisteredRuns, KeysMatch
<1> QED
  BY <1>2, <1>3, <1>4, <1>5 DEF IInv, LeasesAccounted

-----------------------------------------------------------------------------
LEMMA InitIInv ==
  ASSUME Init
  PROVE  IInv
<1>1. PICK r \in [Keys -> Sources \cup {None}] :
        /\ \A k \in Keys : r[k] # None <=> k \in Allowed
        /\ \A j, k \in Allowed : r[j] = r[k] => j = k
        /\ registry = r
        /\ source = [s \in Sources |->
                      IF \E k \in Allowed : r[k] = s
                      THEN LET k == CHOOSE j \in Allowed : r[j] = s
                           IN  Fresh(k, TRUE, k)
                      ELSE [Gone EXCEPT !.running = FALSE]]
  BY DEF Init
<1>2. /\ producer = [c \in Conns |-> None] /\ consumer = [l \in Listeners |-> Idle]
      /\ closing = {} /\ shut = FALSE
  BY DEF Init
<1>3. Allowed \subseteq Peers /\ Allowed \subseteq Keys /\ Pending \in Keys
  BY RegistryAssumption DEF Keys, Identities
<1>4. ASSUME NEW k \in Allowed
      PROVE  r[k] \in Sources /\ source[r[k]] = Fresh(k, TRUE, k)
  <2>1. k \in Keys /\ r[k] # None
    BY <1>1, <1>3
  <2>2. r[k] \in Sources
    BY <1>1, <2>1
  <2>3. (CHOOSE j \in Allowed : r[j] = r[k]) = k
    BY <1>1
  <2> QED
    BY <1>1, <2>2, <2>3
<1>5. ASSUME NEW s \in Sources
      PROVE  /\ source[s] \in Objects
             /\ source[s].http = 0 /\ source[s].pinned = 0 /\ source[s].rec = 0
             /\ source[s].connected = FALSE /\ source[s].holder = None /\ source[s].heard = {}
  <2>1. CASE \E k \in Allowed : r[k] = s
    <3>1. PICK k \in Allowed : r[k] = s
      BY <2>1
    <3>2. source[s] = Fresh(k, TRUE, k)
      BY <1>4, <3>1
    <3>3. Fresh(k, TRUE, k) \in Objects
      BY <1>3, FreshTyped
    <3>4. /\ Fresh(k, TRUE, k).http = 0 /\ Fresh(k, TRUE, k).pinned = 0
          /\ Fresh(k, TRUE, k).rec = 0 /\ Fresh(k, TRUE, k).connected = FALSE
          /\ Fresh(k, TRUE, k).holder = None /\ Fresh(k, TRUE, k).heard = {}
      BY DEF Fresh
    <3> QED
      BY <3>2, <3>3, <3>4
  <2>2. CASE ~\E k \in Allowed : r[k] = s
    <3>1. source[s] = [Gone EXCEPT !.running = FALSE]
      BY <1>1, <2>2
    <3>2. /\ Gone.http = 0 /\ Gone.pinned = 0 /\ Gone.rec = 0 /\ Gone.connected = FALSE
          /\ Gone.holder = None /\ Gone.heard = {}
      BY DEF Gone, Fresh
    <3> DEFINE new == [Gone EXCEPT !.running = FALSE]
    <3>3. /\ new \in Objects /\ new.http = Gone.http /\ new.pinned = Gone.pinned
          /\ new.rec = Gone.rec /\ new.connected = Gone.connected /\ new.holder = Gone.holder
          /\ new.heard = Gone.heard
      BY GoneTyped DEF Objects
    <3> HIDE DEF new
    <3>4. source[s] = new
      BY <3>1 DEF new
    <3> QED
      BY <3>2, <3>3, <3>4
  <2> QED
    BY <2>1, <2>2
<1>6. \A l \in Listeners : ~consumer[l].open
  BY <1>2 DEF Idle
<1>7. \A s, kind : Leases(s, kind) = {} /\ PinnedLeases(s) = {}
  BY <1>6 DEF Leases, PinnedLeases
<1>8. source \in [Sources -> Objects]
  BY <1>1, <1>5
<1>9. TypeOK
  <2>1. /\ registry \in [Keys -> Sources \cup {None}] /\ producer \in [Conns -> Sources \cup {None}]
        /\ closing \in SUBSET Sources /\ shut \in BOOLEAN
    BY <1>1, <1>2
  <2>2. consumer \in [Listeners ->
          [open : BOOLEAN, again : BOOLEAN, src : Sources \cup {None},
           kind : {"http", "recording"}, want : Identities \cup {None}]]
    BY <1>2 DEF Idle
  <2> QED
    BY <1>8, <2>1, <2>2 DEF TypeOK, Objects
<1>10. CountsMatch
  BY <1>5, <1>7, FS_EmptySet DEF CountsMatch, PinnedLeases
<1>11. ConnectedIsLeased /\ OneSession
  BY <1>5 DEF ConnectedIsLeased, OneSession
<1>12. KeysMatch /\ RegisteredRuns
  <2>1. \A k \in Keys : r[k] # None =>
          k \in Allowed /\ source[r[k]].key = k /\ source[r[k]].running
    BY <1>1, <1>4 DEF Fresh
  <2>2. KeysMatch
    BY <1>1, <2>1 DEF KeysMatch
  <2>3. \A s \in Registered(registry) : \E k \in Keys : r[k] # None /\ s = r[k]
    BY <1>1 DEF Registered
  <2>4. RegisteredRuns
    BY <1>2, <2>1, <2>3 DEF RegisteredRuns
  <2> QED
    BY <2>2, <2>4
<1>13. UsedSourceRuns /\ PinsHold /\ OpenLeases
  BY <1>5, <1>6, <1>7 DEF UsedSourceRuns, PinsHold, OpenLeases
<1> QED
  BY <1>9, <1>10, <1>11, <1>12, <1>13 DEF IInv, LeasesAccounted

LEMMA StutterKeeps ==
  ASSUME IInv, UNCHANGED vars
  PROVE  IInv'
<1> USE DEF vars
<1>1. TypeOK' /\ ConnectedIsLeased' /\ OneSession'
  BY DEF IInv, LeasesAccounted, TypeOK, ConnectedIsLeased, OneSession
<1>2. CountsMatch'
  BY DEF IInv, LeasesAccounted, CountsMatch, Leases
<1>3. UsedSourceRuns' /\ RegisteredRuns'
  BY DEF IInv, UsedSourceRuns, RegisteredRuns, Registered, Leases
<1>4. KeysMatch' /\ PinsHold' /\ OpenLeases'
  BY DEF IInv, KeysMatch, PinsHold, OpenLeases
<1> QED
  BY <1>1, <1>2, <1>3, <1>4 DEF IInv, LeasesAccounted

LEMMA NextKeeps ==
  ASSUME IInv, [Next]_vars
  PROVE  IInv'
<1>1. ASSUME NEW s \in Sources, Expire(s) \/ CloseHub(s)
      PROVE  IInv'
  BY <1>1, ExpireKeeps, CloseHubKeeps
<1>2. ASSUME Snapshot
      PROVE  IInv'
  BY <1>2, SweepKeeps DEF Snapshot
<1>3. ASSUME NEW c \in Conns, NEW key \in Identities, NEW p \in Peers, LeaseProducer(c, key, p)
      PROVE  IInv'
  <2>1. ~shut /\ producer[c] = None /\ (key = p \/ key \in TlsKeys)
    BY <1>3 DEF LeaseProducer
  <2>2. CASE RefuseProducer(p, key)
    BY <2>1, <2>2, SweepKeeps DEF RefuseProducer
  <2>3. CASE ~RefuseProducer(p, key)
    BY <1>3, <2>1, <2>3, LeaseProducerKeeps DEF LeaseProducer
  <2> QED
    BY <2>2, <2>3
<1>4. ASSUME NEW c \in Conns, Ingest(c) \/ ReleaseProducer(c)
      PROVE  IInv'
  BY <1>4, IngestKeeps, ReleaseProducerKeeps
<1>5. ASSUME NEW l \in Listeners, NEW kind \in Kinds, NEW want \in Identities \cup {None},
             LeaseConsumer(l, kind, want)
      PROVE  IInv'
  BY <1>5, LeaseConsumerKeeps
<1>6. ASSUME NEW l \in Listeners, ReleaseConsumer(l)
      PROVE  IInv'
  BY <1>6, ReleaseConsumerKeeps
<1>7. ASSUME Close
      PROVE  IInv'
  BY <1>7, CloseKeeps
<1>8. ASSUME UNCHANGED vars
      PROVE  IInv'
  BY <1>8, StutterKeeps
<1> QED
  BY <1>1, <1>2, <1>3, <1>4, <1>5, <1>6, <1>7, <1>8 DEF Next, Kinds

(***************************************************************************)
(* The whole of the registry's bookkeeping, and with it that the use       *)
(* counts of a source are its open leases, that a source is connected      *)
(* while its last connection is, and that no session hears two of them.    *)
(***************************************************************************)
THEOREM Inductive == Spec => []IInv
<1>1. Init => IInv
  BY InitIInv
<1>2. IInv /\ [Next]_vars => IInv'
  BY NextKeeps
<1> QED
  BY <1>1, <1>2, PTL DEF Spec

(***************************************************************************)
(* A source's use counts are its open leases (sources.py:79), so that none *)
(* is evicted in use or kept for ever; its connection is the one leased    *)
(* last, and a playout session hears one connection only, however leases   *)
(* are closed, superseded or refused in between.                           *)
(***************************************************************************)
THEOREM Accounted == Spec => []LeasesAccounted
<1>1. IInv => LeasesAccounted
  BY DEF IInv
<1> QED
  BY <1>1, Inductive, PTL

(***************************************************************************)
(* No source somebody uses is evicted or stopped, before shutdown.         *)
(***************************************************************************)
THEOREM UsedRuns == Spec => []UsedSourceRuns
<1>1. IInv => UsedSourceRuns
  BY DEF IInv
<1> QED
  BY <1>1, Inductive, PTL

-----------------------------------------------------------------------------
(***************************************************************************)
(* What a call leaves of the identities that leases pin.                   *)
(***************************************************************************)
PinnedBy(l) == consumer[l].open /\ (consumer[l].want # None \/ consumer[l].kind = "recording")

LEMMA PinnedLeft ==
  ASSUME IInv, NEW l \in Listeners, consumer[l].open
  PROVE  /\ consumer[l].src \in Sources
         /\ consumer[l].src \notin Evicted(registry)
         /\ Swept[consumer[l].src] = source[consumer[l].src]
<1>1. consumer[l].src \in Sources /\ consumer[l].kind \in Kinds
  BY DEF IInv, OpenLeases, LeasesAccounted, TypeOK, Kinds
<1>2. l \in Leases(consumer[l].src, "http") \cup Leases(consumer[l].src, "recording")
  BY <1>1 DEF Leases, Kinds
<1> QED
  BY <1>1, <1>2, SweptSources

LEMMA NextPins ==
  ASSUME IInv, [Next]_vars, NEW l \in Listeners, PinnedBy(l), consumer'[l].open
  PROVE  source'[consumer[l].src].key = source[consumer[l].src].key
<1> DEFINE t == consumer[l].src
           r == After(registry)
<1>0. /\ source \in [Sources -> Objects] /\ Swept \in [Sources -> Objects]
      /\ t \in Sources /\ Swept[t] = source[t] /\ consumer[l].open
      /\ producer \in [Conns -> Sources \cup {None}]
  BY TypedObjects, SweptFunction, PinnedLeft DEF IInv, LeasesAccounted, PinnedBy
<1>1. ASSUME NEW c \in Conns, NEW key \in Identities, NEW p \in Peers, LeaseProducer(c, key, p)
      PROVE  source'[t].key = source[t].key
  <2>1. CASE RefuseProducer(p, key)
    BY <1>0, <2>1 DEF RefuseProducer
  <2>2. CASE Reconnect(c, key, p, r)
    BY <1>0, <2>2 DEF Reconnect, Connect, Takes, Objects
  <2>3. CASE Adopt(c, key, p, r)
    <3>1. PICK old \in Adoptable(r, p) :
            Connect(c, r[old], [source[r[old]] EXCEPT !.key = key, !.peer = p,
                                                      !.permanent = Permanent(key, p)],
                    Rekeyed(r, old, key))
      BY <2>3 DEF Adopt
    <3>2. r[old] # t
      BY <1>0, AdoptableUnpinned DEF PinnedBy
    <3> QED
      BY <1>0, <3>1, <3>2 DEF Connect
  <2>4. CASE Create(c, key, p, r)
    <3>1. PICK s \in Unused : Connect(c, s, Fresh(key, Permanent(key, p), p), [r EXCEPT ![key] = s])
      BY <2>4 DEF Create
    <3>2. s # t
      BY UnusedUncounted
    <3> QED
      BY <1>0, <3>1, <3>2 DEF Connect
  <2> QED
    BY <1>1, <2>1, <2>2, <2>3, <2>4 DEF LeaseProducer
<1>2. ASSUME NEW m \in Listeners, NEW kind \in Kinds, NEW want \in Identities \cup {None},
             LeaseConsumer(m, kind, want)
      PROVE  source'[t].key = source[t].key
  <2>1. ASSUME NEW s, NEW state, NEW after, Attach(m, kind, want, s, state, after),
               s = t => state = source[t]
        PROVE  source'[t].key = source[t].key
    <3>1. source' = [Swept EXCEPT ![s] = Counted(state, kind, want, 1)]
      BY <2>1 DEF Attach
    <3>2. Counted(source[t], kind, want, 1).key = source[t].key
      BY <1>0, CountedUp DEF OneMore
    <3> QED
      BY <1>0, <2>1, <3>1, <3>2
  <2>2. CASE SelectNamed(m, kind, want, r)
    BY <2>1, <2>2 DEF SelectNamed
  <2>3. CASE want = None /\ SelectSole(m, kind, r)
    BY <2>1, <2>3 DEF SelectSole
  <2>4. CASE want = None /\ SelectPending(m, kind, r)
    BY <2>1, <2>4, UnusedUncounted DEF SelectPending
  <2>5. CASE RefuseConsumer(want)
    BY <1>0, <2>5 DEF RefuseConsumer
  <2> QED
    BY <1>2, <2>2, <2>3, <2>4, <2>5 DEF LeaseConsumer
<1>3. ASSUME NEW s \in Sources, Expire(s) \/ CloseHub(s)
      PROVE  source'[t].key = source[t].key
  BY <1>0, <1>3 DEF Expire, CloseHub, Objects
<1>4. ASSUME NEW c \in Conns, Ingest(c)
      PROVE  source'[t].key = source[t].key
  BY <1>0, <1>4 DEF Ingest, Objects
<1>5. ASSUME NEW c \in Conns, ReleaseProducer(c)
      PROVE  source'[t].key = source[t].key
  <2>1. ASSUME NEW s \in Objects
        PROVE  ReleaseGate(s, c).key = s.key
    BY DEF ReleaseGate, Disconnected, Rested, Objects
  <2>2. source' = [source EXCEPT ![producer[c]] = ReleaseGate(@, c)]
    BY <1>5 DEF ReleaseProducer
  <2> QED
    BY <1>0, <2>1, <2>2
<1>6. ASSUME NEW m \in Listeners, ReleaseConsumer(m)
      PROVE  source'[t].key = source[t].key
  <2>1. ASSUME NEW s \in Objects, NEW kind, NEW want
        PROVE  Rested(Counted(s, kind, want, -1)).key = s.key
    BY DEF Rested, Counted, Objects
  <2> QED
    BY <1>0, <1>6, <2>1 DEF ReleaseConsumer
<1>7. ASSUME Snapshot
      PROVE  source'[t].key = source[t].key
  BY <1>0, <1>7 DEF Snapshot
<1>8. ASSUME Close \/ UNCHANGED vars
      PROVE  source'[t].key = source[t].key
  BY <1>8 DEF Close, vars
<1> QED
  BY <1>1, <1>2, <1>3, <1>4, <1>5, <1>6, <1>7, <1>8 DEF Next, Kinds

(***************************************************************************)
(* A source keeps its identity for as long as a listener that named it, or *)
(* a recording, has it open.                                               *)
(***************************************************************************)
THEOREM Pinned == Spec => PinnedIdentity
<1>1. IInv /\ [Next]_vars =>
        [\A l \in Listeners :
           consumer[l].open /\ consumer'[l].open
             /\ (consumer[l].want # None \/ consumer[l].kind = "recording") =>
               source'[consumer[l].src].key = source[consumer[l].src].key]_vars
  BY NextPins DEF PinnedBy
<1> QED
  BY <1>1, Inductive, PTL DEF Spec, PinnedIdentity

-----------------------------------------------------------------------------
(***************************************************************************)
(* The limit of the registry: adopting keeps it, and only a call that      *)
(* found room enters a source.                                             *)
(***************************************************************************)
WithinLimit ==
  /\ IsFiniteSet(Registered(registry))
  /\ Cardinality(Registered(registry)) <= MaxSources

LEMMA InitWithinLimit ==
  ASSUME Init
  PROVE  WithinLimit
<1>1. PICK r \in [Keys -> Sources \cup {None}] :
        (\A k \in Keys : r[k] # None <=> k \in Allowed) /\ registry = r
  BY DEF Init
<1>2. Allowed \subseteq Keys /\ IsFiniteSet(Allowed) /\ Cardinality(Allowed) <= MaxSources
      /\ MaxSources \in Nat
  BY RegistryAssumption DEF Keys, Identities
<1>3. Registered(registry) = {r[k] : k \in Allowed}
  BY <1>1, <1>2 DEF Registered
<1> DEFINE f == [k \in Allowed |-> r[k]]
<1>4. f \in Surjection(Allowed, {r[k] : k \in Allowed})
  BY DEF Surjection
<1> HIDE DEF f
<1>5. IsFiniteSet({r[k] : k \in Allowed})
      /\ Cardinality({r[k] : k \in Allowed}) <= Cardinality(Allowed)
  BY <1>2, <1>4, FS_Surjection
<1>6. Cardinality({r[k] : k \in Allowed}) \in Nat /\ Cardinality(Allowed) \in Nat
  BY <1>2, <1>5, FS_CardinalityType
<1> QED
  BY <1>2, <1>3, <1>5, <1>6 DEF WithinLimit

\* What a call leaves registered: at most what was, or one more if there was room.
LEMMA LimitKept ==
  ASSUME IInv, WithinLimit,
         NEW R, R \subseteq Registered(registry),
         NEW S, S = R \/ ((\E s : S = R \cup {s}) /\ Cardinality(R) < MaxSources)
  PROVE  IsFiniteSet(S) /\ Cardinality(S) <= MaxSources
<1>1. IsFiniteSet(R) /\ Cardinality(R) <= Cardinality(Registered(registry))
  BY FS_Subset DEF WithinLimit
<1>2. Cardinality(R) \in Nat /\ Cardinality(Registered(registry)) \in Nat /\ MaxSources \in Nat
  BY <1>1, FS_CardinalityType, RegistryAssumption DEF WithinLimit
<1>3. CASE S = R
  BY <1>1, <1>2, <1>3 DEF WithinLimit
<1>4. CASE (\E s : S = R \cup {s}) /\ Cardinality(R) < MaxSources
  <2>1. PICK s : S = R \cup {s}
    BY <1>4
  <2>2. IsFiniteSet(S) /\ Cardinality(S) = IF s \in R THEN Cardinality(R) ELSE Cardinality(R) + 1
    BY <1>1, <2>1, FS_AddElement
  <2> QED
    BY <1>2, <1>4, <2>2
<1> QED
  BY <1>3, <1>4

LEMMA NextWithinLimit ==
  ASSUME IInv, WithinLimit, [Next]_vars
  PROVE  WithinLimit'
<1> DEFINE r == After(registry)
           Left == Registered(r)
           Grown(S) == S = Left \/ ((\E s : S = Left \cup {s}) /\ Cardinality(Left) < MaxSources)
<1>0. /\ Left \subseteq Registered(registry) /\ r \in Registers
      /\ MaxSources \in Nat \ {0}
      /\ IsFiniteSet(Left) /\ Cardinality(Left) \in Nat
  BY SweptRegistry, RegistryAssumption, FS_Subset, FS_CardinalityType
  DEF IInv, LeasesAccounted, WithinLimit
<1>1. ASSUME registry' = r
      PROVE  WithinLimit'
  <2>1. Registered(registry') = Left
    BY <1>1
  <2> QED
    BY <1>0, <2>1, LimitKept DEF WithinLimit, Registered
<1>2. ASSUME NEW after, registry' = after, Grown(Registered(after))
      PROVE  WithinLimit'
  <2>1. IsFiniteSet(Registered(after)) /\ Cardinality(Registered(after)) <= MaxSources
    BY <1>0, <1>2, LimitKept
  <2> QED
    BY <1>2, <2>1 DEF WithinLimit, Registered
<1>3. ASSUME NEW c \in Conns, NEW key \in Identities, NEW p \in Peers, LeaseProducer(c, key, p)
      PROVE  WithinLimit'
  <2>0. key \in Keys
    BY DEF Keys
  <2>1. CASE RefuseProducer(p, key) \/ Reconnect(c, key, p, r)
    BY <1>1, <2>1 DEF RefuseProducer, Reconnect, Connect
  <2>2. CASE Adopt(c, key, p, r)
    <3>1. PICK old \in Adoptable(r, p) : registry' = Rekeyed(r, old, key)
      BY <2>2 DEF Adopt, Connect
    <3>2. old \in Keys /\ r[key] = None /\ r[old] # None
      BY <2>2, <3>1 DEF Adopt, Adoptable, PeerAdoptable, PendingAdoptable, OtherAdoptable, Keys, Identities
    <3>3. \A k \in Keys : Rekeyed(r, old, key)[k] =
            IF k = key THEN r[old] ELSE IF k = old THEN None ELSE r[k]
      BY <1>0, <2>0 DEF Rekeyed, Registers
    <3>4. \A k \in Keys : r[k] = r[old] => k = old
      BY <3>2, LeftByTheSweep
    <3>5. Registered(Rekeyed(r, old, key)) = Left
      <4>1. \A x : x \in Registered(Rekeyed(r, old, key)) <=>
              \E k \in Keys : Rekeyed(r, old, key)[k] # None /\ x = Rekeyed(r, old, key)[k]
        BY DEF Registered
      <4>2. \A x : x \in Left <=> \E k \in Keys : r[k] # None /\ x = r[k]
        BY DEF Registered
      <4> HIDE DEF r, Left
      <4> QED
        BY <2>0, <3>2, <3>3, <3>4, <4>1, <4>2
    <3> QED
      BY <1>2, <3>1, <3>5
  <2>3. CASE Create(c, key, p, r)
    <3>1. PICK s \in Unused : registry' = [r EXCEPT ![key] = s]
      BY <2>3 DEF Create, Connect
    <3>2. Cardinality(Left) < MaxSources /\ r[key] = None /\ s \in Sources
      BY <1>0, <2>3 DEF Create, Full, AtCapacity, Unused
    <3>3. Registered([r EXCEPT ![key] = s]) = Left \cup {s}
      <4> DEFINE new == [r EXCEPT ![key] = s]
      <4>1. \A k \in Keys : new[k] = IF k = key THEN s ELSE r[k]
        BY <1>0, <2>0 DEF Registers
      <4>2. \A x : x \in Registered(new) <=> \E k \in Keys : new[k] # None /\ x = new[k]
        BY DEF Registered
      <4>3. \A x : x \in Left <=> \E k \in Keys : r[k] # None /\ x = r[k]
        BY DEF Registered
      <4>4. s # None
        BY <3>2, NoneIsNothing
      <4> HIDE DEF r, Left, new
      <4>5. \A x : x \in Registered(new) <=> x \in Left \cup {s}
        BY <2>0, <3>2, <4>1, <4>2, <4>3, <4>4
      <4> QED
        BY <4>5 DEF new
    <3> QED
      BY <1>2, <3>1, <3>2, <3>3
  <2> QED
    BY <1>3, <2>1, <2>2, <2>3 DEF LeaseProducer
<1>4. ASSUME NEW l \in Listeners, NEW kind \in Kinds, NEW want \in Identities \cup {None},
             LeaseConsumer(l, kind, want)
      PROVE  WithinLimit'
  <2>1. CASE SelectNamed(l, kind, want, r) \/ (want = None /\ SelectSole(l, kind, r))
               \/ RefuseConsumer(want)
    BY <1>1, <2>1 DEF SelectNamed, SelectSole, RefuseConsumer, Attach
  <2>2. CASE want = None /\ SelectPending(l, kind, r)
    <3>1. PICK s \in Unused : registry' = [r EXCEPT ![Pending] = s]
      BY <2>2 DEF SelectPending, Attach
    <3>2. Left = {} /\ Cardinality(Left) < MaxSources /\ s \in Sources
      BY <1>0, <2>2, FS_EmptySet DEF SelectPending, Unused
    <3>3. /\ \A k \in Keys : r[k] = None
          /\ Pending \in Keys
      BY <3>2 DEF Registered, Keys
    <3>4. \A k \in Keys : [r EXCEPT ![Pending] = s][k] = IF k = Pending THEN s ELSE None
      BY <1>0, <3>3 DEF Registers
    <3>5. Registered([r EXCEPT ![Pending] = s]) = Left \cup {s}
      BY <3>2, <3>3, <3>4, NoneIsNothing DEF Registered
    <3> QED
      BY <1>2, <3>1, <3>2, <3>5
  <2> QED
    BY <1>4, <2>1, <2>2 DEF LeaseConsumer
<1>5. ASSUME UNCHANGED registry
      PROVE  WithinLimit'
  BY <1>5 DEF WithinLimit, Registered
<1>6. ASSUME Close
      PROVE  WithinLimit'
  <2>1. Registered(registry)' = {}
    BY <1>6 DEF Close, Registered
  <2> QED
    BY <1>0, <2>1, FS_EmptySet DEF WithinLimit
<1> QED
  <2>1. CASE \E s \in Sources : Expire(s) \/ CloseHub(s)
    BY <2>1, <1>5 DEF Expire, CloseHub
  <2>2. CASE Snapshot
    BY <2>2, <1>1 DEF Snapshot
  <2>3. CASE \E c \in Conns : Ingest(c) \/ ReleaseProducer(c)
    BY <2>3, <1>5 DEF Ingest, ReleaseProducer
  <2>4. CASE \E l \in Listeners : ReleaseConsumer(l)
    BY <2>4, <1>5 DEF ReleaseConsumer
  <2>5. CASE UNCHANGED vars
    BY <2>5, <1>5 DEF vars
  <2> QED
    BY <1>3, <1>4, <1>6, <2>1, <2>2, <2>3, <2>4, <2>5 DEF Next, Kinds

(***************************************************************************)
(* sources.py: a bridge never registers more than max_sources sources,     *)
(* with the allowlist's own and one that waits for its producer counted.   *)
(***************************************************************************)
THEOREM Limited == Spec => []WithinLimit
<1>1. Init => WithinLimit
  BY InitWithinLimit
<1>2. IInv /\ WithinLimit /\ [Next]_vars => WithinLimit'
  BY NextWithinLimit
<1> QED
  BY <1>1, <1>2, Inductive, PTL DEF Spec
=============================================================================
