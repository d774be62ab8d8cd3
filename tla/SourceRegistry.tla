--------------------------- MODULE SourceRegistry ---------------------------
(***************************************************************************)
(* The bridge's source registry and connection gate, sources.py.  A source *)
(* is a playout pipeline registered under an identity.  A producer leases  *)
(* the source of the identity it authenticated, HTTP listeners and         *)
(* recordings lease one as consumers; a source nobody leases is evicted    *)
(* after an interval, and one that waits may be adopted by an identity of  *)
(* its peer.  The registry's lock makes every call one step, except that   *)
(* pipelines of evicted sources are closed after it is released.           *)
(***************************************************************************)
EXTENDS Integers, FiniteSets

CONSTANTS
  Peers,        \* IPv4 addresses; the identity of a cleartext producer
  TlsKeys,      \* identities of authenticated producers
  Allowed,      \* the allowlist, empty when every peer is admitted
  MaxSources,   \* max_sources
  Sources,      \* pool of source objects, large enough never to run out
  Conns,        \* pool of producer connections
  Listeners,    \* pool of consumer leases
  Pending,      \* PENDING_KEY
  None

Identities == Peers \cup TlsKeys
Keys == Identities \cup {Pending}

ASSUME RegistryAssumption ==
  /\ MaxSources \in Nat \ {0}
  /\ Allowed \subseteq Peers /\ Cardinality(Allowed) <= MaxSources
  /\ Pending \notin Identities /\ None \notin Sources \cup Conns
  /\ IsFiniteSet(Listeners) /\ IsFiniteSet(Allowed)

VARIABLES
  registry,     \* _sources: the source registered under an identity, or None
  source,       \* the state of each source
  producer,     \* the source each connection leases, or None
  consumer,     \* each consumer lease
  closing,      \* sources a call has evicted and is about to close
  shut          \* the registry was closed

vars == <<registry, source, producer, consumer, closing, shut>>

\* `holder` is the connection that holds the gate's generation: no two leases
\* share one, so a generation nobody can present any more is None.  `heard`
\* are the connections whose packets the playout session took, None standing
\* for one that ended.
Fresh(key, permanent, peer) ==
  [key |-> key, permanent |-> permanent, peer |-> peer, connected |-> FALSE,
   http |-> 0, pinned |-> 0, rec |-> 0, expired |-> FALSE,
   conn |-> None, holder |-> None, heard |-> {}, running |-> TRUE]

\* What is left of a source that was dropped: nothing reads it again.
Gone == Fresh(Pending, FALSE, None)

Idle == [open |-> FALSE, again |-> FALSE, src |-> None, kind |-> "http",
         want |-> None]

\* The sources a registry holds, and how many.
Registered(r) == {r[k] : k \in {j \in Keys : r[j] # None}}
AtCapacity(r) == Cardinality(Registered(r)) >= MaxSources

Init ==
  \E r \in [Keys -> Sources \cup {None}] :
    /\ \A k \in Keys : r[k] # None <=> k \in Allowed
    /\ \A j, k \in Allowed : r[j] = r[k] => j = k
    /\ registry = r
    /\ source = [s \in Sources |->
                  IF \E k \in Allowed : r[k] = s
                  THEN LET k == CHOOSE j \in Allowed : r[j] = s
                       IN  Fresh(k, TRUE, k)
                  ELSE [Gone EXCEPT !.running = FALSE]]
    /\ producer = [c \in Conns |-> None]
    /\ consumer = [l \in Listeners |-> Idle]
    /\ closing = {}
    /\ shut = FALSE

-----------------------------------------------------------------------------
(***************************************************************************)
(* Eviction: every call that takes the lock for a lease or a snapshot      *)
(* first drops the sources that nobody used for the whole interval.        *)
(***************************************************************************)
InUseByHttp(s) == s.connected \/ s.http > 0
InUse(s) == s.connected \/ s.http > 0 \/ s.rec > 0

Evictable(s) == ~s.permanent /\ ~InUse(s) /\ s.expired

Evicted(r) == {s \in Registered(r) : Evictable(source[s])}

After(r) == [k \in Keys |-> IF r[k] \in Evicted(r) THEN None ELSE r[k]]

Swept == [s \in Sources |-> IF s \in Evicted(registry) THEN Gone ELSE source[s]]

\* The interval passes since a source's disconnected_at; that of a permanent
\* source is not looked at.
Expire(s) ==
  /\ s \in Registered(registry) /\ ~source[s].permanent /\ ~source[s].expired
  /\ source' = [source EXCEPT ![s].expired = TRUE]
  /\ UNCHANGED <<registry, producer, consumer, closing, shut>>

\* The call that evicted a source stops its pipeline.
CloseHub(s) ==
  /\ s \in closing
  /\ closing' = closing \ {s}
  /\ source' = [source EXCEPT ![s].running = FALSE]
  /\ UNCHANGED <<registry, producer, consumer, shut>>

Snapshot ==
  /\ ~shut /\ Evicted(registry) # {}
  /\ registry' = After(registry)
  /\ source' = Swept
  /\ closing' = closing \cup Evicted(registry)
  /\ UNCHANGED <<producer, consumer, shut>>

-----------------------------------------------------------------------------
(***************************************************************************)
(* Admission of a producer.                                                *)
(***************************************************************************)
Unused ==
  {s \in Sources : /\ s \notin Registered(registry) \cup closing
                   /\ \A c \in Conns : producer[c] # s
                   /\ \A l \in Listeners : consumer[l].src # s}

MayAdopt(s) == ~s.connected /\ s.rec = 0

PeerAdoptableAnyway(r, p) ==
  r[p] # None /\ LET s == source[r[p]] IN
    MayAdopt(s) /\ (s.permanent \/ (AtCapacity(r) /\ s.http = 0))

PeerAdoptable(r, p) ==
  r[p] # None /\ LET s == source[r[p]] IN
    /\ MayAdopt(s)
    /\ IF s.permanent THEN s.pinned = 0 ELSE AtCapacity(r) /\ s.http = 0

PendingAdoptable(r) == r[Pending] # None /\ MayAdopt(source[r[Pending]])

OtherAdoptable(r, p, k) ==
  k \notin {p, Pending} /\ r[k] # None /\ LET s == source[r[k]] IN
    /\ MayAdopt(s) /\ AtCapacity(r) /\ s.http = 0
    /\ ~s.permanent /\ s.peer = p

\* The entries _reusable_locked may return; among the last, the code takes the
\* one registered first, the model any.
Adoptable(r, p) ==
  IF PeerAdoptable(r, p) THEN {p}
  ELSE IF PendingAdoptable(r) THEN {Pending}
  ELSE {k \in Keys : OtherAdoptable(r, p, k)}

Permanent(key, p) == key = p /\ p \in Allowed

\* What the gate does when c becomes the source's connection.
Takes(s, c) ==
  [s EXCEPT !.conn = c, !.holder = c, !.connected = TRUE, !.heard = {}]

Connect(c, s, state, r) ==
  /\ registry' = r
  /\ source' = [Swept EXCEPT ![s] = Takes(state, c)]
  /\ producer' = [producer EXCEPT ![c] = s]
  /\ closing' = closing \cup Evicted(registry)
  /\ UNCHANGED <<consumer, shut>>

Reconnect(c, key, p, r) ==
  /\ r[key] # None
  /\ Connect(c, r[key], [source[r[key]] EXCEPT !.peer = p], r)

Rekeyed(r, old, key) == [r EXCEPT ![old] = None, ![key] = r[old]]

Adopt(c, key, p, r) ==
  /\ r[key] = None
  /\ \E old \in Adoptable(r, p) :
       Connect(c, r[old],
               [source[r[old]] EXCEPT !.key = key, !.peer = p,
                                      !.permanent = Permanent(key, p)],
               Rekeyed(r, old, key))

Full(r) == AtCapacity(r)

Create(c, key, p, r) ==
  /\ r[key] = None /\ Adoptable(r, p) = {} /\ ~Full(r)
  /\ \E s \in Unused :
       Connect(c, s, Fresh(key, Permanent(key, p), p), [r EXCEPT ![key] = s])

\* A refused producer: what was evicted for it is not closed by anyone.
RefuseProducer(p, key) ==
  /\ \/ Allowed # {} /\ p \notin Allowed
     \/ LET r == After(registry) IN
          r[key] = None /\ Adoptable(r, p) = {} /\ AtCapacity(r)
  /\ registry' = After(registry)
  /\ source' = Swept
  /\ UNCHANGED <<producer, consumer, closing, shut>>

LeaseProducer(c, key, p) ==
  /\ ~shut /\ producer[c] = None
  /\ key = p \/ key \in TlsKeys
  /\ LET r == After(registry) IN
       \/ /\ Allowed # {} => p \in Allowed
          /\ \/ Reconnect(c, key, p, r)
             \/ Adopt(c, key, p, r)
             \/ Create(c, key, p, r)
       \/ RefuseProducer(p, key)

\* A packet of connection c; a superseded connection is turned away.
SameGeneration(s, c) == s.holder = c
Current(s, c) == SameGeneration(s, c)

Ingest(c) ==
  /\ producer[c] # None
  /\ Current(source[producer[c]], c)
  /\ source' = [source EXCEPT ![producer[c]].heard = @ \cup {c}]
  /\ UNCHANGED <<registry, producer, consumer, closing, shut>>

-----------------------------------------------------------------------------
(***************************************************************************)
(* Consumers.  `want` is the identity a lease names, None for a bare one.  *)
(***************************************************************************)
CountedUnpinned(s, kind, want, n) ==
  IF kind = "http"
  THEN [s EXCEPT !.http = @ + n,
                 !.pinned = IF want = None \/ n < 0 THEN @ ELSE @ + n]
  ELSE [s EXCEPT !.rec = @ + n]

Counted(s, kind, want, n) ==
  IF kind = "http"
  THEN [s EXCEPT !.http = @ + n, !.pinned = IF want = None THEN @ ELSE @ + n]
  ELSE [s EXCEPT !.rec = @ + n]

Attach(l, kind, want, s, state, r) ==
  /\ registry' = r
  /\ source' = [Swept EXCEPT ![s] = Counted(state, kind, want, 1)]
  /\ consumer' = [consumer EXCEPT ![l] = [open |-> TRUE, again |-> FALSE,
                                          src |-> s, kind |-> kind,
                                          want |-> want]]
  /\ closing' = closing \cup Evicted(registry)
  /\ UNCHANGED <<producer, shut>>

SelectNamed(l, kind, want, r) ==
  /\ want # None /\ r[want] # None
  /\ Attach(l, kind, want, r[want], source[r[want]], r)

SelectSole(l, kind, r) ==
  /\ Cardinality(Registered(r)) = 1
  /\ \E s \in Registered(r) : Attach(l, kind, None, s, source[s], r)

SelectPending(l, kind, r) ==
  /\ Registered(r) = {}
  /\ \E s \in Unused :
       Attach(l, kind, None, s, Fresh(Pending, FALSE, None),
              [r EXCEPT ![Pending] = s])

\* 404 for an unknown identity, 409 for a bare request among several.
RefuseConsumer(want) ==
  /\ LET r == After(registry) IN
       IF want # None THEN r[want] = None ELSE Cardinality(Registered(r)) > 1
  /\ registry' = After(registry)
  /\ source' = Swept
  /\ UNCHANGED <<producer, consumer, closing, shut>>

LeaseConsumer(l, kind, want) ==
  /\ ~shut /\ consumer[l] = Idle
  /\ \/ SelectNamed(l, kind, want, After(registry))
     \/ want = None /\ SelectSole(l, kind, After(registry))
     \/ want = None /\ SelectPending(l, kind, After(registry))
     \/ RefuseConsumer(want)

-----------------------------------------------------------------------------
(***************************************************************************)
(* Release.  A listener's lease is closed by its body and again by the     *)
(* response's background task.                                             *)
(***************************************************************************)
Rested(s) == IF InUse(s) THEN s ELSE [s EXCEPT !.expired = FALSE]

\* The gate only lets the current connection go.
Ended(h, c) == IF c \in h THEN (h \ {c}) \cup {None} ELSE h

Disconnected(s, c) ==
  [s EXCEPT !.conn = None, !.holder = None, !.connected = FALSE,
            !.expired = FALSE, !.heard = Ended(@, c)]

ReleaseGate(s, c) ==
  IF s.holder = c /\ s.conn = c THEN Disconnected(s, c)
  ELSE Rested([s EXCEPT !.heard = Ended(@, c)])

ReleaseProducer(c) ==
  /\ producer[c] # None
  /\ source' = [source EXCEPT ![producer[c]] = ReleaseGate(@, c)]
  /\ producer' = [producer EXCEPT ![c] = None]
  /\ UNCHANGED <<registry, consumer, closing, shut>>

CountsOnce(l) == consumer[l].open

ReleaseConsumer(l) ==
  /\ consumer[l] # Idle
  /\ source' = IF CountsOnce(l)
               THEN [source EXCEPT ![consumer[l].src] =
                      Rested(Counted(@, consumer[l].kind, consumer[l].want, -1))]
               ELSE source
  /\ consumer' = [consumer EXCEPT ![l] =
                   IF @.open THEN [@ EXCEPT !.open = FALSE, !.again = TRUE]
                             ELSE Idle]
  /\ UNCHANGED <<registry, producer, closing, shut>>

\* Shutdown, after the HTTP server and the PCM listener stopped.
Close ==
  /\ ~shut
  /\ \A c \in Conns : producer[c] = None
  /\ shut' = TRUE
  /\ closing' = closing \cup Registered(registry)
  /\ registry' = [k \in Keys |-> None]
  /\ UNCHANGED <<source, producer, consumer>>

Next ==
  \/ \E s \in Sources : Expire(s) \/ CloseHub(s)
  \/ Snapshot
  \/ \E c \in Conns, key \in Identities, p \in Peers : LeaseProducer(c, key, p)
  \/ \E c \in Conns : Ingest(c) \/ ReleaseProducer(c)
  \/ \E l \in Listeners, kind \in {"http", "recording"},
        want \in Identities \cup {None} : LeaseConsumer(l, kind, want)
  \/ \E l \in Listeners : ReleaseConsumer(l)
  \/ Close

Spec == Init /\ [][Next]_vars

-----------------------------------------------------------------------------
Leases(s, kind) ==
  {l \in Listeners : consumer[l].open /\ consumer[l].src = s
                       /\ consumer[l].kind = kind}

(* Every variable keeps its type and no use count goes below zero. *)
TypeOK ==
  /\ registry \in [Keys -> Sources \cup {None}]
  /\ source \in [Sources ->
       [key : Keys, permanent : BOOLEAN, peer : Peers \cup {None},
        connected : BOOLEAN, http : Nat, pinned : Nat, rec : Nat,
        expired : BOOLEAN, conn : Conns \cup {None},
        holder : Conns \cup {None}, heard : SUBSET (Conns \cup {None}),
        running : BOOLEAN]]
  /\ producer \in [Conns -> Sources \cup {None}]
  /\ consumer \in [Listeners ->
       [open : BOOLEAN, again : BOOLEAN, src : Sources \cup {None},
        kind : {"http", "recording"}, want : Identities \cup {None}]]
  /\ closing \in SUBSET Sources
  /\ shut \in BOOLEAN

(***************************************************************************)
(* The use counts are the open leases, also when a listener's lease is     *)
(* closed twice.                                                           *)
(***************************************************************************)
CountsMatch ==
  \A s \in Sources :
    /\ source[s].http = Cardinality(Leases(s, "http"))
    /\ source[s].pinned =
         Cardinality({l \in Leases(s, "http") : consumer[l].want # None})
    /\ source[s].rec = Cardinality(Leases(s, "recording"))

(***************************************************************************)
(* A source is connected exactly while the connection that last took it is *)
(* still leased, whatever the workers of superseded connections do.        *)
(***************************************************************************)
ConnectedIsLeased ==
  \A s \in Sources :
    /\ source[s].connected <=> source[s].holder # None
    /\ source[s].connected =>
         /\ source[s].conn = source[s].holder
         /\ producer[source[s].holder] = s

(***************************************************************************)
(* A playout session hears the packets of one connection only.             *)
(***************************************************************************)
OneSession == \A s \in Sources : source[s].heard \subseteq {source[s].holder}

(***************************************************************************)
(* Every lease is accounted for: by the counts of its source, by the       *)
(* connection that holds it and by the packets its session hears.          *)
(***************************************************************************)
LeasesAccounted == TypeOK /\ CountsMatch /\ ConnectedIsLeased /\ OneSession

(***************************************************************************)
(* A source somebody uses is neither evicted nor stopped before shutdown.  *)
(***************************************************************************)
UsedSourceRuns ==
  \A s \in Sources :
    ~shut /\ (source[s].connected \/ Leases(s, "http") # {}
                \/ Leases(s, "recording") # {}) =>
      s \in Registered(registry) /\ s \notin closing /\ source[s].running

(***************************************************************************)
(* bridge.md:55: explicit listeners and recordings pin their identity: it  *)
(* is not adopted under another one while they last.                       *)
(***************************************************************************)
PinnedIdentity ==
  [][\A l \in Listeners :
       consumer[l].open /\ consumer'[l].open
         /\ (consumer[l].want # None \/ consumer[l].kind = "recording") =>
           source'[consumer[l].src].key = source[consumer[l].src].key]_vars

(***************************************************************************)
(* bridge.md:61: "Eviction and bridge shutdown stop and join the source's  *)
(* playout worker, so churned sources never accumulate threads."           *)
(***************************************************************************)
EvictedSourceStops ==
  \A s \in Sources :
    source[s].running => s \in Registered(registry) \cup closing
=============================================================================
