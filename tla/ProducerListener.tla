-------------------------- MODULE ProducerListener --------------------------
(***************************************************************************)
(* The bridge's PCM listener (tcp.py) under its transport control          *)
(* (transport.py): one worker per accepted connection authenticates it in  *)
(* the mode of the moment and serves it; the API changes the mode and the  *)
(* keys, persisting first and then shutting down the connections it no     *)
(* longer admits; closing shuts all of them down and joins their workers.  *)
(***************************************************************************)
EXTENDS Naturals, FiniteSets

CONSTANTS
  Conns, Keys, Admins,  \* connections, key ids, threads serving the API
  MaxConns,             \* slots for connections
  MaxPsk,               \* bound of the model: secrets issued for a key
  MaxModes,             \* bound of the model: changes of the mode
  All, None

ASSUME ProducerListenerAssumption ==
  /\ MaxConns \in Nat \ {0} /\ MaxPsk \in Nat /\ MaxModes \in Nat
  /\ None \notin Conns \cup Keys /\ All \notin Keys
  /\ IsFiniteSet(Conns) /\ {"waiting", "ended"} \cap Conns = {}

VARIABLES
  tls, keys,    \* the stored mode, and each key's secret by number, 0 for none
  issued,       \* how many secrets were made for a key
  modes,        \* how often the mode changed
  admin,        \* what each API thread is about to do
  conn,         \* each connection and its worker
  slots,        \* free connection slots
  accepting,    \* the connection the listener thread holds, or its state
  closing       \* how far close has come

stored == <<tls, keys, issued, modes>>
vars == <<stored, admin, conn, slots, accepting, closing>>

Idle == [op |-> "idle"]
Tasks == {Idle} \cup [op : {"put"}, key : Keys, replacing : BOOLEAN]
                \cup [op : {"drop"}, target : Keys \cup {All}]

\* at: how far the worker has come; tls: the protocol it was told to speak;
\* key, psk: what the producer authenticated with; shut: its socket was.
Free == [at |-> "free", tls |-> FALSE, key |-> None, psk |-> 0, shut |-> FALSE]
Started == [Free EXCEPT !.at = "started"]

Init ==
  /\ tls \in BOOLEAN
  /\ keys = [k \in Keys |-> 0] /\ issued = keys
  /\ modes = 0
  /\ admin = [a \in Admins |-> Idle]
  /\ conn = [c \in Conns |-> Free]
  /\ slots = MaxConns
  /\ accepting = "waiting"
  /\ closing = "no"

-----------------------------------------------------------------------------
(***************************************************************************)
(* Shutting connections down.  A connection is found by its socket from    *)
(* the moment its worker adds it; wrapping a socket for TLS takes its      *)
(* descriptor away, so one that is shaking hands is not reached until the  *)
(* wrapped socket takes its place.                                         *)
(***************************************************************************)
ReachableLive(c) == conn[c].at = "live"
Reachable(c) == conn[c].at \in {"added", "plain", "live"}

Matches(c, target) ==
  /\ Reachable(c)
  /\ target = All \/ (conn[c].at = "live" /\ conn[c].tls /\ conn[c].key = target)

ShutMatching(target) ==
  [c \in Conns |-> IF Matches(c, target) THEN [conn[c] EXCEPT !.shut = TRUE] ELSE conn[c]]

-----------------------------------------------------------------------------
(***************************************************************************)
(* The API.  Each handler persists, then disconnects.                      *)
(***************************************************************************)
SkipDrop(a, target) == admin' = [admin EXCEPT ![a] = Idle]
ThenDrop(a, target) == admin' = [admin EXCEPT ![a] = [op |-> "drop", target |-> target]]

\* Two threads that ask for one mode may both find it different; the second
\* then writes what is there and drops again, which is left out.
SetMode(a, enabled) ==
  /\ admin[a] = Idle
  /\ tls # enabled /\ modes < MaxModes
  /\ tls' = enabled /\ modes' = modes + 1
  /\ ThenDrop(a, All)
  /\ UNCHANGED <<keys, issued, conn, slots, accepting, closing>>

CheckKey(a, k) ==
  /\ admin[a] = Idle
  /\ admin' = [admin EXCEPT ![a] = [op |-> "put", key |-> k, replacing |-> keys[k] # 0]]
  /\ UNCHANGED <<stored, conn, slots, accepting, closing>>

PutKey(a) ==
  /\ admin[a].op = "put"
  /\ LET k == admin[a].key
     IN /\ issued[k] < MaxPsk
        /\ issued' = [issued EXCEPT ![k] = @ + 1]
        /\ keys' = [keys EXCEPT ![k] = issued[k] + 1]
        /\ IF admin[a].replacing THEN ThenDrop(a, k) ELSE admin' = [admin EXCEPT ![a] = Idle]
  /\ UNCHANGED <<tls, modes, conn, slots, accepting, closing>>

\* The key limit is reached, or the file cannot be written.
PutFails(a) ==
  /\ admin[a].op = "put"
  /\ admin' = [admin EXCEPT ![a] = Idle]
  /\ UNCHANGED <<stored, conn, slots, accepting, closing>>

DeleteKey(a, k) ==
  /\ admin[a] = Idle
  /\ keys[k] # 0
  /\ keys' = [keys EXCEPT ![k] = 0]
  /\ ThenDrop(a, k)
  /\ UNCHANGED <<tls, issued, modes, conn, slots, accepting, closing>>

DropProducers(a) ==
  /\ admin[a].op = "drop"
  /\ conn' = ShutMatching(admin[a].target)
  /\ admin' = [admin EXCEPT ![a] = Idle]
  /\ UNCHANGED <<stored, slots, accepting, closing>>

-----------------------------------------------------------------------------
(***************************************************************************)
(* The listener thread.  At the connection limit it closes what it         *)
(* accepted, and nothing changes.                                          *)
(***************************************************************************)
Accept(c) ==
  /\ accepting = "waiting" /\ closing = "no"
  /\ conn[c] = Free /\ slots > 0
  /\ slots' = slots - 1
  /\ accepting' = c
  /\ UNCHANGED <<stored, admin, conn, closing>>

Refused(c) == slots + 1

StartWorker(c) ==
  /\ accepting = c
  /\ accepting' = "waiting"
  /\ IF closing = "no"
     THEN conn' = [conn EXCEPT ![c] = Started] /\ slots' = slots
     ELSE slots' = Refused(c) /\ conn' = conn
  /\ UNCHANGED <<stored, admin, closing>>

\* accept fails: once the listener is closed, quietly; before, the producers
\* are dropped.
EndListener ==
  /\ accepting = "waiting"
  /\ accepting' = "ended"
  /\ conn' = IF closing = "no" THEN ShutMatching(All) ELSE conn
  /\ UNCHANGED <<stored, admin, slots, closing>>

-----------------------------------------------------------------------------
(***************************************************************************)
(* A worker.  Any of its socket operations may fail, and ends it.          *)
(***************************************************************************)
Step(c, from, to) ==
  /\ conn[c].at = from
  /\ conn' = [conn EXCEPT ![c] = to]
  /\ UNCHANGED <<stored, admin, slots, accepting, closing>>

AddLive(c) == Step(c, "started", [conn[c] EXCEPT !.at = "added"])

\* The authenticator is chosen by the mode; TLS wraps the socket at once.
ChooseAuthenticator(c) ==
  Step(c, "added", [conn[c] EXCEPT !.at = IF tls THEN "hello" ELSE "plain", !.tls = tls])

\* The producer names a key, and its secret is looked up for the handshake.
LookupPsk(c, k) ==
  /\ keys[k] # 0
  /\ Step(c, "hello", [conn[c] EXCEPT !.at = "proving", !.key = k, !.psk = keys[k]])

\* The wrapped socket replaces the plain one, with what it authenticated.
Authenticated(c) ==
  \/ Step(c, "proving", [conn[c] EXCEPT !.at = "live"])
  \/ Step(c, "plain", [conn[c] EXCEPT !.at = "live"])

\* A failed handshake, a refused lease, an error or the end of the stream.
Ends(c) ==
  /\ conn[c].at \in {"added", "hello", "proving", "plain", "live"}
  /\ Step(c, conn[c].at, [conn[c] EXCEPT !.at = "leaving"])

\* With its socket shut down a worker reads the end of the stream.
ReadsEnd(c) == conn[c].shut /\ Ends(c)

Released(c) == slots + 1

ReleaseCleanly(c) ==
  /\ conn[c].at = "leaving" /\ ~conn[c].shut
  /\ slots' = Released(c)
  /\ conn' = [conn EXCEPT ![c].at = "released"]
  /\ UNCHANGED <<stored, admin, accepting, closing>>

ReleaseSlot(c) ==
  /\ conn[c].at = "leaving"
  /\ slots' = Released(c)
  /\ conn' = [conn EXCEPT ![c].at = "released"]
  /\ UNCHANGED <<stored, admin, accepting, closing>>

DiscardWorker(c) == Step(c, "released", Free)

-----------------------------------------------------------------------------
(***************************************************************************)
(* Closing.                                                                *)
(***************************************************************************)
StopListening ==
  /\ closing = "no"
  /\ closing' = "stopped"
  /\ UNCHANGED <<stored, admin, conn, slots, accepting>>

CloseProducers ==
  /\ closing = "stopped"
  /\ closing' = "joining"
  /\ conn' = ShutMatching(All)
  /\ UNCHANGED <<stored, admin, slots, accepting>>

Joined ==
  /\ closing = "joining" /\ accepting = "ended"
  /\ \A c \in Conns : conn[c] = Free
  /\ closing' = "closed"
  /\ UNCHANGED <<stored, admin, conn, slots, accepting>>

Worker(c) ==
  \/ AddLive(c) \/ ChooseAuthenticator(c) \/ (\E k \in Keys : LookupPsk(c, k))
  \/ Authenticated(c) \/ Ends(c) \/ ReleaseSlot(c) \/ DiscardWorker(c)

Admin(a) ==
  \/ \E enabled \in BOOLEAN : SetMode(a, enabled)
  \/ \E k \in Keys : CheckKey(a, k) \/ DeleteKey(a, k)
  \/ PutKey(a) \/ PutFails(a) \/ DropProducers(a)

Next ==
  \/ \E a \in Admins : Admin(a)
  \/ \E c \in Conns : Accept(c) \/ StartWorker(c) \/ Worker(c)
  \/ EndListener
  \/ StopListening \/ CloseProducers \/ Joined

Spec == Init /\ [][Next]_vars

(***************************************************************************)
(* Threads run: a worker goes on where it need not wait for its producer,  *)
(* whose handshake is bounded by the socket's timeout; the listener and    *)
(* close go on.  Nothing makes a live producer end.                        *)
(***************************************************************************)
WorkerRuns(c) ==
  \/ AddLive(c) \/ ChooseAuthenticator(c) \/ ReadsEnd(c)
  \/ (conn[c].at \in {"hello", "proving", "plain"} /\ (Authenticated(c) \/ Ends(c)))
  \/ ReleaseSlot(c) \/ DiscardWorker(c)

FairSpec ==
  /\ Spec
  /\ \A c \in Conns : WF_vars(WorkerRuns(c)) /\ WF_vars(StartWorker(c))
  /\ WF_vars(EndListener /\ closing # "no")
  /\ WF_vars(CloseProducers) /\ WF_vars(Joined)
  /\ \A a \in Admins : WF_vars(DropProducers(a))

-----------------------------------------------------------------------------
(* The state is well formed; slots never exceed the limit. *)
TypeOK ==
  /\ tls \in BOOLEAN
  /\ keys \in [Keys -> 0 .. MaxPsk] /\ issued \in [Keys -> 0 .. MaxPsk]
  /\ modes \in 0 .. MaxModes
  /\ admin \in [Admins -> Tasks]
  /\ conn \in [Conns ->
       [at : {"free", "started", "added", "hello", "proving", "plain", "live",
              "leaving", "released"},
        tls : BOOLEAN, key : Keys \cup {None}, psk : 0 .. MaxPsk, shut : BOOLEAN]]
  /\ slots \in 0 .. MaxConns
  /\ accepting \in Conns \cup {"waiting", "ended"}
  /\ closing \in {"no", "stopped", "joining", "closed"}

(***************************************************************************)
(* Every slot is free or held by one connection, through refusals, errors  *)
(* and shutdown.                                                           *)
(***************************************************************************)
SlotsBalanced ==
  slots + Cardinality({c \in Conns : c = accepting \/ conn[c].at \notin {"free", "released"}})
    = MaxConns

Pending(target) == \E a \in Admins : admin[a] = [op |-> "drop", target |-> target]

(***************************************************************************)
(* Once TLS is enabled and the disconnect has run, no producer is served   *)
(* in the clear, whatever its worker was doing when the mode changed.      *)
(***************************************************************************)
CleartextEnds ==
  tls /\ ~Pending(All) => \A c \in Conns :
    conn[c].at \in {"plain", "live"} /\ ~conn[c].tls => conn[c].shut

(***************************************************************************)
(* An established session whose secret is replaced or deleted is shut      *)
(* down: it stays covered by its secret, by a disconnect on its way, or by *)
(* its socket being shut, until it ends.                                   *)
(***************************************************************************)
Covered(c) ==
  conn[c].tls => \/ conn[c].psk = keys[conn[c].key]
                 \/ conn[c].shut \/ Pending(conn[c].key) \/ Pending(All)

RevokesEstablished ==
  [][\A c \in Conns : conn[c].at = "live" /\ Covered(c) /\ conn'[c].at = "live"
                      => Covered(c)']_vars

(***************************************************************************)
(* A producer that is shut down gives its slot back.                       *)
(***************************************************************************)
ShutEnds == \A c \in Conns : conn[c].shut ~> conn[c] = Free

(***************************************************************************)
(* No slot is lost: all are accounted for at any time, and a producer that *)
(* is shut down gives its own back.                                        *)
(***************************************************************************)
SlotsReturn == []SlotsBalanced /\ ShutEnds

(***************************************************************************)
(* tcp-transport.md: a retired credential cannot keep source control by    *)
(* holding its connection open.                                            *)
(***************************************************************************)
RetiredKeyEnds ==
  \A c \in Conns : conn[c].at = "live" => Covered(c)

(***************************************************************************)
(* transport.py: a mode change drops all producers so exactly one protocol *)
(* is ever admitted.                                                       *)
(***************************************************************************)
OneProtocol ==
  ~Pending(All) => \A c \in Conns :
    conn[c].at = "live" /\ ~conn[c].shut => conn[c].tls = tls

(***************************************************************************)
(* tcp.py: close closes the producers, then joins every owned worker.      *)
(***************************************************************************)
CloseReturns == closing = "joining" ~> closing = "closed"
=============================================================================
