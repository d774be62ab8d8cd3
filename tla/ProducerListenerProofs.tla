----------------------- MODULE ProducerListenerProofs -----------------------
(***************************************************************************)
(* Once TLS is on no producer is served in the clear, no slot is lost and  *)
(* revoking a key covers its sessions, for any number of connections and   *)
(* keys; the last with one thread serving the API, the others with any.    *)
(***************************************************************************)
EXTENDS ProducerListener, FiniteSetTheorems, TLAPS

Ats == {"free", "started", "added", "hello", "proving", "plain", "live",
        "leaving", "released"}
Records == [at : Ats, tls : BOOLEAN, key : Keys \cup {None}, psk : 0 .. MaxPsk,
            shut : BOOLEAN]

\* What the argument needs of the types: the records it updates are functions.
Shapes ==
  /\ tls \in BOOLEAN
  /\ admin \in [Admins -> Tasks]
  /\ conn \in [Conns -> Records]
  /\ keys \in [Keys -> 0 .. MaxPsk] /\ issued \in [Keys -> 0 .. MaxPsk]

\* Only a connection told to speak TLS shakes hands.
HandshakeIsTls ==
  \A c \in Conns : conn[c].at \in {"hello", "proving"} => conn[c].tls

IInv == Shapes /\ HandshakeIsTls /\ CleartextEnds

LEMMA InitIInv == Init => IInv
<1> SUFFICES ASSUME Init
             PROVE  IInv
  OBVIOUS
<1>1. Shapes
  BY ProducerListenerAssumption
  DEF Init, Shapes, Tasks, Idle, Free, Records, Ats
<1>2. HandshakeIsTls /\ CleartextEnds
  BY DEF Init, HandshakeIsTls, CleartextEnds, Free
<1> QED
  BY <1>1, <1>2 DEF IInv

\* Shutting sockets down changes nothing else.
LEMMA ShutShapes ==
  ASSUME conn \in [Conns -> Records], NEW target
  PROVE  /\ ShutMatching(target) \in [Conns -> Records]
         /\ \A c \in Conns :
              /\ ShutMatching(target)[c].at = conn[c].at
              /\ ShutMatching(target)[c].tls = conn[c].tls
              /\ conn[c].shut => ShutMatching(target)[c].shut
              /\ Matches(c, target) => ShutMatching(target)[c].shut
BY DEF ShutMatching, Records

\* A step of one worker keeps every other connection.
LEMMA StepShapes ==
  ASSUME Shapes, NEW c \in Conns, NEW from, NEW to \in Records, Step(c, from, to)
  PROVE  /\ Shapes'
         /\ conn'[c] = to /\ conn[c].at = from
         /\ \A d \in Conns \ {c} : conn'[d] = conn[d]
         /\ UNCHANGED <<tls, admin>>
BY DEF Shapes, Step, stored

\* A step that starts nothing in the clear keeps the producers in order.
LEMMA StepKeeps ==
  ASSUME IInv, NEW c \in Conns, NEW from, NEW to \in Records, Step(c, from, to),
         to.at \in {"hello", "proving"} => to.tls,
         to.at \in {"plain", "live"} /\ ~to.tls =>
           \/ ~tls
           \/ conn[c].at \in {"plain", "live"} /\ ~conn[c].tls /\ (conn[c].shut => to.shut)
  PROVE  IInv'
<1>1. /\ Shapes' /\ conn'[c] = to
      /\ \A d \in Conns \ {c} : conn'[d] = conn[d]
      /\ UNCHANGED <<tls, admin>>
  BY StepShapes DEF IInv
<1>2. ~Pending(All)' => ~Pending(All)
  BY <1>1 DEF Pending
<1>3. CleartextEnds'
  BY <1>1, <1>2 DEF IInv, CleartextEnds
<1>4. HandshakeIsTls'
  BY <1>1 DEF IInv, HandshakeIsTls
<1> QED
  BY <1>1, <1>3, <1>4 DEF IInv

\* A worker only speaks in the clear when it was told to: by the mode.
LEMMA WorkerKeeps ==
  ASSUME IInv, NEW c \in Conns, Worker(c)
  PROVE  IInv'
<1>0. /\ conn[c] \in Records /\ keys \in [Keys -> 0 .. MaxPsk] /\ tls \in BOOLEAN
      /\ conn[c].at \in {"hello", "proving"} => conn[c].tls
  BY DEF IInv, Shapes, HandshakeIsTls
<1>1. CASE AddLive(c)
  <2> DEFINE to == [conn[c] EXCEPT !.at = "added"]
  <2>1. to \in Records /\ to.at = "added"
    BY <1>0 DEF Records, Ats
  <2>2. Step(c, "started", to)
    BY <1>1 DEF AddLive
  <2> HIDE DEF to
  <2> QED
    BY <2>1, <2>2, StepKeeps
<1>2. CASE ChooseAuthenticator(c)
  <2> DEFINE to == [conn[c] EXCEPT !.at = IF tls THEN "hello" ELSE "plain", !.tls = tls]
  <2>1. to \in Records /\ to.tls = tls /\ to.at = IF tls THEN "hello" ELSE "plain"
    BY <1>0 DEF Records, Ats
  <2>2. Step(c, "added", to)
    BY <1>2 DEF ChooseAuthenticator
  <2> HIDE DEF to
  <2> QED
    BY <2>1, <2>2, StepKeeps
<1>3. CASE \E k \in Keys : LookupPsk(c, k)
  <2>1. PICK k \in Keys : LookupPsk(c, k)
    BY <1>3
  <2> DEFINE to == [conn[c] EXCEPT !.at = "proving", !.key = k, !.psk = keys[k]]
  <2>2. to \in Records /\ to.at = "proving" /\ to.tls = conn[c].tls
    BY <1>0 DEF Records, Ats
  <2>3. Step(c, "hello", to)
    BY <2>1 DEF LookupPsk
  <2>4. conn[c].at = "hello"
    BY <2>3 DEF Step
  <2> HIDE DEF to
  <2> QED
    BY <1>0, <2>2, <2>3, <2>4, StepKeeps
<1>4. CASE Authenticated(c)
  <2> DEFINE to == [conn[c] EXCEPT !.at = "live"]
  <2>1. to \in Records /\ to.at = "live" /\ to.tls = conn[c].tls /\ to.shut = conn[c].shut
    BY <1>0 DEF Records, Ats
  <2>2. Step(c, "proving", to) \/ Step(c, "plain", to)
    BY <1>4 DEF Authenticated
  <2> HIDE DEF to
  <2>3. CASE Step(c, "proving", to)
    <3>1. conn[c].tls
      BY <1>0, <2>3 DEF Step
    <3> QED
      BY <2>1, <2>3, <3>1, StepKeeps
  <2>4. CASE Step(c, "plain", to)
    <3>1. conn[c].at = "plain"
      BY <2>4 DEF Step
    <3> QED
      BY <2>1, <2>4, <3>1, StepKeeps
  <2> QED
    BY <2>2, <2>3, <2>4
<1>5. CASE Ends(c)
  <2> DEFINE to == [conn[c] EXCEPT !.at = "leaving"]
  <2>1. to \in Records /\ to.at = "leaving"
    BY <1>0 DEF Records, Ats
  <2>2. Step(c, conn[c].at, to)
    BY <1>5 DEF Ends
  <2> HIDE DEF to
  <2> QED
    BY <2>1, <2>2, StepKeeps
<1>6. CASE ReleaseSlot(c)
  <2>1. /\ conn' = [conn EXCEPT ![c].at = "released"]
        /\ UNCHANGED <<tls, keys, issued, admin>>
    BY <1>6 DEF ReleaseSlot, stored
  <2>2. Shapes'
    BY <2>1 DEF IInv, Shapes, Records, Ats
  <2>3. conn'[c].at = "released" /\ \A d \in Conns \ {c} : conn'[d] = conn[d]
    BY <2>1 DEF IInv, Shapes, Records
  <2>4. HandshakeIsTls'
    BY <2>3 DEF IInv, HandshakeIsTls
  <2>5. CleartextEnds'
    BY <2>1, <2>3 DEF IInv, CleartextEnds, Pending
  <2> QED
    BY <2>2, <2>4, <2>5 DEF IInv
<1>7. CASE DiscardWorker(c)
  <2>1. Free \in Records /\ Free.at = "free"
    BY ProducerListenerAssumption DEF Free, Records, Ats
  <2> QED
    BY <1>7, <2>1, StepKeeps DEF DiscardWorker
<1> QED
  BY <1>1, <1>2, <1>3, <1>4, <1>5, <1>6, <1>7 DEF Worker

\* Shutting producers down keeps the order too, and after shutting down all
\* of them nothing is pending that the order needs.
LEMMA ShutKeeps ==
  ASSUME IInv, Shapes', NEW target, conn' = ShutMatching(target), tls' = tls,
         target = All \/ (~Pending(All)' => ~Pending(All))
  PROVE  IInv'
<1>1. \A c \in Conns :
        /\ conn'[c].at = conn[c].at /\ conn'[c].tls = conn[c].tls
        /\ conn[c].shut => conn'[c].shut
        /\ Matches(c, target) => conn'[c].shut
  BY ShutShapes DEF IInv, Shapes
<1>2. HandshakeIsTls'
  BY <1>1 DEF IInv, HandshakeIsTls
<1>3. CleartextEnds'
  <2>1. CASE target = All
    <3>1. \A c \in Conns : conn[c].at \in {"plain", "live"} => Matches(c, target)
      BY <2>1 DEF Matches, Reachable
    <3> QED
      BY <1>1, <3>1 DEF CleartextEnds
  <2>2. CASE ~Pending(All)' => ~Pending(All)
    BY <1>1, <2>2 DEF IInv, CleartextEnds
  <2> QED
    BY <2>1, <2>2
<1> QED
  BY <1>2, <1>3 DEF IInv

\* The API announces a disconnect with the change that needs it.
LEMMA AdminKeeps ==
  ASSUME IInv, NEW a \in Admins, Admin(a)
  PROVE  IInv'
<1>0. Shapes
  BY DEF IInv
<1>1. ASSUME NEW enabled \in BOOLEAN, SetMode(a, enabled)
      PROVE  IInv'
  <2>1. /\ tls' = enabled /\ conn' = conn /\ keys' = keys /\ issued' = issued
        /\ admin' = [admin EXCEPT ![a] = [op |-> "drop", target |-> All]]
    BY <1>1 DEF SetMode, ThenDrop
  <2>2. Shapes'
    BY <1>0, <2>1 DEF Shapes, Tasks
  <2>3. Pending(All)'
    BY <1>0, <2>1 DEF Shapes, Pending
  <2> QED
    BY <2>1, <2>2, <2>3 DEF IInv, HandshakeIsTls, CleartextEnds
<1>2. ASSUME UNCHANGED <<tls, conn>>, admin[a].op # "drop", Shapes',
             \A b \in Admins \ {a} : admin'[b] = admin[b]
      PROVE  IInv'
  <2>1. Pending(All) => Pending(All)'
    BY <1>2 DEF Pending
  <2> QED
    BY <1>2, <2>1 DEF IInv, HandshakeIsTls, CleartextEnds
<1>3. ASSUME NEW k \in Keys, CheckKey(a, k)
      PROVE  IInv'
  <2> DEFINE task == [op |-> "put", key |-> k, replacing |-> keys[k] # 0]
  <2>1. /\ admin[a].op # "drop" /\ task \in Tasks
        /\ admin' = [admin EXCEPT ![a] = task] /\ UNCHANGED <<tls, keys, issued, conn>>
    BY <1>3 DEF CheckKey, Idle, Tasks, stored
  <2> HIDE DEF task
  <2>2. Shapes' /\ \A b \in Admins \ {a} : admin'[b] = admin[b]
    BY <1>0, <2>1 DEF Shapes
  <2> QED
    BY <1>2, <2>1, <2>2
<1>4. ASSUME NEW k \in Keys, DeleteKey(a, k)
      PROVE  IInv'
  <2>1. /\ admin[a].op # "drop"
        /\ keys' = [keys EXCEPT ![k] = 0]
        /\ admin' = [admin EXCEPT ![a] = [op |-> "drop", target |-> k]]
        /\ UNCHANGED <<tls, issued, conn>>
    BY <1>4 DEF DeleteKey, Idle, ThenDrop
  <2>2. keys' \in [Keys -> 0 .. MaxPsk]
    BY <1>0, <2>1, ProducerListenerAssumption DEF Shapes
  <2>3. [op |-> "drop", target |-> k] \in Tasks
    BY DEF Tasks
  <2>4. Shapes' /\ \A b \in Admins \ {a} : admin'[b] = admin[b]
    BY <1>0, <2>1, <2>2, <2>3 DEF Shapes
  <2> QED
    BY <1>2, <2>1, <2>4
<1>5. CASE PutKey(a)
  <2> DEFINE k == admin[a].key
  <2>1. k \in Keys /\ admin[a].op # "drop"
    BY <1>0, <1>5 DEF PutKey, Shapes, Tasks, Idle
  <2>2. /\ issued[k] < MaxPsk
        /\ issued' = [issued EXCEPT ![k] = @ + 1]
        /\ keys' = [keys EXCEPT ![k] = issued[k] + 1]
        /\ UNCHANGED <<tls, conn>>
        /\ \E task \in {Idle, [op |-> "drop", target |-> k]} :
             admin' = [admin EXCEPT ![a] = task]
    BY <1>5 DEF PutKey, ThenDrop
  <2> HIDE DEF k
  <2>3. issued[k] + 1 \in 0 .. MaxPsk
    BY <1>0, <2>1, <2>2, ProducerListenerAssumption DEF Shapes
  <2>4. keys' \in [Keys -> 0 .. MaxPsk] /\ issued' \in [Keys -> 0 .. MaxPsk]
    BY <1>0, <2>1, <2>2, <2>3 DEF Shapes
  <2>5. {Idle, [op |-> "drop", target |-> k]} \subseteq Tasks
    BY <2>1 DEF Tasks
  <2>6. Shapes' /\ \A b \in Admins \ {a} : admin'[b] = admin[b]
    BY <1>0, <2>2, <2>4, <2>5 DEF Shapes
  <2> QED
    BY <1>2, <2>1, <2>2, <2>6
<1>6. CASE PutFails(a)
  <2>1. /\ admin[a].op # "drop" /\ Idle \in Tasks
        /\ admin' = [admin EXCEPT ![a] = Idle] /\ UNCHANGED <<tls, keys, issued, conn>>
    BY <1>6 DEF PutFails, Tasks, stored
  <2>2. Shapes' /\ \A b \in Admins \ {a} : admin'[b] = admin[b]
    BY <1>0, <2>1 DEF Shapes
  <2> QED
    BY <1>2, <2>1, <2>2
<1>7. CASE DropProducers(a)
  <2> DEFINE target == admin[a].target
  <2>1. /\ conn' = ShutMatching(target)
        /\ admin' = [admin EXCEPT ![a] = Idle] /\ UNCHANGED <<tls, keys, issued>>
    BY <1>7 DEF DropProducers, stored
  <2>2. Idle \in Tasks /\ Idle.op # "drop"
    BY DEF Tasks, Idle
  <2>3. target # All => ~(admin[a] = [op |-> "drop", target |-> All])
    OBVIOUS
  <2> HIDE DEF target
  <2>4. Shapes'
    BY <1>0, <2>1, <2>2, ShutShapes DEF Shapes
  <2>5. target # All => (~Pending(All)' => ~Pending(All))
    BY <1>0, <2>1, <2>3 DEF Shapes, Pending
  <2> QED
    BY <2>1, <2>4, <2>5, ShutKeeps
<1> QED
  BY <1>1, <1>3, <1>4, <1>5, <1>6, <1>7 DEF Admin

LEMMA NextIInv == IInv /\ [Next]_vars => IInv'
<1> SUFFICES ASSUME IInv, [Next]_vars
             PROVE  IInv'
  OBVIOUS
<1>1. ASSUME UNCHANGED <<tls, keys, issued, admin, conn>>
      PROVE  IInv'
  BY <1>1 DEF IInv, Shapes, HandshakeIsTls, CleartextEnds, Pending
<1>2. ASSUME NEW target, conn' = ShutMatching(target), UNCHANGED <<stored, admin>>
      PROVE  IInv'
  <2>1. Shapes' /\ Pending(All)' = Pending(All)
    BY <1>2, ShutShapes DEF IInv, Shapes, stored, Pending
  <2> QED
    BY <1>2, <2>1, ShutKeeps DEF stored
<1>3. CASE UNCHANGED vars
  BY <1>1, <1>3 DEF vars, stored
<1>4. CASE \E a \in Admins : Admin(a)
  BY <1>4, AdminKeeps
<1>5. CASE \E c \in Conns : Accept(c)
  BY <1>1, <1>5 DEF Accept, stored
<1>6. ASSUME NEW c \in Conns, StartWorker(c)
      PROVE  IInv'
  <2>1. CASE closing = "no"
    <3>1. conn' = [conn EXCEPT ![c] = Started] /\ UNCHANGED <<tls, keys, issued, admin>>
      BY <1>6, <2>1 DEF StartWorker, stored
    <3>2. Started \in Records /\ Started.at = "started"
      <4>1. Free \in Records
        BY ProducerListenerAssumption DEF Free, Records, Ats
      <4> QED
        BY <4>1 DEF Started, Records, Ats
    <3>3. Shapes' /\ conn'[c] = Started /\ \A d \in Conns \ {c} : conn'[d] = conn[d]
      BY <3>1, <3>2 DEF IInv, Shapes
    <3>4. HandshakeIsTls'
      BY <3>2, <3>3 DEF IInv, HandshakeIsTls
    <3>5. CleartextEnds'
      BY <3>1, <3>2, <3>3 DEF IInv, CleartextEnds, Pending
    <3> QED
      BY <3>3, <3>4, <3>5 DEF IInv
  <2>2. CASE closing # "no"
    BY <1>1, <1>6, <2>2 DEF StartWorker, stored
  <2> QED
    BY <2>1, <2>2
<1>7. CASE \E c \in Conns : Worker(c)
  BY <1>7, WorkerKeeps
<1>8. CASE EndListener
  BY <1>1, <1>2, <1>8 DEF EndListener, stored
<1>9. CASE StopListening
  BY <1>1, <1>9 DEF StopListening, stored
<1>10. CASE CloseProducers
  BY <1>2, <1>10 DEF CloseProducers
<1>11. CASE Joined
  BY <1>1, <1>11 DEF Joined, stored
<1> QED
  BY <1>3, <1>4, <1>5, <1>6, <1>7, <1>8, <1>9, <1>10, <1>11 DEF Next

\* Once TLS is enabled and the disconnect has run, every producer that was
\* told to speak in the clear has had its socket shut (transport.py:266).
THEOREM NoCleartext == Spec => []CleartextEnds
<1>1. IInv => CleartextEnds
  BY DEF IInv
<1> QED
  BY <1>1, InitIInv, NextIInv, PTL DEF Spec
-----------------------------------------------------------------------------
(***************************************************************************)
(* Revoking a key, with one administrator.  With two, put_key decides      *)
(* whether it replaces a key before another handler stores one, and nobody *)
(* disconnects the sessions of the secret in between.                      *)
(***************************************************************************)
OneAdministrator == \A a, b \in Admins : a = b

\* A session speaks TLS with the secret of a key it named.
SessionKeyed ==
  \A c \in Conns :
    /\ conn[c].at = "plain" => ~conn[c].tls
    /\ conn[c].at = "proving" \/ (conn[c].at = "live" /\ conn[c].tls) =>
         conn[c].key \in Keys /\ conn[c].psk # 0

\* A handler that will not disconnect anyone stores the first secret of its key.
FirstSecret ==
  \A a \in Admins : admin[a].op = "put" /\ ~admin[a].replacing => keys[admin[a].key] = 0

KInv == IInv /\ SessionKeyed /\ FirstSecret

\* A session that goes on keeps what it authenticated with.
SessionKept(c) ==
  conn[c].at = "live" /\ conn'[c].at = "live" =>
    /\ conn'[c].tls = conn[c].tls /\ conn'[c].key = conn[c].key /\ conn'[c].psk = conn[c].psk
    /\ conn[c].shut => conn'[c].shut

RevokeStep == \A c \in Conns :
  conn[c].at = "live" /\ Covered(c) /\ conn'[c].at = "live" => Covered(c)'

LEMMA InitKInv == Init => KInv
<1> SUFFICES ASSUME Init
             PROVE  KInv
  OBVIOUS
<1>1. SessionKeyed
  BY DEF Init, SessionKeyed, Free
<1>2. FirstSecret
  BY DEF Init, FirstSecret, Idle
<1> QED
  BY <1>1, <1>2, InitIInv DEF KInv

\* Where keys and the API's threads stand still, what covered a session does.
LEMMA StillCovered ==
  ASSUME \A c \in Conns : SessionKept(c), UNCHANGED <<keys, admin>>
  PROVE  RevokeStep
<1>1. \A t : Pending(t) => Pending(t)'
  BY DEF Pending
<1> QED
  BY <1>1 DEF RevokeStep, SessionKept, Covered

LEMMA StepRevokes ==
  ASSUME KInv, NEW c \in Conns, NEW from, NEW to \in Records, Step(c, from, to),
         to.at = "plain" => ~to.tls,
         to.at = "proving" \/ (to.at = "live" /\ to.tls) => to.key \in Keys /\ to.psk # 0,
         conn[c].at = "live" => to.at # "live"
  PROVE  SessionKeyed' /\ FirstSecret' /\ RevokeStep
<1>1. /\ conn'[c] = to
      /\ \A d \in Conns \ {c} : conn'[d] = conn[d]
  BY StepShapes DEF KInv, IInv
<1>2. UNCHANGED <<keys, admin>>
  BY DEF Step, stored
<1>3. SessionKeyed'
  BY <1>1 DEF KInv, SessionKeyed
<1>4. FirstSecret'
  BY <1>2 DEF KInv, FirstSecret
<1>5. \A d \in Conns : SessionKept(d)
  BY <1>1 DEF SessionKept
<1> QED
  BY <1>2, <1>3, <1>4, <1>5, StillCovered

LEMMA WorkerRevokes ==
  ASSUME KInv, NEW c \in Conns, Worker(c)
  PROVE  SessionKeyed' /\ FirstSecret' /\ RevokeStep
<1>0. /\ conn[c] \in Records /\ conn \in [Conns -> Records]
      /\ keys \in [Keys -> 0 .. MaxPsk] /\ tls \in BOOLEAN
  BY DEF KInv, IInv, Shapes
<1>a. /\ conn[c].at = "plain" => ~conn[c].tls
      /\ conn[c].at = "proving" \/ (conn[c].at = "live" /\ conn[c].tls) =>
           conn[c].key \in Keys /\ conn[c].psk # 0
  BY DEF KInv, SessionKeyed
<1>1. CASE AddLive(c)
  <2> DEFINE to == [conn[c] EXCEPT !.at = "added"]
  <2>1. to \in Records /\ to.at = "added"
    BY <1>0 DEF Records, Ats
  <2>2. Step(c, "started", to)
    BY <1>1 DEF AddLive
  <2> HIDE DEF to
  <2> QED
    BY <2>1, <2>2, StepRevokes
<1>2. CASE ChooseAuthenticator(c)
  <2> DEFINE to == [conn[c] EXCEPT !.at = IF tls THEN "hello" ELSE "plain", !.tls = tls]
  <2>1. to \in Records /\ to.tls = tls /\ to.at = IF tls THEN "hello" ELSE "plain"
    BY <1>0 DEF Records, Ats
  <2>2. Step(c, "added", to)
    BY <1>2 DEF ChooseAuthenticator
  <2> HIDE DEF to
  <2> QED
    BY <1>0, <2>1, <2>2, StepRevokes
<1>3. CASE \E k \in Keys : LookupPsk(c, k)
  <2>1. PICK k \in Keys : LookupPsk(c, k)
    BY <1>3
  <2> DEFINE to == [conn[c] EXCEPT !.at = "proving", !.key = k, !.psk = keys[k]]
  <2>2. to \in Records /\ to.at = "proving" /\ to.key = k /\ to.psk = keys[k]
    BY <1>0 DEF Records, Ats
  <2>3. Step(c, "hello", to) /\ keys[k] # 0
    BY <2>1 DEF LookupPsk
  <2> HIDE DEF to
  <2> QED
    BY <2>2, <2>3, StepRevokes
<1>4. CASE Authenticated(c)
  <2> DEFINE to == [conn[c] EXCEPT !.at = "live"]
  <2>1. /\ to \in Records /\ to.at = "live" /\ to.tls = conn[c].tls
        /\ to.key = conn[c].key /\ to.psk = conn[c].psk
    BY <1>0 DEF Records, Ats
  <2>2. Step(c, "proving", to) \/ Step(c, "plain", to)
    BY <1>4 DEF Authenticated
  <2> HIDE DEF to
  <2>3. CASE Step(c, "proving", to)
    <3>1. conn[c].at = "proving"
      BY <2>3 DEF Step
    <3> QED
      BY <1>a, <2>1, <2>3, <3>1, StepRevokes
  <2>4. CASE Step(c, "plain", to)
    <3>1. conn[c].at = "plain"
      BY <2>4 DEF Step
    <3> QED
      BY <1>a, <2>1, <2>4, <3>1, StepRevokes
  <2> QED
    BY <2>2, <2>3, <2>4
<1>5. CASE Ends(c)
  <2> DEFINE to == [conn[c] EXCEPT !.at = "leaving"]
  <2>1. to \in Records /\ to.at = "leaving"
    BY <1>0 DEF Records, Ats
  <2>2. Step(c, conn[c].at, to)
    BY <1>5 DEF Ends
  <2> HIDE DEF to
  <2> QED
    BY <2>1, <2>2, StepRevokes
<1>6. CASE ReleaseSlot(c)
  <2>1. /\ conn' = [conn EXCEPT ![c].at = "released"] /\ UNCHANGED <<keys, admin>>
    BY <1>6 DEF ReleaseSlot, stored
  <2>2. conn'[c].at = "released" /\ \A d \in Conns \ {c} : conn'[d] = conn[d]
    BY <1>0, <2>1 DEF Records
  <2>3. SessionKeyed'
    BY <2>2 DEF KInv, SessionKeyed
  <2>4. FirstSecret'
    BY <2>1 DEF KInv, FirstSecret
  <2>5. \A d \in Conns : SessionKept(d)
    BY <2>2 DEF SessionKept
  <2> QED
    BY <2>1, <2>3, <2>4, <2>5, StillCovered
<1>7. CASE DiscardWorker(c)
  <2>1. Free \in Records /\ Free.at = "free"
    BY ProducerListenerAssumption DEF Free, Records, Ats
  <2> QED
    BY <1>7, <2>1, StepRevokes DEF DiscardWorker
<1> QED
  BY <1>1, <1>2, <1>3, <1>4, <1>5, <1>6, <1>7 DEF Worker

\* Shutting sockets down leaves the sessions what they authenticated with.
LEMMA ShutSessions ==
  ASSUME conn \in [Conns -> Records], NEW target, NEW c \in Conns,
         conn' = ShutMatching(target)
  PROVE  /\ conn'[c].at = conn[c].at /\ conn'[c].tls = conn[c].tls
         /\ conn'[c].key = conn[c].key /\ conn'[c].psk = conn[c].psk
         /\ conn[c].shut => conn'[c].shut
         /\ Matches(c, target) => conn'[c].shut
BY DEF ShutMatching, Records

LEMMA ShutRevokes ==
  ASSUME KInv, NEW target, conn' = ShutMatching(target), UNCHANGED <<keys, admin>>
  PROVE  SessionKeyed' /\ FirstSecret' /\ RevokeStep
<1>1. \A c \in Conns :
        /\ conn'[c].at = conn[c].at /\ conn'[c].tls = conn[c].tls
        /\ conn'[c].key = conn[c].key /\ conn'[c].psk = conn[c].psk
        /\ conn[c].shut => conn'[c].shut
  BY ShutSessions DEF KInv, IInv, Shapes
<1>2. SessionKeyed'
  BY <1>1 DEF KInv, SessionKeyed
<1>3. FirstSecret'
  BY DEF KInv, FirstSecret
<1>4. \A c \in Conns : SessionKept(c)
  BY <1>1 DEF SessionKept
<1> QED
  BY <1>2, <1>3, <1>4, StillCovered

\* The API: what it no longer admits is covered by the disconnect it announced,
\* until that disconnect has shut it down.
LEMMA AdminRevokes ==
  ASSUME OneAdministrator, KInv, NEW a \in Admins, Admin(a)
  PROVE  SessionKeyed' /\ FirstSecret' /\ RevokeStep
<1>0. /\ admin \in [Admins -> Tasks] /\ conn \in [Conns -> Records]
      /\ keys \in [Keys -> 0 .. MaxPsk] /\ issued \in [Keys -> 0 .. MaxPsk]
  BY DEF KInv, IInv, Shapes
<1>a. \A b \in Admins : b = a
  BY DEF OneAdministrator
<1>b. SessionKeyed
  BY DEF KInv
<1>1. ASSUME conn' = conn, keys' = keys, admin[a].op # "drop",
             NEW task, admin' = [admin EXCEPT ![a] = task],
             task.op = "put" => task.replacing = (keys[task.key] # 0)
      PROVE  SessionKeyed' /\ FirstSecret' /\ RevokeStep
  <2>1. \A t : ~Pending(t)
    BY <1>a, <1>1 DEF Pending
  <2>2. SessionKeyed'
    BY <1>b, <1>1 DEF SessionKeyed
  <2>3. FirstSecret'
    BY <1>0, <1>a, <1>1 DEF FirstSecret
  <2>4. RevokeStep
    BY <1>1, <2>1 DEF RevokeStep, Covered
  <2> QED
    BY <2>2, <2>3, <2>4
<1>2. ASSUME NEW enabled \in BOOLEAN, SetMode(a, enabled)
      PROVE  SessionKeyed' /\ FirstSecret' /\ RevokeStep
  <2> DEFINE task == [op |-> "drop", target |-> All]
  <2>1. /\ conn' = conn /\ keys' = keys /\ admin[a].op # "drop" /\ task.op # "put"
        /\ admin' = [admin EXCEPT ![a] = task]
    BY <1>2 DEF SetMode, ThenDrop, Idle
  <2> HIDE DEF task
  <2> QED
    BY <1>1, <2>1
<1>3. ASSUME NEW k \in Keys, CheckKey(a, k)
      PROVE  SessionKeyed' /\ FirstSecret' /\ RevokeStep
  <2> DEFINE task == [op |-> "put", key |-> k, replacing |-> keys[k] # 0]
  <2>1. /\ conn' = conn /\ keys' = keys /\ admin[a].op # "drop"
        /\ task.replacing = (keys[task.key] # 0)
        /\ admin' = [admin EXCEPT ![a] = task]
    BY <1>3 DEF CheckKey, Idle, stored
  <2> HIDE DEF task
  <2> QED
    BY <1>1, <2>1
<1>4. CASE PutFails(a)
  <2>1. /\ conn' = conn /\ keys' = keys /\ admin[a].op # "drop" /\ Idle.op # "put"
        /\ admin' = [admin EXCEPT ![a] = Idle]
    BY <1>4 DEF PutFails, Idle, stored
  <2> QED
    BY <1>1, <2>1
<1>5. ASSUME NEW k \in Keys, conn' = conn, admin[a].op # "drop",
             \A l \in Keys \ {k} : keys'[l] = keys[l],
             NEW task, task.op # "put", admin' = [admin EXCEPT ![a] = task],
             task = [op |-> "drop", target |-> k] \/ keys[k] = 0
      PROVE  SessionKeyed' /\ FirstSecret' /\ RevokeStep
  <2>1. \A t : ~Pending(t)
    BY <1>a, <1>5 DEF Pending
  <2>2. SessionKeyed'
    BY <1>b, <1>5 DEF SessionKeyed
  <2>3. FirstSecret'
    BY <1>0, <1>a, <1>5 DEF FirstSecret
  <2>4. task = [op |-> "drop", target |-> k] => Pending(k)'
    BY <1>0, <1>5 DEF Pending
  <2>5. ASSUME NEW c \in Conns, conn[c].at = "live", Covered(c) PROVE Covered(c)'
    <3>1. CASE ~conn[c].tls
      BY <1>5, <3>1 DEF Covered
    <3>2. CASE conn[c].shut
      BY <1>5, <3>2 DEF Covered
    <3>3. CASE conn[c].tls /\ ~conn[c].shut
      <4>1. conn[c].key \in Keys /\ conn[c].psk # 0 /\ conn[c].psk = keys[conn[c].key]
        BY <1>b, <2>1, <2>5, <3>3 DEF SessionKeyed, Covered
      <4>2. CASE conn[c].key # k
        BY <1>5, <4>1, <4>2 DEF Covered
      <4>3. CASE conn[c].key = k
        <5>1. Pending(k)'
          BY <1>5, <2>4, <4>1, <4>3
        <5> QED
          BY <1>5, <4>3, <5>1 DEF Covered
      <4> QED
        BY <4>2, <4>3
    <3> QED
      BY <3>1, <3>2, <3>3
  <2> QED
    BY <1>5, <2>2, <2>3, <2>5 DEF RevokeStep
<1>6. ASSUME NEW k \in Keys, DeleteKey(a, k)
      PROVE  SessionKeyed' /\ FirstSecret' /\ RevokeStep
  <2> DEFINE task == [op |-> "drop", target |-> k]
  <2>1. /\ conn' = conn /\ admin[a].op # "drop" /\ task.op # "put"
        /\ admin' = [admin EXCEPT ![a] = task]
        /\ keys' = [keys EXCEPT ![k] = 0]
    BY <1>6 DEF DeleteKey, ThenDrop, Idle
  <2>2. \A l \in Keys \ {k} : keys'[l] = keys[l]
    BY <1>0, <2>1
  <2>3. task = [op |-> "drop", target |-> k]
    OBVIOUS
  <2> HIDE DEF task
  <2> QED
    BY <1>5, <2>1, <2>2, <2>3
<1>7. CASE PutKey(a)
  <2> DEFINE k == admin[a].key
             task == IF admin[a].replacing THEN [op |-> "drop", target |-> k] ELSE Idle
  <2>1. k \in Keys /\ admin[a].op = "put"
    BY <1>0, <1>7 DEF PutKey, Tasks, Idle
  <2>2. /\ conn' = conn /\ admin[a].op # "drop" /\ task.op # "put"
        /\ admin' = [admin EXCEPT ![a] = task]
        /\ keys' = [keys EXCEPT ![k] = issued[k] + 1]
    BY <1>7 DEF PutKey, ThenDrop, Idle
  <2>3. \A l \in Keys \ {k} : keys'[l] = keys[l]
    BY <1>0, <2>2
  <2>4. task = [op |-> "drop", target |-> k] \/ keys[k] = 0
    BY <2>1 DEF KInv, FirstSecret
  <2> HIDE DEF k, task
  <2> QED
    BY <1>5, <2>1, <2>2, <2>3, <2>4
<1>8. CASE DropProducers(a)
  <2> DEFINE target == admin[a].target
  <2>1. /\ conn' = ShutMatching(target) /\ admin[a].op = "drop"
        /\ admin' = [admin EXCEPT ![a] = Idle] /\ keys' = keys
    BY <1>8 DEF DropProducers, stored
  <2>2. \A t : Pending(t) => t = target
    BY <1>a DEF Pending
  <2> HIDE DEF target
  <2>3. \A c \in Conns :
          /\ conn'[c].at = conn[c].at /\ conn'[c].tls = conn[c].tls
          /\ conn'[c].key = conn[c].key /\ conn'[c].psk = conn[c].psk
          /\ conn[c].shut => conn'[c].shut
          /\ Matches(c, target) => conn'[c].shut
    BY <1>0, <2>1, ShutSessions
  <2>4. SessionKeyed'
    BY <1>b, <2>3 DEF SessionKeyed
  <2>5. FirstSecret'
    BY <1>0, <1>a, <2>1 DEF FirstSecret, Idle
  <2>6. ASSUME NEW c \in Conns, conn[c].at = "live", Covered(c) PROVE Covered(c)'
    <3>1. conn[c].tls /\ (Pending(conn[c].key) \/ Pending(All)) => Matches(c, target)
      BY <2>2, <2>6 DEF Matches, Reachable
    <3> QED
      BY <2>1, <2>3, <2>6, <3>1 DEF Covered
  <2> QED
    BY <2>4, <2>5, <2>6 DEF RevokeStep
<1> QED
  BY <1>2, <1>3, <1>4, <1>6, <1>7, <1>8 DEF Admin

LEMMA NextRevokes ==
  ASSUME OneAdministrator, KInv, [Next]_vars
  PROVE  KInv' /\ RevokeStep
<1>0. IInv'
  BY NextIInv DEF KInv
<1>1. SUFFICES SessionKeyed' /\ FirstSecret' /\ RevokeStep
  BY <1>0 DEF KInv
<1>2. ASSUME UNCHANGED <<keys, admin, conn>>
      PROVE  SessionKeyed' /\ FirstSecret' /\ RevokeStep
  <2>1. \A c \in Conns : SessionKept(c)
    BY <1>2 DEF SessionKept
  <2> QED
    BY <1>2, <2>1, StillCovered DEF KInv, SessionKeyed, FirstSecret
<1>3. CASE UNCHANGED vars
  BY <1>2, <1>3 DEF vars, stored
<1>4. CASE \E a \in Admins : Admin(a)
  BY <1>4, AdminRevokes
<1>5. CASE \E c \in Conns : Accept(c)
  BY <1>2, <1>5 DEF Accept, stored
<1>6. ASSUME NEW c \in Conns, StartWorker(c)
      PROVE  SessionKeyed' /\ FirstSecret' /\ RevokeStep
  <2>1. CASE closing = "no"
    <3>1. conn' = [conn EXCEPT ![c] = Started] /\ UNCHANGED <<keys, admin>>
      BY <1>6, <2>1 DEF StartWorker, stored
    <3>2. Started.at = "started"
      BY DEF Started, Free
    <3>3. conn'[c] = Started /\ \A d \in Conns \ {c} : conn'[d] = conn[d]
      BY <3>1 DEF KInv, IInv, Shapes
    <3>4. SessionKeyed'
      BY <3>2, <3>3 DEF KInv, SessionKeyed
    <3>5. FirstSecret'
      BY <3>1 DEF KInv, FirstSecret
    <3>6. \A d \in Conns : SessionKept(d)
      BY <3>2, <3>3 DEF SessionKept
    <3> QED
      BY <3>1, <3>4, <3>5, <3>6, StillCovered
  <2>2. CASE closing # "no"
    BY <1>2, <1>6, <2>2 DEF StartWorker, stored
  <2> QED
    BY <2>1, <2>2
<1>7. CASE \E c \in Conns : Worker(c)
  BY <1>7, WorkerRevokes
<1>8. CASE EndListener
  BY <1>2, <1>8, ShutRevokes DEF EndListener, stored
<1>9. CASE StopListening
  BY <1>2, <1>9 DEF StopListening, stored
<1>10. CASE CloseProducers
  BY <1>10, ShutRevokes DEF CloseProducers, stored
<1>11. CASE Joined
  BY <1>2, <1>11 DEF Joined, stored
<1> QED
  BY <1>3, <1>4, <1>5, <1>6, <1>7, <1>8, <1>9, <1>10, <1>11 DEF Next

\* With one administrator, a session whose secret is replaced or deleted stays
\* covered by a disconnect on its way, or by its socket being shut, until it
\* ends (transport.py:278-292, tcp.py, close_producers).
THEOREM Revokes ==
  ASSUME OneAdministrator
  PROVE  Spec => RevokesEstablished
<1>1. KInv /\ [Next]_vars => KInv' /\ RevokeStep
  BY NextRevokes
<1> QED
  BY <1>1, InitKInv, PTL DEF Spec, RevokesEstablished, RevokeStep

-----------------------------------------------------------------------------
(***************************************************************************)
(* The slots.                                                              *)
(***************************************************************************)
Holders == {c \in Conns : c = accepting \/ conn[c].at \notin {"free", "released"}}

\* What the listener holds has no worker yet.
SlotsInv ==
  /\ IInv /\ slots \in Int
  /\ accepting \in Conns => conn[accepting].at = "free"
  /\ slots + Cardinality(Holders) = MaxConns

LEMMA HoldersFinite == IsFiniteSet(Holders) /\ Cardinality(Holders) \in Nat
<1>1. Holders \subseteq Conns /\ IsFiniteSet(Conns)
  BY ProducerListenerAssumption DEF Holders
<1> QED
  BY <1>1, FS_Subset, FS_CardinalityType

\* The sum stands when nobody moves, when one comes and when one goes.
LEMMA SameHolders ==
  ASSUME SlotsInv, IInv', UNCHANGED slots, Holders' = Holders,
         accepting' \in Conns => conn'[accepting'].at = "free"
  PROVE  SlotsInv'
BY DEF SlotsInv

LEMMA HolderComes ==
  ASSUME SlotsInv, IInv', NEW c \in Conns, c \notin Holders, slots' = slots - 1,
         Holders' = Holders \cup {c}, accepting' \in Conns => conn'[accepting'].at = "free"
  PROVE  SlotsInv'
<1>1. Cardinality(Holders \cup {c}) = Cardinality(Holders) + 1
  BY HoldersFinite, FS_AddElement
<1>2. Cardinality(Holders)' = Cardinality(Holders) + 1
  BY <1>1
<1>3. slots' + Cardinality(Holders)' = MaxConns /\ slots' \in Int
  BY <1>2, HoldersFinite, ProducerListenerAssumption DEF SlotsInv
<1> QED
  BY <1>3 DEF SlotsInv

LEMMA HolderGoes ==
  ASSUME SlotsInv, IInv', NEW c \in Holders, slots' = slots + 1,
         Holders' = Holders \ {c}, accepting' \in Conns => conn'[accepting'].at = "free"
  PROVE  SlotsInv'
<1>1. Cardinality(Holders \ {c}) = Cardinality(Holders) - 1
  BY HoldersFinite, FS_RemoveElement
<1>2. Cardinality(Holders)' = Cardinality(Holders) - 1
  BY <1>1
<1>3. slots' + Cardinality(Holders)' = MaxConns /\ slots' \in Int
  BY <1>2, HoldersFinite, ProducerListenerAssumption DEF SlotsInv
<1> QED
  BY <1>3 DEF SlotsInv

LEMMA InitSlots == Init => SlotsInv
<1> SUFFICES ASSUME Init
             PROVE  SlotsInv
  OBVIOUS
<1>1. Holders = {} /\ slots = MaxConns /\ accepting \notin Conns
  BY ProducerListenerAssumption DEF Init, Holders, Free
<1>2. Cardinality(Holders) = 0
  BY <1>1, FS_EmptySet
<1> QED
  BY <1>1, <1>2, InitIInv, ProducerListenerAssumption DEF SlotsInv

\* A connection at work stays the same holder.
LEMMA SocketsOnly ==
  ASSUME SlotsInv, IInv', UNCHANGED <<slots, accepting>>,
         \A c \in Conns : conn'[c].at = conn[c].at
  PROVE  SlotsInv'
<1>1. Holders' = Holders
  BY DEF Holders
<1> QED
  BY <1>1, SameHolders DEF SlotsInv

LEMMA WorkGoesOn ==
  ASSUME SlotsInv, IInv', NEW c \in Conns, NEW from, NEW to, Step(c, from, to),
         from = "released" <=> to.at = "free",
         from # "released" => from # "free" /\ to.at \notin {"free", "released"}
  PROVE  SlotsInv'
<1>1. /\ conn' = [conn EXCEPT ![c] = to] /\ conn \in [Conns -> Records] /\ conn[c].at = from
      /\ UNCHANGED <<slots, accepting>>
  BY DEF Step, SlotsInv, IInv, Shapes
<1>2. conn'[c] = to /\ \A d \in Conns \ {c} : conn'[d] = conn[d]
  BY <1>1
<1>3. Holders' = Holders
  BY <1>1, <1>2 DEF Holders
<1>4. accepting' \in Conns => conn'[accepting'].at = "free"
  BY <1>1, <1>2 DEF SlotsInv
<1> QED
  BY <1>1, <1>3, <1>4, SameHolders

LEMMA WorkerSlots ==
  ASSUME SlotsInv, IInv', NEW c \in Conns, Worker(c)
  PROVE  SlotsInv'
<1>0. conn[c] \in Records /\ conn \in [Conns -> Records]
  BY DEF SlotsInv, IInv, Shapes
<1>1. CASE ReleaseSlot(c)
  <2>1. /\ conn[c].at = "leaving" /\ slots' = slots + 1
        /\ conn' = [conn EXCEPT ![c].at = "released"] /\ UNCHANGED accepting
    BY <1>1 DEF ReleaseSlot, Released
  <2>2. conn'[c].at = "released" /\ \A d \in Conns \ {c} : conn'[d] = conn[d]
    BY <1>0, <2>1 DEF Records
  <2>3. accepting # c
    BY <2>1 DEF SlotsInv
  <2>4. c \in Holders /\ Holders' = Holders \ {c}
    BY <2>1, <2>2, <2>3 DEF Holders
  <2>5. accepting' \in Conns => conn'[accepting'].at = "free"
    BY <2>1, <2>2, <2>3 DEF SlotsInv
  <2> QED
    BY <2>1, <2>4, <2>5, HolderGoes
<1>2. CASE AddLive(c)
  <2> DEFINE to == [conn[c] EXCEPT !.at = "added"]
  <2>1. to.at = "added" /\ Step(c, "started", to)
    BY <1>0, <1>2 DEF AddLive, Records
  <2> HIDE DEF to
  <2> QED
    BY <2>1, WorkGoesOn
<1>3. CASE ChooseAuthenticator(c)
  <2> DEFINE to == [conn[c] EXCEPT !.at = IF tls THEN "hello" ELSE "plain", !.tls = tls]
  <2>1. to.at \in {"hello", "plain"} /\ Step(c, "added", to)
    BY <1>0, <1>3 DEF ChooseAuthenticator, Records
  <2> HIDE DEF to
  <2> QED
    BY <2>1, WorkGoesOn
<1>4. CASE \E k \in Keys : LookupPsk(c, k)
  <2>1. PICK k \in Keys : LookupPsk(c, k)
    BY <1>4
  <2> DEFINE to == [conn[c] EXCEPT !.at = "proving", !.key = k, !.psk = keys[k]]
  <2>2. to.at = "proving" /\ Step(c, "hello", to)
    BY <1>0, <2>1 DEF LookupPsk, Records
  <2> HIDE DEF to
  <2> QED
    BY <2>2, WorkGoesOn
<1>5. CASE Authenticated(c)
  <2> DEFINE to == [conn[c] EXCEPT !.at = "live"]
  <2>1. to.at = "live" /\ (Step(c, "proving", to) \/ Step(c, "plain", to))
    BY <1>0, <1>5 DEF Authenticated, Records
  <2> HIDE DEF to
  <2> QED
    BY <2>1, WorkGoesOn
<1>6. CASE Ends(c)
  <2> DEFINE to == [conn[c] EXCEPT !.at = "leaving"]
             from == conn[c].at
  <2>1. to.at = "leaving" /\ Step(c, from, to) /\ from \notin {"free", "released"}
    BY <1>0, <1>6 DEF Ends, Records
  <2> HIDE DEF to, from
  <2> QED
    BY <2>1, WorkGoesOn
<1>7. CASE DiscardWorker(c)
  <2>1. Free.at = "free"
    BY DEF Free
  <2> QED
    BY <1>7, <2>1, WorkGoesOn DEF DiscardWorker
<1> QED
  BY <1>1, <1>2, <1>3, <1>4, <1>5, <1>6, <1>7 DEF Worker

LEMMA NextSlots == SlotsInv /\ [Next]_vars => SlotsInv'
<1> SUFFICES ASSUME SlotsInv, [Next]_vars
             PROVE  SlotsInv'
  OBVIOUS
<1>0. IInv' /\ conn \in [Conns -> Records] /\ {"waiting", "ended"} \cap Conns = {}
  BY NextIInv, ProducerListenerAssumption DEF SlotsInv, IInv, Shapes
<1>1. ASSUME UNCHANGED <<slots, accepting, conn>>
      PROVE  SlotsInv'
  BY <1>0, <1>1, SocketsOnly
<1>2. ASSUME NEW target, conn' = ShutMatching(target), UNCHANGED <<slots, accepting>>
      PROVE  SlotsInv'
  BY <1>0, <1>2, ShutShapes, SocketsOnly
<1>3. CASE UNCHANGED vars
  BY <1>1, <1>3 DEF vars
<1>4. ASSUME NEW a \in Admins, Admin(a)
      PROVE  SlotsInv'
  <2>1. CASE DropProducers(a)
    BY <1>2, <2>1 DEF DropProducers
  <2>2. CASE ~DropProducers(a)
    BY <1>1, <1>4, <2>2 DEF Admin, SetMode, CheckKey, DeleteKey, PutKey, PutFails
  <2> QED
    BY <2>1, <2>2
<1>5. ASSUME NEW c \in Conns, Accept(c)
      PROVE  SlotsInv'
  <2>1. /\ accepting = "waiting" /\ conn[c].at = "free" /\ slots' = slots - 1
        /\ accepting' = c /\ conn' = conn
    BY <1>5 DEF Accept, Free
  <2>2. c \notin Holders /\ Holders' = Holders \cup {c}
    BY <1>0, <2>1 DEF Holders
  <2> QED
    BY <1>0, <2>1, <2>2, HolderComes
<1>6. ASSUME NEW c \in Conns, StartWorker(c)
      PROVE  SlotsInv'
  <2>1. accepting = c /\ accepting' = "waiting" /\ conn[c].at = "free"
    BY <1>6 DEF StartWorker, SlotsInv
  <2>2. CASE closing = "no"
    <3>1. conn' = [conn EXCEPT ![c] = Started] /\ slots' = slots /\ Started.at = "started"
      BY <1>6, <2>2 DEF StartWorker, Started, Free
    <3>2. conn'[c].at = "started" /\ \A d \in Conns \ {c} : conn'[d] = conn[d]
      BY <1>0, <3>1
    <3>3. Holders' = Holders
      BY <1>0, <2>1, <3>2 DEF Holders
    <3> QED
      BY <1>0, <2>1, <3>1, <3>3, SameHolders
  <2>3. CASE closing # "no"
    <3>1. conn' = conn /\ slots' = slots + 1
      BY <1>6, <2>3 DEF StartWorker, Refused
    <3>2. c \in Holders /\ Holders' = Holders \ {c}
      BY <1>0, <2>1, <3>1 DEF Holders
    <3> QED
      BY <1>0, <2>1, <3>1, <3>2, HolderGoes
  <2> QED
    BY <2>2, <2>3
<1>7. CASE \E c \in Conns : Worker(c)
  BY <1>0, <1>7, WorkerSlots
<1>8. CASE EndListener
  <2>1. /\ accepting = "waiting" /\ accepting' = "ended" /\ slots' = slots
        /\ conn' = IF closing = "no" THEN ShutMatching(All) ELSE conn
    BY <1>8 DEF EndListener
  <2>2. \A c \in Conns : conn'[c].at = conn[c].at
    BY <1>0, <2>1, ShutShapes
  <2>3. Holders' = Holders
    BY <1>0, <2>1, <2>2 DEF Holders
  <2> QED
    BY <1>0, <2>1, <2>3, SameHolders
<1>9. CASE StopListening \/ Joined
  BY <1>1, <1>9 DEF StopListening, Joined
<1>10. CASE CloseProducers
  BY <1>2, <1>10 DEF CloseProducers
<1> QED
  BY <1>3, <1>4, <1>5, <1>6, <1>7, <1>8, <1>9, <1>10 DEF Next

\* No slot is lost: each is free or held by one connection, through refusals,
\* errors and shutdown (tcp.py, the semaphore of the accept loop).
THEOREM SlotsKept == Spec => []SlotsBalanced
<1>1. SlotsInv => SlotsBalanced
  BY DEF SlotsInv, SlotsBalanced, Holders
<1> QED
  BY <1>1, InitSlots, NextSlots, PTL DEF Spec
=============================================================================
