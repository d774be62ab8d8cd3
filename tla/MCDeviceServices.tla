--------------------------- MODULE MCDeviceServices ---------------------------
(***************************************************************************)
(* The device's services for TLC.  No two of them share state the models   *)
(* keep, so that an interleaving of them shows nothing each of them alone  *)
(* does not: a behaviour is one of them, named by "part", with the others  *)
(* in an initial state.  The functions that keep no state are compared     *)
(* with what they are to compute, over bounded inputs.                     *)
(***************************************************************************)
EXTENDS Access, CaptureClock, DeviceLog, ResponseBody, DeviceTasks, Releases, PcmLink,
        SetupPortal, StateStore

VARIABLE part

serviceVars == <<accessVars, captureVars, logVars, bodyVars, taskVars, otaVars, pcmVars,
                 storeVars>>

Parts == {"access", "capture", "log", "body", "tasks", "release", "link", "store"}

ServicesInit ==
  /\ part \in Parts
  /\ AccessInit /\ (part # "access" => savedKey = NoKey)
  /\ part # "body" => partition = "empty"
  /\ CaptureInit /\ LogInit /\ BodyInit /\ TasksInit /\ OtaInit /\ PcmInit /\ StoreInit

ServicesNext ==
  /\ UNCHANGED part
  /\ IF part = "access" THEN AccessNext ELSE UNCHANGED accessVars
  /\ IF part = "capture" THEN CaptureNext ELSE UNCHANGED captureVars
  /\ IF part = "log" THEN LogNext ELSE UNCHANGED logVars
  /\ IF part = "body" THEN BodyNext ELSE UNCHANGED bodyVars
  /\ IF part = "tasks" THEN TasksNext ELSE UNCHANGED taskVars
  /\ IF part = "release" THEN OtaNext ELSE UNCHANGED otaVars
  /\ IF part = "link" THEN PcmNext ELSE UNCHANGED pcmVars
  /\ IF part = "store" THEN StoreNext ELSE UNCHANGED storeVars

ServicesSpec == ServicesInit /\ [][ServicesNext]_<<part, serviceVars>>

-----------------------------------------------------------------------------
\* The route table registers as the server promises it.
ASSUME TableSound

\* A refused change of the keys has a status its route declares.
ASSUME RefusalsAreDeclared ==
  \A error \in {"UnsupportedVersion", "InvalidKeyState", "InvalidKeyId", "DuplicateKeyId",
               "PendingKeyExists", "RollbackKeyExists", "NoPendingKey", "PendingKeyUnverified",
               "NoActiveKey", "NoRollbackKey", "MissingTarget", "Rejected"} :
    {TransportStatus(error), VerifyStatus(error)} \subseteq MutationStatuses

\* The log keeps no control character, and no blank at a line's end.
ASSUME SanitizedIsText ==
  \A raw \in UNION {[1..n -> {"escape", "control", "[", "m", "0", " "}] : n \in 0..4} :
    LET s == Sanitized(raw) IN
    /\ \A i \in DOMAIN s : s[i] \notin Controls
    /\ s # <<>> => s[Len(s)] # " "

\* The test tone goes on where the read before it ended.
ASSUME ToneIsSeamless ==
  \A period \in {4, 8}, position \in 0 .. 3, a, b \in 0 .. 5 :
    Tone(period, position, a) \o Tone(period, (position + a) % period, b) = Tone(period, position, a + b)

\* The bridge reads the header the device writes, and no other.
ASSUME HeadersAreRead ==
  /\ \A hi, lo \in {0, 1, 255, 256, 65535}, silence \in BOOLEAN :
       ParseHeader(EncodeHeader([hi |-> hi, lo |-> lo], silence)) =
         [hi |-> hi, lo |-> lo, payload |-> WireBytes(silence) - HeaderLen]
  /\ \A i \in (1 .. 24) \ (9 .. 12), silence \in BOOLEAN :
       LET whole == EncodeHeader([hi |-> 1, lo |-> 2], silence)
           broken == [whole EXCEPT ![i] = (@ + 1) % 256]
       IN ParseHeader(broken).payload = -1

\* Only a refused credential is told apart from the ways a bridge is away.
ASSUME RefusalIsToldApart ==
  \A layer \in {"failed connect", "connection timeout", "closed by fin", "other"},
     library \in {"fatal alert", "handshake failure", "eof", "reset", "timeout", "unknown"} :
    TlsFailure(layer, library) = "credential rejected" <=>
      layer = "other" /\ library \in {"fatal alert", "handshake failure"}

Got(bytes, at, ok) == [bytes |-> bytes, at |-> at, ok |-> ok]
Answers == {Got(512, 0, TRUE), Got(65024, 10, TRUE), Got(0, 10, TRUE), Got(0, 11, TRUE),
          Got(0, 0, FALSE), Got(1, 0, TRUE)}

SumBytes(reads, n) == FoldLeft(LAMBDA sum, r : sum + r.bytes, 0, SubSeq(reads, 1, n))

\* A probe passes on a whole answer within its budget: neither one that goes
\* on, nor one that comes late, nor another status.
ASSUME ProbesAreBounded ==
  \A reads \in UNION {[1 .. n -> Answers] : n \in 0 .. 4} :
    /\ ~ProbePasses(500, reads)
    /\ ProbePasses(200, reads) =>
         \E n \in DOMAIN reads :
           /\ reads[n] = Got(0, 10, TRUE)
           /\ SumBytes(reads, n) <= 65536
           /\ \A i \in 1 .. n : reads[i] # Got(0, 0, FALSE)
    /\ ProbePasses(200, <<Got(512, 0, TRUE), Got(65024, 10, TRUE), Got(0, 10, TRUE)>>)

-----------------------------------------------------------------------------
Line(entry, prefix, version, suffix, digest) ==
  [entry |-> entry, digest |-> digest, name |-> [prefix |-> prefix, version |-> version, suffix |-> suffix]]

Listings ==
  UNION {[1 .. n -> {Line(e, p, "v", s, d) : e \in BOOLEAN, p \in {"streamline-", "else-"},
                     s \in {"-ota.bin", ".bin"}, d \in {"hex", "HEX", "short"}}] : n \in 0 .. 2}

\* A release is only taken whole: a version and the digest of the same line.
ASSUME ReleaseIsOneLine ==
  \A sums \in Listings :
    LET r == ParseRelease(sums) IN
    r = NoRelease \/ \E i \in DOMAIN sums :
      /\ sums[i].entry /\ IsOta(sums[i].name) /\ NamedByUs(sums[i].name)
      /\ r.version = sums[i].name.version /\ r.sha256 = "hex"

Versions == {[numbers |-> n, at |-> at] : n \in {2, 3}, at \in [1 .. 3 -> 0 .. 1]}

\* Newer is a strict order over versions, and an unversioned build is older.
ASSUME NewerIsAnOrder ==
  \A a, b \in Versions :
    /\ ~(IsNewer(a, b) /\ IsNewer(b, a)) \/ ~IsSemver(a) \/ ~IsSemver(b)
    /\ IsSemver(a) /\ IsSemver(b) => (IsNewer(a, b) \/ IsNewer(b, a) \/ a.at = b.at)
    /\ ~IsSemver(a) /\ IsSemver(b) => IsNewer(a, b)
    /\ \A c \in Versions :
         IsSemver(a) /\ IsSemver(b) /\ IsNewer(a, b) /\ IsNewer(b, c) => IsNewer(a, c)

\* A custom image has both its address and its digest, or there is none.
ASSUME CustomIsPinned ==
  \A url \in [scheme : {"http", "https", "ftp"}, host : {"", "h"}, userinfo : BOOLEAN,
             fragment : BOOLEAN, blank : BOOLEAN],
     hasUrl \in BOOLEAN, digest \in {"", "hex", "HEX", "short"} :
    CustomImage(hasUrl, url, digest) \in
      (IF ~hasUrl /\ digest = "" THEN {"latest"}
       ELSE IF hasUrl /\ UrlAccepted(url) /\ IsDigest(digest) THEN {"hex"} ELSE {"refused"})

ASSUME ClockIsAwaited ==
  LET late == [i \in 1 .. 45 |-> IF i = 45 THEN "set" ELSE "timeout"]
      broken == [i \in 1 .. 45 |-> IF i = 2 THEN "error" ELSE IF i = 3 THEN "set" ELSE "timeout"]
  IN /\ ClockReady(TRUE, FALSE, broken) /\ ClockReady(FALSE, TRUE, late)
     /\ ~ClockReady(FALSE, FALSE, late) /\ ~ClockReady(FALSE, TRUE, broken)

-----------------------------------------------------------------------------
RECURSIVE EncodeName(_)
EncodeName(labels) ==
  IF labels = <<>> THEN <<0>>
  ELSE <<Head(labels)>> \o [i \in 1 .. Head(labels) |-> 97] \o EncodeName(Tail(labels))

Query(bytes) == [response |-> FALSE, opcode |-> 0, questions |-> 1, recursion |-> TRUE, bytes |-> bytes]
Ask(labels, kind) == Query(EncodeName(labels) \o <<0, kind, 0, 1>>)

Names == UNION {[1 .. n -> {1, 62, 63}] : n \in 0 .. 4}

ASSUME PortalAnswers ==
  \A labels \in Names, kind \in {1, 28} :
    LET name == EncodeName(labels)
        reply == DnsReply(Ask(labels, kind))
    IN IF Len(name) > 255 THEN reply.length = 0
       ELSE /\ reply.answers = (IF kind = 1 THEN 1 ELSE 0)
            /\ reply.question = name \o <<0, kind, 0, 1>>
            /\ reply.length <= 512

ASSUME PortalIgnores ==
  /\ \A labels \in {<<>>, <<1>>, <<3, 2>>, <<63>>} :
       \A n \in 0 .. Len(EncodeName(labels)) + 3 :
         DnsReply(Query(SubSeq(Ask(labels, 1).bytes, 1, n))).length = 0
  /\ \A c \in {64, 192, 255} : DnsReply(Query(<<c, 12, 0, 1, 0, 1>>)).length = 0
  /\ \A q \in [response : BOOLEAN, opcode : {0, 1}, questions : {0, 1, 2}, recursion : {TRUE},
               bytes : {Ask(<<1>>, 1).bytes}] :
       DnsReply(q).length > 0 <=> ~q.response /\ q.opcode = 0 /\ q.questions = 1

\* No datagram stops the responder, and only a client's lost page is redirected.
ASSUME PortalGoesOn ==
  /\ \A labels \in Names : Served([kind |-> "query", query |-> Ask(labels, 1)]) \in {"answered", "ignored"}
  /\ \A m \in {"GET", "POST"}, portal \in BOOLEAN : NotFound(portal, m) = 303 <=> portal /\ m = "GET"

Buttons == UNION {[1 .. n -> [gpio : {4, 36}, activeLow : BOOLEAN]] : n \in 0 .. 2}

\* The network is open only while somebody holds the first button.
ASSUME OpensOnlyWhenHeld ==
  \A buttons \in Buttons, held \in SUBSET {1, 2}, readable \in BOOLEAN :
    Protection(buttons, held, readable) = "open" <=> readable /\ buttons # <<>> /\ 1 \in held

Calls == {"configure", "start", "powerSave", "wait", "interface", "stop", "option", "address",
          "dns", "restart"}

\* One call that fails after the access point is up leaves its clients served,
\* unless it is DHCP that does not start again; none before it leaves it up.
ASSUME ApServesOrFails ==
  \A failing \in Calls, recovery \in BOOLEAN, polls \in {1, 50, 51} :
    LET ap == StartedAp([c \in Calls |-> c # failing], recovery, polls)
        up == IF recovery THEN polls <= 50 ELSE failing # "wait"
    IN /\ ap.up = (up /\ failing \notin {"configure", "start", "powerSave"})
       /\ ap.up => (ap.serving <=> failing # "restart")

ASSUME PasswordsHaveTheShape ==
  /\ \A a, b \in {0, 31, 32, 255} :
       LET p == GeneratePassword([i \in 1 .. 16 |-> IF i % 3 = 0 THEN a ELSE b])
       IN /\ IsValidPassword(p)
          /\ \A n \in 0 .. Len(p) - 1 : ~IsValidPassword(SubSeq(p, 1, n))
          /\ ~IsValidPassword(p \o <<Dash>>) /\ ~IsValidPassword(<<OtherChar>> \o Tail(p))

Char(b, c, s) == [bytes |-> b, control |-> c, blank |-> s]
Chars == {Char(1, FALSE, FALSE), Char(1, FALSE, TRUE), Char(1, TRUE, FALSE), Char(4, FALSE, FALSE),
          Char(30, FALSE, FALSE)}

ASSUME InstanceNamesFit ==
  \A name \in UNION {[1 .. n -> Chars] : n \in 0 .. 4} :
    LET i == InstanceName(name)
    IN /\ i # <<>> /\ BytesIn(i) <= 63
       /\ ~i[1].blank /\ ~i[Len(i)].blank
       /\ \A k \in DOMAIN i : ~i[k].control
       /\ BytesIn(name) <= 63 /\ InstanceName(name) # ProductName => InstanceName(i) = i

ASSUME VerdictIsTheWorst ==
  /\ \A c \in BOOLEAN : Assess("none", c) = "ok" /\ Assess("failed", c) = "blocking"
  /\ Assess("ok", TRUE) = "ok" /\ Assess("ok", FALSE) = "info"

ASSUME FaultIsNeverHidden ==
  \A setup, heard \in BOOLEAN : Select(setup, TRUE, heard) = "fault"

Status(low) == [role |-> "status", activeLow |-> low]

ASSUME StatesAreTold ==
  \A low \in BOOLEAN, a, b \in IndicatorStates, from, to \in {0, 49} :
    a # b => \A shift \in 0 .. 39 :
      Seen(Status(low), a, from) # [k \in 0 .. 39 |-> Seen(Status(low), b, to)[(k + shift) % 40]]
=============================================================================
