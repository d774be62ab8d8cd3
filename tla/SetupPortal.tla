------------------------------ MODULE SetupPortal ------------------------------
(***************************************************************************)
(* What the setup network offers a client and how the device is named: the *)
(* DNS answers and the redirect of the captive portal (captive_portal.rs,  *)
(* adapters/captive_portal.rs, adapters/http/mod.rs), the password of the  *)
(* access point (setup_network.rs) and its start (adapters/wifi.rs), the   *)
(* service name (identity.rs), the startup verdict (health.rs) and the     *)
(* lights that show it (indicator.rs, led.rs, adapters/status_light.rs).   *)
(*                                                                         *)
(* A DNS packet is a sequence of bytes, the flags and counts of its header *)
(* given as fields.                                                        *)
(***************************************************************************)
EXTENDS Integers, Sequences, FiniteSets

HeaderBytes == 12
MaxNameBytes == 255
MaxLabel == 63
AnswerBytes == 16
PacketBuffer == 512

(***************************************************************************)
(* Question::parse.  A packet is the bytes of its question section, what a *)
(* label holds being of no interest: "name" is the sequence of bytes after *)
(* the header.                                                             *)
(***************************************************************************)
\* Where the name ends: one past its zero byte, 0 when it does not parse.
NameEnd(bytes) ==
  LET At(i) == bytes[i]
      end[i \in 1 .. Len(bytes) + MaxLabel + 2] ==
        IF i > Len(bytes) THEN 0
        ELSE IF At(i) = 0 THEN i + 1
        ELSE IF \/ At(i) > MaxLabel
                \/ i + At(i) > Len(bytes)
                \/ i + At(i) > MaxNameBytes THEN 0
        ELSE end[i + At(i) + 1]
  IN IF Len(bytes) = 0 THEN 0
     ELSE IF end[1] - 1 > MaxNameBytes THEN 0 ELSE end[1]

Word(bytes, i) == 256 * bytes[i] + bytes[i + 1]

\* The question's bytes, its kind and class; length 0 when it is malformed.
Question(bytes) ==
  LET e == NameEnd(bytes)
  IN IF e = 0 \/ e + 3 > Len(bytes) THEN [length |-> 0, kind |-> 0, class |-> 0]
     ELSE [length |-> e + 3, kind |-> Word(bytes, e), class |-> Word(bytes, e + 2)]

\* dns_reply: a standard query with one question is answered, with the address
\* when it asks for one; the length 0 stands for no reply.
DnsReply(q) ==
  LET question == Question(q.bytes)
      answers == IF question.kind = 1 /\ question.class = 1 THEN 1 ELSE 0
      length == HeaderBytes + question.length + answers * AnswerBytes
  IN IF q.response \/ q.opcode # 0 \/ q.questions # 1 \/ question.length = 0
        \/ length > PacketBuffer
     THEN [length |-> 0, answers |-> 0, recursion |-> FALSE, question |-> <<>>]
     ELSE [length |-> length, answers |-> answers, recursion |-> q.recursion,
           question |-> SubSeq(q.bytes, 1, question.length)]

\* serve: one datagram; the responder stops on errors of other kinds.
Served(event) ==
  CASE event.kind = "query" /\ DnsReply(event.query).length > 0 -> "answered"
    [] event.kind = "query" -> "ignored"
    [] event.kind \in {"timed out", "would block", "interrupted"} -> "waiting"
    [] OTHER -> "stopped"

\* not_found: while the setup network serves clients, a probe is redirected.
NotFound(portal, method) == IF portal /\ method = "GET" THEN 303 ELSE 404

(***************************************************************************)
(* The access point's password: four groups of four symbols out of 32.  A  *)
(* character is its index in the alphabet, Dash, or OtherChar for another.*)
(***************************************************************************)
Groups == 4
GroupLen == 4
Symbols == 0 .. 31
Dash == 32
OtherChar == 33

GeneratePassword(entropy) ==
  [k \in 1 .. Groups * GroupLen + Groups - 1 |->
     IF k % (GroupLen + 1) = 0 THEN Dash ELSE entropy[k - k \div (GroupLen + 1)] % 32]

\* is_valid_password: split at the dashes.
IsValidPassword(text) ==
  LET dashes == {i \in DOMAIN text : text[i] = Dash}
      cuts == dashes \cup {0, Len(text) + 1}
      After(i) == CHOOSE j \in cuts : j > i /\ \A k \in cuts : k > i => j <= k
  IN /\ Cardinality(dashes) = Groups - 1
     /\ \A i \in dashes \cup {0} :
          /\ After(i) - i - 1 = GroupLen
          /\ \A k \in i + 1 .. After(i) - 1 : text[k] \in Symbols

(***************************************************************************)
(* The start of the access point.  Each call of the driver that may fail   *)
(* is a field of "radio": TRUE when it succeeds.                           *)
(***************************************************************************)
PulledPads == (0 .. 5) \cup (12 .. 23) \cup (25 .. 33)
ApReadyPolls == 50

Pull(button) ==
  IF button.gpio \notin PulledPads THEN "floating" ELSE IF button.activeLow THEN "up" ELSE "down"

\* The level an input reads: the button drives it while it is held, and else its
\* pull, or the resistor a board gives a pad that has none.
ReadsLow(button, held) ==
  CASE held -> button.activeLow
    [] ~held /\ Pull(button) = "floating" -> ~button.activeLow
    [] OTHER -> Pull(button) = "down"

\* The first button, held at power-on; a pin that cannot be read holds nothing.
SetupOverrideHeld(buttons, held, readable) ==
  /\ buttons # <<>> /\ readable
  /\ ReadsLow(buttons[1], 1 \in held) = buttons[1].activeLow

Protection(buttons, held, readable) ==
  IF SetupOverrideHeld(buttons, held, readable) THEN "open" ELSE "WPA2"

\* advertise_setup_dns: DHCP is stopped for it and started again, whatever
\* became of what was set in between.
AdvertisedDns(radio) ==
  IF ~radio.interface \/ ~radio.stop THEN [set |-> FALSE, serving |-> TRUE]
  ELSE [set |-> radio.option /\ radio.address /\ radio.dns, serving |-> radio.restart]

\* Beside a station the address is polled for; polls is when it is there.
ApReady(radio, recovery, polls) == IF recovery THEN polls <= ApReadyPolls ELSE radio.wait

\* start_ap: an error is the boot's; a client gets along without the DNS option.
StartedAp(radio, recovery, polls) ==
  IF radio.configure /\ radio.start /\ radio.powerSave /\ ApReady(radio, recovery, polls)
  THEN [up |-> TRUE, serving |-> AdvertisedDns(radio).serving, station |-> recovery]
  ELSE [up |-> FALSE, serving |-> FALSE, station |-> FALSE]

(***************************************************************************)
(* mdns_instance_name: what is kept of a display name in 63 bytes.  A      *)
(* character, of the name as it is normalized, is its bytes, whether it is *)
(* a control and whether it is blank.                                      *)
(***************************************************************************)
LabelBytes == 63

BytesIn(name) ==
  LET sum[i \in 0 .. Len(name)] == IF i = 0 THEN 0 ELSE sum[i - 1] + name[i].bytes
  IN sum[Len(name)]

Visible(name) == SelectSeq(name, LAMBDA c : ~c.control)

Kept(name) ==
  LET fits == {n \in 0 .. Len(name) : BytesIn(SubSeq(name, 1, n)) <= LabelBytes}
  IN SubSeq(name, 1, CHOOSE n \in fits : \A m \in fits : m <= n)

Trimmed(name) ==
  LET solid == {i \in DOMAIN name : ~name[i].blank}
      first == CHOOSE i \in solid : \A j \in solid : i <= j
      last == CHOOSE i \in solid : \A j \in solid : j <= i
  IN IF solid = {} THEN <<>> ELSE SubSeq(name, first, last)

ProductName == <<[bytes |-> 10, control |-> FALSE, blank |-> FALSE]>>

InstanceName(name) ==
  LET kept == Trimmed(Kept(Visible(name)))
  IN IF kept = <<>> THEN ProductName ELSE kept

-----------------------------------------------------------------------------
(***************************************************************************)
(* The startup verdict: the worst of its checks.                           *)
(***************************************************************************)
Rank(severity) == CASE severity = "ok" -> 0 [] severity = "info" -> 1 [] severity = "blocking" -> 2

CodecCheck(audio) == IF audio = "ok" THEN "ok" ELSE "blocking"
BridgeCheck(configured) == IF configured THEN "ok" ELSE "info"

Worst(severities) ==
  IF severities = {} THEN "ok"
  ELSE CHOOSE s \in severities : \A t \in severities : Rank(t) <= Rank(s)

\* audio is "none" in setup mode, where nothing is checked.
Assess(audio, configured) ==
  IF audio = "none" THEN "ok" ELSE Worst({CodecCheck(audio), BridgeCheck(configured)})

(***************************************************************************)
(* The light: which state it shows and when it is lit.                     *)
(***************************************************************************)
IndicatorStates == {"setup", "ready", "streaming", "fault"}
RefreshMs == 50

Select(isSetup, hasFault, isStreaming) ==
  CASE hasFault -> "fault"
    [] ~hasFault /\ isSetup -> "setup"
    [] ~hasFault /\ ~isSetup /\ isStreaming -> "streaming"
    [] OTHER -> "ready"

IsLitAt(state, elapsed) ==
  LET phase == elapsed % 2000
      Pulse(from) == phase >= from /\ phase < from + 150
  IN CASE state = "setup" -> phase < 400
       [] state = "ready" -> Pulse(0) \/ Pulse(300)
       [] state = "streaming" -> TRUE
       [] state = "fault" -> Pulse(0) \/ Pulse(300) \/ Pulse(600)

RoleLitAt(role, state, elapsed) ==
  CASE role = "off" -> FALSE [] role = "on" -> TRUE [] role = "status" -> IsLitAt(state, elapsed)

DriveHigh(led, state, elapsed) == RoleLitAt(led.role, state, elapsed) # led.activeLow

\* What an observer sees of a lamp over one cycle of refreshes, from some start.
Seen(led, state, offset) ==
  [k \in 0 .. 39 |-> DriveHigh(led, state, offset + k * RefreshMs) # led.activeLow]
=============================================================================
