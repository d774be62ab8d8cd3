-------------------------- MODULE MCDeviceSettings --------------------------
(***************************************************************************)
(* A board with two lines and a local output, one with a line and no       *)
(* output, which one of two images has built in, and one profile.          *)
(***************************************************************************)
EXTENDS DeviceSettings, Configuration

Line(n) == [line |-> n, label |-> "in"]

MCBoard(id) ==
  [id |-> id, name |-> "board", driver |-> "es8388", address |-> 16,
   sda |-> 33, scl |-> 32, mclk |-> 0, bclk |-> 27, ws |-> 25, din |-> 35,
   leds |-> << [id |-> "l", label |-> "led", gpio |-> 22] >>,
   buttons |-> << [id |-> "k", label |-> "key", gpio |-> 36] >>,
   lines |-> <<Line(2), Line(1)>>, gainMax |-> 0, attenMax |-> 48,
   output |-> [line |-> 2, label |-> "out"]]

MCSmall(id) == [MCBoard(id) EXCEPT !.lines = <<Line(1)>>, !.gainMax = 1, !.output = None]

MCBoardTable == [id \in {"kit", "own"} |-> IF id = "kit" THEN MCBoard(id) ELSE MCSmall(id)]
MCOneImage == {{"kit"}}
MCImages == {{"kit"}, {"kit", "own"}}

-----------------------------------------------------------------------------
(***************************************************************************)
(* The functions of Boards and CodecControl over bounded inputs.           *)
(***************************************************************************)
Variants ==
  LET b == MCBoard("kit") IN
  {[b EXCEPT !.lines = << >>], [b EXCEPT !.lines = <<Line(1), Line(1)>>],
   [b EXCEPT !.lines = <<Line(3)>>], [b EXCEPT !.lines = <<[line |-> 1, label |-> ""]>>],
   [b EXCEPT !.din = 24], [b EXCEPT !.sda = 34], [b EXCEPT !.sda = b.scl],
   [b EXCEPT !.leds[1].gpio = 36], [b EXCEPT !.leds[1].gpio = b.ws], [b EXCEPT !.leds[1].id = ""],
   [b EXCEPT !.leds = @ \o << [@[1] EXCEPT !.gpio = 19] >>], [b EXCEPT !.buttons[1].label = ""],
   [b EXCEPT !.buttons[1].gpio = 22], [b EXCEPT !.output.line = 3], [b EXCEPT !.output.label = ""],
   [b EXCEPT !.gainMax = 101], [b EXCEPT !.attenMax = 49], [b EXCEPT !.address = 17],
   [b EXCEPT !.driver = "other"], [b EXCEPT !.id = ""]}

Without(document, field) == [f \in DOMAIN document \ {field} |-> document[f]]

\* A document is read whole or refused: what it may leave out is filled in, in
\* its parts too, and nothing else may be missing or unknown.
ASSUME DocumentRules ==
  LET b == MCBoard("kit") IN
  /\ ParsedBoard(Without(Without(b, "leds"), "output")) =
       <<[ParsedBoard(b)[1] EXCEPT !.leds = << >>, !.output = None]>>
  /\ ParsedBoard(b)[1].leds[1] = b.leds[1] @@ [activeLow |-> FALSE, role |-> "off"]
  /\ \A f \in DOMAIN b \ {"leds", "buttons", "output"} : ParsedBoard(Without(b, f)) = << >>
  /\ ParsedBoard(b @@ [other |-> 1]) = << >>
  /\ ParsedBoard([b EXCEPT !.buttons = <<Without(@[1], "gpio")>>]) = << >>
  /\ ParsedBoard([b EXCEPT !.lines = <<@[1] @@ [other |-> 1]>>]) = << >>
  /\ ParsedBoard(b)[1].buttons[1] = b.buttons[1] @@ [activeLow |-> FALSE, action |-> "none"]
  /\ \A c \in {b, MCSmall("own")} : DescriptorValid(ParsedBoard(c)[1]) = DescriptorValid(c)

ASSUME DescriptorRules ==
  /\ CatalogValid(<<MCBoard("kit"), MCSmall("own")>>)
  /\ ~CatalogValid(<<MCBoard("own")>>) /\ ~CatalogValid(<<MCBoard("kit"), MCSmall("kit")>>)
  /\ \A b \in Variants : ~DescriptorValid(b)

\* Whatever a descriptor that is accepted names, the driver has a register
\* value for, so that no accepted setting can fail before the bus is tried.
ASSUME AcceptedIsDriven ==
  \A lines \in UNION {[1..n -> 0..3] : n \in 0..2}, out \in 0..3 :
    LET b == [MCBoard("kit") EXCEPT !.lines = [i \in DOMAIN lines |-> Line(lines[i])],
                                   !.output.line = out]
    IN  DescriptorValid(b) =>
          /\ \A l \in Range(lines) : InputRegister(l) # None /\ OutputSource(l) # None
          /\ OutputPower(out) # None
          /\ \A db \in 0 .. b.attenMax : AttenuationRegister(db) = 2 * db

\* The board an update stored is the one selected while the image stays, and
\* none is selected in its stead when it does not.
ASSUME SelectsWhatWasStored ==
  \A ids \in MCImages, later \in MCImages :
    \A u \in Updates(ids, {"kit", "own"}) :
      /\ Select(ids, u) = [id |-> u.id, resolved |-> TRUE]
      /\ Select(later, u).resolved => Select(later, u).id = u.id

\* A press at full range moves the amplifier by a notch or more until the
\* limit, which eight presses reach from anywhere; one that lowers undoes it.
ASSUME GainPresses ==
  LET b == [MCBoard("kit") EXCEPT !.gainMax = 100]
      up[n \in 0..8, g \in 0..100] == IF n = 0 THEN g ELSE SteppedUp(b, up[n - 1, g])
  IN  \A g \in 0..100 :
        /\ SteppedUp(b, g) # g => GainRegister(SteppedUp(b, g)) # GainRegister(g) \/ SteppedUp(b, g) = 100
        /\ SteppedDown(b, g) \in 0..g /\ up[8, g] = 100
        /\ g + GainStepOf(b) <= 100 => SteppedDown(b, SteppedUp(b, g)) = g

ASSUME LineCycles ==
  \A lines \in {<<2>>, <<2, 1>>, <<1, 2>>} :
    LET b == [MCBoard("kit") EXCEPT !.lines = [i \in DOMAIN lines |-> Line(lines[i])]]
        nth[n \in 0..2, l \in 0..3] == IF n = 0 THEN l ELSE NextLine(b, nth[n - 1, l])
    IN  /\ \A l \in Range(lines) : nth[Len(lines), l] = l
        /\ NextLine(b, 3) = lines[1]

\* The last level two equal polls in a row confirmed before poll i.
Confirmed(levels, i) ==
  LET at == {j \in 2..(i - 1) : levels[j] = levels[j - 1]}

  IN  IF at = {} THEN None ELSE levels[CHOOSE j \in at : \A k \in at : k <= j]

\* A press fires at the second of two polls that see it, if the level
\* confirmed before was a release: never for one held since the start, and
\* never twice for one press.
ASSUME PressesFireOnce ==
  \A n \in 1..8 : \A levels \in [1..n -> BOOLEAN] :
    Fires(levels) <=>
      n > 1 /\ levels[n] /\ levels[n - 1] /\ Confirmed(levels, n) = FALSE

-----------------------------------------------------------------------------
(***************************************************************************)
(* The functions of Configuration over bounded inputs.                     *)
(***************************************************************************)
Kit == ParsedBoard(MCBoard("kit"))[1]
Small == ParsedBoard([MCSmall("own") EXCEPT !.leds = << >>])[1]

Foreign == Text(9, {"separator"})

\* The accepted staged writes of one field each.
StagedFrom(c) ==
  {next \in
     {TargetUpdated(c, <<h>>, p) : h \in {Blank, Text(9, {}), Foreign}, p \in {<< >>, <<0>>, <<1>>}}
       \cup {[c EXCEPT !.name = Text(n, {})] : n \in {32, 33}}
       \cup {[c EXCEPT !.audio.line = l, !.output = o] : l \in {1, 3}, o \in BOOLEAN}
       \cup {[c EXCEPT !.transport.mode = "tls-psk"]}
       \cup {[c EXCEPT !.ledRoles = [id \in {led} |-> "off"]] : led \in {"l", "other"}}
   : StagedValid(next, Kit)}

Staged == LET once == StagedFrom(SetupBaseline(Kit)) IN UNION {StagedFrom(c) : c \in once}

FittingSsids == {Text(1, {"other"}), Text(32, {})}
FittingPasswords == {Text(8, {"other"}), Text(63, {}), Text(64, {"upper"})}
FittingKey == Text(48, {})

Forms ==
  [ssid : FittingSsids \cup {Blank, Text(33, {}), Text(4, {"nul"})},
   password : FittingPasswords \cup {Blank, Text(7, {}), Text(64, {"other"}), Text(65, {})},
   adminKey : {Blank, FittingKey, Text(48, {"upper"}), Text(47, {})},
   host : {<< >>, <<Text(9, {})>>, <<Foreign>>}, port : {<< >>, <<0>>, <<1>>}]

FormFits(f, hasSecrets) ==
  /\ f.ssid \in FittingSsids
  /\ f.password \in FittingPasswords \/ (hasSecrets /\ f.password = Blank)
  /\ f.adminKey = FittingKey \/ (hasSecrets /\ f.adminKey = Blank)
  /\ f.host # <<Foreign>> /\ f.port # <<0>>

\* Nothing that was accepted into memory before commissioning is refused when
\* it becomes durable: the form's own fields decide, before and after, and it
\* changes nothing else.
ASSUME OwnFieldsDecide ==
  \A c \in Staged, f \in Forms :
    LET first == WifiReplaced(c, f) IN
    /\ DurableValid(first, Kit) <=> FormFits(f, FALSE)
    /\ <<first.name, first.audio, first.output, first.transport, first.ledRoles>> =
         <<c.name, c.audio, c.output, c.transport, c.ledRoles>>
    /\ f.host = << >> => first.host = c.host

ASSUME SecretsAreKept ==
  LET one == [ssid |-> Text(1, {}), password |-> Text(8, {}), adminKey |-> FittingKey,
              host |-> << >>, port |-> << >>]
      c == WifiReplaced(SetupBaseline(Kit), one)
  IN \A f \in Forms : DurableValid(WifiReplaced(c, f), Kit) <=> FormFits(f, TRUE)

\* What is valid on a board is valid on the next one once it was made
\* compatible, and is not changed by the board it was made for.
ASSUME BoardsKeepConfigurations ==
  \A c \in Staged :
    /\ BoardCompatible(c, Kit) = c
    /\ StagedValid(BoardCompatible(c, Small), Small)
    /\ BoardCompatible(BoardCompatible(c, Small), Small) = BoardCompatible(c, Small)

ASSUME AssignmentsOutrankDefaults ==
  LET c == SetupBaseline(Kit)
      lit == [Kit EXCEPT !.leds[1].role = "status"]
  IN /\ ShowsStatusIndicator(c, lit) /\ ~ShowsStatusIndicator(c, Kit)
     /\ ~ShowsStatusIndicator([c EXCEPT !.ledRoles = [id \in {"l"} |-> "off"]], lit)
     /\ ShowsStatusIndicator([c EXCEPT !.ledRoles = [id \in {"l"} |-> "status"]], Kit)
     /\ ButtonAction([c EXCEPT !.buttonActions = [id \in {"other"} |-> "reset"]], Kit.buttons[1]) = "none"

\* A secret and an id are read back as they were written, and only so.
ASSUME KeysRoundTrip ==
  \A a, b \in {0, 15, 16, 171, 255} :
    LET secret == [i \in 1 .. PskBytes |-> IF i % 3 = 0 THEN a ELSE b]
        text == Encoded(secret)
    IN /\ DecodedHex(text) = secret
       /\ \A i \in {1, 2, 63, 64} : DecodedHex([text EXCEPT ![i] = BadDigit]) = << >>
       /\ DecodedHex(Tail(text)) = << >> /\ DecodedHex(Append(text, 0)) = << >>
       /\ KeyIdValid(GeneratedId(SubSeq(secret, 1, IdBytes)))
       /\ ~KeyIdValid(GeneratedId(SubSeq(secret, 1, IdBytes - 1)))
=============================================================================
