------------------------------- MODULE Boards -------------------------------
(***************************************************************************)
(* The rules about boards (firmware board/, codec/, button.rs and the      *)
(* board's part of config.rs): which descriptors are accepted, which one a *)
(* device starts with, what a board makes of audio settings, and what a    *)
(* press of one of its buttons does to them.  All of it is functions.      *)
(*                                                                         *)
(* A descriptor is a record; ids and labels are values, "" where one is    *)
(* missing.  Attenuation is bounded and stepped as the gain is and is left *)
(* out of the settings.                                                    *)
(***************************************************************************)
EXTENDS Naturals, Sequences, FiniteSets, SequencesExt

CONSTANTS
  None,
  DefaultId          \* the built-in board of a device with no selection

MaxLeds == 8
MaxButtons == 8

Distinct(s) == IsInjective(s)
Each(s, field) == [i \in DOMAIN s |-> s[i][field]]

-----------------------------------------------------------------------------
(***************************************************************************)
(* Descriptors.  A document is a record of the fields it gives, the codec's*)
(* and the pins' among them; serde refuses a missing or an unknown field   *)
(* and fills in those that have a default.                                 *)
(***************************************************************************)
LedDefaults == [activeLow |-> FALSE, role |-> "off"]
ButtonDefaults == [activeLow |-> FALSE, action |-> "none"]
BoardDefaults == [leds |-> << >>, buttons |-> << >>, output |-> None]

PartFields == {"id", "label", "gpio"}
LineFields == {"line", "label"}
HardwareFields == {"driver", "address", "sda", "scl", "mclk", "bclk", "ws", "din"}
BoardFields == {"id", "name", "lines", "gainMax", "attenMax"} \cup HardwareFields

Fits(document, fields, defaults) ==
  fields \subseteq DOMAIN document /\ DOMAIN document \subseteq fields \cup DOMAIN defaults
AllFit(parts, fields, defaults) == \A part \in Range(parts) : Fits(part, fields, defaults)
Filled(parts, defaults) == [i \in DOMAIN parts |-> parts[i] @@ defaults]

\* serde_json::from_str: <<>> for a document it refuses.
ParsedBoard(document) ==
  LET b == document @@ BoardDefaults IN
  IF /\ Fits(document, BoardFields, BoardDefaults)
     /\ AllFit(b.leds, PartFields, LedDefaults) /\ AllFit(b.buttons, PartFields, ButtonDefaults)
     /\ AllFit(b.lines, LineFields, << >>)
     /\ b.output # None => Fits(b.output, LineFields, << >>)
  THEN <<[b EXCEPT !.leds = Filled(@, LedDefaults), !.buttons = Filled(@, ButtonDefaults)]>>
  ELSE << >>

OutputGpios == (0..5) \cup (12..23) \cup (25..33)
Gpios == (0..5) \cup (12..23) \cup (25..39)

ClaimedGpios(b) ==
  <<b.sda, b.scl, b.mclk, b.bclk, b.ws, b.din>> \o Each(b.leds, "gpio") \o Each(b.buttons, "gpio")

\* Leds and buttons follow one rule over different pads.
Attached(parts, pads, max) ==
  /\ Len(parts) <= max
  /\ \A i \in DOMAIN parts : parts[i].id # "" /\ parts[i].label # "" /\ parts[i].gpio \in pads
  /\ Distinct(Each(parts, "id"))

\* Board::validate.
ShapeValid(b) ==
  /\ b.id # "" /\ b.name # "" /\ b.driver # ""
  /\ b.address <= 127
  /\ {b.sda, b.scl, b.mclk, b.bclk, b.ws} \subseteq OutputGpios
  /\ b.din \in Gpios
  /\ Attached(b.leds, OutputGpios, MaxLeds)
  /\ Attached(b.buttons, Gpios, MaxButtons)
  /\ Distinct(ClaimedGpios(b))
  /\ b.lines # << >> /\ Distinct(Each(b.lines, "line"))
  /\ \A i \in DOMAIN b.lines : b.lines[i].label # ""
  /\ b.output # None => b.output.label # ""
  /\ b.gainMax <= 100

\* What a codec driver can apply (the ES8388's, the only one).
Drivers == {"es8388"}
DrivenLines == {1, 2}

CodecValid(b) ==
  /\ b.driver \in Drivers /\ b.address = 16
  /\ \A i \in DOMAIN b.lines : b.lines[i].line \in DrivenLines
  /\ b.gainMax <= 100 /\ b.attenMax <= 48
  /\ b.output # None => b.output.line \in DrivenLines

DescriptorValid(b) == ShapeValid(b) /\ CodecValid(b)

\* validate_catalog.
UniqueBoards(boards) ==
  (\A b \in Range(boards) : DescriptorValid(b)) /\ Distinct(Each(boards, "id"))

CatalogValid(boards) ==
  /\ UniqueBoards(boards)
  /\ \E b \in Range(boards) : b.id = DefaultId

\* The values the driver writes; None is a line it has no register value for.
InputRegister(line) == CASE line = 1 -> 0 [] line = 2 -> 80 [] OTHER -> None
OutputSource(line) == CASE line = 1 -> 0 [] line = 2 -> 9 [] OTHER -> None
OutputPower(line) == CASE line = 1 -> 48 [] line = 2 -> 12 [] OTHER -> None

-----------------------------------------------------------------------------
(***************************************************************************)
(* Selection.  "ids" are the built-in boards of the running image; what is *)
(* stored is a board id and, for a board of the user's own, its descriptor.*)
(***************************************************************************)
Nothing == [id |-> None, custom |-> None]

\* select: resolved, or the default board with the selection unresolved.
Select(ids, stored) ==
  IF stored.custom # None
    THEN IF stored.custom = stored.id /\ stored.custom \notin ids
         THEN [id |-> stored.custom, resolved |-> TRUE]
         ELSE [id |-> DefaultId, resolved |-> FALSE]
  ELSE IF stored.id = None THEN [id |-> DefaultId, resolved |-> TRUE]
  ELSE IF stored.id \in ids THEN [id |-> stored.id, resolved |-> TRUE]
  ELSE [id |-> DefaultId, resolved |-> FALSE]

\* resolve_update: a built-in id or the descriptor of another board, one of
\* the two.  The result is what a later Select takes.
Updates(ids, customs) ==
  {[id |-> i, custom |-> None] : i \in ids} \cup {[id |-> c, custom |-> c] : c \in customs \ ids}

-----------------------------------------------------------------------------
(***************************************************************************)
(* Audio settings on a board.                                              *)
(***************************************************************************)
Lines(b) == Each(b.lines, "line")
AcceptsLine(b, line) == line \in Range(Lines(b))
DefaultLine(b) == Lines(b)[1]

AudioValid(b, audio) == AcceptsLine(b, audio.line) /\ audio.gain <= b.gainMax

CompatibleAudio(b, audio) ==
  [line |-> IF AcceptsLine(b, audio.line) THEN audio.line ELSE DefaultLine(b),
   gain |-> IF audio.gain <= b.gainMax THEN audio.gain ELSE b.gainMax]

\* with_board_compatible_with and validate, for the settings kept here.
CompatibleConfig(b, c) ==
  [c EXCEPT !.audio = CompatibleAudio(b, c.audio), !.output = c.output /\ b.output # None]

ConfigValid(b, c) == AudioValid(b, c.audio) /\ (c.output => b.output # None)

-----------------------------------------------------------------------------
(***************************************************************************)
(* Buttons.                                                                *)
(***************************************************************************)
GainSteps == 8

NextLine(b, current) ==
  LET lines == Lines(b) IN
  IF AcceptsLine(b, current)
    THEN lines[((CHOOSE i \in DOMAIN lines : lines[i] = current) % Len(lines)) + 1]
    ELSE lines[1]

GainStepOf(b) ==
  LET step == (b.gainMax + GainSteps - 1) \div GainSteps IN IF step = 0 THEN 1 ELSE step

SteppedUp(b, gain) ==
  IF gain + GainStepOf(b) <= b.gainMax THEN gain + GainStepOf(b) ELSE b.gainMax
SteppedDown(b, gain) ==
  IF gain >= GainStepOf(b) THEN gain - GainStepOf(b) ELSE 0

\* What a press makes of the settings.
Pressed(b, action, audio) ==
  CASE action = "cycle_input" -> [audio EXCEPT !.line = NextLine(b, audio.line)]
    [] action = "gain_up" -> [audio EXCEPT !.gain = SteppedUp(b, audio.gain)]
    [] action = "gain_down" -> [audio EXCEPT !.gain = SteppedDown(b, audio.gain)]

(***************************************************************************)
(* PressDetector: a level is believed after DebouncePolls equal polls; a   *)
(* press is a believed release followed by a believed press.               *)
(***************************************************************************)
DebouncePolls == 2
NewPressDetector == [stable |-> None, candidate |-> FALSE, held |-> 0, fired |-> FALSE]

Poll(d, pressed) ==
  LET held == IF pressed = d.candidate THEN d.held + 1 ELSE 1
      believed == held >= DebouncePolls
  IN  [stable |-> IF believed THEN pressed ELSE d.stable,
       candidate |-> pressed, held |-> held,
       fired |-> believed /\ d.stable = FALSE /\ pressed]

Fires(levels) == FoldLeft(Poll, NewPressDetector, levels).fired
=============================================================================
