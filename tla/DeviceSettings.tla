--------------------------- MODULE DeviceSettings ---------------------------
(***************************************************************************)
(* The device's audio settings from the request to the codec (firmware     *)
(* handlers/audio.rs, analog_passthrough.rs, board.rs, settings.rs,        *)
(* writes.rs, profiles.rs, adapters/buttons.rs, adapters/nvs.rs and the    *)
(* boot in main.rs): the configuration and the profile catalog in memory   *)
(* and in flash, the codec and its registers, and the local output.        *)
(*                                                                         *)
(* Handlers and button actions hold the control lock from their first read *)
(* to their last write, so each is one step; every register write and      *)
(* every write to flash may fail.  A flash write that reports an error may *)
(* have landed.  Power may fail between any two steps, which also stands   *)
(* for a failure inside one: what it leaves is the flash before or after   *)
(* the write.                                                              *)
(***************************************************************************)
EXTENDS CodecControl

CONSTANTS
  BoardTable,        \* board id -> descriptor
  Images,            \* the built-in board ids of each firmware image
  Profiles           \* profile ids

ASSUME SettingsAssumption ==
  /\ DefaultId \in DOMAIN BoardTable
  /\ \A ids \in Images : DefaultId \in ids /\ ids \subseteq DOMAIN BoardTable
  \* What Board::validate and the driver's own checks leave of a descriptor.
  /\ \A b \in Range(BoardTable) :
       Lines(b) \in Seq(DrivenLines) /\ Lines(b) # <<>> /\ b.gainMax \in Nat
  /\ None \notin DrivenLines

VARIABLES
  flash,        \* the committed generation: board, config, profiles
  builtin,      \* the running image's built-in boards
  board,        \* the board the device runs as
  mode,         \* "setup", "recovery" or "provisioned"
  config,       \* the configuration handlers read
  catalog,      \* the profile catalog handlers read
  codec,        \* CodecControl, None when the codec did not come up
  reg,          \* the codec's registers
  output,       \* AnalogPassthroughState
  stream,       \* "absent" without capture, else "on" or "off"
  restart       \* a restart is pending

memory == <<config, catalog>>
hardware == <<codec, reg, output, stream>>
running == <<builtin, board, mode>>
vars == <<flash, builtin, board, mode, config, catalog, codec, reg, output, stream,
          restart>>

B == BoardTable[board]
Customs == DOMAIN BoardTable
AudioOn(b) == {a \in [line : DrivenLines, gain : 0..b.gainMax] : AcceptsLine(b, a.line)}

-----------------------------------------------------------------------------
(***************************************************************************)
(* Profiles: a partial map from ids to settings, and the active one.       *)
(***************************************************************************)
EmptyCatalog(id) == [board |-> id, active |-> None, of |-> [p \in Profiles |-> None]]

CatalogAccepted(id, c) ==
  /\ c.board = id
  /\ \A p \in Profiles : c.of[p] # None => AudioValid(BoardTable[id], c.of[p])
  /\ c.active # None => c.of[c.active] # None

ActiveAudio(c) == IF c.active = None THEN None ELSE c.of[c.active]

\* reconcile_active_audio.
ReconciledCatalog(c, audio) ==
  IF ActiveAudio(c) \notin {None, audio} THEN [c EXCEPT !.active = None] ELSE c

\* The catalog a client sends never activates a profile; the active one stays
\* if it is still there.
Replaced(of) ==
  ReconciledCatalog(
    [catalog EXCEPT !.of = of,
                    !.active = IF @ # None /\ of[@] # None THEN @ ELSE None],
    config.audio)

-----------------------------------------------------------------------------
(***************************************************************************)
(* Boot.                                                                   *)
(***************************************************************************)
Erased == [board |-> Nothing, config |-> None, profiles |-> None]

\* Registers nobody has a record of; bringing the codec up writes every one
\* that is used before it is written again.
Unknown ==
  [gain |-> 0, line |-> 1, mute |-> TRUE, source |-> 1, power |-> FALSE]

\* recovery.rs, setup_baseline.
Baseline(b) == [audio |-> [line |-> DefaultLine(b), gain |-> 0], output |-> FALSE]

\* ConfigStore::load, which an unresolved board skips.
Loaded(selection) ==
  IF selection.resolved /\ flash.config # None
     /\ ConfigValid(BoardTable[selection.id], flash.config)
  THEN flash.config ELSE None

\* ConfigStore::load_audio_profiles.
LoadedCatalog(selection) ==
  IF /\ Loaded(selection) # None /\ flash.profiles # None
     /\ CatalogAccepted(selection.id, flash.profiles)
  THEN flash.profiles ELSE EmptyCatalog(selection.id)

\* What a codec that does not answer leaves; an output that was wished for shows
\* why it is silent.
NoCodec(c, registers) ==
  [codec |-> None, reg |-> registers, output |-> IF c.output THEN Faulted ELSE Inactive]

\* start_codec.
StartCodec(c) ==
  UNION {IF ~n.ok
           THEN {NoCodec(c, n.reg)}
         ELSE IF c.output
           THEN Reconcile(Inactive, TRUE, c.audio.line, n.codec, n.reg)
         ELSE {[codec |-> n.codec, reg |-> n.reg, output |-> Inactive]}
         : n \in NewCodec(Unknown, c.audio)}

Started(s) == codec' = s.codec /\ reg' = s.reg /\ output' = s.output

StartSetup ==
  /\ mode' = "setup"
  /\ config' = Baseline(BoardTable[board'])
  /\ Started([codec |-> None, reg |-> Unknown, output |-> Inactive])
  /\ stream' = "absent"

\* The saved network did not answer: only the local output comes up.
StartRecovery(loaded) ==
  /\ mode' = "recovery"
  /\ config' = loaded
  /\ IF loaded.output
     THEN \E s \in StartCodec(loaded) : Started(s)
     ELSE Started([codec |-> None, reg |-> Unknown, output |-> Inactive])
  /\ stream' = "absent"

\* start_audio: capture runs when the codec, the I2S driver and both tasks
\* start; the codec is kept without them.
StartAudio(loaded) ==
  /\ mode' = "provisioned"
  /\ config' = loaded
  /\ \E s \in StartCodec(loaded) :
       /\ Started(s)
       /\ stream' \in IF s.codec = None THEN {"absent"} ELSE {"on", "absent"}

Boot ==
  LET selection == Select(builtin', flash.board)
      loaded == Loaded(selection)
  IN  /\ board' = selection.id
      /\ catalog' = LoadedCatalog(selection)
      /\ IF loaded = None
         THEN StartSetup
         ELSE StartRecovery(loaded) \/ StartAudio(loaded)
      /\ restart' = FALSE

\* A board of the user's own is stored only while its id is not a built-in's;
\* a later image may bring one that has it, or drop one that was selected.
Reboot ==
  /\ restart
  /\ builtin' \in Images
  /\ Boot
  /\ UNCHANGED flash

PowerLoss ==
  /\ UNCHANGED <<flash, builtin>>
  /\ Boot

-----------------------------------------------------------------------------
(***************************************************************************)
(* Writes (writes.rs).  "next" is the generation the write would commit.   *)
(***************************************************************************)
Durable == mode # "setup"

Lands(next) == flash' = next
Fails(next) == flash' \in {flash, next}

WithConfig(c) ==
  [flash EXCEPT !.config = c, !.board.id = IF @ = None THEN board ELSE @]
WithProfiles(c) == [flash EXCEPT !.profiles = c]

\* update_configuration.
UpdateLands(c) ==
  /\ IF Durable THEN Lands(WithConfig(c)) ELSE UNCHANGED flash
  /\ config' = c
UpdateFails(c) ==
  /\ Durable /\ Fails(WithConfig(c))
  /\ UNCHANGED config

\* write_configuration_and_profiles: one generation, or the catalog alone.
BothNext(c, cat) == IF Durable THEN [WithConfig(c) EXCEPT !.profiles = cat]
                    ELSE WithProfiles(cat)

BothLand(c, cat) == Lands(BothNext(c, cat)) /\ config' = c /\ catalog' = cat
BothFail(c, cat) == Fails(BothNext(c, cat)) /\ UNCHANGED memory

Accepting == ~restart

-----------------------------------------------------------------------------
(***************************************************************************)
(* Audio settings and profiles.                                            *)
(***************************************************************************)
\* Without a codec the write is all there is, and a restart applies it.
ChangeWithoutCodec(c, cat) ==
  /\ codec = None
  /\ \/ BothLand(c, cat) /\ restart' = TRUE
     \/ BothFail(c, cat) /\ UNCHANGED restart
  /\ UNCHANGED hardware

NeverPaused(outcome) == UNCHANGED stream

\* A change that broke the codec pauses the stream; an output that was active
\* and is closed shows why.
Paused(outcome) ==
  stream' = IF outcome = "broken" /\ stream = "on" THEN "off" ELSE stream

ChangeWithCodec(c, cat) ==
  /\ codec # None
  /\ \E commits \in BOOLEAN : \E r \in ChangeAudio(codec, reg, c.audio, commits) :
       /\ codec' = r.change.codec /\ reg' = r.change.reg
       /\ output' = IF r.outcome # "changed" /\ output.active /\ codec'.route = None
                    THEN Faulted ELSE output
       /\ Paused(r.outcome)
       /\ IF ~r.asked THEN UNCHANGED <<flash, config, catalog>>
          ELSE IF commits THEN BothLand(c, cat)
          ELSE BothFail(c, cat)
  /\ UNCHANGED restart

\* change_audio in handlers/audio.rs.
Change(audio, cat) ==
  LET c == [config EXCEPT !.audio = audio] IN
  ChangeWithoutCodec(c, cat) \/ ChangeWithCodec(c, cat)

SetAudioKeepsProfile(audio) == Change(audio, catalog)

\* Custom settings: no profile is active.
SetAudioTo(audio) == Change(audio, [catalog EXCEPT !.active = None])

SetAudio ==
  /\ Accepting
  /\ \E audio \in AudioOn(B) : SetAudioTo(audio)
  /\ UNCHANGED running

SaveProfiles(cat) ==
  \/ Lands(WithProfiles(cat)) /\ catalog' = cat
  \/ Fails(WithProfiles(cat)) /\ UNCHANGED catalog

SetAudioProfiles ==
  /\ Accepting
  /\ \E of \in [Profiles -> AudioOn(B) \cup {None}] : SaveProfiles(Replaced(of))
  /\ UNCHANGED <<running, config, hardware, restart>>

SetAudioProfile ==
  /\ Accepting
  /\ \E p \in Profiles :
       catalog.of[p] # None /\ Change(catalog.of[p], [catalog EXCEPT !.active = p])
  /\ UNCHANGED running

ClearAudioProfile ==
  /\ Accepting
  /\ SaveProfiles([catalog EXCEPT !.active = None])
  /\ UNCHANGED <<running, config, hardware, restart>>

-----------------------------------------------------------------------------
(***************************************************************************)
(* The other handlers.                                                     *)
(***************************************************************************)
\* SET_ANALOG_PASSTHROUGH: the wish is written first, then the codec follows.
ReconcileOutput(enabled) ==
  IF codec = None
  THEN /\ output' = IF enabled THEN Faulted ELSE Inactive
       /\ UNCHANGED <<codec, reg>>
  ELSE \E r \in Reconcile(output, enabled, config.audio.line, codec, reg) :
         codec' = r.codec /\ reg' = r.reg /\ output' = r.output

SetOutput ==
  /\ Accepting
  /\ \E enabled \in BOOLEAN :
       /\ enabled => B.output # None
       /\ \/ /\ UpdateLands([config EXCEPT !.output = enabled])
             /\ ReconcileOutput(enabled)
          \/ /\ UpdateFails([config EXCEPT !.output = enabled])
             /\ UNCHANGED <<codec, reg, output>>
  /\ UNCHANGED <<running, catalog, stream, restart>>

\* SET_NAME, SET_ADMIN_KEY, SET_FIRMWARE, SET_LED, SET_BUTTON: settings nothing
\* here tells apart, which commit the rest of the configuration with their own.
Rewritten ==
  /\ Accepting
  /\ UpdateLands(config) \/ UpdateFails(config)
  /\ UNCHANGED <<running, catalog, hardware, restart>>

SetName == Rewritten
SetAdminKey == Durable /\ Rewritten
SetFirmware == Rewritten
SetLed == B.leds # << >> /\ Rewritten
SetButton == B.buttons # << >> /\ Rewritten

\* SET_TARGET applies at the next boot.
SetTarget ==
  /\ Accepting
  /\ \/ UpdateLands(config) /\ restart' = TRUE
     \/ UpdateFails(config) /\ UNCHANGED restart
  /\ UNCHANGED <<running, catalog, hardware>>

\* SET_WIFI commits the configuration whatever the mode.
Commission ==
  /\ Accepting
  /\ \/ Lands(WithConfig(config)) /\ restart' = TRUE
     \/ Fails(WithConfig(config)) /\ UNCHANGED restart
  /\ UNCHANGED <<running, memory, hardware>>

\* SET_BOARD drops the profiles and adapts the configuration.
BoardNext(u, c) ==
  [board |-> u, config |-> IF Durable THEN c ELSE None, profiles |-> EmptyCatalog(u.id)]

SetBoard ==
  /\ Accepting
  /\ \E u \in Updates(builtin, Customs) :
       LET c == CompatibleConfig(BoardTable[u.id], config) IN
       \/ /\ Lands(BoardNext(u, c))
          /\ config' = c /\ catalog' = EmptyCatalog(u.id) /\ restart' = TRUE
       \/ Fails(BoardNext(u, c)) /\ UNCHANGED <<memory, restart>>
  /\ UNCHANGED <<running, hardware>>

FactoryReset ==
  /\ Accepting
  /\ \/ Lands(Erased) /\ restart' = TRUE
     \/ Fails(Erased) /\ UNCHANGED restart
  /\ UNCHANGED <<running, memory, hardware>>

SetStream ==
  /\ Accepting /\ stream # "absent"
  /\ stream' \in {"on", "off"}
  /\ UNCHANGED <<flash, running, memory, codec, reg, output, restart>>

RequestRestart ==
  /\ Accepting
  /\ restart' = TRUE
  /\ UNCHANGED <<flash, running, memory, hardware>>

-----------------------------------------------------------------------------
(***************************************************************************)
(* Buttons.  A press hands its action to a worker, unless one is at work;  *)
(* the worker waits for the control lock, gives up once a restart is       *)
(* pending and reads everything it uses after that, so its step is where   *)
(* it has the lock.                                                        *)
(***************************************************************************)
Toggle ==
  /\ stream # "absent"
  /\ stream' = IF stream = "on" THEN "off" ELSE "on"
  /\ UNCHANGED <<flash, running, memory, codec, reg, output, restart>>

\* A press that would change nothing writes nothing.
Step ==
  \E action \in {"cycle_input", "gain_up", "gain_down"} :
    LET audio == Pressed(B, action, config.audio) IN
    audio # config.audio /\ SetAudioTo(audio) /\ UNCHANGED running

\* Both restart at once.
PressedRestart == UNCHANGED <<flash, builtin>> /\ Boot

PressedReset ==
  \/ /\ flash' = Erased /\ UNCHANGED builtin
     /\ board' = DefaultId /\ catalog' = EmptyCatalog(DefaultId)
     /\ StartSetup /\ restart' = FALSE
  \/ Fails(Erased) /\ UNCHANGED <<running, memory, hardware, restart>>

Press == Accepting /\ (Toggle \/ Step \/ PressedRestart \/ PressedReset)

-----------------------------------------------------------------------------
Init ==
  /\ flash = Erased
  /\ builtin \in Images
  /\ board = DefaultId /\ mode = "setup"
  /\ config = Baseline(BoardTable[DefaultId]) /\ catalog = EmptyCatalog(DefaultId)
  /\ codec = None /\ reg = Unknown /\ output = Inactive
  /\ stream = "absent" /\ restart = FALSE

Next ==
  \/ Reboot \/ PowerLoss
  \/ SetAudio \/ SetAudioProfiles \/ SetAudioProfile \/ ClearAudioProfile
  \/ SetOutput \/ SetTarget \/ Commission \/ SetBoard \/ FactoryReset \/ SetStream \/ RequestRestart
  \/ SetName \/ SetAdminKey \/ SetFirmware \/ SetLed \/ SetButton
  \/ Press

Spec == Init /\ [][Next]_vars

-----------------------------------------------------------------------------
(***************************************************************************)
(* Properties.                                                             *)
(***************************************************************************)
\* The codec's input controls are the ones the configuration names.
InputApplied ==
  codec # None => reg.gain = config.audio.gain /\ reg.line = config.audio.line

\* No failure of the bus or of the flash leaves the codec capturing with other
\* settings than the configuration's while the stream is on: a change that
\* cannot be undone pauses the stream.  The user may resume it knowingly.
MixedInputPauses ==
  [][codec # None /\ codec' # None /\ InputApplied /\ ~InputApplied' /\ ~restart' => stream' # "on"]_vars

\* The local output: shown active exactly while the codec has a route; an
\* active output carries the configured input, powered and unmuted; and one
\* left powered without being active is a fault the user is shown.
OutputHonest ==
  codec # None /\ ~restart =>
    /\ output.active <=> codec.route # None
    /\ output.active =>
         /\ codec.route = config.audio.line /\ reg.source = codec.route
         /\ reg.power /\ ~reg.mute
    /\ reg.power => output.active \/ output.fault

\* An active profile is the one whose settings are applied.
ActiveProfileApplied == ActiveAudio(catalog) \in {None, config.audio}

\* No request, press or failed write parts an active profile from the
\* settings in force, as long as the device does not start anew.
StartsAnew == Reboot \/ PowerLoss \/ PressedRestart

ProfileStaysApplied ==
  [][ActiveProfileApplied /\ ~StartsAnew => ActiveProfileApplied']_vars

\* mode.rs, ConfigWrite::Stage: "a staged write still reaches flash", and
\* handlers/audio.rs: in setup mode the values "wait in the configuration".
\* Refuted: the write that stages them also asks for a restart, which
\* forgets them.
StagedSurvives ==
  [][Reboot /\ mode = "setup" /\ board' = board => config'.audio = config.audio]_vars

\* A board that no longer resolves opens setup with the default board, but the
\* commissioning that follows keeps the stored selection.  Refuted where an
\* image that dropped the board is running: the device opens setup again.
CommissioningSticks ==
  [][Reboot /\ builtin' = builtin /\ flash.config # None => mode' # "setup"]_vars
=============================================================================
