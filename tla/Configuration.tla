---------------------------- MODULE Configuration ----------------------------
(***************************************************************************)
(* The rules a configuration is written by (firmware config.rs,            *)
(* recovery.rs, and the formats of transport.rs and hex.rs): what a staged *)
(* and what a durable one satisfies, the fields each form replaces, what a *)
(* board makes of one, and the shapes of keys.  All of it is functions.    *)
(*                                                                         *)
(* A text is its length and the marks some rule looks for: a NUL, a colon  *)
(* or slash, an upper-case hex digit, another character that is no hex     *)
(* digit.                                                                  *)
(***************************************************************************)
EXTENDS Boards

Text(n, marks) == [len |-> n, has |-> marks]
Blank == Text(0, {})

MinPort == 1
DefaultPort == 39000
MaxNameChars == 32
AdminKeyChars == 48
ContractVersion == 1

-----------------------------------------------------------------------------
(***************************************************************************)
(* Keys.  A character of a hex text is the value of its digit, or BadDigit *)
(* for any other, an upper-case one among them.                            *)
(***************************************************************************)
BadDigit == 16
PskBytes == 32
IdBytes == 16

Encoded(bytes) ==
  [i \in 1 .. 2 * Len(bytes) |->
     IF i % 2 = 1 THEN bytes[(i + 1) \div 2] \div 16 ELSE bytes[i \div 2] % 16]

AllDigits(text) == \A i \in DOMAIN text : text[i] # BadDigit

\* decode_hex: the one rendering of a secret; <<>> when it is refused.
DecodedHex(text) ==
  IF Len(text) = 2 * PskBytes /\ AllDigits(text)
  THEN [i \in 1 .. PskBytes |-> 16 * text[2 * i - 1] + text[2 * i]]
  ELSE << >>

\* valid_key_id: an id is its prefix and the text after it.
KeyPrefix == "eli1-"
KeyIdValid(id) ==
  id.prefix = KeyPrefix /\ Len(id.text) = 2 * IdBytes /\ AllDigits(id.text)

\* The id TransportKeys::stage makes of random bytes.
GeneratedId(random) == [prefix |-> KeyPrefix, text |-> Encoded(random)]

-----------------------------------------------------------------------------
(***************************************************************************)
(* The rules.                                                              *)
(***************************************************************************)
AdminKeyCanonical(key) == key.len = AdminKeyChars /\ key.has = {}

\* The stream target's own rules; a blank host is no bridge yet.
TargetValid(c) == "separator" \notin c.host.has /\ c.port >= MinPort

NetworkValid(c) ==
  /\ c.ssid.len \in 1 .. 32 /\ "nul" \notin c.ssid.has
  /\ TargetValid(c)

PasswordValid(password) ==
  /\ "nul" \notin password.has
  /\ \/ password.len \in 8 .. 63
     \/ password.len = 64 /\ password.has \subseteq {"upper"}

\* TransportSettings::validate, of slots TransportKeys' Valid accepts.
TransportValid(t) == t.version = ContractVersion /\ (t.mode = "tls-psk" => t.active)

Ids(parts) == {parts[i].id : i \in DOMAIN parts}

\* validate_device_settings.
DeviceSettingsValid(c, b) ==
  /\ c.name.len <= MaxNameChars
  /\ TransportValid(c.transport)
  /\ AudioValid(b, c.audio)
  /\ c.output => b.output # None
  /\ DOMAIN c.ledRoles \subseteq Ids(b.leds)
  /\ DOMAIN c.buttonActions \subseteq Ids(b.buttons)

\* RuntimeConfig::validate.
DurableValid(c, b) ==
  /\ NetworkValid(c)
  /\ PasswordValid(c.password)
  /\ AdminKeyCanonical(c.adminKey)
  /\ DeviceSettingsValid(c, b)

\* validate_staged: what commissioning does not supply.
StagedValid(c, b) == TargetValid(c) /\ DeviceSettingsValid(c, b)

-----------------------------------------------------------------------------
(***************************************************************************)
(* The writes.  A form's field is a sequence of none or one value where it *)
(* may be absent; a host is what is left of it once it is trimmed.         *)
(***************************************************************************)
SetupBaseline(b) ==
  [ssid |-> Blank, password |-> Blank, host |-> Blank, port |-> DefaultPort,
   transport |-> [version |-> ContractVersion, mode |-> "cleartext", active |-> FALSE],
   adminKey |-> Blank, name |-> Blank, schedule |-> "daily",
   audio |-> [line |-> DefaultLine(b), gain |-> 0], output |-> FALSE,
   ledRoles |-> << >>, buttonActions |-> << >>]

Given(field, else) == IF field = << >> THEN else ELSE field[1]
Filling(text, else) == IF text = Blank THEN else ELSE text

\* update_target, apart from the verification it voids.
TargetUpdated(c, host, port) ==
  [c EXCEPT !.host = Given(host, @), !.port = Given(port, @)]

\* replace_wifi: a secret left blank is kept, and so is an absent target.
WifiReplaced(c, form) ==
  TargetUpdated(
    [c EXCEPT !.ssid = form.ssid, !.password = Filling(form.password, @),
              !.adminKey = Filling(form.adminKey, @)],
    form.host, form.port)

\* with_board_compatible_with.
RestrictedTo(map, ids) == [id \in DOMAIN map \cap ids |-> map[id]]

BoardCompatible(c, b) ==
  [CompatibleConfig(b, c) EXCEPT !.ledRoles = RestrictedTo(@, Ids(b.leds)),
                                 !.buttonActions = RestrictedTo(@, Ids(b.buttons))]

\* The user's assignment, or the descriptor's.
Assigned(map, part, default) == IF part.id \in DOMAIN map THEN map[part.id] ELSE default
LedRole(c, led) == Assigned(c.ledRoles, led, led.role)
ButtonAction(c, button) == Assigned(c.buttonActions, button, button.action)

ShowsStatusIndicator(c, b) == \E i \in DOMAIN b.leds : LedRole(c, b.leds[i]) = "status"
=============================================================================
