---------------------------- MODULE CodecControl ----------------------------
(***************************************************************************)
(* The firmware's audio codec as the control code sees it (codec/,         *)
(* analog_passthrough.rs): registers written one at a time over a bus that *)
(* may fail at any write, and the record the device keeps of what it put   *)
(* there.  An operation is the set of its outcomes.                        *)
(*                                                                         *)
(* A register write that reports an error may have taken effect.  The      *)
(* clock, format and volume registers, which no other operation changes,   *)
(* are left out; registers written one after the other to one end (the two *)
(* channels, the output's mixer and its power) are one register.           *)
(***************************************************************************)
EXTENDS Boards

-----------------------------------------------------------------------------
(***************************************************************************)
(* Register sequences.                                                     *)
(***************************************************************************)
\* After the first k writes a register holds what was last written to it.
Holding(reg, writes, k) ==
  [r \in DOMAIN reg |->
     LET at == {i \in 1..k : writes[i][1] = r}
     IN  IF at = {} THEN reg[r] ELSE writes[Max(at)][2]]

\* Stops at the first error, which may be reported of a write that took effect.
Outcomes(reg, writes) ==
  {[reg |-> Holding(reg, writes, k), ok |-> FALSE] : k \in 0..Len(writes)}
    \cup {[reg |-> Holding(reg, writes, Len(writes)), ok |-> TRUE]}

\* The public gain of 0..100 on nine steps of the amplifier, attenuation in
\* half decibels in an eight-bit register.
GainStep(gain) == (gain * 8) \div 100
GainRegister(gain) == GainStep(gain) * 16 + GainStep(gain)
AttenuationRegister(db) == IF db * 2 > 255 THEN 255 ELSE db * 2

InputControls(audio) ==
  << <<"gain", audio.gain>>, <<"line", audio.line>> >>

Configure(reg, audio) ==
  Outcomes(reg, << <<"mute", TRUE>>, <<"power", FALSE>> >>
                  \o InputControls(audio))

ApplyInput(reg, audio) == Outcomes(reg, InputControls(audio))

ApplyRouted(reg, audio, line) ==
  Outcomes(reg, << <<"mute", TRUE>> >> \o InputControls(audio)
                  \o << <<"source", line>>, <<"mute", FALSE>> >>)

EnableOutput(reg, line) ==
  Outcomes(reg, << <<"mute", TRUE>>, <<"source", line>>, <<"power", TRUE>>, <<"mute", FALSE>> >>)

\* Every write is attempted whatever became of the others.
DisableWrites == [mute |-> TRUE, power |-> FALSE]

DisableOutput(reg) ==
  LET After(done) ==
        [r \in DOMAIN reg |-> IF r \in done THEN DisableWrites[r] ELSE reg[r]]
  IN  {[reg |-> After(done), ok |-> FALSE] : done \in SUBSET DOMAIN DisableWrites}
        \cup {[reg |-> After(DOMAIN DisableWrites), ok |-> TRUE]}

-----------------------------------------------------------------------------
(***************************************************************************)
(* CodecControl: the settings in force and the input line routed to the    *)
(* local output, None when there is no route.                              *)
(***************************************************************************)
Result(codec, reg, ok) == [codec |-> codec, reg |-> reg, ok |-> ok]

\* CodecControl::new.  A codec that does not come up is closed and dropped.
NewCodec(reg, audio) ==
  {IF o.ok THEN Result([audio |-> audio, route |-> None], o.reg, TRUE)
   ELSE Result(None, reg, FALSE) : o \in Configure(reg, audio)}

Enable(codec, reg, line) ==
  {Result(IF o.ok THEN [codec EXCEPT !.route = line] ELSE codec, o.reg, o.ok)
     : o \in EnableOutput(reg, line)}

Disable(codec, reg) ==
  {Result([codec EXCEPT !.route = None], o.reg, o.ok) : o \in DisableOutput(reg)}

RouteNeverMoves(codec, audio) == None

\* A new input line moves an open route along.
RouteForChange(codec, audio) ==
  IF codec.route # None /\ codec.audio.line # audio.line THEN audio.line ELSE None

Apply(codec, reg, audio) ==
  LET route == RouteForChange(codec, audio)
      writes == IF route # None THEN ApplyRouted(reg, audio, route)
                ELSE ApplyInput(reg, audio)
      Done(o) == Result([audio |-> audio,
                         route |-> IF route # None THEN route ELSE codec.route], o.reg, TRUE)
      Closed(o) == {Result(d.codec, d.reg, FALSE) : d \in Disable(codec, o.reg)}
  IN  UNION {IF o.ok THEN {Done(o)}
             ELSE IF codec.route # None THEN Closed(o)
             ELSE {Result(codec, o.reg, FALSE)} : o \in writes}

\* The settings and the route before the change, or no route at all.
RollBack(codec, reg, previous) ==
  LET back == [codec EXCEPT !.audio = previous.audio]
      restored ==
        UNION {IF o.ok /\ previous.route # None THEN Enable(back, o.reg, previous.route)
               ELSE {Result(back, o.reg, o.ok)} : o \in ApplyInput(reg, previous.audio)}
  IN  UNION {IF r.ok THEN {r}
             ELSE {Result(d.codec, d.reg, FALSE) : d \in Disable(back, r.reg)}
             : r \in restored}

(***************************************************************************)
(* CodecControl::change_audio: apply, commit, and roll back when either    *)
(* fails.  "commits" says whether the commit, if it is reached, succeeds.  *)
(***************************************************************************)
ChangeAudio(codec, reg, audio, commits) ==
  UNION {IF a.ok /\ commits THEN {[change |-> a, outcome |-> "changed", asked |-> TRUE]}
         ELSE {[change |-> r, outcome |-> IF r.ok THEN "restored" ELSE "broken",
                asked |-> a.ok] : r \in RollBack(a.codec, a.reg, codec)}
         : a \in Apply(codec, reg, audio)}

-----------------------------------------------------------------------------
(***************************************************************************)
(* AnalogPassthroughState: what the device shows of the local output.      *)
(***************************************************************************)
Inactive == [active |-> FALSE, fault |-> FALSE]
Faulted == [active |-> FALSE, fault |-> TRUE]
Active == [active |-> TRUE, fault |-> FALSE]

Reconciled(output, result) == [output |-> output, codec |-> result.codec, reg |-> result.reg]

\* Enabling an active output changes nothing; a failed enable closes it.
Reconcile(output, enabled, line, codec, reg) ==
  IF ~enabled
    THEN {Reconciled(IF d.ok THEN Inactive ELSE Faulted, d) : d \in Disable(codec, reg)}
  ELSE IF output.active
    THEN {Reconciled(output, Result(codec, reg, TRUE))}
  ELSE UNION {IF e.ok THEN {Reconciled(Active, e)}
              ELSE {Reconciled(Faulted, d) : d \in Disable(e.codec, e.reg)}
              : e \in Enable(codec, reg, line)}
=============================================================================
