---------------------------- MODULE CommandParser ----------------------------
(***************************************************************************)
(* What the bridge makes of a user's command: which properties of the      *)
(* actuator its order sets (src/src/command_parser.rs, dispatched by       *)
(* handle_volatile_command in src/src/dhtmanager.rs).  A command names a   *)
(* source, and its wish gives the fields of the source their values; the   *)
(* connection of the source names the actuator and a channel.  A raw        *)
(* command names the actuator itself, and its wish the properties.          *)
(***************************************************************************)
EXTENDS DeviceStatus

\* (Mutant: the channels of the LEDs counted from 0.)
LedChannelFromZero(c) == IF c \in 0..3 THEN Colour(c + 1) ELSE "r"

\* A channel that no LED has is taken for red.
LedChannel(c) == IF c \in 1..4 THEN Colour(c) ELSE "r"

TurnCommand(c, wish)    == [p \in {Output(c)} |-> wish["status"]]
ShutterCommand(wish)    == [p \in {Shutter} |-> wish["shutter_status"]]
RgbwCommand(wish)       == [p \in {Led(f) : f \in Colours} |-> wish[p[2]]]
DimCommand(a, c, wish)  ==
    [p \in (CASE a = "shelly_dimmer" -> {Dimmer}
              [] a = "shelly_rgbw"   -> {Led(LedChannel(c))}
              [] OTHER               -> {}) |-> wish["status"]]

\* What the parser needs of a wish; without it, it panics.
Needed(command) == CASE command = "shutter_command" -> {"shutter_status"}
                     [] command = "dim_command"     -> {"status"}
                     [] command = "rgbw_command"    -> Colours
                     [] OTHER                       -> {}

Legible(command, wish) == Needed(command) \subseteq DOMAIN wish

\* A turn_command that does not say which state it wants asks for off.
AsRead(command, wish) ==
    IF command = "turn_command" /\ "status" \notin DOMAIN wish
    THEN [f \in {"status"} |-> 0] ELSE wish

\* The properties the order for a readable command sets, and their values; none
\* if no order comes of it.
Parsed(command, a, c, wish) ==
    CASE command = "turn_command"    -> TurnCommand(c, wish)
      [] command = "shutter_command" -> ShutterCommand(wish)
      [] command = "dim_command"     -> DimCommand(a, c, wish)
      [] command = "rgbw_command"    -> RgbwCommand(wish)
      [] command = "shelly_actuator_command" -> wish
      [] OTHER                       -> [p \in {} |-> 0]

\* The command a user interface gives to a source; none for what only reports.
CommandFor(source) ==
    CASE source \in Switches            -> "turn_command"
      [] source \in Shutters            -> "shutter_command"
      [] source = "domo_light_dimmable" -> "dim_command"
      [] source = "domo_rgbw_light"     -> "rgbw_command"
      [] OTHER                          -> "none"
=============================================================================
