---------------------------- MODULE DeviceStatus ----------------------------
(***************************************************************************)
(* What the bridge makes of the status of an actuator: which of its        *)
(* properties it copies to the topic of a source (a light, a shutter, a    *)
(* button) connected to it, and which mode its connections call for        *)
(* (get_topic_from_actuator_topic and calculate_mode in src/src/main.rs).  *)
(*                                                                         *)
(* A property is a name with a channel.  Power and energy are left out.    *)
(***************************************************************************)
EXTENDS Naturals

Output(c) == <<"output", c>>
Input(c)  == <<"input", c>>
Led(f)    == <<"rgbw_status", f>>
Shutter   == <<"shutter_status", 0>>
Dimmer    == <<"dimmer_status", 0>>

Colours == {"r", "g", "b", "w"}
Colour(c) == CASE c = 1 -> "r" [] c = 2 -> "g" [] c = 3 -> "b" [] c = 4 -> "w"

-----------------------------------------------------------------------------
TwoRelay == {"shelly_25", "shelly_2pm_plus"}
Esp32    == {"shelly_1plus", "shelly_1pm_plus", "shelly_2pm_plus"}

Switches  == {"domo_light", "domo_siren", "domo_switch", "domo_floor_valve"}
Shutters  == {"domo_roller_shutter", "domo_garage_gate"}
Detectors == {"domo_pir_sensor", "domo_radar_sensor", "domo_button", "domo_bistable_button"}
Openings  == {"domo_window_sensor", "domo_door_sensor"}

\* The fields of a source topic and the property each is a copy of, for a
\* source connected to channel c of an actuator.
Mirror(source, actuator, c) ==
    CASE source \in Switches -> [f \in {"status"} |-> Output(c)]
      [] source \in Shutters -> [f \in {"shutter_status"} |-> Shutter]
      [] source \in Detectors \cup Openings -> [f \in {"status"} |-> Input(c)]
      [] source = "domo_rgbw_light" -> [f \in Colours |-> Led(f)]
      [] source = "domo_light_dimmable" /\ actuator = "shelly_dimmer" ->
            [f \in {"status"} |-> Dimmer]
      [] source = "domo_light_dimmable" /\ actuator = "shelly_rgbw" /\ c \in 1..4 ->
            [f \in {"status"} |-> Led(Colour(c))]
      [] OTHER -> [f \in {} |-> Dimmer]

\* A detector follows only reports that name its input as updated.
Takes(source, c, updated) == source \in Detectors => Input(c) \in updated

-----------------------------------------------------------------------------
\* 0 relay, 1 shutter, 2 dimmer, 3 RGBW, 4 dimmer of single LEDs; sources are
\* those with an output connection to the actuator.
CalculateMode(actuator, sources) ==
    CASE actuator \in TwoRelay /\ sources \cap Shutters # {}          -> 1
      [] actuator = "shelly_dimmer"                                   -> 2
      [] actuator = "shelly_rgbw" /\ "domo_rgbw_light" \in sources    -> 3
      [] actuator = "shelly_rgbw" /\ "domo_rgbw_light" \notin sources -> 4
      [] OTHER                                                        -> 0
=============================================================================
