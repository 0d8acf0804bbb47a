-------------------------- MODULE MCDeviceControl ---------------------------
(* Wishes: on and off, two colours that tell the LEDs apart, and none.       *)
EXTENDS DeviceControl

MCKind == {"shelly_2pm_plus", "shelly_25", "shelly_rgbw"}

MCWish == [{"status"} -> Value] \cup [{"shutter_status"} -> Value]
          \cup {[f \in Colours |-> IF f = "r" THEN 1 ELSE 0],
                [f \in Colours |-> IF f \in {"g", "b"} THEN 1 ELSE 0],
                [f \in {} |-> 0]}
=============================================================================
