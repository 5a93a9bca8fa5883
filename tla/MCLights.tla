------------------------------ MODULE MCLights ------------------------------
(* Colours, flashes and devices, for model checking. *)
EXTENDS Lights

Grey(b) == [p \in Part |-> b]

\* Colours of the LED that share a component, and greys about where the bits of the
\* display's brightness change.
Amber == [red |-> 255, green |-> 128, blue |-> 0]
AmberAndRed == {Amber, [red |-> 255, green |-> 0, blue |-> 0]}
Greys == {Grey(b) : b \in {0, 15, 16, 67, 68, 254, 255}}

\* Blinking not, evenly and unevenly.
Blinking == {[mode |-> "NONE", onMs |-> 0, offMs |-> 0],
             [mode |-> "TIMED", onMs |-> 1, offMs |-> 1],
             [mode |-> "TIMED", onMs |-> 1, offMs |-> 2]}

\* The LED and the backlight share nothing: each has its own behaviours.
LedsAndDisplays ==
    [rgb : BOOLEAN, lcd_max : {255}, persistence : {FALSE},
     used : {{"BATTERY", "NOTIFICATIONS"}}]
      \cup [rgb : {FALSE}, lcd_max : {255, 1023, 4095}, persistence : BOOLEAN,
            used : {{"BACKLIGHT"}}]

=============================================================================
