------------------------------- MODULE Lights -------------------------------
(***************************************************************************)
(* The light service (hardware/liblights/Light.cpp): the backlight of the  *)
(* display, and one LED of three colours for the battery and for           *)
(* notifications.  A call is carried out by one thread, from its begin to  *)
(* its end (service.cpp has a pool of one), and is a series of writes to   *)
(* nodes of sysfs, any of which may fail, unnoticed by the caller.  init   *)
(* starts the service again when it dies; the nodes keep their values.     *)
(*                                                                         *)
(* Outside src/: the drivers.  A component blinks from a write to its      *)
(* blink on until its brightness is written, and all blink together while  *)
(* rgb_blink, where there is one, says so.                                 *)
(***************************************************************************)
EXTENDS Integers, Sequences

CONSTANTS
    LedColors, LcdColors,  \* the colours asked for: records of red, green, blue
    Flashes,               \* how the LED is to blink: [mode, onMs, offMs]
    Devices,               \* the builds, and who uses them (DeviceAssumption)
    MaxFaults              \* nodes that fail and deaths of the service, a bound

Part == {"red", "green", "blue"}
Light == {"BACKLIGHT", "BATTERY", "NOTIFICATIONS"}
Brightness == {"USER", "SENSOR", "LOW_PERSISTENCE"}

\* rgb: there is an rgb_blink; lcd_max: what LCD_MAX_FILE says; persistence:
\* LOW_PERSISTENCE_DISPLAY is defined; used: the lights asked for, a bound.
ASSUME DeviceAssumption ==
    /\ Devices \subseteq [rgb : BOOLEAN, lcd_max : Nat, persistence : BOOLEAN, used : SUBSET Light]
    /\ MaxFaults \in Nat
ASSUME FlashAssumption ==
    Flashes \subseteq [mode : {"NONE", "TIMED", "HARDWARE"}, onMs : Int, offMs : Int]
ASSUME ColorAssumption == LedColors \cup LcdColors \subseteq [Part -> 0..255]

\* LightState: of the LED, and of the backlight.
Unlit == [color |-> [p \in Part |-> 0],
          flash |-> [mode |-> "NONE", onMs |-> 0, offMs |-> 0]]
LedState == {Unlit} \cup [color : LedColors, flash : Flashes]
LcdState == [color : LcdColors, mode : Brightness]

Unset == <<>>
PERSISTENCE_FILE == <<"display", "persistence">>
LCD_FILE == <<"lcd", "brightness">>
RGB_BLINK_FILE == <<"rgb", "blink">>
Node == {PERSISTENCE_FILE, LCD_FILE, RGB_BLINK_FILE}
            \cup (Part \X {"brightness", "duty_pcts", "pause_lo", "pause_hi", "blink"})

\* The device a node is of.
Unit(n) == IF n \in {PERSISTENCE_FILE, LCD_FILE} THEN "lcd" ELSE "led"

VARIABLES
    device,           \* the device of this behaviour
    node,             \* the nodes of sysfs
    batteryState, notificationState,
    g_last_backlight_mode,
    todo,             \* the writes that the call in progress has left
    request,          \* history: the last request for each light since the start
    failed,           \* history: the units whose last call had a node fail
    told,             \* history: the display was in no mode when the service started,
                      \* and has taken every write of its mode
    before,           \* history: the brightness asked for before the last one and what
                      \* it led to, if that was heard
    faults            \* how many so far

vars == <<device, node, batteryState, notificationState, g_last_backlight_mode, todo,
          request, failed, told, before, faults>>

-----------------------------------------------------------------------------
\* isLit.
isLit(state) == \E p \in Part : state.color[p] # 0

\* rgbToBrightness.
rgbToBrightness(c) == (77 * c["red"] + 150 * c["green"] + 29 * c["blue"]) \div 256

\* openHal: backlight_bits - 8.
ExtraBits == CASE device.lcd_max = 4095 -> 4 [] device.lcd_max = 1023 -> 2 [] OTHER -> 0

\* x | y, for numbers of 12 bits.
Or(x, y) ==
    LET Bit(w) == IF (x \div w) % 2 = 1 \/ (y \div w) % 2 = 1 THEN w ELSE 0
    IN Bit(1) + Bit(2) + Bit(4) + Bit(8) + Bit(16) + Bit(32) + Bit(64) + Bit(128)
         + Bit(256) + Bit(512) + Bit(1024) + Bit(2048)

\* Mutant: the low bits are filled as those of ten bits are.
Scaled_TwoBits(b) ==
    IF ExtraBits = 0 THEN b ELSE Or(b * 2 ^ ExtraBits, b \div 4)

\* The brightness the display's driver is given.
Scaled(b) == IF ExtraBits = 0 THEN b ELSE Or(b * 2 ^ ExtraBits, b \div 2 ^ ExtraBits)

\* getScaledDutyPcts.
Ramp == <<0, 14, 28, 42, 56, 70, 84, 100>>
getScaledDutyPcts(b) ==
    IF b = 0 THEN <<0>> ELSE [i \in DOMAIN Ramp |-> (Ramp[i] * b) \div 255]

\* A write, and what its failure leads to: it may be ignored, end the call, or have
\* another node written.
W(n, v) == [node |-> n, value |-> v, onFail |-> "ignore"]
WOr(n, v, else) == [node |-> n, value |-> v, onFail |-> else]

\* For each of the components in turn.
EachPart(writes) == writes["red"] \o writes["green"] \o writes["blue"]

Blinks(state) == state.flash.mode = "TIMED" /\ state.flash.onMs > 0 /\ state.flash.offMs > 0

\* isRgbSyncAvailable: a node that cannot be opened is taken for one that is not there.
Found == IF device.rgb THEN BOOLEAN ELSE {FALSE}

StopBlink(found) == IF found THEN <<W(RGB_BLINK_FILE, 0)>> ELSE <<>>

\* setSpeakerLightLocked, by what it finds of rgb_blink before it stops the blinking and,
\* if the LED is to blink, before it starts it.
SpeakerWrites(state, first, second) ==
    LET on == state.flash.onMs
        off == state.flash.offMs
        Steady == [p \in Part |-> <<W(<<p, "brightness">>, state.color[p])>>]
        Duty == [p \in Part |-> <<W(<<p, "duty_pcts">>, getScaledDutyPcts(state.color[p]))>>]
        Low == [p \in Part |-> <<W(<<p, "pause_lo">>, off)>>]
        High == [p \in Part |-> <<W(<<p, "pause_hi">>, on)>>]
        Blink == [p \in Part |->
                     IF state.color[p] = 0 THEN <<>>
                     ELSE <<WOr(<<p, "blink">>, IF on = off THEN 2 ELSE 1, "off")>>]
    IN StopBlink(first) \o
       IF ~Blinks(state) THEN EachPart(Steady)
       ELSE IF second
       THEN EachPart(Duty) \o EachPart(Low) \o EachPart(High) \o <<W(RGB_BLINK_FILE, 1)>>
       ELSE EachPart(Blink)

\* Mutant: a notification comes before the battery.
Shown_Notification(battery, notification) ==
    IF isLit(notification) THEN notification ELSE battery

\* The state that comes first.
Shown(battery, notification) == IF isLit(battery) THEN battery ELSE notification

-----------------------------------------------------------------------------
AtRest == todo = <<>>

\* The bound on faults.
Fault == faults < MaxFaults /\ faults' = faults + 1

\* handleSpeakerBatteryLocked.
handleSpeakerBatteryLocked(battery, notification) ==
    LET state == Shown(battery, notification) IN
    \E first, second \in Found :
        /\ second = first \/ Blinks(state)
        /\ todo' = SpeakerWrites(state, first, second)
        /\ IF device.rgb /\ {first, second} # {TRUE}
           THEN Fault /\ failed' = failed \cup {"led"}
           ELSE UNCHANGED faults /\ failed' = failed \ {"led"}

Called(light, state) ==
    /\ light \in device.used
    /\ request' = [l \in DOMAIN request \cup {light} |-> IF l = light THEN state ELSE request[l]]
    /\ UNCHANGED <<device, node>>

setLightBattery(state) ==
    /\ AtRest /\ Called("BATTERY", state)
    /\ batteryState' = state
    /\ handleSpeakerBatteryLocked(state, notificationState)
    /\ UNCHANGED <<notificationState, g_last_backlight_mode, told, before>>

setLightNotifications(state) ==
    /\ AtRest /\ Called("NOTIFICATIONS", state)
    /\ notificationState' = state
    /\ handleSpeakerBatteryLocked(batteryState, state)
    /\ UNCHANGED <<batteryState, g_last_backlight_mode, told, before>>

\* The display has to be told about the mode of the request.
Switches(mode) ==
    /\ device.persistence
    /\ \/ mode = "LOW_PERSISTENCE" /\ g_last_backlight_mode # mode
       \/ mode # "LOW_PERSISTENCE" /\ g_last_backlight_mode = "LOW_PERSISTENCE"

\* Mutant: the mode is not remembered.
Remembered_Not(mode) == g_last_backlight_mode

\* The mode is remembered whether the display takes it or not.
Remembered(mode) == IF device.persistence THEN mode ELSE g_last_backlight_mode

\* The property that has the brightness of a display that enters the mode.
LpBrightness == 255

\* The brightness the display is to have.
Target(state) ==
    IF Switches(state.mode) /\ state.mode = "LOW_PERSISTENCE" THEN LpBrightness
    ELSE rgbToBrightness(state.color)

setLightBacklight(state) ==
    /\ AtRest /\ Called("BACKLIGHT", state)
    /\ LET lcd == W(LCD_FILE, Scaled(Target(state)))
           persist == WOr(PERSISTENCE_FILE, IF state.mode = "LOW_PERSISTENCE" THEN 1 ELSE 0,
                          "return")
       IN todo' = IF Switches(state.mode) THEN <<persist, lcd>> ELSE <<lcd>>
    /\ g_last_backlight_mode' = Remembered(state.mode)
    /\ before' = IF "BACKLIGHT" \in DOMAIN request /\ "lcd" \notin failed
                 THEN {[asked |-> rgbToBrightness(request["BACKLIGHT"].color), lcd |-> node[LCD_FILE]]}
                 ELSE {}
    /\ failed' = failed \ {"lcd"}
    /\ UNCHANGED <<batteryState, notificationState, told, faults>>

-----------------------------------------------------------------------------
\* What the driver makes of a write: a steady brightness ends the blinking.
Written(n, v) ==
    [m \in Node |-> CASE m = n -> v
                      [] n[2] = "brightness" /\ n[1] \in Part /\ m = <<n[1], "blink">> -> 0
                      [] OTHER -> node[m]]

\* writeInt or writeStr of the next node.
Write ==
    /\ ~AtRest
    /\ node' = Written(Head(todo).node, Head(todo).value)
    /\ todo' = Tail(todo)
    /\ UNCHANGED <<device, batteryState, notificationState, g_last_backlight_mode, request,
                   failed, told, before, faults>>

\* The node could not be opened, or it was and refuses the value: then 0 is returned all
\* the same, and nothing follows.
WriteFails ==
    /\ ~AtRest /\ Fault
    /\ LET w == Head(todo) IN
       /\ \/ todo' = Tail(todo)
          \/ /\ w.onFail = "off"
             /\ todo' = <<W(<<w.node[1], "brightness">>, 0)>> \o Tail(todo)
          \/ w.onFail = "return" /\ todo' = <<>>
       /\ told' = (told /\ w.node # PERSISTENCE_FILE)
       /\ failed' = failed \cup {Unit(w.node)}
    /\ UNCHANGED <<device, node, batteryState, notificationState, g_last_backlight_mode,
                   request, before>>

\* The states of the LED are not initialized (of no matter where the LED is not used).
Leftover == IF device.used \cap {"BATTERY", "NOTIFICATIONS"} = {} THEN {Unlit} ELSE LedState

\* The service starts.
Init ==
    /\ device \in Devices
    /\ node = [n \in Node |-> IF n[2] = "duty_pcts" THEN <<0>> ELSE 0]
    /\ batteryState \in Leftover /\ notificationState \in Leftover
    /\ g_last_backlight_mode = "USER"
    /\ todo = <<>>
    /\ request = Unset
    /\ failed = {} /\ told = TRUE
    /\ before = {} /\ faults = 0

\* It dies at any time and is started again.
Die ==
    /\ Fault
    /\ batteryState' \in Leftover /\ notificationState' \in Leftover
    /\ g_last_backlight_mode' = "USER"
    /\ todo' = <<>>
    /\ request' = Unset
    /\ failed' = {} /\ told' = (node[PERSISTENCE_FILE] = 0)
    /\ before' = {}
    /\ UNCHANGED <<device, node>>

Next ==
    \/ \E s \in LedState : setLightBattery(s) \/ setLightNotifications(s)
    \/ \E s \in LcdState : setLightBacklight(s)
    \/ Write \/ WriteFails \/ Die

Spec == Init /\ [][Next]_vars

-----------------------------------------------------------------------------
\* What the component p of the LED does.
Lamp(p) ==
    IF device.rgb /\ node[RGB_BLINK_FILE] = 1
    THEN <<"duty", node[<<p, "duty_pcts">>], node[<<p, "pause_lo">>], node[<<p, "pause_hi">>]>>
    ELSE IF node[<<p, "blink">>] # 0 THEN <<"blink", node[<<p, "blink">>]>>
    ELSE <<"steady", node[<<p, "brightness">>]>>

\* What it does for a state.
Wanted(state, p) ==
    CASE Blinks(state) /\ device.rgb ->
            <<"duty", getScaledDutyPcts(state.color[p]), state.flash.offMs, state.flash.onMs>>
      [] Blinks(state) /\ ~device.rgb ->
            <<"blink", IF state.flash.onMs = state.flash.offMs THEN 2 ELSE 1>>
      [] OTHER -> <<"steady", state.color[p]>>

\* When no node fails in a call the LED shows the last request for the battery, and that
\* for notifications when the battery asks for no light: whatever it did before, nodes
\* that failed and a start of the service among it, once both have been asked for.
\* (Without rgb_blink a component that is not to blink is left alone.)
LedShowsPriority ==
    AtRest /\ "led" \notin failed /\ {"BATTERY", "NOTIFICATIONS"} \subseteq DOMAIN request =>
        LET state == IF isLit(request["BATTERY"]) THEN request["BATTERY"]
                     ELSE request["NOTIFICATIONS"]
        IN \A p \in Part : \/ Lamp(p) = Wanted(state, p)
                           \/ ~device.rgb /\ Blinks(state) /\ state.color[p] = 0

\* The display is in low persistence mode when the last request was one, as long as it
\* was in no mode when the service started and has taken every write of its mode: what
\* is written at changes only (Light.cpp:205-207) is right after any series of requests.
PersistenceFollows ==
    AtRest /\ device.persistence /\ told /\ "BACKLIGHT" \in DOMAIN request =>
        (node[PERSISTENCE_FILE] = 1 <=> request["BACKLIGHT"].mode = "LOW_PERSISTENCE")

\* A brighter request never gives a darker display, and all of its brightness is used:
\* for displays of 8 and of 12 bits, of a build without persistence.
BrighterIsBrighter ==
    AtRest /\ "BACKLIGHT" \in DOMAIN request /\ "lcd" \notin failed
      /\ device.lcd_max # 1023 /\ ~device.persistence =>
        LET asked == rgbToBrightness(request["BACKLIGHT"].color)
            lcd == node[LCD_FILE]
        IN /\ asked = 255 <=> lcd = device.lcd_max
           /\ \A b \in before : b.asked <= asked => b.lcd <= lcd

=============================================================================
