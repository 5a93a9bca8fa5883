------------------------------ MODULE PowerHal ------------------------------
(***************************************************************************)
(* The power HAL from its start: the init thread (Power::Power, and        *)
(* InitializeHAL of hardware/power/Hints.cpp) loads the configuration of   *)
(* the power modes (XmlConfig) and sets the first of them; hints, and the  *)
(* power server's locks, set others (PowerMode).  What the parses left in  *)
(* rqb is what goes to the driver.                                         *)
(***************************************************************************)
EXTENDS PowerMode

CONSTANT Starter    \* the thread of PowerMode that stands for the init thread

ASSUME StarterAssumption == Starter \in Thread /\ Balanced \in Asks[Starter]

VARIABLES
    hal,        \* where the init thread is: loading, starting, or done: running
    thermal     \* the maximum of CPUs that the driver has for its thermal limit

HalInit == Init /\ XInit /\ hal = "loading" /\ thermal = Kernel

Load == hal = "loading" /\ XNext /\ UNCHANGED <<vars, hal, thermal>>

\* Whether all parses succeeded is not asked: init_all_rqb_params returns a bool,
\* which is never below 0.
SetFirst ==
    /\ hal = "loading" /\ Loaded
    /\ LET max == rqb[Balanced]["max_cpus"] IN thermal' = IF max = <<>> THEN thermal ELSE max
    /\ SetPowerMode(Starter) /\ rqparm'[Starter] = Balanced
    /\ hal' = "starting"
    /\ UNCHANGED xvars

Starting ==
    /\ hal = "starting"
    /\ \/ Write(Starter) /\ UNCHANGED hal
       \/ Return(Starter) /\ hal' = "running"
    /\ UNCHANGED <<xvars, thermal>>

Running == hal = "running" /\ Next /\ UNCHANGED <<xvars, hal, thermal>>

HalNext == Load \/ SetFirst \/ Starting \/ Running

HalSpec == HalInit /\ [][HalNext]_<<vars, xvars, hal, thermal>>

-----------------------------------------------------------------------------
\* The parameters a call for mode m is to set: none when its parse failed, or else those
\* the file declares, as far as ConfigAsWritten promises them, or else those found.
Meant(m) ==
    LET n == CHOOSE n \in DOMAIN Modes : Modes[n] = m
    IN  CASE result[n] # 0 -> Zero
          [] result[n] = 0 /\ Sound(n) -> Declared(m)
          [] OTHER -> rqb[m]

\* A call that overlapped no other leaves the driver with the parameters that the file
\* gives its mode, whatever mixture it found: that the driver refuses one of the two
\* limits of the CPUs is made good by the second try (set_cpu), that the parse of a mode
\* fails or finds nothing leaves the driver as it is.  The thermal limit stays the one
\* of the balanced mode.
LoneCallApplies ==
    /\ AtRest /\ lone => Applied(Meant(cur_pwrmode))
    /\ LET max == Meant(Balanced)["max_cpus"] IN
          hal # "loading" /\ max # <<>> => thermal = max

-----------------------------------------------------------------------------
\* Not so in this code (README, 6): when no call is in progress the driver has the
\* parameters of one mode ("Writes power configuration to the RQBalance driver").
OneMode == AtRest /\ hal # "loading" => Applied(Meant(cur_pwrmode))

=============================================================================
