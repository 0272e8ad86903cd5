------------------------------ MODULE BcmPortAsic ------------------------------
(***************************************************************************)
(* What a BcmPort promises its caller (the BcmSwitch state-delta code) of  *)
(* the ASIC port, one call at a time: enable(swPort) turns the port on at  *)
(* swPort's desired speed and ingress VLAN and starts stat collection;     *)
(* disable(swPort) turns it and stat collection off and changes nothing    *)
(* else; program(swPort) sets the speed and ingress VLAN and records       *)
(* swPort as the programmed settings; stat collection can also be turned  *)
(* on or off by itself.  A call that throws has set only the *)
(* ingress VLAN (and, from enable, started stat collection) and takes the  *)
(* agent down; the agent then restarts cold, on a re-initialised ASIC,    *)
(* with the port disabled and nothing programmed.  Stats, link events     *)
(* and config changes leave this view unchanged.                          *)
(***************************************************************************)
CONSTANTS
    Ports,          \* the Port nodes the caller can pass
    Speeds,         \* the speeds the ASIC port can run at
    Vlans,          \* VLAN IDs
    NoSettings,     \* programmedSettings_ before the first program
    DesiredSpeed(_) \* the speed a Port node asks for

VARIABLES
    enabled,        \* the ASIC port is enabled
    speed,          \* its speed
    ingressVlan,    \* its untagged (ingress) VLAN
    collecting,     \* stat collection is on
    programmed,     \* the Port node last programmed, or NoSettings
    down            \* the agent process is down

avars == <<enabled, speed, ingressVlan, collecting, programmed, down>>

AInit ==
    /\ enabled \in BOOLEAN
    /\ speed \in Speeds
    /\ ingressVlan \in Vlans
    /\ collecting = FALSE
    /\ programmed = NoSettings
    /\ down = FALSE

\* Settings of p written to the ASIC port.
Configure(p) ==
    /\ speed' = DesiredSpeed(p)
    /\ ingressVlan' = p.ingressVlan
    /\ programmed' = p

AEnable(p) ==
    /\ ~down /\ ~enabled
    /\ enabled' = TRUE
    /\ collecting' = TRUE
    /\ Configure(p)
    /\ UNCHANGED down

ADisable ==
    /\ ~down /\ enabled
    /\ enabled' = FALSE
    /\ collecting' = FALSE
    /\ UNCHANGED <<speed, ingressVlan, programmed, down>>

AProgram(p) ==
    /\ ~down
    /\ Configure(p)
    /\ UNCHANGED <<enabled, collecting, down>>

\* Stat collection switched on or off by itself.
ACollect ==
    /\ ~down
    /\ collecting' \in BOOLEAN
    /\ UNCHANGED <<enabled, speed, ingressVlan, programmed, down>>

\* enable (on a disabled port) or program throwing part way.
AFail(p) ==
    /\ ~down
    /\ ingressVlan' = p.ingressVlan
    /\ collecting' \in {collecting, ~enabled \/ collecting}
    /\ down' = TRUE
    /\ UNCHANGED <<enabled, speed, programmed>>

\* Any other crash, and the cold restart after one.
ACrash == ~down /\ down' = TRUE /\ UNCHANGED <<enabled, speed, ingressVlan, collecting, programmed>>

ARestart ==
    /\ down
    /\ enabled' = FALSE /\ collecting' = FALSE /\ programmed' = NoSettings /\ down' = FALSE
    /\ speed' \in Speeds /\ ingressVlan' \in Vlans

ANext == \E p \in Ports : AEnable(p) \/ ADisable \/ AProgram(p) \/ ACollect \/ AFail(p) \/ ACrash \/ ARestart

ASpec == AInit /\ [][ANext]_avars
=============================================================================
