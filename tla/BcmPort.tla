-------------------------------- MODULE BcmPort --------------------------------
(***************************************************************************)
(* One Broadcom port (src/fboss/agent/hw/bcm/BcmPort.cpp) and the ASIC     *)
(* port it drives.  Three threads touch it: the update thread calls        *)
(* init, enable, disable and program with the SwitchState's Port node (the *)
(* BcmSwitch delta code that decides which is not in this repository, so   *)
(* the caller may call any of them at any time); the stats thread runs     *)
(* updateStats; link changes reach the SwitchState's operState through the *)
(* linkscan callback and an update, and then linkStatusChanged.            *)
(*                                                                         *)
(* A Port node is [name, speed, ingressVlan, vlans, inMirror, egMirror,    *)
(* sampleDest, queues]: vlans maps each member VLAN to tagged, queues maps *)
(* each queue ID to its name.  Calls on the update thread are atomic with  *)
(* respect to each other; updateStats is split where it reads state the    *)
(* update thread changes.  An exception out of a call, or a null counter   *)
(* dereference, takes the agent down (crashed); Restart is its cold start. *)
(***************************************************************************)
EXTENDS FiniteSets, TLC

CONSTANTS
    Ports,          \* Port nodes the SwitchState can hold
    Vlans,          \* VLAN IDs
    FabNames,       \* port names that start with "fab" (6pack backplane)
    Default,        \* cfg::PortSpeed::DEFAULT
    MaxSpeed,       \* opennsl_port_speed_max for this port
    PlatformTechs,  \* what the platform port's getTransmitterTech can answer
    InitAsics,      \* ASIC port states the agent can start on
    SflowSupported, \* platform->sflowSamplingSupported()
    NoMirror,       \* std::nullopt mirror name
    NotSet,         \* sampleDest not set on the Port node
    NoSettings,     \* programmedSettings_ still null
    NoCounters,     \* portCounters_ empty
    NoStats         \* lastPortStats_ is std::nullopt

VARIABLES
    asic,                   \* the ASIC port (what the opennsl_port_* calls set)
    peer,                   \* the link partner is up (cable, far end)
    sw,                     \* the SwitchState's Port node
    operUp,                 \* the SwitchState's operState for the port
    platformUp,             \* what linkStatusChanged last told the platform port
    ingressMirror,          \* ingressMirror_
    egressMirror,           \* egressMirror_
    sampleDest,             \* sampleDest_
    transmitterTechnology,  \* transmitterTechnology_ (the cache)
    portCounters,           \* portCounters_ (+ queue counters): NoCounters or [name, queues]
    lastPortStats,          \* lastPortStats_: NoStats, "zero" or "sampled"
    statCollectionEnabled,  \* statCollectionEnabled_
    programmedSettings,     \* programmedSettings_
    statsPc,                \* where the stats thread is in updateStats
    flapped,                \* the last update-thread call set the speed of an up link
    crashed                 \* the agent process is down

portVars == <<ingressMirror, egressMirror, sampleDest, transmitterTechnology,
              portCounters, lastPortStats, statCollectionEnabled, programmedSettings>>
envVars == <<peer, sw, operUp, platformUp>>
vars == <<asic, portVars, envVars, statsPc, flapped, crashed>>

(***************************************************************************)
(* getSpeedToTransmitterTechAndMode (BcmPortUtils.cpp): the interface mode *)
(* for a speed and transmitter technology.  Missing pairs make .at() throw.*)
(***************************************************************************)
SpeedToTransmitterTechAndMode ==
    ("HUNDREDG"    :> ("COPPER" :> "CR4" @@ "OPTICAL" :> "CAUI" @@ "UNKNOWN" :> "CAUI")) @@
    ("FIFTYG"      :> ("COPPER" :> "CR2" @@ "OPTICAL" :> "CAUI" @@ "UNKNOWN" :> "CR2")) @@
    ("FORTYG"      :> ("COPPER" :> "CR4" @@ "OPTICAL" :> "XLAUI" @@ "UNKNOWN" :> "XLAUI")) @@
    ("TWENTYFIVEG" :> ("COPPER" :> "CR" @@ "OPTICAL" :> "CAUI" @@ "UNKNOWN" :> "CR")) @@
    ("TWENTYG"     :> ("COPPER" :> "CR" @@ "UNKNOWN" :> "CR")) @@
    ("XG"          :> ("COPPER" :> "CR" @@ "OPTICAL" :> "SFI" @@ "UNKNOWN" :> "CR")) @@
    ("GIGE"        :> ("COPPER" :> "GMII" @@ "UNKNOWN" :> "GMII"))

HasMode(speed, tech) ==
    speed \in DOMAIN SpeedToTransmitterTechAndMode /\ tech \in DOMAIN SpeedToTransmitterTechAndMode[speed]

\* isEnabled() and isUp(): the link status is read only on an enabled port.
IsUp == asic.enabled /\ peer

\* getDesiredPortSpeed: the port's maximum for DEFAULT.
DesiredPortSpeed(p) == IF p.speed = Default THEN MaxSpeed ELSE p.speed

\* getTransmitterTechnology: the cached value unless UNKNOWN; COPPER for a
\* "fab" port; else what the platform port answers (UNKNOWN is not kept).
TechAnswers(name) ==
    IF transmitterTechnology # "UNKNOWN" THEN {transmitterTechnology}
    ELSE IF name \in FabNames THEN {"COPPER"} ELSE PlatformTechs

\* hasPortQueueChanges: a different number of queues, or a queue renamed.
HasPortQueueChanges(old, new) ==
    \/ Cardinality(DOMAIN old.queues) # Cardinality(DOMAIN new.queues)
    \/ \E id \in DOMAIN new.queues : old.queues[id] # new.queues[id]

\* reinitPortStats: every counter (re)named after the port, the queue
\* counters set up for its queues, lastPortStats_ reset.
ReinitPortStats(p) == [name |-> p.name, queues |-> p.queues]

\* A setupStatsIfNeeded that only looks at the port name.
NeedsReinitByName(p, enabledStats) ==
    /\ enabledStats
    /\ \/ programmedSettings = NoSettings
       \/ p.name # programmedSettings.name

\* setupStatsIfNeeded: with stats on, reinit when nothing was programmed
\* yet, or the name or the queues changed.
NeedsReinit(p, enabledStats) ==
    /\ enabledStats
    /\ \/ programmedSettings = NoSettings
       \/ p.name # programmedSettings.name
       \/ HasPortQueueChanges(programmedSettings, p)

\* The sample destination program() uses: the port's, else CPU.
SampleDestOf(p) == IF p.sampleDest = NotSet THEN "CPU" ELSE p.sampleDest

\* A setSpeed that leaves every up port alone, at whatever speed it runs.
SetSpeedSkipUp(a, p, tech) ==
    IF operUp THEN [asic |-> a, tech |-> transmitterTechnology, flap |-> FALSE, err |-> FALSE]
    ELSE IF ~HasMode(DesiredPortSpeed(p), tech) THEN [asic |-> a, tech |-> tech, flap |-> FALSE, err |-> TRUE]
    ELSE [asic |-> [a EXCEPT !.mode = SpeedToTransmitterTechAndMode[DesiredPortSpeed(p)][tech],
                             !.speed = DesiredPortSpeed(p)],
          tech |-> tech, flap |-> IsUp, err |-> FALSE]

(***************************************************************************)
(* setSpeed (with setInterfaceMode): the mode and speed are set when the   *)
(* SwitchState says the port is down or the speed differs from the         *)
(* desired one; only then is the transmitter technology looked up (and    *)
(* cached) for the mode.  Returns the new [asic, tech, flap, err]: err     *)
(* when the mode lookup throws, flap when speed_set hit an up link.        *)
(***************************************************************************)
SetSpeed(a, p, tech) ==
    LET desired == DesiredPortSpeed(p)
    IN  IF operUp /\ a.speed = desired
        THEN [asic |-> a, tech |-> transmitterTechnology, flap |-> FALSE, err |-> FALSE]
        ELSE IF ~HasMode(desired, tech) THEN [asic |-> a, tech |-> tech, flap |-> FALSE, err |-> TRUE]
        ELSE [asic |-> [a EXCEPT !.mode = SpeedToTransmitterTechAndMode[desired][tech], !.speed = desired],
              tech |-> tech, flap |-> IsUp, err |-> FALSE]

(***************************************************************************)
(* program(port) from ASIC state a, with stat collection enabledStats:     *)
(* setIngressVlan, setSpeed, the mirrors (each stopped, renamed, the       *)
(* sample destination configured, started), setupStatsIfNeeded, and        *)
(* programmedSettings_ saved.  Returns the state the call leaves.          *)
(***************************************************************************)
ProgramPort(a, p, tech, enabledStats) ==
    LET a1   == [a EXCEPT !.ingressVlan = p.ingressVlan]
        sp   == SetSpeed(a1, p, tech)
        dest == SampleDestOf(p)
        re   == NeedsReinit(p, enabledStats)
    IN  [asic     |-> IF sp.err THEN a1
                      ELSE [sp.asic EXCEPT !.sampleCtl = IF SflowSupported THEN dest ELSE @],
         err      |-> sp.err,
         tech     |-> sp.tech,
         flap     |-> sp.flap,
         inMirror |-> p.inMirror, egMirror |-> p.egMirror, dest |-> dest,
         counters |-> IF re THEN ReinitPortStats(p) ELSE portCounters,
         reinit   |-> re]

\* The state a call leaves when it returns: program's results applied.
Programmed(pr, p, enabledStats) ==
    /\ asic' = pr.asic
    /\ transmitterTechnology' = pr.tech
    /\ ingressMirror' = pr.inMirror /\ egressMirror' = pr.egMirror /\ sampleDest' = pr.dest
    /\ portCounters' = pr.counters
    /\ lastPortStats' = IF pr.reinit THEN "zero" ELSE IF enabledStats THEN lastPortStats ELSE NoStats
    /\ statCollectionEnabled' = enabledStats
    /\ programmedSettings' = p
    /\ flapped' = pr.flap
    /\ crashed' = FALSE

\* A call that threw: what it did up to setSpeed stays, the agent goes down.
Threw(a, tech) ==
    /\ asic' = a
    /\ transmitterTechnology' = tech
    /\ flapped' = FALSE
    /\ crashed' = TRUE
    /\ UNCHANGED <<ingressMirror, egressMirror, sampleDest, programmedSettings>>

(***************************************************************************)
(* BcmPort::program, called by the caller on its own.                      *)
(***************************************************************************)
Program ==
    /\ ~crashed
    /\ \E tech \in TechAnswers(sw.name) :
          LET pr == ProgramPort(asic, sw, tech, statCollectionEnabled)
          IN  IF pr.err THEN Threw(pr.asic, tech) /\ UNCHANGED <<portCounters, lastPortStats, statCollectionEnabled>>
              ELSE Programmed(pr, sw, statCollectionEnabled)
    /\ UNCHANGED <<envVars, statsPc>>

(***************************************************************************)
(* BcmPort::enable: nothing if the ASIC port is already enabled; else the  *)
(* port added to its VLANs (untagged ones untagged), VLAN filtering on,    *)
(* enableStatCollection (counter DMA on, reinitPortStats, the flag set),   *)
(* program, and the port enabled last.                                     *)
(***************************************************************************)
Enable ==
    /\ ~crashed
    /\ ~asic.enabled
    /\ LET a0 == [asic EXCEPT !.members = [v \in Vlans |-> IF v \in DOMAIN sw.vlans
                                                      THEN IF sw.vlans[v] THEN "tagged" ELSE "untagged"
                                                      ELSE @[v]],
                              !.vlanFilter = TRUE, !.statDma = TRUE]
       IN  \E tech \in TechAnswers(sw.name) :
              LET pr == ProgramPort(a0, sw, tech, TRUE)
              IN  IF pr.err
                  THEN /\ Threw(pr.asic, tech)
                       /\ portCounters' = ReinitPortStats(sw) /\ lastPortStats' = "zero"
                       /\ statCollectionEnabled' = TRUE
                  ELSE Programmed([pr EXCEPT !.asic.enabled = TRUE, !.counters = ReinitPortStats(sw),
                                             !.reinit = TRUE], sw, TRUE)
    /\ UNCHANGED <<envVars, statsPc>>

\* disableStatCollection: the flag cleared, then destroyAllPortStats empties
\* portCounters_ and resets lastPortStats_.
DisableStatCollection ==
    /\ statCollectionEnabled' = FALSE
    /\ portCounters' = NoCounters
    /\ lastPortStats' = NoStats

\* enableStatCollection and disableStatCollection called on their own (both
\* are public): counter DMA switched, then the stats reinitialised for the
\* Port node and the flag set, or the flag cleared and the stats destroyed.
\* The caller is taken to call enableStatCollection by itself only for a
\* port enabled across a warm boot, before its first program.
EnableStatCollection ==
    /\ ~crashed /\ programmedSettings = NoSettings
    /\ asic' = [asic EXCEPT !.statDma = TRUE]
    /\ statCollectionEnabled' = TRUE
    /\ portCounters' = ReinitPortStats(sw)
    /\ lastPortStats' = "zero"
    /\ flapped' = FALSE
    /\ UNCHANGED <<ingressMirror, egressMirror, sampleDest, transmitterTechnology,
                   programmedSettings, envVars, statsPc, crashed>>

StopStatCollection ==
    /\ ~crashed
    /\ asic' = [asic EXCEPT !.statDma = FALSE]
    /\ DisableStatCollection
    /\ flapped' = FALSE
    /\ UNCHANGED <<ingressMirror, egressMirror, sampleDest, transmitterTechnology,
                   programmedSettings, envVars, statsPc, crashed>>

(***************************************************************************)
(* BcmPort::disable: nothing if the ASIC port is already disabled; else    *)
(* the port removed from the Port node's VLANs, disableStatCollection      *)
(* (counter DMA off, the flag cleared, destroyAllPortStats), sFlow off and *)
(* the port disabled.                                                      *)
(***************************************************************************)
Disable ==
    /\ ~crashed
    /\ asic.enabled
    /\ asic' = [asic EXCEPT !.members = [v \in Vlans |-> IF v \in DOMAIN sw.vlans THEN "none" ELSE @[v]],
                            !.statDma = FALSE, !.enabled = FALSE]
    /\ DisableStatCollection
    /\ flapped' = FALSE
    /\ UNCHANGED <<ingressMirror, egressMirror, sampleDest, transmitterTechnology,
                   programmedSettings, envVars, statsPc, crashed>>

\* setIngressPortMirror / setEgressPortMirror: the warm-boot restore of the
\* mirror names, before anything is programmed.
SetPortMirrors(in, eg) ==
    /\ ~crashed
    /\ programmedSettings = NoSettings
    /\ <<ingressMirror, egressMirror>> # <<in, eg>>
    /\ ingressMirror' = in /\ egressMirror' = eg
    /\ UNCHANGED <<asic, sampleDest, transmitterTechnology, portCounters, lastPortStats,
                   statCollectionEnabled, programmedSettings, envVars, statsPc, flapped, crashed>>

(***************************************************************************)
(* updateStats on the stats thread: return unless stats are on (the       *)
(* atomic flag); read lastPortStats_ under its lock; look every counter up *)
(* in portCounters_ and update it (a counter that is not there is a null   *)
(* dereference); then write lastPortStats_ back under its lock.            *)
(***************************************************************************)
UpdateStatsCheck ==
    /\ ~crashed /\ statsPc = "idle" /\ statCollectionEnabled
    /\ statsPc' = "counters"
    /\ UNCHANGED <<asic, portVars, envVars, flapped, crashed>>

UpdateStatsCounters ==
    /\ ~crashed /\ statsPc = "counters"
    /\ IF portCounters = NoCounters THEN crashed' = TRUE /\ statsPc' = "idle"
       ELSE statsPc' = "write" /\ UNCHANGED crashed
    /\ UNCHANGED <<asic, portVars, envVars, flapped>>

UpdateStatsWrite ==
    /\ ~crashed /\ statsPc = "write"
    /\ lastPortStats' = "sampled"
    /\ statsPc' = "idle"
    /\ UNCHANGED <<asic, ingressMirror, egressMirror, sampleDest, transmitterTechnology, portCounters,
                   statCollectionEnabled, programmedSettings, envVars, flapped, crashed>>

(***************************************************************************)
(* The environment: the link partner comes and goes; the linkscan          *)
(* callback's update sets the SwitchState's operState from isUp(), and the *)
(* delta calls linkStatusChanged(port), which tells the platform port; a   *)
(* config reload changes the Port node.                                    *)
(***************************************************************************)
PeerChange ==
    /\ peer' = ~peer
    /\ UNCHANGED <<asic, portVars, sw, operUp, platformUp, statsPc, flapped, crashed>>

LinkscanUpdate ==
    /\ ~crashed
    /\ operUp # IsUp
    /\ operUp' = IsUp
    /\ platformUp' = IsUp
    /\ UNCHANGED <<asic, portVars, peer, sw, statsPc, flapped, crashed>>

ConfigChange(p) ==
    /\ ~crashed /\ p # sw
    /\ sw' = p
    /\ UNCHANGED <<asic, portVars, peer, operUp, platformUp, statsPc, flapped, crashed>>

\* sampleDest_ has no initialiser and the constructor does not set it, so
\* until the first program it holds whichever destination its bits read as.
SampleDests == {"CPU", "MIRROR"}

\* The BcmPort as constructed and init(warmBoot): on a cold boot the port
\* is disabled to reach a known state; the platform port told the link
\* state.  On a warm boot the SwitchState's operState is the saved one.
Boot(a, warm, up) ==
    /\ asic = [a EXCEPT !.enabled = @ /\ warm]
    /\ operUp = up
    /\ platformUp = (asic.enabled /\ peer)
    /\ ingressMirror = NoMirror /\ egressMirror = NoMirror
    /\ sampleDest \in SampleDests
    /\ transmitterTechnology = "UNKNOWN"
    /\ portCounters = NoCounters /\ lastPortStats = NoStats
    /\ statCollectionEnabled = FALSE
    /\ programmedSettings = NoSettings
    /\ statsPc = "idle" /\ flapped = FALSE /\ crashed = FALSE

Init ==
    /\ peer \in BOOLEAN
    /\ sw \in Ports
    /\ \E a \in InitAsics, warm \in BOOLEAN : \E up \in IF warm THEN BOOLEAN ELSE {FALSE} : Boot(a, warm, up)

\* The agent's cold restart after going down: the ASIC initialised again
\* and the port disabled by init(false), a new BcmPort, the same Port node
\* in a new SwitchState with the port down.
Restart ==
    /\ crashed
    /\ \E a \in InitAsics : asic' = [a EXCEPT !.enabled = FALSE]
    /\ operUp' = FALSE /\ platformUp' = FALSE
    /\ ingressMirror' = NoMirror /\ egressMirror' = NoMirror /\ sampleDest' \in SampleDests
    /\ transmitterTechnology' = "UNKNOWN"
    /\ portCounters' = NoCounters /\ lastPortStats' = NoStats
    /\ statCollectionEnabled' = FALSE /\ programmedSettings' = NoSettings
    /\ statsPc' = "idle" /\ flapped' = FALSE /\ crashed' = FALSE
    /\ UNCHANGED <<peer, sw>>

Next ==
    \/ Enable \/ Disable \/ Program \/ EnableStatCollection \/ StopStatCollection
    \/ \E in, eg \in {NoMirror} \cup {p.inMirror : p \in Ports} \cup {p.egMirror : p \in Ports} : SetPortMirrors(in, eg)
    \/ UpdateStatsCheck \/ UpdateStatsCounters \/ UpdateStatsWrite
    \/ PeerChange \/ LinkscanUpdate \/ \E p \in Ports : ConfigChange(p)
    \/ Restart

Spec == Init /\ [][Next]_vars

-----------------------------------------------------------------------------
\* The speeds the ASIC port can run at: a desired one or one it starts at.
AsicSpeeds == {DesiredPortSpeed(p) : p \in Ports} \cup {a.speed : a \in InitAsics}

(***************************************************************************)
(* While the agent runs, there are no port counters when stat collection  *)
(* is off, and once a Port node has been programmed they are those of the  *)
(* last one (its name and its queues) when it is on: enable reinits them,  *)
(* program reinits them on a rename or a queue change                      *)
(* (setupStatsIfNeeded), disable destroys them.                            *)
(***************************************************************************)
StatsFollowPort ==
    ~crashed =>
        IF statCollectionEnabled
        THEN programmedSettings # NoSettings => portCounters = ReinitPortStats(programmedSettings)
        ELSE portCounters = NoCounters

(***************************************************************************)
(* BcmPort implements BcmPortAsic: seen through the ASIC port's enable,    *)
(* speed and ingress VLAN, the stat-collection flag, programmedSettings_   *)
(* and whether the agent is up, every step is an enable, disable, program, *)
(* failed call, crash or restart as BcmPortAsic describes them, or leaves  *)
(* that view unchanged.  In particular setSpeed's skip never leaves an     *)
(* enabled port at a speed other than the desired one.                     *)
(***************************************************************************)
Asic == INSTANCE BcmPortAsic
            WITH enabled <- asic.enabled, speed <- asic.speed, ingressVlan <- asic.ingressVlan,
                 collecting <- statCollectionEnabled, programmed <- programmedSettings,
                 down <- crashed, Speeds <- AsicSpeeds, DesiredSpeed <- DesiredPortSpeed

AsicRefinement == Asic!ASpec

(***************************************************************************)
(* updateStats never dereferences a missing counter: while the stats       *)
(* thread updates counters, portCounters_ holds them.                      *)
(***************************************************************************)
NoNullCounter == statsPc = "counters" /\ ~crashed => portCounters # NoCounters

(***************************************************************************)
(* program does not flap a port (the comment at its head): speed_set is    *)
(* never called on an up link already at the desired speed.               *)
(***************************************************************************)
NoFlapAtSpeed == [][flapped' => asic.speed # DesiredPortSpeed(sw)]_vars
=============================================================================
