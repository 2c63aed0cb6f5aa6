--------------------------- MODULE MCAudioRouting ---------------------------
(* Instances of AudioRouting for TLC.                                      *)
EXTENDS AudioRouting

CONSTANTS m1, m2, m3, al, e1, e2

McOrder == <<"primary", "deep", "direct", "usb">>

McSupports == [primary |-> {"speaker", "earpiece", "sco", "aux"},
               deep    |-> {"speaker", "aux"},
               direct  |-> {"speaker", "aux"},
               usb     |-> {"usb"}]

McModule == [primary |-> "primary", deep |-> "primary",
             direct |-> "primary", usb |-> "usb"]

McOutput == [t \in Tracks |-> CASE t \in {m1, al} -> "deep"
                                [] t = m2 -> "direct"
                                [] t = m3 -> "usb"
                                [] OTHER -> "primary"]

McStream == [t \in Tracks |-> CASE t \in {m1, m2, m3} -> "MUSIC"
                                [] t = al -> "ALARM"
                                [] OTHER -> "ENFORCED_AUDIBLE"]

\* What the theorems assume of the configuration is true of this one.
ASSUME ConfigurationAssumption ==
    OwnSpeaker /\ HdmiAtBoot /\ CallReach /\ EnforcedReach /\ OneBackend

\* Nothing but the mutes depends on them and on the force use that they follow,
\* of which one config or the other may always be set: a state is told apart
\* by the rest.
ButMutes == <<devVars, hdmiVars, openVars, active, invalid, phone,
              forceUse.COMMUNICATION, routeVars>>
-----------------------------------------------------------------------------
(* What one would expect and calls in some order do not keep. *)
\* Alarms are muted on an output as often as an enforced sound plays there under
\* FORCE_SYSTEM_ENFORCED (startSource, stopSource).
AlarmsMutedAsEnforced ==
    \A o \in Outputs :
        alarmMutes[o] = IF SystemEnforced
                        THEN getActivityCount(o, "ENFORCED_AUDIBLE") ELSE 0
=============================================================================
