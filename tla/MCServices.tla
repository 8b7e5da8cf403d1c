------------------------------ MODULE MCServices ------------------------------
(***************************************************************************)
(* The services that share no state with each other, one at a time: a      *)
(* behaviour is one of the candle store, the reporting mirror, the alerts, *)
(* the watch for stale agents, the approval of tool calls, the turns of a  *)
(* cycle, the notes of the agents, the log of events or the terms of one   *)
(* position, while the others stay as they began.  A property of one of    *)
(* them speaks of its own variables only, so that nothing is lost by not   *)
(* interleaving them.                                                      *)
(***************************************************************************)
EXTENDS CandleStore, ReportingMirror, Alerting, AgentHealth, ToolApproval, ToolTurns,
        SemanticMemory, EventLog, PositionTerms

VARIABLE part

Parts == {"candles", "mirror", "alerts", "health", "tools", "turns", "memory", "log", "terms"}
servicesVars == <<part, candleVars, mirrorVars, alertVars, healthVars, toolVars, turnVars, memoryVars, eventVars,
                  termVars>>

\* Every part keeps the types of its variables; those of the others stay as they began.
ServicesTypeOK ==
    /\ part \in Parts
    /\ part = "candles" => CandleTypeOK
    /\ part = "mirror" => MirrorTypeOK
    /\ part = "alerts" => AlertTypeOK
    /\ part = "health" => HealthTypeOK
    /\ part = "tools" => ToolTypeOK
    /\ part = "turns" => TurnTypeOK
    /\ part = "memory" => MemoryTypeOK
    /\ part = "log" => LogTypeOK
    /\ part = "terms" => TermsTypeOK

ServicesInit ==
    /\ part \in Parts
    /\ CandleInit /\ (forming => part = "candles")
    /\ TurnInit /\ (kind # "broker" => part = "turns")
    /\ MirrorInit /\ AlertInit /\ HealthInit /\ ToolInit /\ MemoryInit /\ LogInit
    /\ TermsInit /\ venue.limits = [l \in Limits |-> Unset]

ServicesNext ==
    /\ UNCHANGED part
    /\ \/ part = "candles" /\ CandleNext
             /\ UNCHANGED <<mirrorVars, alertVars, healthVars, toolVars, turnVars, memoryVars, eventVars, termVars>>
       \/ part = "mirror" /\ MirrorNext
             /\ UNCHANGED <<candleVars, alertVars, healthVars, toolVars, turnVars, memoryVars, eventVars, termVars>>
       \/ part = "alerts" /\ AlertNext
             /\ UNCHANGED <<candleVars, mirrorVars, healthVars, toolVars, turnVars, memoryVars, eventVars, termVars>>
       \/ part = "health" /\ HealthNext
             /\ UNCHANGED <<candleVars, mirrorVars, alertVars, toolVars, turnVars, memoryVars, eventVars, termVars>>
       \/ part = "tools" /\ ToolNext
             /\ UNCHANGED <<candleVars, mirrorVars, alertVars, healthVars, turnVars, memoryVars, eventVars, termVars>>
       \/ part = "turns" /\ TurnNext
             /\ UNCHANGED <<candleVars, mirrorVars, alertVars, healthVars, toolVars, memoryVars, eventVars, termVars>>
       \/ part = "memory" /\ MemoryNext
             /\ UNCHANGED <<candleVars, mirrorVars, alertVars, healthVars, toolVars, turnVars, eventVars, termVars>>
       \/ part = "log" /\ LogNext
             /\ UNCHANGED <<candleVars, mirrorVars, alertVars, healthVars, toolVars, turnVars, memoryVars, termVars>>
       \/ part = "terms" /\ TermsNext
             /\ UNCHANGED <<candleVars, mirrorVars, alertVars, healthVars, toolVars, turnVars, memoryVars, eventVars>>

ServicesSpec == ServicesInit /\ [][ServicesNext]_servicesVars
===============================================================================
