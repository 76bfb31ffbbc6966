------------------------------ MODULE MCLiveness ------------------------------
(***************************************************************************)
(* Small instances, for TLC, of the components with liveness properties: the *)
(* fairness is that of their modules (Fairness, CronFairness, ...), each     *)
(* weakly fair action restricted to the behaviours in which its component    *)
(* moves (see MCServices).                                                   *)
(***************************************************************************)
EXTENDS AgentLoop, Cron, Delivery, Gateway

CONSTANTS j1, i1, i2

OneJob == {<<j1, "at", 1>>, <<j1, "every", 1>>}
TwoMessages == {[text |-> 1, media |-> 0, caller |-> 0, inbound |-> {i1, i2}]}

VARIABLE part   \* the component that moves

Parts == {"loop", "cron", "delivery", "gateway"}

LivenessInit ==
    /\ part \in Parts
    /\ Init /\ CronInit /\ DeliveryInit /\ GatewayInit
    /\ part # "delivery" => workload = CHOOSE w \in Workloads : TRUE

Part(p) == part = p /\ UNCHANGED part

LivenessNext ==
    \/ /\ Part("loop") /\ Next
       /\ UNCHANGED <<cronVars, deliveryVars, gatewayVars>>
    \/ /\ Part("cron") /\ CronNext
       /\ UNCHANGED <<vars, deliveryVars, gatewayVars>>
    \/ /\ Part("delivery") /\ DeliveryNext
       /\ UNCHANGED <<vars, cronVars, gatewayVars>>
    \/ /\ Part("gateway") /\ GatewayNext
       /\ UNCHANGED <<vars, cronVars, deliveryVars>>

LivenessVars == <<part, vars, cronVars, deliveryVars, gatewayVars>>
LivenessFairness ==
    /\ WF_vars(part = "loop" /\ RunStep) /\ WF_vars(part = "loop" /\ OtherEnd)
    /\ \A c \in Callers : WF_vars(part = "loop" /\ TurnStep(c))
    /\ \A d \in Msgs : WF_vars(part = "loop" /\ DrainStep(d))
    /\ WF_cronVars(part = "cron" /\ Tick)
    /\ \A g \in Services : WF_cronVars(part = "cron" /\ RunLoop(g))
    /\ \A i \in Inbounds : WF_deliveryVars(part = "delivery" /\ InStep(i))
    /\ WF_deliveryVars(part = "delivery" /\ InvokeTypingStop /\ ~Cancelled)
    /\ WF_gatewayVars(part = "gateway" /\ MainStep)
    /\ WF_gatewayVars(part = "gateway" /\ WatchStep)
LivenessSpec == LivenessInit /\ [][LivenessNext]_LivenessVars /\ LivenessFairness
===============================================================================
