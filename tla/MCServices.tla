------------------------------ MODULE MCServices ------------------------------
(***************************************************************************)
(* Small instances, for TLC, of the components that no module composes: one  *)
(* run checks all of them.  In a behaviour only the component named by part  *)
(* moves, and the others stay in their initial states, so that the states    *)
(* of the run are the sum of theirs and not the product.                     *)
(***************************************************************************)
EXTENDS JSONLStore, Cron, Delivery, Migration, Fallback, Gateway, WeCom, Hooks, ToolServers

CONSTANTS j1, i1, i2

OneJob == {<<j1, "at", 1>>, <<j1, "at", 2>>, <<j1, "every", 1>>}
SmallWorkloads ==
    {[text |-> 2, media |-> 0, caller |-> 0, inbound |-> {i1}],
     [text |-> 1, media |-> 1, caller |-> 0, inbound |-> {}],
     [text |-> 1, media |-> 0, caller |-> 1, inbound |-> {i1}],
     [text |-> 1, media |-> 0, caller |-> 0, inbound |-> {i1, i2}]}
TwoCandidates == <<"a", "b">>

VARIABLE part   \* the component that moves

Parts == {"store", "cron", "delivery", "migration", "fallback", "gateway", "wecom", "hooks",
          "servers"}

ServicesInit ==
    /\ part \in Parts
    /\ JSONLInit /\ CronInit /\ DeliveryInit /\ MigrationInit /\ FallbackInit
    /\ GatewayInit /\ WeComInit /\ HooksInit /\ ToolServersInit
    /\ part # "delivery" => workload = CHOOSE w \in Workloads : TRUE

Part(p) == part = p /\ UNCHANGED part

ServicesNext ==
    \/ /\ Part("store") /\ JSONLNext
       /\ UNCHANGED <<cronVars, deliveryVars, migrationVars, fallbackVars, gatewayVars,
                      wecomVars, hookVars, toolVars>>
    \/ /\ Part("cron") /\ CronNext
       /\ UNCHANGED <<jsonlVars, deliveryVars, migrationVars, fallbackVars, gatewayVars,
                      wecomVars, hookVars, toolVars>>
    \/ /\ Part("delivery") /\ DeliveryNext
       /\ UNCHANGED <<jsonlVars, cronVars, migrationVars, fallbackVars, gatewayVars, wecomVars,
                      hookVars, toolVars>>
    \/ /\ Part("migration") /\ MigrationNext
       /\ UNCHANGED <<jsonlVars, cronVars, deliveryVars, fallbackVars, gatewayVars, wecomVars,
                      hookVars, toolVars>>
    \/ /\ Part("fallback") /\ FallbackNext
       /\ UNCHANGED <<jsonlVars, cronVars, deliveryVars, migrationVars, gatewayVars, wecomVars,
                      hookVars, toolVars>>
    \/ /\ Part("gateway") /\ GatewayNext
       /\ UNCHANGED <<jsonlVars, cronVars, deliveryVars, migrationVars, fallbackVars, wecomVars,
                      hookVars, toolVars>>
    \/ /\ Part("wecom") /\ WeComNext
       /\ UNCHANGED <<jsonlVars, cronVars, deliveryVars, migrationVars, fallbackVars,
                      gatewayVars, hookVars, toolVars>>
    \/ /\ Part("hooks") /\ HooksNext
       /\ UNCHANGED <<jsonlVars, cronVars, deliveryVars, migrationVars, fallbackVars,
                      gatewayVars, wecomVars, toolVars>>
    \/ /\ Part("servers") /\ ToolServersNext
       /\ UNCHANGED <<jsonlVars, cronVars, deliveryVars, migrationVars, fallbackVars,
                      gatewayVars, wecomVars, hookVars>>

ServicesVars == <<part, jsonlVars, cronVars, deliveryVars, migrationVars, fallbackVars, gatewayVars,
                    wecomVars, hookVars, toolVars>>
ServicesSpec == ServicesInit /\ [][ServicesNext]_ServicesVars

-------------------------------------------------------------------------------
\* Every variable of every component has its type.
ServicesTypeOK ==
    /\ part = "store" => JSONLTypeOK
    /\ part = "cron" => CronTypeOK
    /\ part = "delivery" => DeliveryTypeOK
    /\ part = "migration" => MigrationTypeOK
    /\ part = "fallback" => FallbackTypeOK
    /\ part = "gateway" => GatewayTypeOK
    /\ part = "wecom" => WeComTypeOK
    /\ part = "hooks" => HooksTypeOK
    /\ part = "servers" => ToolServersTypeOK
===============================================================================
