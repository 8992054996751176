----------------------------- MODULE MCServices -----------------------------
(* Instances of BrowserCalls, HealthReporter and InstanceDiscovery for TLC. *)
(* They share no state: one run checks them side by side, each behaviour    *)
(* being one of one of them.                                                *)
EXTENDS BrowserCalls, HealthReporter, InstanceDiscovery, TLC

VARIABLE part    \* "calls", "health" or "discovery"

allVars == <<part, callsVars, healthVars, discoveryVars>>

SumInit ==
    /\ CallsInit /\ HealthInit /\ DiscoveryInit
    /\ part \in {"calls", "health", "discovery"}
    /\ part # "calls"  => role = "primary" /\ chrome = "closed"
    /\ part # "health" => bridged

SumNext ==
    /\ UNCHANGED part
    /\ \/ part = "calls"     /\ CallsNext     /\ UNCHANGED <<healthVars, discoveryVars>>
       \/ part = "health"    /\ HealthNext    /\ UNCHANGED <<callsVars, discoveryVars>>
       \/ part = "discovery" /\ DiscoveryNext /\ UNCHANGED <<callsVars, healthVars>>

SumSpec == SumInit /\ [][SumNext]_allVars

Alike == Permutations(Pis)
=============================================================================
