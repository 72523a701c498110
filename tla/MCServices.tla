----------------------------- MODULE MCServices -----------------------------
(***************************************************************************)
(* What runs on for as long as it is let: the broker's processes, under     *)
(* their fairness, and the provider proxy, under its own.  They share no    *)
(* state, so that nothing is lost when only one of them leaves its initial  *)
(* state.                                                                   *)
(***************************************************************************)
EXTENDS MCProcessBroker, ProviderProxy

servicesVars == <<brokerVars, proxyVars>>

ServicesInit == BrokerInit /\ ProxyInit

ServicesNext ==
    \/ ProxyInit  /\ BrokerNext /\ UNCHANGED proxyVars
    \/ BrokerInit /\ ProxyNext  /\ UNCHANGED brokerVars

ServicesSpec ==
    /\ ServicesInit /\ [][ServicesNext]_servicesVars
    /\ BrokerFairness /\ ProxyFairness
=============================================================================
