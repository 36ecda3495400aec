--------------------------- MODULE MCLiveMonitor ---------------------------
(* Two watched logs and one attacker (groups are independent of each other). *)
(* The auth log reports failed logins, the other log both kinds of event.    *)
EXTENDS LiveMonitor, TLC

CONSTANTS auth, web, ip1

MCTails == <<auth, web>>
MCCarries == (auth :> {"fail"}) @@ (web :> Kinds)
MCNaive == {[l \in {auth, web} |-> "naive"]}
MCMixed == {(auth :> "naive") @@ (web :> "aware")}
MCNaiveOrMixed == MCNaive \union MCMixed
MCUndated == {web}
MCAllDated == {}
MCIps == {ip1}
MCNoneSuppressed == {}
MCShippedSuppressed == {"login"}
=============================================================================
