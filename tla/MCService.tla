----------------------------- MODULE MCService -----------------------------
(* Two runs that share a log source, and a watch whose patterns take two   *)
(* lines.                                                                  *)
EXTENDS Service, TLC

CONSTANTS r1, r2, s1, s2, p1

MCRuns == {r1, r2}
MCScenarios == <<s1, s2>>
MCJob == r1 :> [scenario |-> s1, command |-> TRUE] @@
         r2 :> [scenario |-> s2, command |-> FALSE]
MCSource == s1 :> "auth.log" @@ s2 :> "auth.log"
MCLines == s1 :> 1 @@ s2 :> 2
MCPatterns == {p1}
MCSevere == {s1, p1}
=============================================================================
