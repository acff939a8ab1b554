--------------------------- MODULE MCRuntimeEngine ---------------------------
(* Small instances of the engine for TLC: a slow profile of high quality     *)
(* and a fast one of low quality that has the higher utility per deadline.   *)
EXTENDS RuntimeEngine, TLC

CONSTANTS slow, fast   (* the two profiles of the registry *)

MCAttr ==
  slow :> [certified |-> TRUE, quality |-> 2, utility |-> 2, p99 |-> 2,
           offline |-> 2]
  @@
  fast :> [certified |-> TRUE, quality |-> 1, utility |-> 1, p99 |-> 1,
           offline |-> 1]

BasePolicy ==
  [deadline |-> 2, dwell |-> 1, promote |-> 1, demote |-> 2,
   missWindow |-> 1, missThreshold |-> 1, weight |-> 1, minQuality |-> 1,
   escalation |-> FALSE, pinMax |-> 1, failStale |-> TRUE,
   failNoEligible |-> TRUE, recover |-> 1, maxTransient |-> 2]

(* What an operator switches between: both profiles meet the first deadline, *)
(* only the fast one the second; the second policy escalates to quality on   *)
(* low confidence, takes stale frames for ordinary ones and gives a profile  *)
(* up after one failure.  The third is a start that no update would accept.  *)
MCPolicies ==
  {BasePolicy,
   [BasePolicy EXCEPT !.deadline = 1, !.escalation = TRUE, !.failStale = FALSE,
                      !.maxTransient = 1],
   [BasePolicy EXCEPT !.promote = 0, !.demote = 0, !.maxTransient = 0]}
==============================================================================
