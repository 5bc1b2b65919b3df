----------------------------- MODULE MCDetector -----------------------------
(***************************************************************************)
(* The deployed rules of rules/rules/v1 and a threshold rule, scaled down: *)
(* ten failed logins or file writes become two, a minute or two becomes    *)
(* three ticks.                                                            *)
(***************************************************************************)
EXTENDS Arrivals

CONSTANTS iii, v, x

Step(predicate, count) == [match |-> predicate, min_count |-> count]

MCRules ==
  [bruteforce |-> [category |-> iii, detection |->
     [type |-> "sequence", within_seconds |-> 3,
      steps |-> <<Step("failed", 2), Step("accepted", 1)>>]],
   privesc |-> [category |-> iii, detection |->
     [type |-> "sequence", within_seconds |-> 4,
      steps |-> <<Step("failed", 2), Step("accepted", 1), Step("sudo", 1)>>]],
   ransomware |-> [category |-> v, detection |->
     [type |-> "correlation", within_seconds |-> 3,
      arms |-> <<Step("write", 2), Step("canary", 1)>>]],
   spray |-> [category |-> v, detection |->
     [type |-> "threshold", within_seconds |-> 2, match |-> "write", min_count |-> 2]],
   appserver |-> [category |-> x, detection |-> [type |-> "single", match |-> "exploit"]]]

Kind(c, s, h, d) == [category |-> c, source |-> s, hits |-> {h}, delay |-> d]

MCKinds ==
  {Kind(iii, "web/auth", "failed", 1), Kind(iii, "web/auth", "failed", 2),
   Kind(iii, "web/auth", "accepted", 1), Kind(iii, "web/auth", "sudo", 1),
   Kind(iii, "web/auth", "accepted", 0), Kind(iii, "db/auth", "failed", 1),
   Kind(v, "web/fim", "write", 1), Kind(v, "web/fim", "write", 2),
   Kind(v, "web/fim", "canary", 1), Kind(v, "web/fim", "canary", -1), Kind(v, "db/fim", "write", 1),
   Kind(x, "web/nginx", "exploit", 1), Kind(x, "web/nginx", "benign", 1)}

MCCategories == {iii, v, x}

MCUuids == {-2, -1, 1, 2}
=============================================================================
