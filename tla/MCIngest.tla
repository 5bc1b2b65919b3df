------------------------------ MODULE MCIngest ------------------------------
(***************************************************************************)
(* Two threads of Sentry, the web defacement rule, and agents that report  *)
(* exploit requests and a change under the web root that came before them: *)
(* within the rule's window of one of them, too early for the other.  The  *)
(* two are signed with different keys of one identity.                     *)
(***************************************************************************)
EXTENDS Ingest

CONSTANTS iv, web, k1, k2

MCRules ==
  [defacement |-> [category |-> iv, detection |->
     [type |-> "correlation", within_seconds |-> 1,
      arms |-> <<[match |-> "exploit", min_count |-> 1], [match |-> "change", min_count |-> 1]>>]]]

MCCategories == {iv}

MCUuids == {-2, -1, 1, 2}

Post(sig, key, cat, hit, at) ==
  [ident |-> web, key |-> key, signature |-> sig, category |-> cat,
   source |-> hit, hits |-> {hit}, occurred_at |-> at]

MCRequests ==
  {Post("verified", k1, iv, "exploit", 3), Post("verified", k2, iv, "exploit", 2),
   Post("unsigned", k1, iv, "change", 1), Post("unsigned", k1, NoCategory, "change", 1),
   Post("invalid", k1, iv, "exploit", 1)}
=============================================================================
