---------------------------- MODULE MCLifecycle ----------------------------
(***************************************************************************)
(* Instance of Lifecycle: a scrape, a page and a stream.                   *)
(***************************************************************************)
EXTENDS Lifecycle

MCRequests == {"scrape", "page", "stream"}
MCServerOf == [r \in MCRequests |-> IF r = "scrape" THEN "metrics" ELSE "http"]
=============================================================================
