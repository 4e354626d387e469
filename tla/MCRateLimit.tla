---------------------------- MODULE MCRateLimit -----------------------------
(***************************************************************************)
(* A small instance of RateLimit for TLC.                                  *)
(***************************************************************************)
EXTENDS RateLimit

CONSTANT a1

\* Key a1 has an entry in app_key_limits.
OneLimit == [k \in {a1} |-> 2]
=============================================================================
