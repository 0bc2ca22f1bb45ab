---------------------------- MODULE MCProvenance ----------------------------
(* A small instance of Provenance: this graph, and another under another    *)
(* policy.  They share a key, so that their signatures do not tell them     *)
(* apart; alterations are what does not fit a signature.                    *)
EXTENDS Provenance

MCOrigins == {<<"key", "policy">>, <<"key", "other policy">>}

CoarseClock == {0, 1}
=============================================================================
