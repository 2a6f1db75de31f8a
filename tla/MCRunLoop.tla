----------------------------- MODULE MCRunLoop -----------------------------
(* Instances of RunLoop for TLC: see the MCRunLoop*.cfg files.              *)
EXTENDS RunLoop
=============================================================================
