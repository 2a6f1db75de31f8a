---------------------------- MODULE MCSession ----------------------------
(* Two accounts, one of them with two tokens. *)
EXTENDS Session, TLC

CONSTANTS ana, bob, ana1, ana2, bob1

MCOwner == ana1 :> ana @@ bob1 :> bob @@ ana2 :> ana
=============================================================================
