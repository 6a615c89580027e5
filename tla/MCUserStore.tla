---------------------------- MODULE MCUserStore ----------------------------
(***************************************************************************)
(* A small instance of UserStore: one word, one session.                   *)
(***************************************************************************)
EXTENDS UserStore

CONSTANTS v
=============================================================================
