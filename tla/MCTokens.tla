------------------------------ MODULE MCTokens -------------------------------
(* The instance of Tokens for TLC. *)
EXTENDS Tokens

CONSTANTS c1, c2
=============================================================================
