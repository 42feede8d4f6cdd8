---------------------------- MODULE Credentials -----------------------------
(***************************************************************************)
(* The two ways in: a password (Passwords) and a token (Grants).  They     *)
(* share no state.                                                         *)
(***************************************************************************)
EXTENDS Passwords

CONSTANTS User, Client, Grant, Token, Request

VARIABLES users, openhabs, grants, tokens, req

G == INSTANCE Grants

GrantsHold == G!GrantsHold
=============================================================================
