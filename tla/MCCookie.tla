------------------------------- MODULE MCCookie -------------------------------
(* Model-checking instance of Cookie.                                        *)
EXTENDS Cookie, TLC

CONSTANTS A, B
=============================================================================
