----------------------------- MODULE MCKeyCache -----------------------------
(* KeyCache for TLC: two requests that resolve one key with one slot.      *)
EXTENDS KeyCache

CONSTANTS c1, c2, k1

TwoCallers == {c1, c2}
OneKey     == {k1}
=============================================================================
