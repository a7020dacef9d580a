---------------------------- MODULE MCCoinsCache ----------------------------
(* CoinsCache with a coinbase and a transaction of two outputs each.        *)
EXTENDS CoinsCache

CONSTANTS coinbase, payment
=============================================================================
