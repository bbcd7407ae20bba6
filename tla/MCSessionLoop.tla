--------------------------- MODULE MCSessionLoop ---------------------------
(* SessionLoop for TLC: the commands a driver sends are chosen per cfg.      *)
EXTENDS SessionLoop
=============================================================================
