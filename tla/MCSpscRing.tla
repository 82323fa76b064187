----------------------------- MODULE MCSpscRing -----------------------------
(* SpscRing on a ring of a few words; the sizes are chosen in the cfg.     *)
EXTENDS SpscRing
=============================================================================
