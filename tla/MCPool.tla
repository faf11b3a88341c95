------------------------------- MODULE MCPool -------------------------------
(* An instance of Pool for TLC: the constants are in MCPool.cfg.           *)
EXTENDS Pool
=============================================================================
