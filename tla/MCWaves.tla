------------------------------- MODULE MCWaves -------------------------------
(* Waves with a concurrency of two and up to three workers.                *)
EXTENDS Waves
==============================================================================
