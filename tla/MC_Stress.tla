------------------------------ MODULE MC_Stress ------------------------------
(* Two put goroutines are enough for two writes of the shared err to      *)
(* interleave with the reads.                                              *)
EXTENDS Stress

MCMaxN == 2
MCStressNs == 1..2
=============================================================================
