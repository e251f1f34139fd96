---------------------------- MODULE MCRetryQueue -----------------------------
(* Instances of RetryQueue for TLC.                                          *)
EXTENDS RetryQueue
=============================================================================
