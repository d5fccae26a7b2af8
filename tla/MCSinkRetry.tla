---------------------------- MODULE MCSinkRetry -----------------------------
(***************************************************************************)
(* Instances of SinkRetry for TLC.                                          *)
(***************************************************************************)
EXTENDS SinkRetry

CONSTANTS c1, x1, x2
=============================================================================
