---------------------------- MODULE ServerClock ----------------------------
(* The wall clock that the limiter and the artifact store both read.        *)
VARIABLE now
============================================================================
