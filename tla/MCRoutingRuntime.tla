-------------------------- MODULE MCRoutingRuntime --------------------------
(* Two requests at once, two activations, a snapshot that may be kept for  *)
(* two ticks, and loads that last as long as the clock runs.  The run for  *)
(* the window of an outage has one request, and a cache of two ticks in a  *)
(* window of three.                                                        *)
EXTENDS RoutingRuntime
=============================================================================
