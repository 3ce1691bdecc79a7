--------------------------- MODULE MCEventStream ---------------------------
(* Instances of the event stream: a handful of events and faults.           *)
EXTENDS EventStream

MCIds == 1 .. MaxPublish
=============================================================================
