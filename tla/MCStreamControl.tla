--------------------------- MODULE MCStreamControl ---------------------------
(* The module of the TLC runs of StreamControl.  Their one channel stands for  *)
(* the channels of one playlist; job slots and handles keep their identity,     *)
(* because those runs check liveness.                                           *)
EXTENDS StreamControl
=============================================================================
