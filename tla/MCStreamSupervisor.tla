------------------------ MODULE MCStreamSupervisor ------------------------
(* Constants of the TLC runs of StreamSupervisor. *)
EXTENDS StreamSupervisor, TLC

\* Job slots and child handles are interchangeable.  Only a run without liveness
\* properties uses it.
Symmetry == Permutations(Procs) \cup Permutations(Jobs)
=============================================================================
