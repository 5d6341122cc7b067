----------------------------- MODULE MCSmtpPool -----------------------------
(* Instances of SmtpPool for TLC. *)
EXTENDS SmtpPool

\* Goroutines and connections are interchangeable when every goroutine is
\* cancellable or none is; used in the runs without liveness properties only.
Symmetry == Permutations(Procs) \cup Permutations(Conns)
=============================================================================
