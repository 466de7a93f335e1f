-------------------------- MODULE MCHealthMonitor --------------------------
(* The health monitor on small instances.                                  *)
EXTENDS HealthMonitor

CONSTANTS s1, s2, a1, a2, p1, p2, c1

\* Which goroutine runs which check makes no difference, nor do the names of
\* the services.
Symmetric == Permutations(Probes) \cup Permutations(Services)

=============================================================================
