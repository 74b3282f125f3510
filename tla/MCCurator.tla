----------------------------- MODULE MCCurator ------------------------------
(* TLC instance of Curator: two seeded incidents and two investigations of  *)
(* one service, which form one cluster or two, and two processes.           *)
EXTENDS Curator, TLC

CONSTANTS seed1, seed2, i1, i2, r1, r2

MCIncidents == {seed1, seed2, i1, i2}
MCSeedCause == (seed1 :> "db_pool_exhaustion") @@ (seed2 :> "db_pool_exhaustion")
MCServiceOf == [i \in MCIncidents |-> "checkout"]
MCKeyOrder  == (<<"checkout", "cve_exposure">> :> 1) @@
               (<<"checkout", "db_pool_exhaustion">> :> 2)
MCProcesses == {r1, r2}
MCSymmetry  == Permutations({seed1, seed2}) \cup Permutations({i1, i2})
                 \cup Permutations({r1, r2})
=============================================================================
