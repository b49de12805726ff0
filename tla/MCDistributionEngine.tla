------------------------ MODULE MCDistributionEngine ------------------------
(* DistributionEngine on two symbols: a partition each, where a partition  *)
(* and its symbol are as good as the other two, or one for both.           *)
EXTENDS DistributionEngine, TLC

CONSTANTS A, B, P, Q

OneEach == A :> P @@ B :> Q
Both    == A :> P @@ B :> P

Mirror == {f \in Permutations({A, B, P, Q}) :
             {f[A], f[B]} = {A, B} /\ \A s \in {A, B} : OneEach[f[s]] = f[OneEach[s]]}
=============================================================================
