-------------------------- MODULE MCGamePublication --------------------------
(* Instances of GamePublication.  Contention: two games whose publications  *)
(* compete for the composition.  Acceptance: two games, one of which has    *)
(* two preparations that follow each other.                                 *)
EXTENDS GamePublication, TLC

CONSTANTS g1, g2, p1, p2, p3, c1, c2, r1, r2

ContentionGames == {g1, g2}
ContentionPreparations == {p1, p3}
ContentionGameOf == (p1 :> g1) @@ (p3 :> g2)
ContentionSymmetry == Permutations({r1, r2})

AcceptanceGames == {g1, g2}
AcceptancePreparations == {p1, p2, p3}
AcceptanceGameOf == (p1 :> g1) @@ (p2 :> g1) @@ (p3 :> g2)
AcceptanceSymmetry == Permutations({c1, c2}) \cup Permutations({p1, p2})

=============================================================================
