--------------------------- MODULE MCMavenCatalog ---------------------------
(***************************************************************************)
(* Constants of MavenCatalog for TLC: two releases of one package, and one *)
(* of another.                                                             *)
(***************************************************************************)
EXTENDS MavenCatalog, TLC

CONSTANTS u1, u2, u3, a1, a2, b1, a, b

TwoUploads   == {u1, u2}
ThreeUploads == {u1, u2, u3}
SomeReleases == {a1, a2, b1}
SomePackages == {a, b}
SomePackageOf == (a1 :> a) @@ (a2 :> a) @@ (b1 :> b)

Permutation == Permutations(Uploads)
=============================================================================
