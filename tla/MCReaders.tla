------------------------------ MODULE MCReaders ------------------------------
(***************************************************************************)
(* Constants of Readers for TLC.                                           *)
(***************************************************************************)
EXTENDS Readers, TLC

CONSTANTS r1, r2, g1

TwoRequests == {r1, r2}
OneReader   == {g1}

SomeUploads ==
  { <<"metadata.json", "source.zip", "custom">>,
    <<"source.sig", "source.zip">> }

SomeArchives == {{}}

Permutation == Permutations(Requests)
=============================================================================
