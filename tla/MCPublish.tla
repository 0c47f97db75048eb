------------------------------ MODULE MCPublish ------------------------------
(***************************************************************************)
(* Constants of Publish for TLC.                                           *)
(***************************************************************************)
EXTENDS Publish, TLC

CONSTANTS r1, r2, r3

TwoRequests   == {r1, r2}
ThreeRequests == {r1, r2, r3}

\* Parts in the order clients send them, and the orders that stop a publish
\* before, between and after the parts it stores.
AloneUploads ==
  { <<"metadata.json", "source.zip">>,
    <<"source.zip", "custom">>,
    <<"source.zip", "broken">>,
    <<"source.other">>,
    <<"source.sig">> }

RaceUploads ==
  { <<"source.zip">>,
    <<"metadata.json", "source.zip", "custom">> }

EndUploads ==
  { <<"source.zip">>,
    <<"source.zip", "custom">>,
    <<"metadata.json", "source.zip", "broken">> }

\* What is extracted and removed again, and what the cleanup overlooks.
NoJson   == {"Package@swift-5.swift", "package.swift"}
WithJson == {"Package.swift", "Package.json"}
SomeArchives  == {NoJson, WithJson}
SmallArchives == {{"Package.swift"}, {"Package.json"}}
JsonArchives  == {{"Package.json"}, {"package.json"}}

Permutation == Permutations(Requests)
=============================================================================
