-------------------------- MODULE MCCollections --------------------------
(***************************************************************************)
(* Constants of Collections, Listing and Versions for TLC.                 *)
(***************************************************************************)
EXTENDS Collections

\* 10.0, 1x, 2.0-b, 2.0.0 and 3.0: in the order of their names, which is neither
\* that of the versions nor its reverse, and one of them does not parse.
FiveVersions == 1..5

SomeText ==
  << [parts |-> <<10, 0>>, suffixes |-> <<>>],
     [parts |-> <<NotANumber>>, suffixes |-> <<>>],
     [parts |-> <<2, 0>>, suffixes |-> <<1>>],
     [parts |-> <<2, 0, 0>>, suffixes |-> <<>>],
     [parts |-> <<3, 0>>, suffixes |-> <<>>] >>

\* Two packages of a scope, and one of another.
Scopes == [p |-> "acme", q |-> "acme", o |-> "other"]

SomeReleases == {<<"p", v>> : v \in FiveVersions} \cup {<<"q", 4>>, <<"o", 4>>}

\* A list of three that grows in its middle, by its oldest version; and a list of
\* two that grows by its first name, the newest version, or by its last, next to a
\* package of the other scope.  The other package of the scope comes later.
SomeBefore ==
  { {<<"p", 3>>, <<"p", 4>>, <<"o", 4>>}, {<<"p", 1>>, <<"p", 4>>, <<"p", 5>>} }

\* Lists, pages of one, and of three: the first page, one beyond the last, and one
\* where the start of the page exceeds the greatest int, 31.
SomeAsks ==
  LET ask(k, p, n, m) == [kind |-> k, package |-> p, per |-> n, page |-> m]
  IN { ask("pages", "p", 0, 1), ask("pages", "p", 1, 1), ask("pages", "p", 3, 1),
       ask("pages", "p", 3, 9), ask("pages", "p", 3, 12),
       ask("links", "p", 0, 1), ask("collection", "p", 0, 1), ask("scope", "o", 0, 1) }
=============================================================================
