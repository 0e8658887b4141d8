---------------------------- MODULE MCVulnChecker ----------------------------
(* Two packages and two vulnerabilities, one of which a package shares in  *)
(* name with another ecosystem; records that affect one package, both, or  *)
(* one without a list of versions.                                         *)
EXTENDS VulnChecker, TLC

CONSTANTS p1, p2, v1, v2

MCInstalled == p1 :> 1 @@ p2 :> 2
Entry(p, versions) == [package |-> p, versions |-> versions]
MCAffected == {<<Entry(p1, {2}), Entry(p2, {1, 2})>>,
               <<Entry(p1, {1}), Entry(p2, NoVersions)>>}
MCListable == {<<"PyPI", p1, v1>>, <<"PyPI", p1, v2>>, <<"PyPI", p2, v1>>,
               <<"npm", p2, v2>>}
MCAnswers == {<<" ", "Yes">>, <<"yes", ".">>}
=============================================================================
