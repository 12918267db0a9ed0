--------------------------- MODULE MCProvisioners ---------------------------
(***************************************************************************)
(* Instances of Provisioners for TLC: a cluster as its controllers build   *)
(* it. A namespace, then the cluster, then two add-ons on it at once, one  *)
(* of them optional.                                                       *)
(***************************************************************************)
EXTENDS Provisioners, TLC

Tree == [root    |-> [kind |-> "serial", children |-> <<"ns", "cluster", "addons">>],
         ns      |-> [kind |-> "resource", children |-> <<>>],
         cluster |-> [kind |-> "application", children |-> <<>>],
         addons  |-> [kind |-> "concurrent", children |-> <<"onA", "onB">>],
         onA     |-> [kind |-> "remote", children |-> <<"a">>],
         a       |-> [kind |-> "application", children |-> <<>>],
         onB     |-> [kind |-> "remote", children |-> <<"ifB">>],
         ifB     |-> [kind |-> "conditional", children |-> <<"b">>],
         b       |-> [kind |-> "application", children |-> <<>>]]

MCNodes    == DOMAIN Tree
MCKind     == [n \in MCNodes |-> Tree[n].kind]
MCChildren == [n \in MCNodes |-> Tree[n].children]

\* The smallest tree: one application.
LoneNodes    == {"root", "cluster"}
LoneKind     == [n \in LoneNodes |-> Tree[n].kind]
LoneChildren == [root |-> <<"cluster">>, cluster |-> <<>>]

Template(version, branch) ==
  [repo |-> "r", chart |-> IF branch = None THEN "c" ELSE None, path |-> IF branch = None THEN None ELSE "p",
   branch |-> branch, version |-> version, release |-> "template", namespace |-> None, parameters |-> <<"t">>,
   createNamespace |-> FALSE, serverSideApply |-> TRUE]

Plain == [release |-> None, parameters |-> {}, values |-> None, namespaceMetadata |-> None, ignoreDifferences |-> None]

MCVersions      == [x \in Apps |-> <<Template("v1", None), Template("v2", "main")>>]
MCWantedVersion == [x \in Apps |-> [g \in 1..MaxGen |-> IF x = "a" /\ g = 2 THEN "v2" ELSE "v1"]]
MCGenerator     == [x \in Apps |-> IF x = "a" THEN [Plain EXCEPT !.parameters = {"p1"}] ELSE [Plain EXCEPT !.release = "generated"]]
MCLabels        == {[name |-> "org", value |-> "o"], [name |-> "project", value |-> "p"]}
MCLabelOrder    == <<"org", "project">>
MCCondition     == [n \in MCNodes |-> {1}]
=============================================================================
