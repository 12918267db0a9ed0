--------------------------- MODULE HelmApplication --------------------------
(***************************************************************************)
(* What the application provisioner and the Argo CD driver compute: the    *)
(* identity of an application, the package it asks for, the Argo CD        *)
(* resource made of it, and what the driver reads back.                    *)
(*                                                                         *)
(* A label is a pair [name, value]. A nil pointer, an empty string and an  *)
(* interface the generator does not implement are all None.                *)
(***************************************************************************)
EXTENDS Naturals, Sequences, FiniteSets, Functions

CONSTANT None

ApplicationLabel == "application"

(***************************************************************************)
(* Identities (pkg/cd/types.go). A resource's labels are a map; their      *)
(* order in the identity is that of the sorted keys, Order here.           *)
(***************************************************************************)
LabelValue(labels, name) == (CHOOSE l \in labels : l.name = name).value

ResourceID(name, labels, Order) ==
  [name   |-> name,
   labels |-> [i \in DOMAIN Order |-> [name |-> Order[i], value |-> LabelValue(labels, Order[i])]]]

\* Only the values are used, and "name-v1:v2" is read here as <<name, v1, v2>>.
ClusterName(id) == <<id.name>> \o [i \in DOMAIN id.labels |-> id.labels[i].value]

\* A map: an identity's label replaces the application label of that name.
ApplicationLabels(id) ==
  Range(id.labels) \cup
    {l \in {[name |-> ApplicationLabel, value |-> id.name]} :
       \A k \in Range(id.labels) : k.name # l.name}

OwningLabels(id) == Range(id.labels)

\* What is read out of a map comes in any order.
Orders(S) == Injection(1..Cardinality(S), S)

\* The labels come back in the order of a map.
ConvertApplicationIDs(labels) ==
  LET others == {l \in labels : l.name # ApplicationLabel}
  IN  [name : {LabelValue(labels, ApplicationLabel)}, labels : Orders(others)]

Selects(selector, labels) == selector \subseteq labels
-----------------------------------------------------------------------------
(***************************************************************************)
(* The package: a version of a HelmApplication, customized by a generator. *)
(***************************************************************************)
GetVersion(versions, wanted) ==
  IF \E i \in DOMAIN versions : versions[i].version = wanted
  THEN versions[CHOOSE i \in DOMAIN versions :
                  /\ versions[i].version = wanted
                  /\ \A j \in 1..(i - 1) : versions[j].version # wanted]
  ELSE None

Or(x, default) == IF x = None THEN default ELSE x

\* Mutant of Parameters: the template's go through the map as well.
ParametersMerged(template, generator) == Orders(Range(template.parameters) \cup generator.parameters)

\* A parameter the generator yields comes out of a map: in any order.
Parameters(template, generator) ==
  {template.parameters \o p : p \in Orders(generator.parameters)}

Packages(template, generator, cluster, namespace, allowDegraded) ==
  {[repo              |-> template.repo,
    chart             |-> template.chart,
    path              |-> template.path,
    branch            |-> template.branch,
    version           |-> template.version,
    release           |-> Or(generator.release, template.release),
    parameters        |-> p,
    values            |-> generator.values,
    cluster           |-> cluster,
    namespace         |-> Or(namespace, Or(template.namespace, "default")),
    createNamespace   |-> template.createNamespace,
    namespaceMetadata |-> generator.namespaceMetadata,
    serverSideApply   |-> template.serverSideApply,
    ignoreDifferences |-> generator.ignoreDifferences,
    allowDegraded     |-> allowDegraded] : p \in Parameters(template, generator)}

(***************************************************************************)
(* The Argo CD application of a package, and what the driver reports of    *)
(* one when it lists applications.                                         *)
(***************************************************************************)
GenerateApplication(app) ==
  [repo              |-> app.repo,
   chart             |-> app.chart,
   path              |-> app.path,
   targetRevision    |-> Or(app.branch, app.version),
   helm              |-> IF app.release = None /\ app.parameters = <<>> /\ app.values = None
                         THEN None ELSE <<app.release, app.parameters, app.values>>,
   destination       |-> IF app.cluster = None THEN <<"in-cluster">> ELSE ClusterName(app.cluster),
   namespace         |-> app.namespace,
   syncOptions       |-> {o \in {"CreateNamespace", "ServerSideApply"} :
                            IF o = "CreateNamespace" THEN app.createNamespace ELSE app.serverSideApply},
   namespaceMetadata |-> app.namespaceMetadata,
   ignoreDifferences |-> app.ignoreDifferences]

\* Mutant of ConvertApplication: a git revision is listed as a version.
ConvertApplicationVersion(spec) ==
  [repo |-> spec.repo, chart |-> spec.chart, path |-> spec.path,
   version |-> spec.targetRevision, branch |-> None]

ConvertApplication(spec) ==
  [repo    |-> spec.repo,
   chart   |-> spec.chart,
   path    |-> spec.path,
   version |-> IF spec.chart # None THEN spec.targetRevision ELSE None,
   branch  |-> IF spec.path # None THEN spec.targetRevision ELSE None]
=============================================================================
