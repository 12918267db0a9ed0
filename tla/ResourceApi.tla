----------------------------- MODULE ResourceApi ----------------------------
(***************************************************************************)
(* Resources as the API's clients create, update, list and read them:      *)
(* pkg/server/conversion/conversion.go and the names of                    *)
(* pkg/util/resource.go. A client retries its create, and every reply may  *)
(* be lost.                                                                *)
(*                                                                         *)
(* External: the API server, which refuses a name that is taken; the       *)
(* handler around these functions; and SHA-1, a function Hash from         *)
(* invariants and from identifiers to identifiers.                         *)
(***************************************************************************)
EXTENDS Retry, Functions

CONSTANTS Invariants,     \* What identifies a logical resource.
          Ids,            \* The identifiers.
          Letters,        \* Those whose first character is a letter.
          Hash,           \* uuid.NewSHA1 in one namespace.
          InvariantOf,    \* The resource each caller creates.
          Metadata,       \* The write metadata a client may send.
          MaxUpdates      \* Updates of one resource: a bound.

\* SHA-1 does not collide, no name is an invariant ("the two input spaces are disjoint",
\* resource.go:56), and no names without a letter lead back to each other.
ASSUME HashAssumption ==
  /\ Letters \subseteq Ids /\ Invariants \cap Ids = {} /\ Hash \in [Invariants \cup Ids -> Ids]
  /\ \A x, y \in Invariants \cup (Ids \ Letters) : Hash[x] = Hash[y] => x = y
  /\ \A S \in SUBSET (Ids \ Letters) : (\A id \in S : Hash[id] \in S) => S = {}

ASSUME CallersAssumption == InvariantOf \in [Callers -> Invariants]

\* A tag has a name and a value; a value has one piece more than it has "=" signs.
ASSUME MetadataAssumption ==
  \A m \in Metadata :
    /\ m.tags \in Seq(Range(m.tags))
    /\ \A tag \in Range(m.tags) : /\ tag = [name |-> tag.name, value |-> tag.value]
                                 /\ tag.value \in Seq(Range(tag.value)) \ {<<>>}

VARIABLES
  objects,     \* The resources there are, by name.
  requested,   \* The metadata last accepted for each. History.
  updates      \* Updates made.

apiObjectVars == <<objects, requested, updates>>
resourceApiVars == <<retryVars, apiObjectVars>>

\* The loop: the name is hashed until it begins with a letter.
Rehash(id) ==
  LET again[i \in Ids] == IF i \in Letters THEN i ELSE again[Hash[i]] IN again[id]

\* Mutant of ResourceNames: GenerateResourceID, any random name.
ResourceNamesRandom(invariant) == Letters

\* The names a create may use: here the one of GenerateDeterministicResourceID.
ResourceNames(invariant) == {Rehash(Hash[invariant])}

\* A label or an annotation that is not set is "".
NewObjectMetadata(metadata, organization, project) ==
  [labels      |-> [name |-> metadata.name, organization |-> organization, project |-> project],
   annotations |-> [description |-> metadata.description, creator |-> "", modified |-> ""]]

GenerateTagList(tags) == [i \in DOMAIN tags |-> [name |-> tags[i].name, value |-> tags[i].value]]
ConvertTags(tags)     == [i \in DOMAIN tags |-> [name |-> tags[i].name, value |-> tags[i].value]]

\* A mutator of the services: the creator is carried over.
CarryCreator(required, current) ==
  [required EXCEPT !.annotations.creator = current.annotations.creator]

\* Mutant of UpdateObjectMetadata: the mutators are not run.
UpdateObjectMetadataBare(required, current) == [required EXCEPT !.annotations.modified = "now"]

UpdateObjectMetadata(required, current) ==
  CarryCreator([required EXCEPT !.annotations.modified = "now"], current)

\* What a client is given, project scoped: "" in place of a field left out.
ResourceReadMetadata(id, object) ==
  [id           |-> id,
   name         |-> object.labels.name,
   organization |-> object.labels.organization,
   project      |-> object.labels.project,
   description  |-> object.annotations.description,
   createdBy    |-> object.annotations.creator,
   modified     |-> object.annotations.modified # "",
   tags         |-> ConvertTags(object.tags)]

\* A selector is "name=value" for each tag, split at every "="; a tag's value is
\* the sequence of its own pieces.
DecodeTagSelectorParam(selector) ==
  IF \A i \in DOMAIN selector : Len(selector[i]) = 2
  THEN [tags |-> [i \in DOMAIN selector |-> [name |-> selector[i][1], value |-> <<selector[i][2]>>]], err |-> "nil"]
  ELSE [tags |-> <<>>, err |-> "invalid_request"]

\* TagList.ContainsAll, the test of a list with a tag selector.
ContainsAll(tags, selector) ==
  \A i \in DOMAIN selector : \E j \in DOMAIN tags : tags[j] = selector[i]
-----------------------------------------------------------------------------
ResourceApiInit ==
  /\ RetryInit
  /\ objects = <<>> /\ requested = <<>> /\ updates = 0

Including(f, id, value) == [i \in DOMAIN f \cup {id} |-> IF i = id THEN value ELSE f[i]]

\* What the handler creates for a caller.
NewResource(c, metadata) ==
  LET meta == NewObjectMetadata(metadata, "o1", "p1")
  IN  [labels |-> meta.labels, annotations |-> [meta.annotations EXCEPT !.creator = c],
       tags |-> GenerateTagList(metadata.tags), invariant |-> InvariantOf[c], creator |-> c]

\* What it makes of the resource there is.
Updated(current, metadata) ==
  LET required == NewObjectMetadata(metadata, current.labels.organization, current.labels.project)
      meta     == UpdateObjectMetadata(required, current)
  IN  [current EXCEPT !.labels = meta.labels, !.annotations = meta.annotations,
                      !.tags = GenerateTagList(metadata.tags)]

\* The create a caller retries: refused, accepted, or accepted and not told.
Create(c) ==
  \E metadata \in Metadata, id \in ResourceNames(InvariantOf[c]) :
    \/ /\ id \in DOMAIN objects
       /\ CallbackReturns(c, "conflict")
       /\ UNCHANGED apiObjectVars
    \/ /\ id \notin DOMAIN objects
       /\ \E err \in {"nil", "lost"} : CallbackReturns(c, err)
       /\ objects' = Including(objects, id, NewResource(c, metadata))
       /\ requested' = Including(requested, id, metadata)
       /\ UNCHANGED updates
    \/ CallbackReturns(c, "lost") /\ UNCHANGED apiObjectVars

Update(id) ==
  /\ updates < MaxUpdates
  /\ \E metadata \in Metadata :
       /\ objects' = [objects EXCEPT ![id] = Updated(objects[id], metadata)]
       /\ requested' = [requested EXCEPT ![id] = metadata]
  /\ updates' = updates + 1
  /\ UNCHANGED retryVars

RemoveResource(id) ==
  /\ objects' = [i \in DOMAIN objects \ {id} |-> objects[i]]
  /\ requested' = [i \in DOMAIN objects \ {id} |-> requested[i]]
  /\ UNCHANGED <<retryVars, updates>>

ResourceApiNext ==
  \/ \E c \in Callers :
       \/ Create(c)
       \/ (ContextDone(c) \/ RetryTick(c) \/ Interrupted(c)) /\ UNCHANGED apiObjectVars
  \/ \E id \in DOMAIN objects : Update(id) \/ RemoveResource(id)

ResourceApiSpec == ResourceApiInit /\ [][ResourceApiNext]_resourceApiVars
-----------------------------------------------------------------------------
(***************************************************************************)
(* However often a create is retried, and whoever else creates the same,   *)
(* there is at most one resource of an invariant ("a second create with    *)
(* the same invariant will always collide with the first",                 *)
(* conversion.go:276), and a create is refused only for its own duplicate  *)
(* ("no two distinct invariants can ever produce the same name",           *)
(* resource.go:45).                                                        *)
(***************************************************************************)
NoDuplicates ==
  /\ \A i, j \in DOMAIN objects : objects[i].invariant = objects[j].invariant => i = j
  /\ \A invariant \in Invariants, id \in DOMAIN objects :
       id \in ResourceNames(invariant) => objects[id].invariant = invariant

(***************************************************************************)
(* What is read is what was last written, whatever updates came between,   *)
(* and who created it is not lost on the way (conversion.go:168,328). A    *)
(* list by tags shows a resource exactly when its last update gave it all  *)
(* of them; a selector is refused rather than misread, and only for a tag  *)
(* whose value has an "=" of its own (tags.go:36).                         *)
(***************************************************************************)
ReadsBack ==
  \A id \in DOMAIN objects :
    LET read == ResourceReadMetadata(id, objects[id])
        sent == requested[id]
    IN  /\ read.name = sent.name /\ read.description = sent.description /\ read.tags = sent.tags
        /\ read.organization = "o1" /\ read.project = "p1"
        /\ read.createdBy = objects[id].creator
        /\ \A m \in Metadata : \A n \in 0..Len(m.tags) :
             LET wanted == SubSeq(m.tags, 1, n)
                 got    == DecodeTagSelectorParam([i \in 1..n |-> <<wanted[i].name>> \o wanted[i].value])
             IN  IF got.err = "nil"
                 THEN ContainsAll(objects[id].tags, got.tags) <=> Range(wanted) \subseteq Range(sent.tags)
                 ELSE \E i \in 1..n : Len(wanted[i].value) > 1
=============================================================================
