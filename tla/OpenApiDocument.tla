---------------------------- MODULE OpenApiDocument ----------------------------
(***************************************************************************)
(* What the provider reads out of an OpenAPI document: which paths are     *)
(* resources or data sources (openapi/openapi_v2_spec_analyser.go), what   *)
(* they are called and who their parents are                               *)
(* (openapi/openapi_v2_resource.go).  Pure operators over a document.      *)
(*                                                                         *)
(* A path is its segments and whether it ends in a slash; a segment is a   *)
(* word (\w+ or a word with dashes), a version (v\d+) or a path parameter. *)
(* A Terraform name is the sequence of its parts, which "_" joins: the     *)
(* empty name has one part, the empty text.                                *)
(***************************************************************************)
EXTENDS Naturals, FiniteSets, Sequences, SequencesExt, SortedSets

CONSTANTS
    Versions,    \* segments of the form v\d+
    Params,      \* segments of the form {\w+}
    Underscored, \* [word with dashes -> the word with underscores instead]
    PartsOf,     \* [text with underscores -> its parts]
    Beginnings   \* <<a, b>>: the text a is a proper prefix of the segment b

\* None of the texts ends in "_", which would be trimmed off a parent's name.
ASSUME PartsAssumption ==
    \A t \in DOMAIN PartsOf : /\ PartsOf[t] \in Seq(STRING) \ {<<>>}
                              /\ Last(PartsOf[t]) # ""

\* item.post: whether the path has a POST, and if its body parameter has a
\* schema with properties; item.schemas: the body's schema, or without a body
\* those of the successful responses; a schema is "identified" (it has an
\* identifier), "readonly" (that, and nothing can be written) or "anonymous".
Item == [get : BOOLEAN, lists : BOOLEAN,
         post : {"none", "body", "nobody", "unusable"},
         schemas : SUBSET {"identified", "readonly", "anonymous", "missing"},
         ignored : BOOLEAN, preferred : STRING, regional : BOOLEAN,
         sound : BOOLEAN]

Paths(doc) == DOMAIN doc.paths
At(segs, slash) == [segs |-> segs, slash |-> slash]

-----------------------------------------------------------------------------
(* Names                                                                   *)

Parts(text) == IF text \in DOMAIN PartsOf THEN PartsOf[text] ELSE <<text>>
NoName == <<"">>

\* resourceNameRegex: the path ends in a word, or in a slash.  A slash alone
\* names the root and what comes after a parameter: with the empty text.
Nameable(path) ==
    path.slash \/ (path.segs # <<>> /\ Last(path.segs) \notin Params)

\* The last segment with its dashes replaced.
OwnText(segs) ==
    IF segs = <<>> \/ Last(segs) \in Params THEN ""
    ELSE IF Last(segs) \in DOMAIN Underscored THEN Underscored[Last(segs)]
    ELSE Last(segs)

\* The version is looked up with the underscored name, in front of the first
\* segment that begins with it, as every segment does with the empty one.
VersionOf(segs) ==
    LET name == OwnText(segs)
        found == {i \in 1..(Len(segs) - 1) :
                     /\ segs[i] \in Versions
                     /\ \/ name \in {"", segs[i + 1]}
                        \/ <<name, segs[i + 1]>> \in Beginnings}
    IN IF found = {} THEN <<>>
       ELSE <<segs[CHOOSE i \in found : \A j \in found : i <= j]>>

BuildResourceNameFromPath(segs, preferred) ==
    Parts(IF preferred = "" THEN OwnText(segs) ELSE preferred)
        \o VersionOf(segs)

-----------------------------------------------------------------------------
(* Parents                                                                 *)

\* \w matches no dash.
Word(segment) == segment \notin Params /\ segment \notin DOMAIN Underscored

\* resourceParentNameRegex: a word, at most with a version in front of it and
\* one more word in front of that, up to the path parameter at j.
ParentStarts(segs, j) ==
    {i \in 1..(j - 1) :
        /\ Word(segs[i])
        /\ Word(segs[j - 1])
        /\ i >= j - 2 \/ (i = j - 3 /\ segs[i + 1] \in Versions)}

\* Mutant: the first match only.
ParentParamsFirst(segs) ==
    LET js == {j \in 1..Len(segs) : segs[j] \in Params /\ ParentStarts(segs, j) # {}}
    IN Ascending({j \in js : \A k \in js : j <= k})

ParentParams(segs) ==
    Ascending({j \in 1..Len(segs) : segs[j] \in Params /\ ParentStarts(segs, j) # {}})

ParentPiece(segs, j) ==
    SubSeq(segs, CHOOSE i \in ParentStarts(segs, j) :
                     \A k \in ParentStarts(segs, j) : i <= k, j)

\* parentInstanceURIs and parentURIs, outermost parent first.
ParentInstances(segs) ==
    LET js == ParentParams(segs)
    IN [k \in 1..Len(js) |->
           FlattenSeq([m \in 1..k |-> ParentPiece(segs, js[m])])]
ParentRoots(segs) ==
    [k \in 1..Len(ParentParams(segs)) |-> Front(ParentInstances(segs)[k])]

PathExists(doc, segs) == \E slash \in BOOLEAN : At(segs, slash) \in Paths(doc)
ItemAt(doc, segs) ==
    doc.paths[At(segs, At(segs, FALSE) \notin Paths(doc))]

\* The preferred name of a parent that the document lacks is that of the
\* parent before it.
PreferredParent(doc, segs, k) ==
    LET known == {m \in 1..k : PathExists(doc, ParentRoots(segs)[m])}
    IN IF known = {} THEN ""
       ELSE ItemAt(doc, ParentRoots(segs)[CHOOSE m \in known :
                                 \A n \in known : n <= m]).preferred

ParentName(doc, segs) ==
    FlattenSeq([k \in 1..Len(ParentRoots(segs)) |->
        BuildResourceNameFromPath(ParentRoots(segs)[k],
                                  PreferredParent(doc, segs, k))])

\* buildResourceName and GetResourceName; a region is one more part.
ResourceName(doc, root, region) ==
    ParentName(doc, root.segs)
        \o BuildResourceNameFromPath(root.segs, doc.paths[root].preferred)
        \o (IF region = "" THEN <<>> ELSE Parts(region))

ShouldIgnoreResource(item) == item.post # "none" /\ item.ignored

\* validateSubResourceTerraformCompliance
ParentsComply(doc, root) ==
    \A k \in DOMAIN ParentRoots(root.segs) :
        /\ PathExists(doc, ParentInstances(root.segs)[k])
        /\ PathExists(doc, ParentRoots(root.segs)[k])
        /\ ~ShouldIgnoreResource(ItemAt(doc, ParentRoots(root.segs)[k]))

-----------------------------------------------------------------------------
(* Resources and data sources                                              *)

IsInstancePath(path) == path.segs # <<>> /\ Last(path.segs) \in Params

\* findMatchingResourceRootPath: with a trailing slash first.
HasRoot(doc, path) == PathExists(doc, Front(path.segs))
RootOf(doc, path) ==
    At(Front(path.segs), At(Front(path.segs), TRUE) \in Paths(doc))

\* `schema` is the one found in the POST: its body's, or that of whichever
\* successful response comes first.
SchemaComplies(item, schema) ==
    \/ item.post = "body" /\ schema \in {"identified", "readonly"}
    \/ item.post = "nobody" /\ schema = "readonly"

Resource(doc, path, region) ==
    LET root == RootOf(doc, path)
    IN [root |-> root, name |-> ResourceName(doc, root, region),
        region |-> region, ignored |-> ShouldIgnoreResource(doc.paths[root]),
        sound |-> doc.paths[root].sound]

\* The resources a compliant path stands for: one, or one per region (none
\* at all when a region is empty).  Those of a region are not asked whether
\* their parents comply.
ResourcesOf(doc, path) ==
    LET root == RootOf(doc, path)
    IN IF ~Nameable(root) THEN <<>>
       ELSE IF doc.paths[root].regional /\ "" \in ToSet(doc.regions) THEN <<>>
       ELSE IF doc.paths[root].regional
       THEN [i \in DOMAIN doc.regions |-> Resource(doc, path, doc.regions[i])]
       ELSE IF ParentsComply(doc, root) THEN <<Resource(doc, path, "")>>
       ELSE <<>>

\* isEndPointFullyTerraformResourceCompliant, then what becomes of the path:
\* one outcome for each schema the walk may come upon first.
Outcomes(doc, path) ==
    IF /\ IsInstancePath(path)
       /\ doc.paths[path].get
       /\ HasRoot(doc, path)
       /\ doc.paths[RootOf(doc, path)].schemas # {}
    THEN {IF SchemaComplies(doc.paths[RootOf(doc, path)], schema)
          THEN ResourcesOf(doc, path) ELSE <<>> :
              schema \in doc.paths[RootOf(doc, path)].schemas}
    ELSE {<<>>}

DataSourceCompliant(doc, path) ==
    doc.paths[path].get /\ doc.paths[path].lists /\ Nameable(path)
=============================================================================
