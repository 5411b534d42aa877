------------------------- MODULE ProviderFactoryProps -------------------------
(***************************************************************************)
(* What must be true of the resources a provider ends up with.             *)
(***************************************************************************)
EXTENDS ProviderFactory

\* The resources the registration has met so far under a name, by their place
\* in the walk; an ignored one does not count.
Offers(name, upTo) ==
    {i \in 1..upTo : found[i].name = name /\ ~found[i].ignored}
Taken(upTo) == {n \in {found[i].name : i \in 1..upTo} : Offers(n, upTo) # {}}

(***************************************************************************)
(* Which names exist depends on the document alone, not on the order in    *)
(* which the maps were walked: those that an odd number of resources have, *)
(* and every name of a data source.                                        *)
(***************************************************************************)
Determinate == \A path \in Paths(doc) : Cardinality(Outcomes(doc, path)) = 1
Walkable ==
    {c \in Paths(doc) \X (1..(Len(doc.regions) + 1)) :
        \E resources \in Outcomes(doc, c[1]) : c[2] \in DOMAIN resources}
ResourceOf(c) == (CHOOSE resources \in Outcomes(doc, c[1]) : TRUE)[c[2]]
NameOf(c) == ResourceOf(c).name
Candidates == {c \in Walkable : ~ResourceOf(c).ignored}

WalkOrderIsInvisible ==
    (phase = "ready" /\ Determinate) =>
        LET oddly == {n \in {NameOf(c) : c \in Candidates} :
                        Cardinality({c \in Candidates : NameOf(c) = n}) % 2 = 1}
        IN /\ DOMAIN resourceMap = oddly
           /\ DOMAIN dataSourceMap =
                 {InstanceName(n) : n \in oddly} \cup
                 {DataSourceName(p) : p \in {q \in Paths(doc) :
                                              DataSourceCompliant(doc, q)}}

(***************************************************************************)
(* When resource names collide, neither resource is available              *)
(* (docs/how_to.md, "Resource naming collisions").                         *)
(***************************************************************************)
CollisionsExcluded ==
    phase \in {"dataSources", "ready"} =>
        \A n \in DOMAIN resourceMap : \E i \in Offers(n, Len(found)) :
            Offers(n, Len(found)) = {i} /\ resourceMap[n] = found[i]

AtMostTwo ==
    \A i, j, k \in DOMAIN found :
        (/\ {found[i].name, found[j].name} = {found[k].name}
         /\ ~found[i].ignored /\ ~found[j].ignored /\ ~found[k].ignored)
        => i = j \/ j = k \/ i = k

(***************************************************************************)
(* ... and so it is, as long as no three resources share a name: a name is *)
(* registered exactly when one resource has it.                            *)
(***************************************************************************)
PairsExcluded ==
    (AtMostTwo /\ phase \in {"dataSources", "ready"}) =>
        /\ CollisionsExcluded
        /\ \A i \in DOMAIN found :
              Offers(found[i].name, Len(found)) = {i} =>
                  found[i].name \in DOMAIN resourceMap

(***************************************************************************)
(* A resource and the data source that reads its instances come and go     *)
(* together, so that no data source is left for a resource that was taken  *)
(* out; the merge with the other data sources keeps every one of them.     *)
(***************************************************************************)
InstancesFollowResources ==
    /\ DOMAIN instanceMap = {InstanceName(n) : n \in DOMAIN resourceMap}
    /\ \A n \in DOMAIN resourceMap :
          /\ instanceMap[InstanceName(n)] = resourceMap[n]
          /\ phase = "ready" =>
                dataSourceMap[InstanceName(n)] = resourceMap[n]

SourceRefused(p) ==
    /\ DataSourceCompliant(doc, p)
    /\ DataSourceName(p) = NoName \/ ~doc.paths[p].sound

(***************************************************************************)
(* The provider starts unless something in the document has no name or a   *)
(* schema that cannot be built, whatever the order of the walks, and none  *)
(* of that is passed over in silence.  But for one thing, which does hang  *)
(* on the order: a resource that cannot be built and has the name of       *)
(* another one may be taken for a duplicate before anybody looks at its    *)
(* schema.                                                                 *)
(***************************************************************************)
StartsUnlessRefused ==
    Determinate =>
        /\ phase = "failed" =>
              \/ \E p \in Paths(doc) : SourceRefused(p)
              \/ \E c \in Walkable : NameOf(c) = NoName
              \/ \E c \in Candidates : ~ResourceOf(c).sound
        /\ phase = "ready" =>
              /\ \A p \in Paths(doc) : ~SourceRefused(p)
              /\ \A c \in Walkable : NameOf(c) # NoName
              /\ \A c \in Candidates :
                    \/ ResourceOf(c).sound
                    \/ \E other \in Candidates \ {c} : NameOf(other) = NameOf(c)

Registered == {resourceMap[n] : n \in DOMAIN resourceMap}

\* The parents of a registered subresource, if it is not one of a region, are in
\* the document, both as a collection and as an instance, and none of them is
\* excluded from the provider.
ParentsExist(r) ==
    r.region = "" =>
        \A k \in DOMAIN ParentRoots(r.root.segs) :
            /\ PathExists(doc, ParentRoots(r.root.segs)[k])
            /\ PathExists(doc, Append(ParentRoots(r.root.segs)[k],
                                      Last(ParentInstances(r.root.segs)[k])))
            /\ ~ItemAt(doc, ParentRoots(r.root.segs)[k]).ignored

\* Each parameter follows a word without dashes, as the identifier of an object
\* follows the name of its collection (docs/how_to_subresources.md).
ParametersFollowWords(segs) ==
    \A j \in DOMAIN segs : segs[j] \in Params => j > 1 /\ Word(segs[j - 1])

(***************************************************************************)
(* A resource whose path has path parameters is a subresource, with one    *)
(* parent for each (docs/how_to_subresources.md: "any path that contains   *)
(* path parameters (e,g: {id}) is considered a sub-resource").  Without    *)
(* that its URL cannot be built and no call of it reaches the API, which   *)
(* is what becomes of the others: a parameter at the beginning, after      *)
(* another or after a word with a dash is matched by no parent.  And each  *)
(* parent is there to be referred to.                                      *)
(***************************************************************************)
ParametersAreParents ==
    \A r \in Registered :
        /\ ParentsExist(r)
        /\ ParametersFollowWords(r.root.segs) =>
              Len(ParentRoots(r.root.segs)) =
                  Cardinality({i \in DOMAIN r.root.segs : r.root.segs[i] \in Params})
=============================================================================
