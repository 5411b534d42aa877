---------------------------- MODULE ProviderFactory ----------------------------
(***************************************************************************)
(* How the provider's resources and data sources are put together from an  *)
(* OpenAPI document (openapi/provider_factory.go, createProvider):         *)
(* GetTerraformCompliantResources walks the paths, the resources it found  *)
(* are registered, then the paths are walked again for data sources, and   *)
(* the data sources that read one instance are added to these.  The paths  *)
(* are the keys of a Go map: every walk goes through them in an order of   *)
(* its own.                                                                *)
(***************************************************************************)
EXTENDS OpenApiDocument

CONSTANT Documents  \* the OpenAPI documents under consideration

\* The extension that excludes a resource is one of its POST.
ASSUME DocumentsAssumption ==
    \A d \in Documents :
        /\ IsFiniteSet(Paths(d))
        /\ Paths(d) \subseteq [segs : Seq(STRING), slash : BOOLEAN]
        /\ d.paths \in [Paths(d) -> Item]
        /\ \A p \in Paths(d) : d.paths[p].ignored => d.paths[p].post # "none"
        /\ d.regions \in Seq(STRING)

VARIABLES
    doc,            \* the document of this run
    phase,          \* "analyse", "register", "dataSources", "ready", "failed"
    todo,           \* the paths the current walk has not visited
    found,          \* the resources found, in the order of the walk
    next,           \* the one to register next
    resourceMap,    \* name -> the resource registered
    instanceMap,    \* name -> the resource whose instances the source reads
    dataSourceMap   \* name -> the path (or resource) the data source reads

vars == <<doc, phase, todo, found, next, resourceMap, instanceMap,
          dataSourceMap>>

NoMap == [n \in {} |-> {}]
Put(map, name, value) ==
    [n \in DOMAIN map \cup {name} |-> IF n = name THEN value ELSE map[n]]
Drop(map, name) == [n \in DOMAIN map \ {name} |-> map[n]]

InstanceName(name) == name \o <<"instance">>

Init ==
    /\ doc \in Documents
    /\ phase = "analyse"
    /\ todo = Paths(doc)
    /\ found = <<>>
    /\ next = 1
    /\ resourceMap = NoMap
    /\ instanceMap = NoMap
    /\ dataSourceMap = NoMap

-----------------------------------------------------------------------------
(* GetTerraformCompliantResources                                          *)

Visit(path) ==
    /\ path \in todo
    /\ todo' = todo \ {path}

AnalysePath(path) ==
    /\ phase = "analyse"
    /\ Visit(path)
    /\ \E resources \in Outcomes(doc, path) : found' = found \o resources
    /\ UNCHANGED <<doc, phase, next, resourceMap, instanceMap, dataSourceMap>>

EndAnalysis ==
    /\ phase = "analyse"
    /\ todo = {}
    /\ phase' = "register"
    /\ UNCHANGED <<doc, todo, found, next, resourceMap, instanceMap,
                   dataSourceMap>>

-----------------------------------------------------------------------------
(* createTerraformProviderResourceMapAndDataSourceInstanceMap              *)

\* The loop's body, for the resource it is at.
Registering(r) ==
    /\ phase = "register"
    /\ next <= Len(found)
    /\ r = found[next]

Fails ==
    /\ phase' = "failed"
    /\ UNCHANGED <<doc, todo, found, next, resourceMap, instanceMap,
                   dataSourceMap>>

PutIn(r) ==
    /\ resourceMap' = Put(resourceMap, r.name, r)
    /\ instanceMap' = Put(instanceMap, InstanceName(r.name), r)

\* Mutants: a duplicate's data source stays; the first wins.
TakeOutResourceOnly(name) ==
    /\ resourceMap' = Drop(resourceMap, name)
    /\ UNCHANGED instanceMap
KeepFirst(name) == UNCHANGED <<resourceMap, instanceMap>>

\* A name already there is taken out again, and the resource with it.
TakeOut(name) ==
    /\ resourceMap' = Drop(resourceMap, name)
    /\ instanceMap' = Drop(instanceMap, InstanceName(name))

\* Mutant: one that cannot be built is passed over, as an ignored one is.
RegisterLeniently(r) ==
    /\ Registering(r)
    /\ r.name # NoName
    /\ \/ (r.ignored \/ ~r.sound) /\ UNCHANGED <<resourceMap, instanceMap>>
       \/ ~r.ignored /\ r.name \in DOMAIN resourceMap /\ TakeOut(r.name)
       \/ ~r.ignored /\ r.name \notin DOMAIN resourceMap /\ r.sound /\ PutIn(r)
    /\ next' = next + 1
    /\ UNCHANGED <<doc, phase, todo, found, dataSourceMap>>

RegisterResource(r) ==
    /\ Registering(r)
    /\ r.name # NoName
    /\ \/ r.ignored /\ UNCHANGED <<resourceMap, instanceMap>>
       \/ ~r.ignored /\ r.name \in DOMAIN resourceMap /\ TakeOut(r.name)
       \/ /\ ~r.ignored
          /\ r.name \notin DOMAIN resourceMap
          /\ r.sound
          /\ PutIn(r)
    /\ next' = next + 1
    /\ UNCHANGED <<doc, phase, todo, found, dataSourceMap>>

\* A resource without a name, or one whose schema cannot be built and whose
\* name is free, stops the provider.
RegistrationFails(r) ==
    /\ Registering(r)
    /\ \/ r.name = NoName
       \/ ~r.ignored /\ r.name \notin DOMAIN resourceMap /\ ~r.sound
    /\ Fails

EndRegistration ==
    /\ phase = "register"
    /\ next > Len(found)
    /\ phase' = "dataSources"
    /\ todo' = Paths(doc)
    /\ UNCHANGED <<doc, found, next, resourceMap, instanceMap, dataSourceMap>>

-----------------------------------------------------------------------------
(* createTerraformProviderDataSourceMap, then the merge of createProvider. *)

DataSourceName(path) == ResourceName(doc, path, "")

DataSourceFails(path) ==
    /\ phase = "dataSources"
    /\ DataSourceCompliant(doc, path)
    /\ DataSourceName(path) = NoName \/ ~doc.paths[path].sound
    /\ Fails

\* Of two data sources with one name the last one walked stays.
AnalyseDataSource(path) ==
    /\ phase = "dataSources"
    /\ Visit(path)
    /\ \/ ~DataSourceCompliant(doc, path) /\ UNCHANGED dataSourceMap
       \/ /\ DataSourceCompliant(doc, path)
          /\ DataSourceName(path) # NoName
          /\ doc.paths[path].sound
          /\ dataSourceMap' = Put(dataSourceMap, DataSourceName(path), path)
    /\ UNCHANGED <<doc, phase, found, next, resourceMap, instanceMap>>

EndDataSources ==
    /\ phase = "dataSources"
    /\ todo = {}
    /\ phase' = "ready"
    /\ dataSourceMap' =
           [n \in DOMAIN dataSourceMap \cup DOMAIN instanceMap |->
               IF n \in DOMAIN instanceMap THEN instanceMap[n]
                                           ELSE dataSourceMap[n]]
    /\ UNCHANGED <<doc, todo, found, next, resourceMap, instanceMap>>

Next ==
    \/ \E path \in todo : \/ AnalysePath(path)
                          \/ AnalyseDataSource(path)
                          \/ DataSourceFails(path)
    \/ \E r \in ToSet(found) : RegisterResource(r) \/ RegistrationFails(r)
    \/ EndAnalysis
    \/ EndRegistration
    \/ EndDataSources

Spec == Init /\ [][Next]_vars
=============================================================================
