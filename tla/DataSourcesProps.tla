--------------------------- MODULE DataSourcesProps ---------------------------
(***************************************************************************)
(* What the schemas made of a document, and the data sources that read     *)
(* with them, promise.                                                     *)
(***************************************************************************)
EXTENDS DataSources

-----------------------------------------------------------------------------
(* Schemas                                                                 *)

DocumentProperties == UNION {Level(doc, TRUE)[k] : k \in 1..StackDepth}

NameInTerraform(e) ==
    TerraformName([path |-> e.path, preferred |-> e.property.preferred])

\* The names of a property and of those it is nested in.
Lineage(e) == {x \in DocumentProperties : IsPrefix(x.path, e.path)}
InTerraform(e) ==
    [k \in DOMAIN e.path |->
        NameInTerraform(CHOOSE x \in Lineage(e) : Len(x.path) = k)]

ParentInTerraform(name) == TerraformName(ParentProperty(name))

\* No sibling has its name, nor has one of a property it is nested in; at the
\* top `id` is Terraform's own and a parent's name the parent's.
Clear(e) ==
    /\ \A x \in Lineage(e), y \in DocumentProperties :
          Front(x.path) = Front(y.path) /\ NameInTerraform(x) = NameInTerraform(y)
             => x = y
    /\ e.path[1] \notin doc.parents
    /\ InTerraform(e)[1] \notin {"id"} \cup {ParentInTerraform(n) : n \in doc.parents}

ClearParent(n) ==
    /\ \A e \in DocumentProperties :
          InTerraform(e) = <<ParentInTerraform(n)>> => e.path = <<n>>
    /\ \A m \in doc.parents : ParentInTerraform(m) = ParentInTerraform(n) => m = n

\* A property in the three schemas.
Follows(e) ==
    LET p == e.property
        path == InTerraform(e)
        attribute == schemas.resource[path]
        computed == ~p.required /\ (p.readOnly \/ "computed" \in p.marks)
    IN /\ attribute.required = p.required
       /\ attribute.optional = ~p.required
       /\ attribute.computed = computed
       /\ attribute.default = IF computed THEN "" ELSE p.default
       /\ attribute.sensitive = ("sensitive" \in p.marks)
       /\ attribute.forceNew = ("forceNew" \in p.marks)
       /\ path[1] # "filter" =>
             schemas.search[path].computed /\ ~schemas.search[path].required
       /\ schemas.instance[path].computed

\* Terraform takes no attribute that is computed and has a default or is required.
Accepted(attributes) ==
    \A path \in DOMAIN attributes :
        attributes[path].computed =>
            attributes[path].default = "" /\ ~attributes[path].required

(***************************************************************************)
(* docs/how_to.md, "Property use cases": at every depth, and however the   *)
(* properties come out of their maps, a property is in Terraform's schema  *)
(* as the document has it: required or optional, computed if it is         *)
(* readOnly or marked as computed, with its default otherwise.  In a data  *)
(* source all of it is computed.  A parent's identifier is required of     *)
(* both.  No attribute is such as Terraform refuses, computed with a       *)
(* default (comment in terraformSchema) or computed and required.          *)
(***************************************************************************)
SchemasFollowDocument ==
    phase = "ready" =>
        /\ \A e \in {x \in DocumentProperties : Clear(x)} : Follows(e)
        /\ \A n \in {m \in doc.parents : ClearParent(m)} :
              /\ schemas.resource[<<ParentInTerraform(n)>>].required
              /\ schemas.search[<<ParentInTerraform(n)>>].required
        /\ Accepted(schemas.resource)
        /\ Accepted(schemas.search)
        /\ Accepted(schemas.instance)

Siblings(schema, s) == {t \in schema : Front(t.path) = Front(s.path)}
AtMostOne(S) == \A x, y \in S : x = y
OneClaim(schema, mark, named) ==
    \A s \in schema :
        /\ AtMostOne({t \in Siblings(schema, s) : TerraformName(t) = named})
        /\ AtMostOne({t \in Siblings(schema, s) :
               mark \in t.marks /\ TerraformName(t) # named})

(***************************************************************************)
(* Polling looks the status up anew at each refresh, and each read looks   *)
(* up the identifier; the order of the properties is another each time.    *)
(* They find the same property unless two claim to be it, and a property   *)
(* that is marked is found though there is another called `status` or `id` *)
(* (docs/how_to.md, x-terraform-field-status; getResourceIdentifier).      *)
(***************************************************************************)
RolesAreStable ==
    LET schema == GetResourceSchema(doc)
    IN phase = "ready" =>
        /\ OneClaim(schema, "status", "status") =>
              /\ AtMostOne(StatusIdentifiers(schema))
              /\ \A path \in StatusIdentifiers(schema) : \A s \in Top(schema) :
                    "status" \in s.marks /\ ~NamedID(s) /\ ~NamedStatus(s)
                        => path[1] = s.path[1]
        /\ OneClaim(schema, "id", "id") =>
              /\ AtMostOne(ResourceIdentifiers(schema))
              /\ \A n \in ResourceIdentifiers(schema) : \A s \in Top(schema) :
                    "id" \in s.marks /\ ~NamedID(s) => n = s.path[1]

-----------------------------------------------------------------------------
(* Searches                                                                *)

\* What a user means by a filter: numbers are numbers, however written.
Means(f, value) ==
    LET text == f.values[1]
    IN IF value.kind = "number"
       THEN text \in DOMAIN FloatText /\ FloatText[text] = FloatText[value.text]
       ELSE value.kind # "null" /\ value.text = text
Meant(item) ==
    \A i \in DOMAIN read.filters :
        LET f == read.filters[i]
        IN f.name \in DOMAIN item /\ Means(f, item[f.name])
Hits == {item \in read.body : Meant(item)}

Described(item) == {n \in DOMAIN item : Known(n)}
\* An attribute of the state has the value of one of the object's properties.
From(item, a) ==
    \E n \in Described(item) :
        SavedName(n) = a /\ item[n] = read.state.attributes[a]

(***************************************************************************)
(* docs/how_to.md, data sources: "If more or less than a single match is   *)
(* returned by the search, Terraform will fail."  A search that succeeds   *)
(* has found the only object of the answer that its filters mean, and      *)
(* leaves in the state what the API says of that object and nothing else;  *)
(* a value may be missing only to a null or a namesake.                    *)
(***************************************************************************)
MatchIsUnique ==
    read.kind = "search" /\ read.pc = "done" =>
        /\ Cardinality(Hits) = 1
        /\ \A item \in Hits :
              /\ \A a \in DOMAIN read.state.attributes : From(item, a)
              /\ \A n \in Described(item) :
                    SavedName(n) # "id" /\ item[n].kind # "null" =>
                        SavedName(n) \in DOMAIN read.state.attributes

\* What defeats a search: a filter on an integer; a null where a filter looks,
\* in whatever object; a number that the user does not write as the code does.
Defeated ==
    \E i \in DOMAIN read.filters :
        LET f == read.filters[i]
        IN \E item \in read.body :
              /\ f.name \in DOMAIN item
              /\ \/ PropertyNamed(f.name).type = "integer"
                 \/ item[f.name].kind = "null"
                 \/ /\ item[f.name].kind = "number"
                    /\ f.values[1] \in DOMAIN FloatText
                    /\ FloatText[f.values[1]] # f.values[1]

\* The kind of JSON that the document gives a type.
KindOf(type) == CASE type = "integer" -> "number"
                  [] type = "array" -> "list"
                  [] OTHER -> type

\* A part of an object is as the document has it.  In an object there are but
\* primitives, of any kind, and a list has items of its own.
AsDocumented(e) ==
    \E x \in DocumentProperties :
        /\ x.path = e.path /\ Clear(x)
        /\ IF e.listed THEN x.property.type = "array"
                            /\ e.kind \in {"null", KindOf(x.property.items)}
           ELSE IF \E y \in DocumentProperties :
                      y.path = Front(e.path) /\ y.property.type = "object"
           THEN e.kind \notin {"list", "object"}
           ELSE e.kind \in {"null", KindOf(x.property.type)}

\* A value can be saved: all of it is as documented and no namesake gets in the
\* way, or it is a primitive such as any property with that name in Terraform.
Savable(n, value) ==
    \/ \A e \in Parts(n, value) : AsDocumented(e)
    \/ \A s \in Top(DataSourceSchema) :
          TerraformName(s) = SavedName(n) =>
              s.type \in Primitives /\ value.kind = KindOf(s.type)

\* The object cannot be kept: it, or the document, has no identifier to go by;
\* or a value of it is not as documented, or has to share its name in Terraform
\* with another type, or with the search's own attribute.
Unkeepable(item) ==
    \/ \E n \in ResourceIdentifiers(DataSourceSchema) :
          n \notin DOMAIN item \/ item[n].kind \notin {"string", "number"}
    \/ ResourceIdentifiers(DataSourceSchema) = {}
    \/ \E n \in Saved(item) : SavedName(n) = "filter" \/ ~Savable(n, item[n])

(***************************************************************************)
(* And the other way round: a search whose filters mean a single object of *)
(* the answer does not fail but for the reasons above.  In particular no   *)
(* other object of the collection, and no order of the filters, gets in    *)
(* the way.                                                                *)
(***************************************************************************)
HitsAreFound ==
    read.kind = "search" /\ read.answered /\ Cardinality(Hits) = 1
        => \/ read.pc = "done"
           \/ Defeated
           \/ \E item \in Hits : Unkeepable(item)

(***************************************************************************)
(* "Currently, only primitive properties are supported as filters"         *)
(* (docs/how_to.md): a filter on a primitive property with one value does  *)
(* not end the provider.                                                   *)
(***************************************************************************)
PrimitivesFilter ==
    read.kind = "search" /\ read.pc = "panicked" =>
        \E i \in DOMAIN read.filters :
            \/ read.filters[i].values = <<>>
            \/ \E item \in read.body : /\ read.filters[i].name \in DOMAIN item
                                       /\ item[read.filters[i].name].kind = "null"

-----------------------------------------------------------------------------
(* Identifiers                                                             *)

\* The identifier is kept in one property, and is its text or whole number.
Faithful(item) ==
    /\ ResourceIdentifiers(DataSourceSchema) = {setup.key}
    /\ setup.key \in DOMAIN item
    /\ \/ item[setup.key].kind = "string"
       \/ /\ item[setup.key].kind = "number"
          /\ IntegerText[item[setup.key].text] = item[setup.key].text

(***************************************************************************)
(* The identifier that a search leaves in the state is the one by which    *)
(* the API has the object: reading by it gets that very object, be it      *)
(* changed meanwhile, and leaves the same identifier again.  Excepted are  *)
(* numbers that a float64 or an integer cannot hold, and documents with    *)
(* two identifiers.                                                        *)
(***************************************************************************)
IdsRoundTrip ==
    Faithful(found.item) =>
        /\ found.id = found.item[setup.key].text
        /\ read.kind = "instance" /\ read.pc = "done" /\ read.id = found.id =>
              /\ read.state.id = found.id
              /\ \E item \in read.body :
                    /\ item[setup.key] = found.item[setup.key]
                    /\ \A a \in DOMAIN read.state.attributes : From(item, a)
=============================================================================
