---------------------------- MODULE ResourceSchema ----------------------------
(***************************************************************************)
(* How the schema of an OpenAPI document becomes the schema that Terraform *)
(* works with: openapi_v2_resource.go reads it into a SpecSchemaDefinition *)
(* (openapi_spec_resource_schema_definition.go), from which the schemas of *)
(* the resource and of its data sources are made, and the properties that  *)
(* hold an object's identifier and its status are picked.  Pure operators  *)
(* over a document.                                                        *)
(*                                                                         *)
(* The code builds nested definitions recursively; here a definition is    *)
(* flat.  A property is found at a path of names, one per level, so what   *)
(* the recursion does to every level is done to every path.  The lists of  *)
(* properties come out of Go maps: where their order decides, the operator *)
(* is the set of what may come out.                                        *)
(***************************************************************************)
EXTENDS Naturals, FiniteSets, Sequences, SequencesExt

CONSTANTS
    Compliant,  \* [name -> ConvertToTerraformCompliantName, where it differs]
    StackDepth  \* nested definitions that fit on the stack of a goroutine

ASSUME StackDepthAssumption == StackDepth \in Nat \ {0}

Primitives == {"string", "integer", "number", "boolean"}

\* A document is [definitions : [name -> [name -> property]], root : the
\* resource's definition, parents : the names of its parents' properties].
\* A property's `nested` is the definition of the object or of the objects in
\* the array, "" if there is none; `ref` says that it is a reference, which a
\* circular definition keeps when the document is expanded.
Property == [type : Primitives \cup {"array", "object", "file"},
             items : Primitives \cup {"", "array", "object", "file"},
             nested : STRING, ref : BOOLEAN, preferred : STRING,
             required : BOOLEAN, readOnly : BOOLEAN, default : STRING,
             marks : SUBSET {"computed", "forceNew", "sensitive", "id", "status",
                             "immutable", "legacy", "ignoreOrder"}]

-----------------------------------------------------------------------------
(* Properties of a document, at every depth                                *)

HoldsObjects(p) == p.type = "object" \/ (p.type = "array" /\ p.items = "object")

EntriesOf(doc, definition, path) ==
    {[path |-> Append(path, n), property |-> doc.definitions[definition][n]] :
        n \in DOMAIN doc.definitions[definition]}

\* A data source's resource is made without the definitions that a reference
\* could be looked up in (newSpecV2DataSource).
Unresolved(p, definitionsKnown) == p.ref /\ ~definitionsKnown

Opened(doc, definitionsKnown, entries) ==
    {e \in entries : /\ HoldsObjects(e.property)
                     /\ e.property.nested \in DOMAIN doc.definitions
                     /\ ~Unresolved(e.property, definitionsKnown)}
Deeper(doc, definitionsKnown, entries) ==
    UNION {EntriesOf(doc, e.property.nested, e.path) :
              e \in Opened(doc, definitionsKnown, entries)}

Level(doc, definitionsKnown) ==
    LET level[k \in 1..(StackDepth + 1)] ==
            IF k = 1 THEN EntriesOf(doc, doc.root, <<>>)
                     ELSE Deeper(doc, definitionsKnown, level[k - 1])
    IN level

\* isOptionalComputedWithDefault, isOptionalComputed: x-terraform-computed
\* goes neither with a default nor with readOnly.
Contradictory(p) ==
    IF p.required THEN p.readOnly
    ELSE "computed" \in p.marks /\ (p.default # "" \/ p.readOnly)

\* isObjectProperty, validateArrayItems, getPropertyType.
Unsupported(doc, p, definitionsKnown) ==
    \/ p.type = "file"
    \/ p.type = "array" /\ p.items \in {"", "array", "file"}
    \/ /\ HoldsObjects(p)
       /\ \/ p.nested \notin DOMAIN doc.definitions
          \/ DOMAIN doc.definitions[p.nested] = {}
          \/ Unresolved(p, definitionsKnown)

Refused(doc, p, definitionsKnown) ==
    Unsupported(doc, p, definitionsKnown) \/ Contradictory(p)

\* getSchemaDefinitionWithOptions: what may become of a definition.  A
\* property is found wrong only after its nested definition was read, and one
\* that contains itself is read until the stack is full.
Outcomes(doc, definitionsKnown) ==
    LET level == Level(doc, definitionsKnown)
        endless == level[StackDepth + 1]
        wrong == {e \in UNION {level[k] : k \in 1..StackDepth} :
                     Refused(doc, e.property, definitionsKnown)}
    IN (IF endless # {} THEN {"overflow"} ELSE {})
       \cup (IF \E e \in wrong : \A o \in endless : ~IsPrefix(e.path, o.path)
             THEN {"refused"} ELSE {})
       \cup (IF endless \cup wrong = {} THEN {"built"} ELSE {})

-----------------------------------------------------------------------------
(* SpecSchemaDefinition                                                    *)

\* createSchemaDefinitionProperty, of a property that is not refused.
CreateProperty(e) ==
    LET p == e.property
    IN [path |-> e.path, type |-> p.type, items |-> p.items,
        preferred |-> p.preferred, parent |-> FALSE,
        required |-> p.required, readOnly |-> p.readOnly,
        computed |-> /\ ~p.required
                     /\ p.readOnly \/ p.default # "" \/ "computed" \in p.marks,
        default |-> p.default,
        marks |-> IF p.type = "array" THEN p.marks \ {"computed"}
                  ELSE p.marks \ {"computed", "ignoreOrder"}]

ParentProperty(name) ==
    [path |-> <<name>>, type |-> "string", items |-> "", preferred |-> "",
     parent |-> TRUE, required |-> TRUE, readOnly |-> FALSE, computed |-> FALSE,
     default |-> "", marks |-> {}]

\* GetResourceSchema: the parents' properties replace those of their name.
GetResourceSchema(doc) ==
    LET level == Level(doc, TRUE)
        own == {e \in UNION {level[k] : k \in 1..StackDepth} :
                   e.path[1] \notin doc.parents}
    IN {CreateProperty(e) : e \in own} \cup
       {ParentProperty(name) : name \in doc.parents}

TerraformName(s) ==
    IF s.preferred # "" THEN s.preferred
    ELSE IF Last(s.path) \in DOMAIN Compliant THEN Compliant[Last(s.path)]
    ELSE Last(s.path)

Top(schema) == {s \in schema : Len(s.path) = 1}
NamedID(s) == TerraformName(s) = "id"
NamedStatus(s) == TerraformName(s) = "status"

\* Mutant: nested properties are left as they are.
ConvertTop(schema) ==
    {IF s.parent \/ Len(s.path) > 1 THEN s
     ELSE [s EXCEPT !.required = FALSE, !.computed = TRUE, !.default = ""] :
        s \in schema}

\* ConvertToDataSourceSpecSchemaDefinition
ConvertToDataSource(schema) ==
    {IF s.parent THEN s
     ELSE [s EXCEPT !.required = FALSE, !.computed = TRUE, !.default = ""] :
        s \in schema}

\* getResourceIdentifier: the names that may come out; none is an error.
ResourceIdentifiers(schema) ==
    LET marked == {s \in Top(schema) : ~NamedID(s) /\ "id" \in s.marks}
        named == {s \in Top(schema) : NamedID(s)}
    IN {s.path[1] : s \in IF marked # {} THEN marked ELSE named}

\* Mutant: the last one met is the status, marked or called so.
StatusesMet(schema, path) ==
    {s \in schema : /\ Front(s.path) = Front(path)
                    /\ Len(path) = 1 => ~NamedID(s)
                    /\ NamedStatus(s) \/ "status" \in s.marks}

\* getStatusIdentifier, at one level: a property that is marked, else one that
\* is called status.
StatusesBeside(schema, path) ==
    LET beside == {s \in schema : /\ Front(s.path) = Front(path)
                                  /\ Len(path) = 1 => ~NamedID(s)}
        marked == {s \in beside : ~NamedStatus(s) /\ "status" \in s.marks}
    IN IF marked # {} THEN marked ELSE {s \in beside : NamedStatus(s)}

\* Down to a property that is no object; only the first must be readOnly.
StatusIdentifiers(schema) ==
    {t.path : t \in {s \in schema :
        \A k \in 1..Len(s.path) :
            \E at \in StatusesBeside(schema, SubSeq(s.path, 1, k)) :
                /\ at.path = SubSeq(s.path, 1, k)
                /\ k = 1 => at.readOnly
                /\ k < Len(s.path) <=> at.type = "object"}}

-----------------------------------------------------------------------------
(* Terraform's schema                                                      *)

\* A child of a list of objects is no property of an object, yet kept.
Above(schema, s) == {t \in schema : t.path = Front(s.path)}

\* isOptionalComputed, isComputed
IsOptionalComputed(s) ==
    ~s.required /\ ~s.readOnly /\ s.computed /\ s.default = ""
IsComputed(s) == ~s.required /\ (s.readOnly \/ IsOptionalComputed(s))

\* shouldUseLegacyTerraformSDKBlockApproachForComplexObjects
IsBlock(schema, s) ==
    /\ s.type = "object"
    /\ \/ "legacy" \in s.marks
       \/ \E t \in schema : /\ Len(t.path) = Len(s.path) + 1
                            /\ Front(t.path) = s.path
                            /\ t.type = "object"

\* terraformSchema
Attribute(schema, s) ==
    [type |-> CASE s.type = "array" \/ IsBlock(schema, s) -> "list"
                [] s.type = "object" -> "map"
                [] OTHER -> s.type,
     items |-> IF IsBlock(schema, s) THEN "object" ELSE s.items,
     single |-> IsBlock(schema, s),
     computed |-> IsComputed(s),
     required |-> s.required, optional |-> ~s.required,
     default |-> IF IsComputed(s) THEN "" ELSE s.default,
     sensitive |-> "sensitive" \in s.marks, forceNew |-> "forceNew" \in s.marks]

\* createResourceSchemaIgnoreID fills a map by Terraform names, level by level:
\* of properties with one name the last keeps it, and what is nested in the
\* others is not in Terraform's schema.  The top level has no `id`.
Kept(schema) ==
    {kept \in SUBSET {s \in schema : ~(Len(s.path) = 1 /\ NamedID(s))} :
        /\ \A s \in kept : Len(s.path) > 1 => Above(kept, s) # {}
        /\ \A s \in schema :
              /\ Len(s.path) = 1 => ~NamedID(s)
              /\ Len(s.path) > 1 => Above(kept, s) # {}
              => Cardinality({t \in kept : /\ Front(t.path) = Front(s.path)
                                           /\ TerraformName(t) = TerraformName(s)})
                 = 1}

\* The path of a property in Terraform's names.
TerraformPath(schema, s) ==
    [k \in 1..Len(s.path) |->
        TerraformName(CHOOSE t \in schema : t.path = SubSeq(s.path, 1, k))]

CreateResourceSchema(schema, kept) ==
    [path \in {TerraformPath(kept, s) : s \in kept} |->
        Attribute(schema, CHOOSE s \in kept : TerraformPath(kept, s) = path)]
=============================================================================
