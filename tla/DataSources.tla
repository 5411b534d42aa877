------------------------------ MODULE DataSources ------------------------------
(***************************************************************************)
(* The data sources of one collection: the one that looks an object up by  *)
(* filters (openapi/data_source_factory.go) and the one that reads it by   *)
(* its identifier (openapi/data_source_instance_factory.go).  The provider *)
(* builds their schemas once; after that every call reads the document's   *)
(* schema anew, and the order of its properties with it.                   *)
(*                                                                         *)
(* A value of the API's JSON is [kind, text, inner]; a number's text is    *)
(* what the API wrote.  `inner` is what a list or an object holds, at every *)
(* depth: parts [path, listed, kind] under the path of a property, listed  *)
(* if they are items of a list there.  What a conversion makes of a value  *)
(* is PropertyLifecycle's; here it is whether there is one.                *)
(***************************************************************************)
EXTENDS ResourceSchema

CONSTANTS
    Setups,       \* documents, with collections and searches to try on them
    FloatText,    \* [number -> what filterMatch formats its float64 as]
    IntegerText   \* [number -> the integer that its float64 is cut to]

\* A float64 that is read from its text and formatted again has this text.
ASSUME NumbersAssumption ==
    /\ DOMAIN IntegerText = DOMAIN FloatText
    /\ \A t \in DOMAIN FloatText :
          /\ FloatText[t] \in DOMAIN FloatText
          /\ FloatText[FloatText[t]] = FloatText[t]

\* Texts that are no value of the API's, but what becomes of one.
Verdicts == {"missing", "panicked"}

\* An object has properties [name -> value], and the API tells objects apart by
\* the text of their identifier.
ASSUME SetupsAssumption ==
    \A s \in Setups :
        /\ \A n \in s.doc.parents : TerraformName(ParentProperty(n)) \notin {"id", "filter"}
        /\ s.doc.root \in DOMAIN s.doc.definitions
        /\ \A d \in DOMAIN s.doc.definitions :
           \A n \in DOMAIN s.doc.definitions[d] : s.doc.definitions[d][n] \in Property
        /\ IsFiniteSet(s.objects) /\ IsFiniteSet(s.later)
        /\ \A search \in s.searches : IsFiniteSet(search)
        /\ \A x \in s.objects \cup s.later :
              /\ IsFiniteSet(DOMAIN x)
              /\ \A n \in DOMAIN x :
                    /\ x[n].text \notin Verdicts
                    /\ x[n].inner # {} => x[n].kind \in {"list", "object"}
                    /\ \A e \in x[n].inner : e.path[1] = n
                    /\ x[n].kind = "number" =>
                          x[n].text \in DOMAIN FloatText /\ IntegerText[x[n].text] \notin Verdicts
              /\ \A y \in s.objects \cup s.later :
                    /\ s.key \in DOMAIN x \cap DOMAIN y
                    /\ x[s.key].text = y[s.key].text
                    => x[s.key] = y[s.key]

\* What the SDK makes of objects that are blocks, and of a list for the search's
\* own attribute, is left out.
ASSUME BlocksAssumption ==
    \A s \in Setups :
        LET schema == ConvertToDataSource(GetResourceSchema(s.doc))
        IN \A p \in schema, x \in s.objects \cup s.later :
              \/ IsBlock(schema, p)
              \/ p \in Top(schema) /\ TerraformName(p) = "filter" /\ p.type = "array"
              => p.path[1] \notin DOMAIN x

VARIABLES
    setup,    \* the document, and what the API and the user may come up with
    objects,  \* the collection, as the API has it
    phase,    \* of the provider
    schemas,  \* what Terraform knows of the resource and its data sources
    read,     \* the read under way or done last
    found     \* the last object found by a search, and the identifier it got

vars == <<setup, objects, phase, schemas, read, found>>

doc == setup.doc
NoRead == [kind |-> "none", pc |-> "idle", filters |-> <<>>, id |-> "",
           answered |-> FALSE, body |-> {}, state |-> <<>>]
Nothing == [id |-> "", item |-> <<>>]

Init ==
    /\ setup \in Setups
    /\ objects = setup.objects
    /\ phase = "starting"
    /\ schemas = <<>>
    /\ read = NoRead
    /\ found = Nothing

-----------------------------------------------------------------------------
(* Start-up                                                                *)

\* createTerraformResource reads the timeouts once it has the schema.
ResourceOutcomes ==
    LET outcomes == Outcomes(doc, TRUE)
    IN IF doc.managed /\ "malformed" \in doc.timeouts
       THEN (outcomes \ {"built"}) \cup
            (IF "built" \in outcomes THEN {"refused"} ELSE {})
       ELSE outcomes

StartOutcomes ==
    IF ~doc.managed THEN Outcomes(doc, FALSE)
    ELSE IF ResourceOutcomes = {"built"} THEN Outcomes(doc, FALSE)
    ELSE ResourceOutcomes

DataSourceSchema == ConvertToDataSource(GetResourceSchema(doc))

\* createTerraformDataSourceSchema and createTerraformDataSourceInstanceSchema
\* put an attribute of their own in the place of one of that name.
OwnAttribute(attributes, name, type) ==
    LET own == [type |-> type, items |-> "", single |-> FALSE, computed |-> FALSE,
                required |-> type = "string", optional |-> type # "string",
                default |-> "", sensitive |-> FALSE, forceNew |-> type # "string"]
    IN [path \in {p \in DOMAIN attributes : p[1] # name} \cup {<<name>>} |->
            IF path = <<name>> THEN own ELSE attributes[path]]

CreateProvider ==
    /\ phase = "starting"
    /\ \/ /\ phase' \in StartOutcomes \ {"built"}
          /\ UNCHANGED schemas
       \/ /\ "built" \in StartOutcomes
          /\ phase' = "ready"
          /\ \E r \in Kept(GetResourceSchema(doc)), d \in Kept(DataSourceSchema) :
                LET dataSource == CreateResourceSchema(DataSourceSchema, d)
                IN schemas' =
                     [resource |-> CreateResourceSchema(GetResourceSchema(doc), r),
                      search |-> OwnAttribute(dataSource, "filter", "set"),
                      instance |-> OwnAttribute(dataSource, "id", "string")]
    /\ UNCHANGED <<setup, objects, read, found>>

\* Terraform's next command, or the one after a crash, starts the provider anew.
Restart ==
    /\ phase # "starting"
    /\ read.pc \notin {"listing", "getting"}
    /\ phase' = "starting"
    /\ schemas' = <<>>
    /\ read' = NoRead
    /\ UNCHANGED <<setup, objects, found>>

-----------------------------------------------------------------------------
(* Searching                                                               *)

PropertyNamed(name) == CHOOSE s \in Top(DataSourceSchema) : s.path[1] = name
Known(name) == \E s \in Top(DataSourceSchema) : s.path[1] = name

\* validateInput, of one filter.
FilterVerdict(f) ==
    CASE ~Known(f.name) -> "failed"
      [] PropertyNamed(f.name).type \notin Primitives -> "failed"
      [] Len(f.values) > 1 -> "failed"
      [] f.values = <<>> -> "panicked"
      [] OTHER -> "listing"

\* The verdict on the first filter that is not fine, in the set's order.
ValidateInput(filters) ==
    LET wrong == {i \in DOMAIN filters : FilterVerdict(filters[i]) # "listing"}
    IN IF wrong = {} THEN "listing" ELSE FilterVerdict(filters[Min(wrong)])

Startable == phase = "ready" /\ read.pc \in {"idle", "done", "failed"}

StartSearch ==
    /\ Startable
    /\ \E search \in setup.searches : \E filters \in SetToSeqs(search) :
          read' = [NoRead EXCEPT !.kind = "search", !.filters = filters,
                                 !.pc = ValidateInput(filters)]
    /\ UNCHANGED <<setup, objects, phase, schemas, found>>

Text(value) == IF value.kind = "number" THEN FloatText[value.text] ELSE value.text

\* The Go type that filterMatch asserts; JSON numbers are float64, none an int.
Asserted(name) ==
    LET type == PropertyNamed(name).type
    IN IF type = "integer" THEN "int" ELSE type

\* What a search looks at has the type that the document says, or is null.
ASSUME ConformingAssumption ==
    \A s \in Setups :
        LET top == Top(ConvertToDataSource(GetResourceSchema(s.doc)))
        IN \A f \in UNION s.searches, x \in s.objects \cup s.later, d \in top :
              d.path[1] = f.name /\ d.type \in Primitives /\ f.name \in DOMAIN x =>
                  \/ x[f.name].kind = "null"
                  \/ x[f.name].kind = IF d.type = "integer" THEN "number" ELSE d.type

\* Mutant: what the item does not have is asserted all the same.
ItemVerdictUnguarded(f, item) ==
    IF f.name \notin DOMAIN item \/ item[f.name].kind # Asserted(f.name)
    THEN "panicked"
    ELSE IF Text(item[f.name]) = f.values[1] THEN "yes" ELSE "no"

\* One filter on one item of the answer.
ItemVerdict(f, item) ==
    CASE f.name \notin DOMAIN item -> "no"
      [] f.name \in DOMAIN item /\ item[f.name].kind # Asserted(f.name) -> "panicked"
      [] OTHER -> IF Text(item[f.name]) = f.values[1] THEN "yes" ELSE "no"

FilterMatch(filters, item) ==
    LET settled == {i \in DOMAIN filters : ItemVerdict(filters[i], item) # "yes"}
    IN IF settled = {} THEN "yes" ELSE ItemVerdict(filters[Min(settled)], item)

-----------------------------------------------------------------------------
(* Ending a read                                                           *)

\* Mutant: a number is written as filterMatch writes it.
StateIDFloat(item, name) ==
    IF name \notin DOMAIN item \/ item[name].kind = "null" THEN "missing"
    ELSE IF item[name].kind \notin {"string", "number"} THEN "panicked"
    ELSE Text(item[name])

\* setStateID, given the property that holds the identifier.
StateID(item, name) ==
    IF name \notin DOMAIN item \/ item[name].kind = "null" THEN "missing"
    ELSE IF item[name].kind \notin {"string", "number"} THEN "panicked"
    ELSE IF item[name].kind = "number" THEN IntegerText[item[name].text]
    ELSE item[name].text

\* updateStateWithPayloadData leaves out nulls, the identifier and what the
\* document does not have; of properties with one Terraform name, met in any
\* order, the last stays.
SavedName(n) == TerraformName(PropertyNamed(n))
Saved(item) ==
    {n \in DOMAIN item : /\ Known(n) /\ SavedName(n) # "id"
                         /\ item[n].kind # "null"}
States(item, id) ==
    {[id |-> id, attributes |-> [a \in {SavedName(n) : n \in Saved(item)} |->
         item[CHOOSE n \in last : SavedName(n) = a]]] :
        last \in {l \in SUBSET Saved(item) : \A n \in Saved(item) :
            Cardinality({m \in l : SavedName(m) = SavedName(n)}) = 1}}

Parts(n, value) ==
    {[path |-> <<n>>, listed |-> FALSE, kind |-> value.kind]} \cup value.inner
At(path) == {s \in DataSourceSchema : s.path = path}

\* convertPayloadToLocalStateDataValue, of one part: a list is for a property
\* that is one, a name for a definition that has it; a property without one is
\* nil.  A list of primitives is not looked into.
ConvertPart(parts, e) ==
    LET above == At(Front(e.path))
        held == [path |-> Front(e.path), listed |-> FALSE, kind |-> "object"]
    IN CASE e.kind = "list" /\ ~e.listed /\ \E s \in At(e.path) : s.type # "array"
              -> "failed"
         [] At(e.path) = {} /\ \E s \in above : HoldsObjects(s) -> "failed"
         [] At(e.path) = {} /\ above # {} /\ held \in parts -> "panicked"
         [] OTHER -> "done"

\* ResourceData.Set: the kind of JSON that an attribute takes; and one part.  A
\* map takes texts, which is what becomes of primitives in an object.
Taken(type) ==
    CASE type \in {"integer", "number"} -> "number"
      [] type = "map" -> "object"
      [] OTHER -> type

Written(path) ==
    [k \in 1..Len(path) |-> TerraformName(CHOOSE s \in At(SubSeq(path, 1, k)) : TRUE)]

Fits(attributes, e) ==
    LET at == Written(e.path)
        holder == Written(Front(e.path))
    IN IF /\ ~e.listed /\ Len(e.path) > 1
          /\ holder \in DOMAIN attributes /\ attributes[holder].type = "map"
       THEN e.kind \notin {"list", "object"}
       ELSE /\ at \in DOMAIN attributes
            /\ e.kind \in {"null", Taken(IF e.listed THEN attributes[at].items
                                         ELSE attributes[at].type)}

\* What may stop updateStateWithPayloadData, which takes the properties in any
\* order: a value is converted, then set.
Attributes == IF read.kind = "search" THEN schemas.search ELSE schemas.instance
Stops(n, value) ==
    LET parts == Parts(n, value)
        stops == {ConvertPart(parts, e) : e \in parts} \ {"done"}
    IN IF stops # {} THEN stops
       ELSE {"failed" : e \in {p \in parts : At(p.path) # {} /\ ~Fits(Attributes, p)}}
Unsaved(item) == UNION {Stops(n, item[n]) : n \in Saved(item)}

Ended(pc) == [read EXCEPT !.pc = pc, !.answered = TRUE, !.body = objects]

\* The rest of read, once it has its object: an error, a panic or the state.
Finish(item) ==
    LET ids == {StateID(item, name) : name \in ResourceIdentifiers(DataSourceSchema)}
    IN \/ /\ \/ ids = {} \/ "missing" \in ids
             \/ ids \ Verdicts # {} /\ "failed" \in Unsaved(item)
          /\ read' = Ended("failed")
          /\ UNCHANGED found
       \/ /\ \/ "panicked" \in ids
             \/ ids \ Verdicts # {} /\ "panicked" \in Unsaved(item)
          /\ read' = Ended("panicked")
          /\ UNCHANGED found
       \/ \E id \in ids \ Verdicts, state \in States(item, "") :
             /\ Unsaved(item) = {}
             /\ read' = [Ended("done") EXCEPT !.state = [state EXCEPT !.id = id]]
             /\ found' = IF read.kind = "search" THEN [id |-> id, item |-> item]
                         ELSE found

\* No answer, or one of another status than 200.
ReadFails ==
    /\ read.pc \in {"listing", "getting"}
    /\ read' = [read EXCEPT !.pc = "failed"]
    /\ UNCHANGED <<setup, objects, phase, schemas, found>>

\* Mutant: the first match will do.
SearchAnsweredAny ==
    /\ read.pc = "listing"
    /\ \E item \in {x \in objects : FilterMatch(read.filters, x) = "yes"} : Finish(item)
    /\ UNCHANGED <<setup, objects, phase, schemas>>

\* read of dataSourceFactory, from the answer on.
SearchAnswered ==
    /\ read.pc = "listing"
    /\ LET verdicts == {FilterMatch(read.filters, x) : x \in objects}
           matches == {x \in objects : FilterMatch(read.filters, x) = "yes"}
       IN \/ /\ "panicked" \in verdicts
             /\ read' = Ended("panicked")
             /\ UNCHANGED found
          \/ /\ "panicked" \notin verdicts /\ Cardinality(matches) # 1
             /\ read' = Ended("failed")
             /\ UNCHANGED found
          \/ /\ "panicked" \notin verdicts /\ Cardinality(matches) = 1
             /\ \E item \in matches : Finish(item)
    /\ UNCHANGED <<setup, objects, phase, schemas>>

-----------------------------------------------------------------------------
(* Reading by identifier                                                   *)

\* The user gives an identifier, be it the one that a search has found.
StartInstanceRead ==
    /\ Startable /\ doc.managed
    /\ \E id \in setup.ids \cup {found.id} :
          read' = [NoRead EXCEPT !.kind = "instance", !.id = id,
                                 !.pc = IF id = "" THEN "failed" ELSE "getting"]
    /\ UNCHANGED <<setup, objects, phase, schemas, found>>

\* The API's identifier is the text of the property it is kept in.
InstanceAnswered ==
    /\ read.pc = "getting"
    /\ \E item \in objects :
          /\ setup.key \in DOMAIN item /\ item[setup.key].text = read.id
          /\ Finish(item)
    /\ UNCHANGED <<setup, objects, phase, schemas>>

\* Another client of the API changes the collection.
Others ==
    /\ objects = setup.objects /\ setup.later # setup.objects
    /\ objects' = setup.later
    /\ UNCHANGED <<setup, phase, schemas, read, found>>

Next ==
    \/ CreateProvider \/ Restart
    \/ StartSearch \/ SearchAnswered
    \/ StartInstanceRead \/ InstanceAnswered
    \/ ReadFails \/ Others

Spec == Init /\ [][Next]_vars
=============================================================================
