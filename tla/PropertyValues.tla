---------------------------- MODULE PropertyValues ----------------------------
(***************************************************************************)
(* The values of one property on their way between Terraform and the API:  *)
(* the payload of POST and PUT (populatePayload, resource_factory.go), the *)
(* JSON the API holds, the value saved in the state                        *)
(* (convertPayloadToLocalStateDataValue, common.go), the order of lists    *)
(* (processIgnoreOrderIfEnabled, equalItems) and the comparison of         *)
(* immutable properties (validateImmutableProperty).                       *)
(*                                                                         *)
(* A value is a tuple that begins with its Go type; a number is counted in *)
(* thousandths where it has decimals.  A string is a word or the text of a *)
(* number or boolean.  Properties are primitives, lists of primitives,     *)
(* lists of objects and objects; inside an object there are primitives     *)
(* only, and Terraform holds the object itself as a map of strings.        *)
(***************************************************************************)
EXTENDS Integers, Sequences, SequencesExt

Primitives == {"string", "integer", "number", "boolean"}

\* SpecSchemaDefinitionProperty: `tf` is its Terraform compliant name,
\* `children` its SpecSchemaDefinition in the order of the slice.
Leaf == [name : STRING, tf : STRING, type : Primitives, immutable : BOOLEAN]
Property == [name : STRING, tf : STRING, type : Primitives \cup {"list", "object"},
             items : Primitives \cup {"", "object"}, children : Seq(Leaf),
             ignoreOrder : BOOLEAN, immutable : BOOLEAN]

Nil == <<"nil">>
Failed == <<"failed">>
Word(w) == <<"string", "word", w>>
Text(form, x) == <<"string", form, x>>
List(s) == <<"list", s>>
Map(f) == <<"map", f>>
Float(x) == <<"float", x>>
GoInt(n) == <<"int", n>>

Has(m, key) == key \in DOMAIN m[2]
Get(m, key) == IF Has(m, key) THEN m[2][key] ELSE Nil
Each(list, Op(_)) == List([k \in DOMAIN list[2] |-> Op(list[2][k])])
Named(p, name) == CHOOSE c \in ToSet(p.children) : c.name = name
TfNamed(p, tf) == CHOOSE c \in ToSet(p.children) : c.tf = tf
Names(p) == {c.name : c \in ToSet(p.children)}
TfNames(p) == {c.tf : c \in ToSet(p.children)}

-----------------------------------------------------------------------------
(* From Terraform to the API                                               *)

\* strconv.ParseInt yields an int64, and reads no decimals.
Parsed(type, text) ==
    CASE type = "string" -> text
      [] type = "integer" /\ text[2] = "int" -> <<"int64", text[3]>>
      [] type = "number" /\ text[2] = "int" -> Float(1000 * text[3])
      [] type = "number" /\ text[2] \in {"float", "padded"} -> Float(text[3])
      [] type = "boolean" /\ text[2] = "bool" -> <<"bool", text[3]>>
      [] OTHER -> Failed

PopulateLeaf(type, v) == IF v[1] = "string" THEN Parsed(type, v) ELSE v

PopulateMap(p, m) ==
    Map([n \in {TfNamed(p, tf).name : tf \in DOMAIN m[2]} |->
            PopulateLeaf(Named(p, n).type, m[2][Named(p, n).tf])])

Failing(m) == \E n \in DOMAIN m[2] : m[2][n] = Failed

\* A property that cannot be converted is logged and left out.
Populate(p, v) ==
    IF v = Nil THEN Nil
    ELSE IF p.type = "object"
    THEN IF DOMAIN v[2] \subseteq TfNames(p) /\ ~Failing(PopulateMap(p, v))
         THEN PopulateMap(p, v) ELSE Nil
    ELSE IF p.items = "object" THEN Each(v, LAMBDA m : PopulateMap(p, m))
    ELSE IF p.type = "list" THEN v
    ELSE PopulateLeaf(p.type, v)

\* encoding/json and back: every number is a float64.
JsonLeaf(v) == IF v[1] \in {"int", "int64"} THEN Float(1000 * v[2]) ELSE v
JsonItem(v) ==
    IF v[1] = "map" THEN Map([n \in DOMAIN v[2] |-> JsonLeaf(v[2][n])])
                    ELSE JsonLeaf(v)
Json(v) == IF v[1] = "list" THEN Each(v, JsonItem) ELSE JsonItem(v)

-----------------------------------------------------------------------------
(* From the API to Terraform                                               *)

\* "%.2f": two decimals, whatever the number has.
Fixed(x) ==
    LET r == ((x + 5) \div 10) * 10
    IN IF x = 0 THEN Text("int", 0)
       ELSE IF r % 100 = 0 THEN Text("padded", r) ELSE Text("float", r)

ConvertLeaf(type, v, useString) ==
    CASE v[1] = "float" /\ type = "integer" ->
            IF useString THEN Text("int", v[2] \div 1000) ELSE GoInt(v[2] \div 1000)
      [] v[1] = "float" /\ type # "integer" ->
            IF useString THEN Fixed(v[2]) ELSE v
      [] v[1] = "int" -> IF useString THEN Text("int", v[2]) ELSE v
      [] v[1] = "bool" -> IF useString THEN Text("bool", v[2]) ELSE v
      [] OTHER -> v

\* Mutant: the names stay those of the API.
ConvertMapUnnamed(p, m) ==
    IF DOMAIN m[2] \subseteq Names(p)
    THEN Map([n \in DOMAIN m[2] |->
            ConvertLeaf(Named(p, n).type, m[2][n], p.type = "object")])
    ELSE Failed

\* Of two that have one name for Terraform one stays.
Source(p, m, tf) == CHOOSE n \in DOMAIN m[2] : Named(p, n).tf = tf

\* A name the schema does not have is an error.
ConvertMap(p, m) ==
    IF DOMAIN m[2] \subseteq Names(p)
    THEN Map([tf \in {Named(p, n).tf : n \in DOMAIN m[2]} |->
            ConvertLeaf(Named(p, Source(p, m, tf)).type,
                        m[2][Source(p, m, tf)], p.type = "object")])
    ELSE Failed

Convert(p, v) ==
    IF p.type = "object" THEN ConvertMap(p, v)
    ELSE IF p.items = "object"
    THEN IF \E m \in ToSet(v[2]) : ConvertMap(p, m) = Failed THEN Failed
         ELSE Each(v, LAMBDA m : ConvertMap(p, m))
    ELSE IF p.type = "list" THEN v
    ELSE ConvertLeaf(p.type, v, FALSE)

\* The Terraform SDK (external) decodes the numbers of a list of integers.
Settled(p, v) ==
    IF p.items = "integer"
    THEN Each(v, LAMBDA i : ConvertLeaf("integer", i, FALSE)) ELSE v

-----------------------------------------------------------------------------
(* The order of lists                                                      *)

KindOf == [string |-> "string", integer |-> "int", number |-> "float",
           boolean |-> "bool"]

\* Both must have the Go type of the property, which a number the API sent
\* for an integer has not.
EqualLeaf(type, a, b) == a[1] = KindOf[type] /\ a = b

\* Objects are looked into by the name the API uses.
Unequal(p, a, b) ==
    {k \in DOMAIN p.children :
        ~EqualLeaf(p.children[k].type, Get(a, p.children[k].name),
                                       Get(b, p.children[k].name))}

EqualItems(p, a, b) ==
    IF p.items = "object" THEN Unequal(p, a, b) = {} ELSE EqualLeaf(p.items, a, b)

\* validateValueType asks for the type of a value that is not there.
EqualPanics(p, a, b) ==
    /\ p.items = "object"
    /\ \E k \in Unequal(p, a, b) :
          /\ \A j \in Unequal(p, a, b) : k <= j
          /\ Nil \in {Get(a, p.children[k].name), Get(b, p.children[k].name)}

\* The items of a list that are among S, in their order.
Picked(s, S) ==
    LET picked[n \in 0..Len(s)] ==
            IF n = 0 THEN <<>>
            ELSE IF s[n] \in S THEN Append(picked[n - 1], s[n]) ELSE picked[n - 1]
    IN picked[Len(s)]

Known(p, input, remote) ==
    {i \in ToSet(input[2]) : \E r \in ToSet(remote[2]) : EqualItems(p, i, r)}
Added(p, input, remote) ==
    {r \in ToSet(remote[2]) : \A i \in ToSet(input[2]) : ~EqualItems(p, i, r)}

\* Mutant: what the API added is forgotten.
KnownItemsOnly(p, input, remote) ==
    List(Picked(input[2], Known(p, input, remote)))

\* Mutant: what the API added is taken once.
AddedItemsOnce(p, input, remote) ==
    List(Picked(input[2], Known(p, input, remote))
         \o SetToSeq(Added(p, input, remote)))

\* The items of the input that the API has, then those it has added.
ProcessIgnoreOrder(p, input, remote) ==
    List(Picked(input[2], Known(p, input, remote))
         \o Picked(remote[2], Added(p, input, remote)))

\* Each item is compared with the other list's, up to the first equal one.
Compared(p, input, remote) ==
    {x \in (DOMAIN input[2]) \X (DOMAIN remote[2]) :
        \/ \A j \in 1..(x[2] - 1) : ~EqualItems(p, input[2][x[1]], remote[2][j])
        \/ \A j \in 1..(x[1] - 1) : ~EqualItems(p, input[2][j], remote[2][x[2]])}
IgnoreOrderPanics(p, input, remote) ==
    \E x \in Compared(p, input, remote) :
        EqualPanics(p, input[2][x[1]], remote[2][x[2]])

-----------------------------------------------------------------------------
(* Immutable properties                                                    *)

\* Mutant: integers are compared as they come.
LeafChangedUnconverted(type, remote, local) == local # remote

\* Go compares an interface's type as well: an int64, or the float64 of a
\* list, never equals the int it is compared with.
LeafChanged(type, remote, local) ==
    IF remote[1] = "float"
    THEN \/ type = "number" /\ local # remote
         \/ type = "integer" /\ local # GoInt(remote[2] \div 1000)
    ELSE local # remote

\* Mutant: what is inside an immutable object may change.
MapChangedOwn(p, remote, local, inherited) ==
    \E c \in ToSet(p.children) :
        c.immutable /\ LeafChanged(c.type, Get(remote, c.name), Get(local, c.name))

MapChanged(p, remote, local, inherited) ==
    \E c \in ToSet(p.children) :
        /\ c.immutable \/ inherited
        /\ LeafChanged(c.type, Get(remote, c.name), Get(local, c.name))

ImmutableViolated(p, remote, local) ==
    CASE p.type = "list" ->
            /\ p.immutable
            /\ \/ Len(local[2]) # Len(remote[2])
               \/ \E k \in DOMAIN local[2] :
                     IF p.items = "object"
                     THEN MapChanged(p, remote[2][k], local[2][k], TRUE)
                     ELSE local[2][k] # remote[2][k]
      [] p.type = "object" -> MapChanged(p, remote, local, p.immutable)
      [] OTHER -> p.immutable /\ LeafChanged(p.type, remote, local)

\* An object is asserted to be a map even if it is not there, a list if it is
\* immutable.
ImmutablePanics(p, remote, local) ==
    /\ p.type = "object" \/ (p.type = "list" /\ p.immutable)
    /\ Nil \in {remote, local}
=============================================================================
