---------------------------- MODULE MCDataSources ----------------------------
EXTENDS DataSourcesProps

MCCompliant == [n \in {"labelName"} |-> "label_name"] @@
               [n \in {"cdnItems_id"} |-> "cdn_items_id"]

\* As a float64 is printed; the last three are beyond what it tells apart.
MCFloatText ==
    [t \in {"6", "6.0"} |-> "6.0"] @@ [t \in {"1.5"} |-> "1.5"] @@
    [t \in {"1234567.5", "1.2345675e+06"} |-> "1.2345675e+06"] @@
    [t \in {"9007199254740992", "9007199254740993", "9007199254740992.0"}
        |-> "9007199254740992.0"]
MCIntegerText ==
    [t \in {"6", "6.0"} |-> "6"] @@ [t \in {"1.5"} |-> "1"] @@
    [t \in {"1234567.5", "1.2345675e+06"} |-> "1234567"] @@
    [t \in {"9007199254740992", "9007199254740993", "9007199254740992.0"}
        |-> "9007199254740992"]

Of(type, marks) ==
    [type |-> type, items |-> "", nested |-> "", ref |-> FALSE, preferred |-> "",
     required |-> FALSE, readOnly |-> FALSE, default |-> "", marks |-> marks]
Text1 == Of("string", {})
Object(nested) == [Of("object", {}) EXCEPT !.nested = nested]
Objects(nested) == [Of("array", {"ignoreOrder"}) EXCEPT !.items = "object", !.nested = nested]

Doc(root, others, parents) ==
    [definitions |-> [n \in {"Root"} |-> root] @@ others, root |-> "Root",
     parents |-> parents, timeouts |-> {"absent", "valid"}, managed |-> TRUE]
NoDefinitions == [n \in {} |-> <<>>]

-----------------------------------------------------------------------------
(* Documents for their schemas' sake                                       *)

Flagged ==
    {[Of(type, marks) EXCEPT !.required = required, !.readOnly = readOnly,
                             !.default = default] :
        type \in {"string"}, marks \in {{}, {"computed"}, {"sensitive", "forceNew"}},
        required, readOnly \in BOOLEAN, default \in {"", "d"}}

NestedDocs ==
    {Doc([id |-> Text1, a |-> top, o |-> object],
         [n \in {"Inner"} |-> [id |-> Text1, c |-> inner]], {}) :
        top \in Flagged, inner \in Flagged,
        object \in {Object("Inner"), Objects("Inner")}}

CircularDocs ==
    {Doc([id |-> Text1, o |-> [holder EXCEPT !.ref = ref], a |-> beside],
         [n \in {"Inner"} |-> [c |-> [back EXCEPT !.ref = ref]]], {}) :
        holder \in {Object("Inner"), Objects("Inner")},
        back \in {Object("Inner"), Objects("Inner"), Object("Gone"), Text1},
        beside \in {Text1, Of("file", {}), Of("array", {})},
        ref \in BOOLEAN}

\* Names that meet: siblings', the parent's, the search's own attribute, `id`.
NameDocs ==
    {Doc([labelName |-> Text1, label_name |-> second, cdn_id |-> Of("integer", {}),
          o |-> Object("Inner")],
         [n \in {"Inner"} |-> [labelName |-> Of("boolean", {}), x |-> third]],
         parents) :
        second \in {Of("integer", {}), Object("Inner2"),
                    [Of("number", {"id"}) EXCEPT !.preferred = "filter"],
                    [Text1 EXCEPT !.preferred = "id"],
                    [Text1 EXCEPT !.preferred = "cdn_items_id"]},
        third \in {[Text1 EXCEPT !.preferred = "label_name"], Text1},
        parents \in {{}, {"cdn_id"}, {"cdn_id", "label_name"}, {"cdnItems_id"}}}
NamedDocs ==
    {[d EXCEPT !.definitions = @ @@ [n \in {"Inner2"} |-> [b |-> Text1]]] :
        d \in NameDocs}

\* Who is the status, who the identifier.
State(type, marks, readOnly) == [Of(type, marks) EXCEPT !.readOnly = readOnly]
RoleDocs ==
    {Doc([status |-> first, state |-> second, id |-> Text1, uuid |-> third],
         [n \in {"Status"} |-> [status |-> Text1, inner |-> fourth]], {}) :
        first \in {State("string", {}, TRUE), State("string", {"status"}, FALSE),
                   [Object("Status") EXCEPT !.readOnly = TRUE]},
        second \in {State("string", {"status"}, TRUE), State("string", {"status"}, FALSE),
                    [Object("Status") EXCEPT !.readOnly = TRUE, !.marks = {"status"}],
                    [Text1 EXCEPT !.preferred = "status"]},
        third \in {Text1, Of("string", {"id"}), [Text1 EXCEPT !.preferred = "id"],
                   State("string", {"status"}, TRUE)},
        fourth \in {Text1, Of("string", {"status"})}}

TimeoutDocs ==
    {[d EXCEPT !.timeouts = {"malformed"}, !.managed = managed] :
        d \in {Doc([id |-> Text1], NoDefinitions, {})}, managed \in BOOLEAN}

SetupOf(d) ==
    [doc |-> d, key |-> "id", objects |-> {}, later |-> {}, searches |-> {},
     ids |-> {}]
SchemaSetups ==
    {SetupOf(d) :
        d \in NestedDocs \cup CircularDocs \cup NamedDocs \cup RoleDocs \cup TimeoutDocs}

-----------------------------------------------------------------------------
(* Collections and searches                                                *)

Value(kind, text) == [kind |-> kind, text |-> text, inner |-> {}]
S(t) == Value("string", t)
Number(t) == Value("number", t)
Null == Value("null", "")
Filter(name, values) == [name |-> name, values |-> values]

CdnDoc == Doc([id |-> Text1, label |-> Text1, on |-> Of("boolean", {}),
               cost |-> Of("number", {}), size |-> Of("integer", {}),
               tags |-> [Of("array", {}) EXCEPT !.items = "string"]],
              NoDefinitions, {"cdn_id"})

Cdn(id, label, on, cost) ==
    [id |-> S(id), label |-> label, on |-> on, cost |-> cost,
     extra |-> S("not in the document")]
Sized(item, size) == item @@ [size |-> size]

Cdns == {Cdn("a", S("x"), Value("boolean", "true"), Number("6")),
         Cdn("b", S("x"), Value("boolean", "false"), Number("1.5")),
         Sized(Cdn("c", S("y"), Value("boolean", "true"), Number("1234567.5")),
               Number("6"))}
Without(item, name) == [n \in DOMAIN item \ {name} |-> item[n]]
CdnsWithNull == {Without(Cdn("a", S("y"), Null, Number("6")), "on"),
                 Cdn("b", Null, Value("boolean", "true"), Number("6.0"))}
FilterValues ==
    [label |-> {<<"x">>, <<"y">>, <<>>, <<"x", "y">>}, on |-> {<<"true">>, <<"1">>},
     cost |-> {<<"6">>, <<"6.0">>, <<"1.5">>, <<"1234567.5">>}, size |-> {<<"6">>},
     tags |-> {<<"x">>}, nowhere |-> {<<"x">>}, cdn_id |-> {<<"x">>}]
Filters == UNION {{Filter(n, v) : v \in FilterValues[n]} : n \in DOMAIN FilterValues}
Paired == {f \in Filters : f.name \in {"label", "on", "size"} /\ Len(f.values) < 2}
Searches == {{}} \cup {{f} : f \in Filters} \cup {{f, g} : f, g \in Paired}

FilterSetups ==
    {[doc |-> CdnDoc, key |-> "id", objects |-> pair[1], later |-> pair[2],
      searches |-> Searches, ids |-> {""}] :
        pair \in {<<Cdns, CdnsWithNull>>}}

\* Identifiers of every kind, and documents that find another property.
IdDocs ==
    {Doc([label |-> Text1, uuid |-> uuid, alias |-> alias] @@
         [n \in named |-> Text1], NoDefinitions, {}) :
        uuid \in {Of("number", {"id"}), Text1},
        alias \in {Text1, Of("string", {"id"}), [Text1 EXCEPT !.preferred = "label"],
                   [Text1 EXCEPT !.preferred = "filter"]},
        named \in {{}, {"id"}}}
IdItem(uuid, alias, label) ==
    [uuid |-> uuid, alias |-> alias, label |-> label, id |-> alias]
IdSetups ==
    {[doc |-> d, key |-> key, ids |-> {"1", "6", "q"},
      objects |-> items, later |-> {IdItem(Number("6"), S("p"), S("z"))},
      searches |-> {{Filter("label", <<"x">>)}, {Filter("label", <<"y">>)}}] :
        d \in IdDocs, key \in {"uuid", "id"},
        items \in {{IdItem(Number("6"), S("p"), S("x")), IdItem(Number("1.5"), S("q"), S("y"))},
                     {IdItem(Number("9007199254740993"), S("6"), S("x")),
                      IdItem(Number("9007199254740992"), S("r"), S("y"))},
                     {IdItem(Null, S("p"), S("x")),
                      IdItem(Value("boolean", "true"), Null, S("y"))},
                     {IdItem(S("p"), S("q"), S("x")), IdItem(S("q"), S("p"), S("y"))}}}

\* A property, by itself or with one that takes its name in Terraform, and
\* values of every kind for it.
Valued == [size |-> Of("integer", {}), tags |-> [Of("array", {}) EXCEPT !.items = "string"],
           o |-> Object("Inner"), os |-> Objects("Inner")]
Namesakes == [size |-> {Text1}, tags |-> {}, o |-> {}, os |-> {Objects("Other")}]
ValueDocs(n) ==
    {Doc([id |-> Text1, label |-> Text1] @@ [m \in {n} |-> Valued[n]] @@
         [m \in {"other" : x \in namesakes} |->
             [CHOOSE x \in namesakes : TRUE EXCEPT !.preferred = n]],
         [m \in {"Inner"} |-> [c |-> Text1, count |-> Of("integer", {}),
                               list |-> [Of("array", {}) EXCEPT !.items = "number"]]] @@
         [m \in {"Other"} |-> [c |-> Text1, d |-> Text1]], {}) :
        namesakes \in {{}, Namesakes[n]}}

Kinds == {"null", "string", "number", "boolean", "list", "object"}
Primitive(kind) ==
    CASE kind = "string" -> S("x") [] kind = "number" -> Number("6")
      [] kind = "boolean" -> Value("boolean", "true") [] OTHER -> Value(kind, "")
With(value, inner) == [value EXCEPT !.inner = inner]
Part(path, listed, kind) == [path |-> path, listed |-> listed, kind |-> kind]

\* A value by itself, in a list, in an object, and in an object of a list.
ValuesOf(n) ==
    {Primitive(kind) : kind \in Kinds} \cup
    {With(Value("list", ""), {Part(<<n>>, TRUE, kind)}) : kind \in Kinds} \cup
    UNION {{With(Value("object", ""), {Part(<<n, c>>, FALSE, kind)}),
            With(Value("list", ""),
                 {Part(<<n>>, TRUE, "object"), Part(<<n, c>>, FALSE, kind)})} :
              c \in {"c", "count", "d"}, kind \in Kinds} \cup
    {With(Value("list", ""), {Part(<<n>>, TRUE, "object"), Part(<<n, "list">>, FALSE, "list"),
                              Part(<<n, "list">>, TRUE, item)}) :
        item \in {"number", "string"}} \cup
    {With(Value("object", ""), {Part(<<n, "c">>, FALSE, "object"),
                                Part(<<n, "c", "x">>, FALSE, "string")})}
ValueSetups ==
    UNION {{[doc |-> d, key |-> "id", ids |-> {},
             objects |-> {[id |-> S("a"), label |-> S("x")] @@ [m \in {n} |-> value]},
             later |-> {}, searches |-> {{Filter("label", <<"x">>)}}] :
                d \in ValueDocs(n), value \in ValuesOf(n)} :
        n \in DOMAIN Valued}

AllSetups == SchemaSetups \cup FilterSetups \cup IdSetups \cup ValueSetups
=============================================================================
