------------------------- MODULE MCPropertyLifecycle -------------------------
EXTENDS PropertyLifecycleProps

Child(name, tf, type, immutable) ==
    [name |-> name, tf |-> tf, type |-> type, immutable |-> immutable]
Leaf1(type, immutable) == Child("port", "port", type, immutable)
Renamed == Child("hostName", "host_name", "string", FALSE)
Prop(type, items, children, ignoreOrder, immutable) ==
    [name |-> "subject", tf |-> "subject", type |-> type, items |-> items,
     children |-> children, ignoreOrder |-> ignoreOrder, immutable |-> immutable]

\* Lists: of strings or integers, or of objects, in which names may be crossed
\* or shared.
Lists == {Prop("list", items, <<>>, ignore, immutable) :
             items \in {"string", "integer"}, ignore, immutable \in BOOLEAN}
ListsOfObjects ==
    {Prop("list", "object", children, ignore, immutable) :
        children \in {<<Leaf1("string", FALSE)>>, <<Leaf1("integer", FALSE)>>,
                      <<Leaf1("string", FALSE), Renamed>>,
                      <<Child("host", "server", "string", FALSE),
                        Child("port", "host", "string", FALSE)>>,
                      <<Leaf1("string", FALSE), Child("Port", "port", "string", FALSE)>>},
        ignore, immutable \in BOOLEAN}
Objects == {Prop("object", "", <<Leaf1(type, inner), Renamed>>, FALSE, immutable) :
               type \in {"string", "integer", "number", "boolean"},
               inner, immutable \in BOOLEAN}
Scalars == {Prop(type, "", <<>>, FALSE, immutable) :
               type \in {"string", "integer", "number", "boolean"},
               immutable \in BOOLEAN}
AllSchemas == Lists \cup ListsOfObjects \cup Objects \cup Scalars
OrderedSchemas == {p \in AllSchemas : ~p.ignoreOrder}

\* Two or three values of a primitive, as Terraform holds them and, in an
\* object, as text; one of the texts is not of the type.
Typed(type) ==
    CASE type = "string" -> {Word("a"), Word("b"), Word("c")}
      [] type = "integer" -> {GoInt(1), GoInt(2)}
      [] type = "number" -> {Float(1250), Float(1500)}
      [] OTHER -> {<<"bool", TRUE>>, <<"bool", FALSE>>}
Texts(type) ==
    CASE type = "string" -> {Word("a"), Text("int", 1)}
      [] type = "integer" -> {Text("int", 1), Text("int", 2), Text("float", 1500)}
      [] type = "number" -> {Text("int", 0), Text("float", 1250),
                             Text("float", 1500), Text("float", 1234)}
      [] OTHER -> {Text("bool", TRUE), Text("bool", FALSE), Word("a")}

Lists2(S) == {List(s) : s \in BoundedSeq(S, 2) \ {<<>>}}
Rec(p, byTf, values) ==
    LET key(c) == IF byTf THEN c.tf ELSE c.name
    IN {Map([n \in {key(c) : c \in ToSet(p.children)} |->
                IF n = key(p.children[1]) THEN v ELSE Word("h")]) : v \in values}

MCConfigValues == [p \in AllSchemas |->
    CASE p.type = "list" /\ p.items # "object" -> Lists2(Typed(p.items)) \cup {Nil}
      [] p.type = "list" /\ p.items = "object" ->
            Lists2(Rec(p, TRUE, Typed(p.children[1].type) \ {Word("c")}))
      [] p.type = "object" -> Rec(p, TRUE, Texts(p.children[1].type)) \cup {Nil}
      [] OTHER -> Typed(p.type)]

\* The same as JSON; a list of objects may be empty, and an object may have a
\* property nobody described.
MCRemoteValues == [p \in AllSchemas |->
    CASE p.type = "list" /\ p.items # "object" ->
            {Json(v) : v \in Lists2(Typed(p.items))}
      [] p.type = "list" /\ p.items = "object" ->
            {Json(List(s)) :
                s \in BoundedSeq(Rec(p, FALSE, Typed(p.children[1].type) \ {Word("c")}), 2)}
            \cup {List(<<Map([n \in Names(p) \cup {"extra"} |-> Word("a")])>>) :
                     x \in {y \in {p} : \A c \in ToSet(p.children) : c.type = "string"}}
      [] p.type = "object" ->
            {Json(m) : m \in Rec(p, FALSE, Typed(p.children[1].type))}
            \cup {Map([n \in {"hostName", "extra"} |-> Word("h")])}
      [] OTHER -> {Json(v) : v \in Typed(p.type)}]
=============================================================================
